------------------------------ MODULE StartUp ------------------------------
(***************************************************************************)
(* Containers that start with a new release, as bin/docker_start.sh makes   *)
(* them: `migrate`, of which migrations 0033 (the backfill of the type of   *)
(* every record, by several workers) and 0034 (NOT NULL and four indexes)   *)
(* are the ones with steps of their own; createinitialsuperuser; the        *)
(* server.  A command that fails ends the container (set -e); whether it is *)
(* started again is up to the operator, or to what runs the containers.     *)
(* The app of the previous release writes records without their type until  *)
(* it is stopped.                                                           *)
(***************************************************************************)
EXTENDS Naturals, FiniteSets

CONSTANTS
    Records,        \* the primary keys of core_objectrecord
    ObjectOf,       \* the object of each
    Containers,
    Workers,        \* the NUM_WORKERS threads of a container
    BatchSize,
    MaxStops,       \* bounds how often something breaks
    Upsets          \* what the surroundings may do, see below

ASSUME SizeAssumption == BatchSize \in Nat \ {0} /\ MaxStops \in Nat
ASSUME WorkerAssumption == Workers # {}

(***************************************************************************)
(* "replicas": several containers run `migrate` at the same time.           *)
(* "rolling": the previous release runs until the new one serves.           *)
(***************************************************************************)
ASSUME UpsetAssumption == Upsets \subseteq {"replicas", "rolling"}

\* One `migrate` at a time, and none before the previous release is stopped.
OneByOne == Upsets \cap {"replicas", "rolling"} = {}

VARIABLES
    rows,       \* the records there are
    filled,     \* those with _object_type_id
    durable,    \* those whose type also survives the database's crash
    applied,    \* the migrations that are recorded
    built,      \* the indexes of 0034 whose names are taken
    user,       \* the superuser: "none", "locked" (no usable password), "ready"
    old,        \* the previous release runs
    held,       \* records whose rows, or their object's, its transactions lock
    at,         \* the command, and the step of it, that a container runs
    next,       \* the index that a container is to build
    work,       \* the statement of each worker
    batch,      \* the rows that the open transaction of a worker updated
    stops

database == <<rows, filled, durable, applied, built, user>>
previous == <<old, held>>
threads  == <<work, batch>>
vars == <<database, previous, at, next, threads, stops>>

\* 1 is the one of the foreign key.
Indexes   == 1..4
Migrating == {"backfill", "notnull", "index"}
Stages    == {"down", "superuser", "create", "password", "serve"} \cup Migrating
Threads   == Containers \X Workers

Init ==
    /\ rows \in SUBSET Records
    /\ filled = {} /\ durable = {} /\ applied = {} /\ built = {} /\ user = "none"
    /\ old = TRUE /\ held = {}
    /\ at = [c \in Containers |-> "down"]
    /\ next = [c \in Containers |-> 1]
    /\ work = [t \in Threads |-> "off"]
    /\ batch = [t \in Threads |-> {}]
    /\ stops = 0

To(c, stage) == at' = [at EXCEPT ![c] = stage]

-----------------------------------------------------------------------------
(* The previous release, which knows nothing of the column. *)

\* A request locks an object and its records, and may leave a new one.
OldRequest(r) ==
    /\ old /\ held' = held \cup {r}
    /\ UNCHANGED <<database, old, at, next, threads, stops>>

OldCommit(r) ==
    /\ old /\ r \in held
    /\ "0034" \notin applied
    /\ rows' = rows \cup {r}
    /\ held' = held \ {r}
    /\ UNCHANGED <<filled, durable, applied, built, user, old, at, next, threads, stops>>

StopOld ==
    /\ old /\ old' = FALSE /\ held' = {}
    /\ UNCHANGED <<database, at, next, threads, stops>>

-----------------------------------------------------------------------------
(* migrate: what is pending is read once, when the command begins. *)

Pending ==
    IF "0033" \notin applied THEN "backfill"
    ELSE IF "0034" \notin applied THEN "notnull" ELSE "superuser"

Begin(c) ==
    /\ at[c] = "down"
    /\ old => "rolling" \in Upsets
    /\ "replicas" \in Upsets \/ \A d \in Containers : at[d] \notin Migrating
    /\ To(c, Pending)
    /\ work' = [t \in Threads |-> IF t[1] = c /\ Pending = "backfill" THEN "select"
                                  ELSE work[t]]
    /\ UNCHANGED <<database, previous, next, batch, stops>>

\* FOR UPDATE locks the record and, joined, its object; SKIP LOCKED passes over
\* a record of which either is locked.
Locked == {ObjectOf[r] : r \in held \cup UNION {batch[t] : t \in Threads}}
Free   == {r \in rows \ filled : ObjectOf[r] \notin Locked}

LimitedTo(S) ==
    {b \in SUBSET S : Cardinality(b) <= BatchSize
                      /\ (b = S \/ Cardinality(b) = BatchSize)}

\* One statement selects, locks and updates a batch; a worker that updated
\* nothing is done.
Backfill(t) ==
    /\ work[t] = "select"
    /\ \E b \in LimitedTo(Free) :
         /\ batch' = [batch EXCEPT ![t] = b]
         /\ work' = [work EXCEPT ![t] = IF b = {} THEN "done" ELSE "commit"]
    /\ UNCHANGED <<database, previous, at, next, stops>>

\* A fault: the rows stay locked after the commit.
CommitHolds(t) ==
    /\ work[t] = "commit"
    /\ filled' = filled \cup batch[t]
    /\ work' = [work EXCEPT ![t] = "select"]
    /\ UNCHANGED <<rows, durable, applied, built, user, previous, at, next, batch, stops>>

\* With synchronous_commit off: not yet durable.
Commit(t) ==
    /\ work[t] = "commit"
    /\ filled' = filled \cup batch[t]
    /\ batch' = [batch EXCEPT ![t] = {}]
    /\ work' = [work EXCEPT ![t] = "select"]
    /\ UNCHANGED <<rows, durable, applied, built, user, previous, at, next, stops>>

\* An error of a worker's connection rolls its batch back and ends it.
Break(t) ==
    /\ work[t] \in {"select", "commit"}
    /\ stops < MaxStops /\ stops' = stops + 1
    /\ batch' = [batch EXCEPT ![t] = {}]
    /\ work' = [work EXCEPT ![t] = "failed"]
    /\ UNCHANGED <<database, previous, at, next>>

\* A fault: forward goes on when the first worker has ended.
FirstEnded(c) == \E w \in Workers : work[c, w] \in {"done", "failed"}

Ended(c) == \A w \in Workers : work[c, w] \in {"done", "failed"}
Rest(c)  == [t \in Threads |-> IF t[1] = c THEN "off" ELSE work[t]]

\* forward returns when all workers did; recording the migration is an ordinary
\* commit, before which PostgreSQL flushes what was committed earlier.
Record33(c) ==
    /\ at[c] = "backfill" /\ Ended(c)
    /\ \A w \in Workers : work[c, w] # "failed"
    /\ applied' = applied \cup {"0033"}
    /\ durable' = filled
    /\ To(c, "notnull")
    /\ work' = Rest(c)
    /\ UNCHANGED <<rows, filled, built, user, previous, next, batch, stops>>

\* f.result() raises the error of a worker: nothing is recorded.
Raise(c) ==
    /\ at[c] = "backfill" /\ Ended(c)
    /\ \E w \in Workers : work[c, w] = "failed"
    /\ To(c, "down")
    /\ work' = Rest(c)
    /\ UNCHANGED <<database, previous, next, batch, stops>>

\* AlterField: SET NOT NULL fails while a record has no type.
NotNull(c) ==
    /\ at[c] = "notnull"
    /\ To(c, IF rows \subseteq filled THEN "index" ELSE "down")
    /\ next' = [next EXCEPT ![c] = 1]
    /\ UNCHANGED <<database, previous, threads, stops>>

\* CREATE INDEX, of AlterField and then three times CONCURRENTLY, without a
\* transaction around them, fails when the name is taken, by the same migration of
\* another container or of an earlier start (perhaps for an index that is not valid).
BuildIndex(c) ==
    /\ at[c] = "index" /\ next[c] \in Indexes
    /\ IF next[c] \in built
       THEN To(c, "down") /\ UNCHANGED <<built, next>>
       ELSE /\ built' = built \cup {next[c]}
            /\ next' = [next EXCEPT ![c] = @ + 1]
            /\ UNCHANGED at
    /\ UNCHANGED <<rows, filled, durable, applied, user, previous, threads, stops>>

Record34(c) ==
    /\ at[c] = "index" /\ next[c] \notin Indexes
    /\ applied' = applied \cup {"0034"}
    /\ To(c, "superuser")
    /\ UNCHANGED <<rows, filled, durable, built, user, previous, next, threads, stops>>

-----------------------------------------------------------------------------
(* createinitialsuperuser, and the server. *)

\* A fault: the command does not look for the user.
FindNobody(c) ==
    /\ at[c] = "superuser"
    /\ To(c, "create")
    /\ UNCHANGED <<database, previous, next, threads, stops>>

FindUser(c) ==
    /\ at[c] = "superuser"
    /\ To(c, IF user = "none" THEN "create" ELSE "serve")
    /\ UNCHANGED <<database, previous, next, threads, stops>>

\* Django's createsuperuser, without a password; the username is unique.
CreateUser(c) ==
    /\ at[c] = "create"
    /\ IF user = "none" THEN user' = "locked" /\ To(c, "password")
                        ELSE UNCHANGED user /\ To(c, "down")
    /\ UNCHANGED <<rows, filled, durable, applied, built, previous, next, threads, stops>>

SetPassword(c) ==
    /\ at[c] = "password"
    /\ user' = "ready"
    /\ To(c, "serve")
    /\ UNCHANGED <<rows, filled, durable, applied, built, previous, next, threads, stops>>

\* ObjectRecord.save fills the type of a record.
SaveRecord(r) ==
    /\ \E c \in Containers : at[c] = "serve"
    /\ r \notin rows
    /\ rows' = rows \cup {r} /\ filled' = filled \cup {r}
    /\ durable' = filled'
    /\ UNCHANGED <<applied, built, user, previous, at, next, threads, stops>>

-----------------------------------------------------------------------------
(* What may break. *)

\* A container is killed: the database rolls its transactions back.
Kill(c) ==
    /\ at[c] # "down"
    /\ stops < MaxStops /\ stops' = stops + 1
    /\ To(c, "down")
    /\ work' = Rest(c)
    /\ batch' = [t \in Threads |-> IF t[1] = c THEN {} ELSE batch[t]]
    /\ UNCHANGED <<database, previous, next>>

\* The database crashes: what was not durable may be lost, every connection is.
Outage ==
    /\ stops < MaxStops /\ stops' = stops + 1
    /\ filled' \in {f \in SUBSET filled : durable \subseteq f}
    /\ durable' = filled'
    /\ held' = {}
    /\ at' = [c \in Containers |-> "down"]
    /\ work' = [t \in Threads |-> "off"]
    /\ batch' = [t \in Threads |-> {}]
    /\ UNCHANGED <<rows, applied, built, user, old, next>>

-----------------------------------------------------------------------------
Migrate(c) == Record33(c) \/ Raise(c) \/ NotNull(c) \/ BuildIndex(c) \/ Record34(c)
CreateInitialSuperuser(c) == FindUser(c) \/ CreateUser(c) \/ SetPassword(c)
Worker(t) == Backfill(t) \/ Commit(t)

Next ==
    \/ \E r \in Records : OldRequest(r) \/ OldCommit(r) \/ SaveRecord(r)
    \/ StopOld \/ Outage
    \/ \E c \in Containers : Begin(c) \/ Migrate(c) \/ CreateInitialSuperuser(c) \/ Kill(c)
    \/ \E t \in Threads : Worker(t) \/ Break(t)

Spec == Init /\ [][Next]_vars

\* A container that runs goes on.  Nobody has to start one again.
Fairness ==
    /\ \A c \in Containers : WF_vars(Migrate(c)) /\ WF_vars(CreateInitialSuperuser(c))
    /\ \A t \in Threads : WF_vars(Worker(t))

FairSpec == Spec /\ Fairness

-----------------------------------------------------------------------------
\* The values of the variables; a worker holds rows only between its statement
\* and its commit, and what is durable is filled, of records that are there.
TypeOK ==
    /\ rows \subseteq Records
    /\ filled \subseteq rows
    /\ durable \subseteq filled
    /\ applied \subseteq {"0033", "0034"}
    /\ built \subseteq Indexes
    /\ user \in {"none", "locked", "ready"}
    /\ old \in BOOLEAN
    /\ held \subseteq Records
    /\ at \in [Containers -> Stages]
    /\ next \in [Containers -> Nat]
    /\ work \in [Threads -> {"off", "select", "commit", "done", "failed"}]
    /\ batch \in [Threads -> SUBSET rows]
    /\ \A t \in Threads : batch[t] # {} => work[t] = "commit"
    /\ stops \in Nat

\* Once 0033 is recorded, every record has its type, although each worker ends
\* when it finds nothing that is not locked, workers fail, containers are
\* killed and the database loses commits: SET NOT NULL of 0034 then succeeds,
\* and filter_for_token sees every record (migration 0033, worker and forward).
FilledWhenApplied == "0033" \in applied => rows \subseteq filled

\* A start that was interrupted left an index of 0034, and every other one will find
\* its name taken.
LeftBehind ==
    /\ "0034" \notin applied /\ built # {}
    /\ \A c \in Containers : at[c] = "index" => next[c] \in built

\* A container that is started again whenever it has ended, whatever ended it, serves
\* in the end, with a superuser (bin/docker_start.sh), although others start, fail and
\* are killed meanwhile; unless a start that was interrupted left an index behind.
EveryContainerServes ==
    \A c \in Containers :
      \/ <>[](at[c] = "serve" /\ user # "none")
      \/ <>[](at[c] = "down")
      \/ <>LeftBehind

=============================================================================
