---------------------------- MODULE RecordHistory ----------------------------
(***************************************************************************)
(* OBJECTs and their RECORDs under concurrent requests: the tables         *)
(* core_object and core_objectrecord, and the transactions of the API and  *)
(* of the admin that read and write them, statement by statement.          *)
(*                                                                         *)
(* The database is PostgreSQL at READ COMMITTED: a query sees what was     *)
(* committed when it ran, plus its own transaction's writes; an UPDATE or  *)
(* DELETE of a row locks it until the transaction ends; an INSERT waits    *)
(* for an uncommitted row with the same unique key, and fails when such a  *)
(* row is committed; foreign keys are checked at COMMIT.                   *)
(*                                                                         *)
(* A transaction handles one request for one object.  What a record says   *)
(* is abstracted to the set of requests whose changes its data contains:   *)
(* a PATCH adds itself to the data of the record it read, a PUT or a form  *)
(* of the admin replaces the data.                                         *)
(***************************************************************************)
EXTENDS Naturals, Sequences

CONSTANTS
  Objects,    \* primary keys of core_object
  Txns,       \* requests that change an existing object, one transaction each
  Dates,      \* the dates a record can start on
  None,       \* null
  MaxForms,   \* how many records one save in the admin can add (a bound)
  Requests    \* which kinds of request are made for which object

Kinds == {"put", "patch", "admin", "delete"}

ASSUME DatesAssumption == Dates \subseteq Nat /\ None \notin Dates
ASSUME TxnsAssumption == None \notin Txns
ASSUME FormsAssumption == MaxForms \in Nat
ASSUME RequestsAssumption == Requests \subseteq Objects \X Kinds

VARIABLES
  state,   \* state[o]: "unborn", "live" (a row of core_object) or "deleted"
  rec,     \* rec[o]: the committed records of o, by index
  pc,      \* pc[t]: the statement t executes next
  op,      \* op[t]: the request: its kind, its object, the records to add
  added,   \* added[t]: how many of those records t has inserted
  idx,     \* idx[t]: self.index of the record being saved
  copy,    \* copy[t]: the previous record as save() changed it, not yet written
  upd,     \* upd[t]: the record rows t has written and not committed, by index
  gone     \* gone[t]: the record rows t's delete has collected

dbvars == <<state, rec>>
txvars == <<pc, op, added, idx, copy, upd, gone>>
vars   == <<state, rec, pc, op, added, idx, copy, upd, gone>>

-----------------------------------------------------------------------------
Indexes == Nat \ {0}
Row  == [start : Dates, end : Dates \cup {None}, data : SUBSET Txns, writer : Txns \cup {None}]
Form == [start : Dates, data : SUBSET Txns]

\* The records one save in the admin can add, with the data d.
FormLists(d) == UNION {[1..n -> [start : Dates, data : {d}]] : n \in 0..MaxForms}

NoRows == [i \in {} |-> None]
NoOp   == [kind |-> "none", obj |-> None, forms |-> <<>>]

\* The rows g with those of f written over them.
Overlay(f, g) == [i \in DOMAIN f \cup DOMAIN g |-> IF i \in DOMAIN f THEN f[i] ELSE g[i]]

MaxOf(S) == CHOOSE i \in S : \A j \in S : j <= i

\* Object.last_record: order_by("-index").first()
LastIndex(rows) == MaxOf(DOMAIN rows)

\* A record's primary key: the index and the request that inserted it.
Pks(rows) == {<<i, rows[i].writer>> : i \in DOMAIN rows}

\* The records of t's object that t's queries see.
View(t) == Overlay(upd[t], rec[op[t].obj])

\* A variant: start_at__lt.
FilterForDateLate(rows, d) ==
  {i \in DOMAIN rows : rows[i].start < d /\ (rows[i].end = None \/ rows[i].end >= d)}

\* ObjectRecordQuerySet.filter_for_date
FilterForDate(rows, d) ==
  {i \in DOMAIN rows : rows[i].start <= d /\ (rows[i].end = None \/ rows[i].end >= d)}

\* ObjectViewSet.filter_queryset for list, search and retrieve with ?date=d: the
\* largest index among the records of that date, 0 when there is none (404).
RecordOn(rows, d) ==
  LET found == FilterForDate(rows, d) IN IF found = {} THEN 0 ELSE MaxOf(found)

-----------------------------------------------------------------------------
Idle(t)   == pc[t] = "idle"
Ended(t)  == pc[t] \in {"done", "failed"}
Active(t) == ~Idle(t) /\ ~Ended(t)

\* Another transaction has written, or deleted, record i of t's object and has
\* not ended: a statement of t that touches i waits.
RowLocked(t, i) ==
  \E u \in Txns \ {t} :
    /\ Active(u)
    /\ op[u].obj = op[t].obj
    /\ \/ i \in DOMAIN upd[u]
       \/ pc[u] \in {"object row", "delete"} /\ \E pk \in gone[u] : pk[1] = i

\* A variant: the transaction of the admin is never ended.
HoldsObjectForGood(t) ==
  \/ op[t].kind = "admin" /\ pc[t] # "save object"
  \/ pc[t] = "delete"

\* t has updated, inserted or deleted the row of its object, and has not ended.
HoldsObject(t) ==
  \/ op[t].kind = "admin" /\ pc[t] \notin {"save object", "done", "failed"}
  \/ pc[t] = "delete"

ObjectLocked(t) == \E u \in Txns \ {t} : op[u].obj = op[t].obj /\ HoldsObject(u)

\* The transaction ends: committed ("done") or rolled back ("failed").
End(t, how) ==
  /\ pc'    = [pc EXCEPT ![t] = how]
  /\ added' = [added EXCEPT ![t] = 0]
  /\ idx'   = [idx EXCEPT ![t] = 0]
  /\ copy'  = [copy EXCEPT ![t] = NoRows]
  /\ upd'   = [upd EXCEPT ![t] = NoRows]
  /\ gone'  = [gone EXCEPT ![t] = {}]
  /\ UNCHANGED op

RollBack(t) == End(t, "failed") /\ UNCHANGED dbvars

\* t goes on to its next statement.
Goto(t, stmt) == pc' = [pc EXCEPT ![t] = stmt]

-----------------------------------------------------------------------------
Init ==
  /\ state = [o \in Objects |-> "unborn"]
  /\ rec   = [o \in Objects |-> NoRows]
  /\ pc    = [t \in Txns |-> "idle"]
  /\ op    = [t \in Txns |-> NoOp]
  /\ added = [t \in Txns |-> 0]
  /\ idx   = [t \in Txns |-> 0]
  /\ copy  = [t \in Txns |-> NoRows]
  /\ upd   = [t \in Txns |-> NoRows]
  /\ gone  = [t \in Txns |-> {}]

\* The records save() makes of the forms fs when it inserts them one after
\* another into an object nobody else can see yet.
Created(fs) ==
  [i \in DOMAIN fs |->
     [start  |-> fs[i].start,
      end    |-> IF i + 1 \in DOMAIN fs THEN fs[i + 1].start ELSE None,
      data   |-> fs[i].data,
      writer |-> None]]

\* POST (one record: ObjectSerializer.create), or the admin's add page (any
\* number of inline records, none included).  Nobody sees the object before the
\* commit, so the transaction is one step.
Create(o, fs) ==
  /\ state[o] = "unborn"
  /\ state' = [state EXCEPT ![o] = "live"]
  /\ rec' = [rec EXCEPT ![o] = Created(fs)]
  /\ UNCHANGED txvars

\* A request arrives and its transaction starts.
Begin(t, kind, o, fs, stmt) ==
  /\ Idle(t)
  /\ <<o, kind>> \in Requests
  /\ op' = [op EXCEPT ![t] = [kind |-> kind, obj |-> o, forms |-> fs]]
  /\ Goto(t, stmt)
  /\ UNCHANGED <<dbvars, added, idx, copy, upd, gone>>

\* PUT: get_object() finds the last record (404 when there is none), and the new
\* record gets the data and the start date of the request.
Put(t, o, s) ==
  /\ DOMAIN rec[o] # {}
  /\ Begin(t, "put", o, <<[start |-> s, data |-> {t}]>>, "test last")

\* A variant: a PATCH without a start date saves none.
PatchedWithoutStart(t, instance, s) == [start |-> s, data |-> instance.data \cup {t}]

\* What a PATCH saves: the merge of the request with the record that get_object()
\* read, whose start date it keeps when the request has none.
Patched(t, instance, s) ==
  [start |-> IF s = None THEN instance.start ELSE s,
   data  |-> instance.data \cup {t}]

\* PATCH, as PUT, with the merge of what it read.
Patch(t, o, s) ==
  /\ DOMAIN rec[o] # {}
  /\ Begin(t, "patch", o, <<Patched(t, rec[o][LastIndex(rec[o])], s)>>, "test last")

\* The change page of the admin: the object and the inline forms for new records.
AdminChange(t, o, fs) ==
  /\ state[o] = "live"
  /\ Begin(t, "admin", o, fs, "save object")

\* DELETE: get_object() finds the last record (404 when there is none).
Destroy(t, o) ==
  /\ DOMAIN rec[o] # {}
  /\ Begin(t, "delete", o, <<>>, "collect")

\* The admin saves the object itself first.  Django's save() inserts the row
\* again when its UPDATE finds it gone.
SaveObject(t) ==
  /\ pc[t] = "save object"
  /\ ~ObjectLocked(t)
  /\ Goto(t, IF op[t].forms = <<>> THEN "commit" ELSE "test last")
  /\ UNCHANGED <<dbvars, op, added, idx, copy, upd, gone>>

\* A variant: last_record is cached with the object, and does not see the records
\* that this transaction has added.
TestLastCached(t) ==
  /\ pc[t] = "test last"
  /\ IF DOMAIN rec[op[t].obj] = {}
     THEN idx' = [idx EXCEPT ![t] = 1] /\ Goto(t, "insert")
     ELSE Goto(t, "read index") /\ UNCHANGED idx
  /\ UNCHANGED <<dbvars, op, added, copy, upd, gone>>

\* ObjectRecord.save(): "if not self.id and self.object.last_record".  Without a
\* last record the index stays at its default, 1.
TestLast(t) ==
  /\ pc[t] = "test last"
  /\ IF DOMAIN View(t) = {}
     THEN idx' = [idx EXCEPT ![t] = 1] /\ Goto(t, "insert")
     ELSE Goto(t, "read index") /\ UNCHANGED idx
  /\ UNCHANGED <<dbvars, op, added, copy, upd, gone>>

\* "self.index = self.object.last_record.index + 1": a second query, which may
\* find no record any more (an AttributeError: the request fails).
ReadIndex(t) ==
  /\ pc[t] = "read index"
  /\ IF DOMAIN View(t) = {}
     THEN RollBack(t)
     ELSE /\ idx' = [idx EXCEPT ![t] = LastIndex(View(t)) + 1]
          /\ Goto(t, "read previous")
          /\ UNCHANGED <<dbvars, op, added, copy, upd, gone>>

\* The record that is to be closed, with the end date set on the copy in memory.
Closed(row, start) == [row EXCEPT !.end = start]

\* A variant: the previous record is the one that was last before this transaction.
ReadPreviousCached(t) ==
  LET rows == rec[op[t].obj] IN
  /\ pc[t] = "read previous"
  /\ DOMAIN rows # {}
  /\ LET start == op[t].forms[added[t] + 1].start
     IN  copy' = [copy EXCEPT ![t] = [i \in {LastIndex(rows)} |-> Closed(rows[LastIndex(rows)], start)]]
  /\ Goto(t, "close previous")
  /\ UNCHANGED <<dbvars, op, added, idx, upd, gone>>

\* "previous_record = self.object.last_record; previous_record.end_at =
\* self.start_at": a third query.
ReadPrevious(t) ==
  /\ pc[t] = "read previous"
  /\ IF DOMAIN View(t) = {}
     THEN RollBack(t)
     ELSE LET p == LastIndex(View(t))
              start == op[t].forms[added[t] + 1].start
          IN  /\ copy' = [copy EXCEPT ![t] = [i \in {p} |-> Closed(View(t)[p], start)]]
              /\ Goto(t, "close previous")
              /\ UNCHANGED <<dbvars, op, added, idx, upd, gone>>

\* A variant: the previous record is changed in memory and not saved.
ClosePreviousUnsaved(t) ==
  /\ pc[t] = "close previous"
  /\ copy' = [copy EXCEPT ![t] = NoRows]
  /\ Goto(t, "insert")
  /\ UNCHANGED <<dbvars, op, added, idx, upd, gone>>

\* "previous_record.save()": an UPDATE of every column by primary key, which
\* waits for the row's lock.  A row that is gone is inserted again, and that fails
\* when another record has its index.
ClosePrevious(t) ==
  /\ pc[t] = "close previous"
  /\ \A p \in DOMAIN copy[t] : ~RowLocked(t, p)
  /\ IF \E p \in DOMAIN copy[t] \cap DOMAIN View(t) : View(t)[p].writer # copy[t][p].writer
     THEN RollBack(t)
     ELSE /\ upd'  = [upd EXCEPT ![t] = Overlay(copy[t], upd[t])]
          /\ copy' = [copy EXCEPT ![t] = NoRows]
          /\ Goto(t, "insert")
          /\ UNCHANGED <<dbvars, op, added, idx, gone>>

\* The row of t's next new record.
NewRow(t) ==
  LET form == op[t].forms[added[t] + 1]
  IN  [start |-> form.start, end |-> None, data |-> form.data, writer |-> t]

\* A variant: no unique constraint on (object, index).
InsertUnconstrained(t) ==
  /\ pc[t] = "insert"
  /\ upd'   = [upd EXCEPT ![t] = Overlay([i \in {idx[t]} |-> NewRow(t)], upd[t])]
  /\ added' = [added EXCEPT ![t] = added[t] + 1]
  /\ Goto(t, IF added[t] + 1 = Len(op[t].forms) THEN "commit" ELSE "test last")
  /\ UNCHANGED <<dbvars, op, idx, copy, gone>>

\* "super().save()": the INSERT, under the unique constraint on (object, index).
InsertRecord(t) ==
  /\ pc[t] = "insert"
  /\ ~RowLocked(t, idx[t])
  /\ IF idx[t] \in DOMAIN View(t)
     THEN RollBack(t)
     ELSE /\ upd'   = [upd EXCEPT ![t] = Overlay([i \in {idx[t]} |-> NewRow(t)], upd[t])]
          /\ added' = [added EXCEPT ![t] = added[t] + 1]
          /\ Goto(t, IF added[t] + 1 = Len(op[t].forms) THEN "commit" ELSE "test last")
          /\ UNCHANGED <<dbvars, op, idx, copy, gone>>

\* Variants: no foreign key from the records to the object; the API saves the
\* object too, as the admin does.
CommitUnconstrained(t) ==
  /\ pc[t] = "commit"
  /\ rec' = [rec EXCEPT ![op[t].obj] = Overlay(upd[t], @)]
  /\ End(t, "done")
  /\ UNCHANGED state

CommitSavingObject(t) ==
  /\ pc[t] = "commit"
  /\ state' = [state EXCEPT ![op[t].obj] = "live"]
  /\ rec' = [rec EXCEPT ![op[t].obj] = Overlay(upd[t], @)]
  /\ End(t, "done")

\* COMMIT.  The foreign key of the records wants the object's row, and waits for a
\* transaction that has deleted it: the API's transaction fails when the object
\* was deleted meanwhile; the admin's has saved the row itself.
Commit(t) ==
  LET o == op[t].obj IN
  /\ pc[t] = "commit"
  /\ \A u \in Txns \ {t} : ~(op[u].obj = o /\ pc[u] = "delete")
  /\ IF state[o] # "live" /\ op[t].kind # "admin"
     THEN RollBack(t)
     ELSE /\ state' = [state EXCEPT ![o] = "live"]
          /\ rec'   = [rec EXCEPT ![o] = Overlay(upd[t], rec[o])]
          /\ End(t, "done")

\* Object.delete(): Django collects the object's records with a query,
CollectRecords(t) ==
  /\ pc[t] = "collect"
  /\ gone' = [gone EXCEPT ![t] = Pks(rec[op[t].obj])]
  /\ Goto(t, "delete rows")
  /\ UNCHANGED <<dbvars, op, added, idx, copy, upd>>

\* deletes the records it collected, by primary key,
DeleteRows(t) ==
  /\ pc[t] = "delete rows"
  /\ \A pk \in gone[t] : ~RowLocked(t, pk[1])
  /\ Goto(t, "object row")
  /\ UNCHANGED <<dbvars, op, added, idx, copy, upd, gone>>

\* deletes the object's row,
DeleteObject(t) ==
  /\ pc[t] = "object row"
  /\ ~ObjectLocked(t)
  /\ Goto(t, "delete")
  /\ UNCHANGED <<dbvars, op, added, idx, copy, upd, gone>>

\* and commits, which fails when a record was added meanwhile.
CommitDelete(t) ==
  LET o == op[t].obj IN
  /\ pc[t] = "delete"
  /\ IF Pks(rec[o]) \subseteq gone[t]
     THEN /\ state' = [state EXCEPT ![o] = "deleted"]
          /\ rec'   = [rec EXCEPT ![o] = NoRows]
          /\ End(t, "done")
     ELSE RollBack(t)

\* A request can fail at any statement: an error after the records are saved
\* (the notification), a lost connection, a deadlock the database resolves.
Fail(t) == Active(t) /\ RollBack(t)

Step(t) ==
  \/ SaveObject(t)
  \/ TestLast(t) \/ ReadIndex(t) \/ ReadPrevious(t) \/ ClosePrevious(t)
  \/ InsertRecord(t) \/ Commit(t)
  \/ CollectRecords(t) \/ DeleteRows(t) \/ DeleteObject(t) \/ CommitDelete(t)

Arrive(t) ==
  \E o \in Objects :
    \/ \E s \in Dates : Put(t, o, s)
    \/ \E s \in Dates \cup {None} : Patch(t, o, s)
    \/ \E fs \in FormLists({t}) : AdminChange(t, o, fs)
    \/ Destroy(t, o)

Next ==
  \/ \E o \in Objects, fs \in FormLists({}) : Create(o, fs)
  \/ \E t \in Txns : Arrive(t) \/ Step(t) \/ Fail(t)

Spec == Init /\ [][Next]_vars

\* A request that is being handled goes on when it can: a worker executes one
\* request to its end, and a lock is granted once its holder has ended.
FairSpec == Spec /\ \A t \in Txns : WF_vars(Step(t))
-----------------------------------------------------------------------------
(* Correctness. *)

\* Finitely many rows, by index.
IsRows(rows) ==
  /\ DOMAIN rows \subseteq Indexes
  /\ rows = [i \in DOMAIN rows |-> rows[i]]
  /\ \A i \in DOMAIN rows : rows[i] \in Row
  /\ DOMAIN rows # {} => \E i \in DOMAIN rows : \A j \in DOMAIN rows : j <= i

Statements ==
  {"idle", "save object", "test last", "read index", "read previous", "close previous",
   "insert", "commit", "collect", "delete rows", "object row", "delete", "done", "failed"}

\* Every variable keeps its type.
TypeOK ==
  /\ state \in [Objects -> {"unborn", "live", "deleted"}]
  /\ DOMAIN rec = Objects /\ \A o \in Objects : IsRows(rec[o])
  /\ pc \in [Txns -> Statements]
  /\ DOMAIN op = Txns
  /\ \A t \in Txns : Idle(t) \/ op[t] \in [kind : Kinds, obj : Objects, forms : Seq(Form)]
  /\ added \in [Txns -> Nat]
  /\ idx \in [Txns -> Nat]
  /\ DOMAIN copy = Txns /\ \A t \in Txns : IsRows(copy[t])
  /\ DOMAIN upd = Txns /\ \A t \in Txns : IsRows(upd[t])
  /\ gone \in [Txns -> SUBSET (Indexes \X (Txns \cup {None}))]

\* The rows are numbered 1..n, each ends where the next one starts, and the last
\* one ends at e.
ChainedTo(rows, n, e) ==
  /\ DOMAIN rows = 1..n
  /\ \A i \in 1..n : rows[i].end = IF i = n THEN e ELSE rows[i + 1].start

\* How many records there are, when they are numbered 1..n.
Count(rows) == IF DOMAIN rows = {} THEN 0 ELSE LastIndex(rows)

Chained(rows) == ChainedTo(rows, Count(rows), None)

\* The committed records of an object are numbered without a gap, every record
\* ends on the day the next one starts, and only the last one has no end date,
\* although save() computes the number, finds the record to close and inserts
\* the new one with separate statements that other requests run between.
HistoryChained == \A o \in Objects : Chained(rec[o])

\* No record outlives its object.
NoOrphans == \A o \in Objects : state[o] # "live" => rec[o] = NoRows

Entry == [start : Dates, data : SUBSET Txns, writer : Txns \cup {None}]

EntriesOf(rows) ==
  [i \in DOMAIN rows |-> [start |-> rows[i].start, data |-> rows[i].data, writer |-> rows[i].writer]]

History == INSTANCE ObjectHistory
             WITH Entries <- Entry, hist <- [o \in Objects |-> EntriesOf(rec[o])]

\* The transactions implement the append-only history of ObjectHistory.
ImplementsHistory == History!Spec

\* ?date=d shows the newest record that had started by d, and nothing exactly
\* when no record had, even though the query looks at start and end dates and
\* records may start earlier than the ones they follow.
ShowsAsOf ==
  \A o \in Objects, d \in Dates :
    LET shown == RecordOn(rec[o], d) IN
    IF shown = 0
    THEN \A i \in DOMAIN rec[o] : ~History!IsAsOf(EntriesOf(rec[o]), d, i)
    ELSE History!IsAsOf(EntriesOf(rec[o]), d, shown)

\* r was committed and rnew is what the same row is later: only an open end date
\* has been filled in.
SameRecord(r, rnew) ==
  /\ rnew = [r EXCEPT !.end = rnew.end]
  /\ r.end # None => rnew.end = r.end

\* "RECORDs cannot be deleted or changed once saved": as long as the object is
\* there a committed record keeps everything but its open end date, which is
\* filled in at most once.
RecordsKept ==
  [][\A o \in Objects :
       state'[o] = "live" =>
         \A i \in DOMAIN rec[o] :
           i \in DOMAIN rec'[o] /\ SameRecord(rec[o][i], rec'[o][i])]_vars

\* An object that was deleted does not come back.
DeletedForGood == [][\A o \in Objects : state[o] = "deleted" => state'[o] = "deleted"]_vars

PatchedBy(r) == r.writer # None /\ op[r.writer].kind = "patch"

\* What a PATCH saved contains all of the record that it follows: the change of
\* a request that was answered before is not lost.
MergedIntoLast ==
  \A o \in Objects : \A i \in DOMAIN rec[o] :
    PatchedBy(rec[o][i]) => rec[o][i - 1].data \subseteq rec[o][i].data

\* Requests wait for each other's rows, but never in a circle: each one ends.
EveryRequestEnds == \A t \in Txns : Active(t) ~> Ended(t)

\* An object that the admin changes is not deleted at the same time.
Disciplined == \A o \in Objects : ~(<<o, "admin">> \in Requests /\ <<o, "delete">> \in Requests)
=============================================================================
