--------------------------- MODULE StartUpProofs ---------------------------
(***************************************************************************)
(* The backfill leaves nothing out: for any records, objects, containers,   *)
(* workers and batch size, when `migrate` runs in one container at a time   *)
(* and after the previous release.                                          *)
(***************************************************************************)
EXTENDS StartUp, FiniteSetTheorems, TLAPS

OldIsFirst == old => applied = {} /\ \A c \in Containers : at[c] = "down"
NoOldLocks == ~old => held = {}

OneMigrates ==
    \A c, d \in Containers : at[c] \in Migrating /\ at[d] \in Migrating => c = d

Quiet == \A t \in Threads : work[t] # "off" => at[t[1]] = "backfill"

\* As long as a record has no type, a worker of the container that migrates has
\* not seen the end: it is the one that holds the rows the others pass over.
SomeoneGoesOn ==
    \A c \in Containers :
      at[c] = "backfill" =>
        rows \subseteq filled \/ \E w \in Workers : work[<<c, w>>] # "done"

Recorded == "0033" \in applied => rows \subseteq durable

StartInv ==
    /\ TypeOK
    /\ OldIsFirst
    /\ NoOldLocks
    /\ OneMigrates
    /\ Quiet
    /\ SomeoneGoesOn
    /\ Recorded

-----------------------------------------------------------------------------
\* The first state has the types, and nothing has begun.
LEMMA StartInit == Init => StartInv
<1> SUFFICES ASSUME Init PROVE StartInv
  OBVIOUS
<1>1. TypeOK
  BY DEF Init, TypeOK, Threads, Indexes, Stages
<1>2. OldIsFirst /\ NoOldLocks /\ OneMigrates /\ SomeoneGoesOn /\ Recorded
  BY DEF Init, OldIsFirst, NoOldLocks, OneMigrates, SomeoneGoesOn, Recorded, Migrating
<1>3. Quiet
  BY DEF Init, Quiet
<1> QED
  BY <1>1, <1>2, <1>3 DEF StartInv

\* LIMIT leaves a batch empty only when there was nothing to take.
LEMMA EmptyBatch ==
    ASSUME NEW S, {} \in LimitedTo(S)
    PROVE  S = {}
<1>1. Cardinality({}) = 0
  BY FS_EmptySet
<1> QED
  BY <1>1, SizeAssumption DEF LimitedTo

\* Every step keeps the types, and no worker runs outside the backfill.
LEMMA StartTypes ==
    ASSUME TypeOK, Quiet, [Next]_vars
    PROVE  TypeOK' /\ Quiet'
<1> USE DEF TypeOK, Quiet
<1>1. ASSUME NEW r \in Records, OldRequest(r) PROVE TypeOK' /\ Quiet'
  BY <1>1 DEF OldRequest, database, threads
<1>2. ASSUME NEW r \in Records, OldCommit(r) PROVE TypeOK' /\ Quiet'
  BY <1>2 DEF OldCommit, threads
<1>3. ASSUME NEW r \in Records, SaveRecord(r) PROVE TypeOK' /\ Quiet'
  BY <1>3 DEF SaveRecord, previous, threads
<1>4. CASE StopOld
  BY <1>4 DEF StopOld, database, threads
<1>5. CASE Outage
  <2>1. /\ at' \in [Containers -> Stages]
        /\ work' \in [Threads -> {"off", "select", "commit", "done", "failed"}]
        /\ batch' \in [Threads -> SUBSET rows]
        /\ \A t \in Threads : batch'[t] = {} /\ work'[t] = "off"
    BY <1>5 DEF Outage, Stages
  <2>2. /\ filled' \subseteq rows /\ durable' \subseteq filled'
        /\ held' \subseteq Records /\ stops' \in Nat
    BY <1>5, SizeAssumption DEF Outage
  <2> QED
    BY <1>5, <2>1, <2>2 DEF Outage
<1>6. ASSUME NEW c \in Containers, Begin(c) PROVE TypeOK' /\ Quiet'
  <2>1. Pending \in Stages
    BY DEF Pending, Stages, Migrating
  <2>2. at' \in [Containers -> Stages] /\ \A d \in Containers : d # c => at'[d] = at[d]
    BY <1>6, <2>1 DEF Begin, To
  <2>3. \A t \in Threads : t[1] = c => work[t] = "off" /\ batch[t] = {}
    BY <1>6 DEF Begin
  <2>4. /\ work' \in [Threads -> {"off", "select", "commit", "done", "failed"}]
        /\ \A t \in Threads : t[1] # c => work'[t] = work[t]
        /\ \A t \in Threads : t[1] = c /\ Pending # "backfill" => work'[t] = "off"
    BY <1>6, <2>3 DEF Begin
  <2>5. TypeOK'
    BY <1>6, <2>2, <2>3, <2>4 DEF Begin, database, previous
  <2>6. ASSUME NEW t \in Threads, work'[t] # "off" PROVE at'[t[1]] = "backfill"
    <3>1. t[1] \in Containers
      BY DEF Threads
    <3>2. CASE t[1] = c
      BY <1>6, <2>4, <2>6, <3>2 DEF Begin, To
    <3>3. CASE t[1] # c
      BY <2>2, <2>4, <2>6, <3>1, <3>3
    <3> QED
      BY <3>2, <3>3
  <2> QED
    BY <2>5, <2>6
<1>7. ASSUME NEW c \in Containers, Record33(c) \/ Raise(c) PROVE TypeOK' /\ Quiet'
  <2>1. /\ at' \in [Containers -> Stages]
        /\ \A d \in Containers : d # c => at'[d] = at[d]
    BY <1>7 DEF Record33, Raise, To, Stages, Migrating
  <2>2. /\ work' \in [Threads -> {"off", "select", "commit", "done", "failed"}]
        /\ \A t \in Threads : work'[t] = IF t[1] = c THEN "off" ELSE work[t]
    BY <1>7 DEF Record33, Raise, Rest
  <2>3. \A t \in Threads : t[1] = c => batch[t] = {}
    <3> SUFFICES ASSUME NEW t \in Threads, t[1] = c PROVE work[t] # "commit"
      OBVIOUS
    <3>1. t = <<c, t[2]>> /\ t[2] \in Workers
      BY DEF Threads
    <3> QED
      BY <1>7, <3>1 DEF Record33, Raise, Ended
  <2>4. TypeOK'
    <3>1. CASE Record33(c)
      BY <2>1, <2>2, <2>3, <3>1 DEF Record33, database, previous
    <3>2. CASE Raise(c)
      BY <2>1, <2>2, <2>3, <3>2 DEF Raise, database, previous
    <3> QED BY <1>7, <3>1, <3>2
  <2>5. Quiet'
    BY <2>1, <2>2 DEF Threads
  <2> QED
    BY <2>4, <2>5
<1>8. ASSUME NEW c \in Containers, NotNull(c) PROVE TypeOK' /\ Quiet'
  <2>1. /\ at' \in [Containers -> Stages] /\ next' \in [Containers -> Nat]
        /\ \A d \in Containers : at[d] = "backfill" => at'[d] = "backfill"
    BY <1>8 DEF NotNull, To, Stages, Migrating
  <2> QED
    BY <1>8, <2>1 DEF NotNull, database, previous, threads, Threads
<1>9. ASSUME NEW c \in Containers, BuildIndex(c) PROVE TypeOK' /\ Quiet'
  <2>1. /\ at' \in [Containers -> Stages] /\ next' \in [Containers -> Nat]
        /\ built' \subseteq Indexes
        /\ \A d \in Containers : at[d] = "backfill" => at'[d] = "backfill"
    BY <1>9 DEF BuildIndex, To, Stages, Migrating
  <2> QED
    BY <1>9, <2>1 DEF BuildIndex, previous, threads, Threads
<1>10. ASSUME NEW c \in Containers, Record34(c) PROVE TypeOK' /\ Quiet'
  <2>1. /\ at' \in [Containers -> Stages]
        /\ \A d \in Containers : at[d] = "backfill" => at'[d] = "backfill"
    BY <1>10 DEF Record34, To, Stages, Migrating
  <2> QED
    BY <1>10, <2>1 DEF Record34, previous, threads, Threads
<1>11. ASSUME NEW c \in Containers, CreateInitialSuperuser(c) PROVE TypeOK' /\ Quiet'
  <2>1. /\ at' \in [Containers -> Stages]
        /\ user' \in {"none", "locked", "ready"}
        /\ \A d \in Containers : at[d] = "backfill" => at'[d] = "backfill"
    BY <1>11 DEF CreateInitialSuperuser, FindUser, CreateUser, SetPassword, To, Stages, database
  <2> QED
    BY <1>11, <2>1, ZenonT(40)
    DEF CreateInitialSuperuser, FindUser, CreateUser, SetPassword, database, previous,
        threads, Threads
<1>12. ASSUME NEW c \in Containers, Kill(c) PROVE TypeOK' /\ Quiet'
  <2>1. /\ at' \in [Containers -> Stages]
        /\ \A d \in Containers : d # c => at'[d] = at[d]
    BY <1>12 DEF Kill, To, Stages
  <2>2. /\ work' \in [Threads -> {"off", "select", "commit", "done", "failed"}]
        /\ \A t \in Threads : work'[t] = IF t[1] = c THEN "off" ELSE work[t]
        /\ \A t \in Threads : batch'[t] = IF t[1] = c THEN {} ELSE batch[t]
    BY <1>12 DEF Kill, Rest
  <2>5. rows' = rows /\ batch' \in [Threads -> SUBSET rows]
    <3> DEFINE kept(t) == IF t[1] = c THEN {} ELSE batch[t]
    <3>1. \A t \in Threads : kept(t) \in SUBSET rows
      OBVIOUS
    <3>2. batch' = [t \in Threads |-> kept(t)]
      BY <1>12 DEF Kill
    <3>3. batch' \in [Threads -> SUBSET rows]
      <4> HIDE DEF kept
      <4> QED
        BY <3>1, <3>2
    <3> QED
      BY <1>12, <3>3 DEF Kill, database
  <2>3. TypeOK'
    BY <1>12, <2>1, <2>2, <2>5, SizeAssumption DEF Kill, database, previous
  <2>4. Quiet'
    BY <2>1, <2>2 DEF Threads
  <2> QED
    BY <2>3, <2>4
<1>13. ASSUME NEW t \in Threads, Backfill(t) PROVE TypeOK' /\ Quiet'
  <2>1. PICK b \in LimitedTo(Free) :
          /\ batch' = [batch EXCEPT ![t] = b]
          /\ work' = [work EXCEPT ![t] = IF b = {} THEN "done" ELSE "commit"]
    BY <1>13 DEF Backfill
  <2>2. b \subseteq rows
    BY <2>1 DEF LimitedTo, Free
  <2> QED
    BY <1>13, <2>1, <2>2 DEF Backfill, database, previous
<1>14. ASSUME NEW t \in Threads, Commit(t) PROVE TypeOK' /\ Quiet'
  <2>1. filled' \subseteq rows /\ durable \subseteq filled'
    BY <1>14 DEF Commit
  <2> QED
    BY <1>14, <2>1 DEF Commit, previous
<1>15. ASSUME NEW t \in Threads, Break(t) PROVE TypeOK' /\ Quiet'
  <2>1. stops' \in Nat
    BY <1>15, SizeAssumption DEF Break
  <2> QED
    BY <1>15, <2>1 DEF Break, database, previous
<1>16. CASE UNCHANGED vars
  BY <1>16 DEF vars, database, previous, threads
<1> QED
  BY <1>1, <1>2, <1>3, <1>4, <1>5, <1>6, <1>7, <1>8, <1>9, <1>10, <1>11, <1>12, <1>13,
     <1>14, <1>15, <1>16 DEF Next, Migrate, Worker

-----------------------------------------------------------------------------
\* The previous release is gone before anything starts.
LEMMA StartOld ==
    ASSUME OneByOne, TypeOK, Quiet, OldIsFirst, NoOldLocks, [Next]_vars
    PROVE  OldIsFirst' /\ NoOldLocks'
<1> USE DEF OldIsFirst, NoOldLocks, database, previous, threads, To
<1>1. CASE \E r \in Records : OldRequest(r) \/ OldCommit(r) \/ SaveRecord(r)
  BY <1>1 DEF OldRequest, OldCommit, SaveRecord
<1>2. CASE StopOld \/ Outage \/ UNCHANGED vars
  BY <1>2 DEF StopOld, Outage, vars
<1>3. CASE \E c \in Containers : Begin(c)
  BY <1>3 DEF Begin, OneByOne
<1>4. CASE \E c \in Containers : Record33(c) \/ Raise(c) \/ NotNull(c) \/ BuildIndex(c) \/ Record34(c)
  <2>1. ~old
    BY <1>4 DEF Record33, Raise, NotNull, BuildIndex, Record34
  <2>2. old' = old /\ held' = held
    BY <1>4 DEF Record33, Raise, NotNull, BuildIndex, Record34
  <2> QED
    BY <2>1, <2>2
<1>5. CASE \E c \in Containers : CreateInitialSuperuser(c) \/ Kill(c)
  BY <1>5 DEF CreateInitialSuperuser, FindUser, CreateUser, SetPassword, Kill
<1>6. CASE \E t \in Threads : Worker(t) \/ Break(t)
  BY <1>6 DEF Worker, Backfill, Commit, Break
<1> QED
  BY <1>1, <1>2, <1>3, <1>4, <1>5, <1>6 DEF Next, Migrate

\* Only Begin lets a container migrate, and it waits for the others.
LEMMA StartAlone ==
    ASSUME OneByOne, TypeOK, OneMigrates, [Next]_vars
    PROVE  OneMigrates'
<1> USE DEF OneMigrates, database, previous, threads, To, Migrating
<1>1. CASE \E c \in Containers : Begin(c)
  BY <1>1 DEF Begin, OneByOne, TypeOK
<1>2. CASE ~ \E c \in Containers : Begin(c)
  <2>1. \A c \in Containers : at'[c] \in Migrating => at[c] \in Migrating
    <3>1. CASE \E r \in Records : OldRequest(r) \/ OldCommit(r) \/ SaveRecord(r)
      BY <3>1 DEF OldRequest, OldCommit, SaveRecord
    <3>2. CASE StopOld \/ Outage \/ UNCHANGED vars
      BY <3>2 DEF StopOld, Outage, vars
    <3>3. CASE \E c \in Containers : Record33(c) \/ Raise(c) \/ NotNull(c) \/ BuildIndex(c) \/ Record34(c)
      BY <3>3 DEF Record33, Raise, NotNull, BuildIndex, Record34, TypeOK
    <3>4. CASE \E c \in Containers : CreateInitialSuperuser(c) \/ Kill(c)
      BY <3>4 DEF CreateInitialSuperuser, FindUser, CreateUser, SetPassword, Kill, TypeOK
    <3>5. CASE \E t \in Threads : Worker(t) \/ Break(t)
      BY <3>5 DEF Worker, Backfill, Commit, Break
    <3> QED
      BY <1>2, <3>1, <3>2, <3>3, <3>4, <3>5 DEF Next, Migrate
  <2> QED
    BY <2>1
<1> QED
  BY <1>1, <1>2

\* A worker ends when all that is left is locked, by another of the container.
LEMMA StartGoesOn ==
    ASSUME OneByOne, StartInv, [Next]_vars
    PROVE  SomeoneGoesOn'
<1> USE DEF SomeoneGoesOn, StartInv, database, previous, threads
<1>1. ASSUME NEW t \in Threads, Backfill(t) PROVE SomeoneGoesOn'
  <2>1. PICK b \in LimitedTo(Free) :
          work' = [work EXCEPT ![t] = IF b = {} THEN "done" ELSE "commit"]
    BY <1>1 DEF Backfill
  <2>2. /\ t = <<t[1], t[2]>> /\ t[1] \in Containers /\ t[2] \in Workers
        /\ work[t] = "select" /\ at[t[1]] = "backfill"
    BY <1>1 DEF Backfill, Threads, Quiet
  <2> SUFFICES ASSUME NEW c \in Containers, at[c] = "backfill", ~(rows \subseteq filled)
               PROVE  \E w \in Workers : work'[<<c, w>>] # "done"
    BY <1>1 DEF Backfill
  <2>3. c = t[1]
    BY <2>2 DEF OneMigrates, Migrating
  <2>4. CASE b # {}
    BY <2>1, <2>2, <2>3, <2>4 DEF TypeOK
  <2>5. CASE b = {}
    <3>1. Free = {}
      BY <2>5, <2>1, EmptyBatch
    <3>2. held = {}
      BY <2>2 DEF OldIsFirst, NoOldLocks
    <3>3. PICK x \in Threads : batch[x] # {}
      BY <3>1, <3>2 DEF Free, Locked
    <3>4. work[x] = "commit" /\ at[x[1]] = "backfill"
      BY <3>3 DEF TypeOK, Quiet
    <3>5. x[1] = c /\ x = <<x[1], x[2]>> /\ x[2] \in Workers
      BY <3>4, <2>2, <2>3 DEF OneMigrates, Migrating, Threads
    <3>6. work'[x] = "commit"
      BY <3>4, <2>1, <2>2 DEF TypeOK
    <3> QED
      BY <3>5, <3>6
  <2> QED
    BY <2>4, <2>5
<1>2. ASSUME NEW t \in Threads, Commit(t) \/ Break(t) PROVE SomeoneGoesOn'
  <2>1. /\ t = <<t[1], t[2]>> /\ t[1] \in Containers /\ t[2] \in Workers
        /\ work[t] # "off" /\ at[t[1]] = "backfill" /\ at' = at
    BY <1>2 DEF Commit, Break, Threads, Quiet
  <2>2. work'[t] # "done"
    BY <1>2 DEF Commit, Break, TypeOK
  <2>3. \A c \in Containers : at[c] = "backfill" => c = t[1]
    BY <2>1 DEF OneMigrates, Migrating
  <2> QED
    BY <2>1, <2>2, <2>3
<1>3. ASSUME NEW c \in Containers, Begin(c) PROVE SomeoneGoesOn'
  <2> SUFFICES ASSUME NEW d \in Containers, at'[d] = "backfill"
               PROVE  \E w \in Workers : work'[<<d, w>>] # "done"
    OBVIOUS
  <2>1. d = c /\ Pending = "backfill"
    BY <1>3 DEF Begin, To, OneByOne, Migrating, TypeOK
  <2>2. PICK w \in Workers : TRUE
    BY WorkerAssumption
  <2>3. work'[<<c, w>>] = "select"
    BY <1>3, <2>1 DEF Begin, Threads
  <2> QED
    BY <2>1, <2>3
<1>4. ASSUME NEW c \in Containers, Record33(c) \/ Raise(c) \/ Kill(c) PROVE SomeoneGoesOn'
  <2> SUFFICES ASSUME NEW d \in Containers, at'[d] = "backfill", ~(rows \subseteq filled)
               PROVE  \E w \in Workers : work'[<<d, w>>] # "done"
    BY <1>4 DEF Record33, Raise, Kill
  <2>1. d # c /\ at[d] = "backfill"
    BY <1>4 DEF Record33, Raise, Kill, To, TypeOK
  <2>2. \A w \in Workers : work'[<<d, w>>] = work[<<d, w>>]
    BY <1>4, <2>1 DEF Record33, Raise, Kill, Rest, Threads
  <2> QED
    BY <2>1, <2>2
<1>5. ASSUME NEW c \in Containers, NotNull(c) \/ BuildIndex(c) \/ Record34(c) PROVE SomeoneGoesOn'
  <2>1. \A d \in Containers : at'[d] = "backfill" => at[d] = "backfill"
    BY <1>5 DEF NotNull, BuildIndex, Record34, To, TypeOK
  <2> QED
    BY <1>5, <2>1 DEF NotNull, BuildIndex, Record34
<1>6. ASSUME NEW c \in Containers, CreateInitialSuperuser(c) PROVE SomeoneGoesOn'
  <2>1. \A d \in Containers : at'[d] = "backfill" => at[d] = "backfill"
    BY <1>6 DEF CreateInitialSuperuser, FindUser, CreateUser, SetPassword, To, TypeOK
  <2> QED
    BY <1>6, <2>1 DEF CreateInitialSuperuser, FindUser, CreateUser, SetPassword
<1>7. ASSUME NEW r \in Records, OldRequest(r) \/ OldCommit(r) \/ SaveRecord(r) PROVE SomeoneGoesOn'
  BY <1>7 DEF OldRequest, OldCommit, SaveRecord, OldIsFirst
<1>8. CASE StopOld \/ UNCHANGED vars
  BY <1>8 DEF StopOld, vars
<1>9. CASE Outage
  BY <1>9 DEF Outage
<1> QED
  BY <1>1, <1>2, <1>3, <1>4, <1>5, <1>6, <1>7, <1>8, <1>9 DEF Next, Migrate, Worker

\* 0033 is recorded when every worker has seen the end, and what it filled is
\* durable then.
LEMMA StartRecorded ==
    ASSUME StartInv, [Next]_vars
    PROVE  Recorded'
<1> USE DEF StartInv, Recorded, database, previous, threads
<1>1. ASSUME NEW c \in Containers, Record33(c) PROVE Recorded'
  <2>1. \A w \in Workers : work[<<c, w>>] = "done"
    BY <1>1 DEF Record33, Ended
  <2>2. rows \subseteq filled
    BY <1>1, <2>1 DEF Record33, SomeoneGoesOn
  <2> QED
    BY <1>1, <2>2 DEF Record33
<1>2. ASSUME NEW c \in Containers, Record34(c) PROVE Recorded'
  BY <1>2 DEF Record34
<1>3. ASSUME NEW r \in Records, SaveRecord(r) PROVE Recorded'
  BY <1>3 DEF SaveRecord, TypeOK
<1>4. ASSUME NEW r \in Records, OldRequest(r) \/ OldCommit(r) PROVE Recorded'
  BY <1>4 DEF OldRequest, OldCommit, OldIsFirst
<1>5. CASE Outage
  BY <1>5 DEF Outage
<1>6. CASE StopOld \/ UNCHANGED vars
  BY <1>6 DEF StopOld, vars
<1>7. ASSUME NEW c \in Containers, Begin(c) \/ Raise(c) \/ NotNull(c) \/ BuildIndex(c) \/ Kill(c)
      PROVE  Recorded'
  BY <1>7 DEF Begin, Raise, NotNull, BuildIndex, Kill
<1>8. ASSUME NEW c \in Containers, CreateInitialSuperuser(c) PROVE Recorded'
  BY <1>8 DEF CreateInitialSuperuser, FindUser, CreateUser, SetPassword
<1>9. ASSUME NEW t \in Threads, Worker(t) \/ Break(t) PROVE Recorded'
  BY <1>9 DEF Worker, Backfill, Commit, Break
<1> QED
  BY <1>1, <1>2, <1>3, <1>4, <1>5, <1>6, <1>7, <1>8, <1>9 DEF Next, Migrate

-----------------------------------------------------------------------------
\* The types of the variables of an upgrade, whatever the surroundings do.
THEOREM StartTyping == Spec => []TypeOK
<1>1. Init => TypeOK /\ Quiet
  BY StartInit DEF StartInv
<1>2. TypeOK /\ Quiet /\ [Next]_vars => TypeOK' /\ Quiet'
  BY StartTypes
<1> QED
  BY <1>1, <1>2, PTL DEF Spec

\* The invariant: it says who still looks for records without a type.
THEOREM StartInvariant ==
    ASSUME OneByOne
    PROVE  Spec => []StartInv
<1>1. StartInv /\ [Next]_vars => StartInv'
  <2> SUFFICES ASSUME StartInv, [Next]_vars PROVE StartInv'
    OBVIOUS
  <2>1. TypeOK' /\ Quiet'
    BY StartTypes DEF StartInv
  <2>2. OldIsFirst' /\ NoOldLocks'
    BY StartOld DEF StartInv
  <2>3. OneMigrates'
    BY StartAlone DEF StartInv
  <2>4. SomeoneGoesOn'
    BY StartGoesOn
  <2>5. Recorded'
    BY StartRecorded
  <2> QED
    BY <2>1, <2>2, <2>3, <2>4, <2>5 DEF StartInv
<1> QED
  BY <1>1, StartInit, PTL DEF Spec

\* Once migration 0033 is recorded, every record has its type.
THEOREM BackfillComplete ==
    ASSUME OneByOne
    PROVE  Spec => []FilledWhenApplied
<1>1. StartInv => FilledWhenApplied
  BY DEF StartInv, Recorded, FilledWhenApplied, TypeOK
<1> QED
  BY <1>1, StartInvariant, PTL

=============================================================================
