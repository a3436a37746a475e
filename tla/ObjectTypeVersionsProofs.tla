---------------------- MODULE ObjectTypeVersionsProofs ----------------------
(***************************************************************************)
(* Published versions, for any number of requests, schemas and versions,   *)
(* in any order: once nobody is at work any more that read a version as a  *)
(* draft, it never changes and is what the records that were validated     *)
(* against it name; and it has its date, unless two requests published it  *)
(* at the same time.                                                       *)
(***************************************************************************)
EXTENDS ObjectTypeVersions, WellFoundedInduction, TLAPS

-----------------------------------------------------------------------------
(* Sets of naturals.                                                          *)

\* A set of naturals has a least element.
LEMMA LeastNat ==
  ASSUME NEW T \in SUBSET Nat, T # {}
  PROVE  \E x \in T : \A y \in T : x <= y
<1> DEFINE R == OpToRel(<, Nat)
<1>1. \E x \in T : \A y \in T : ~ (<<y, x>> \in R)
  BY WFMin, NatLessThanWellFounded, Zenon
<1>2. PICK x \in T : \A y \in T : ~ (<<y, x>> \in R)
  BY <1>1, Zenon
<1>3. ASSUME NEW y \in T, y < x
      PROVE  FALSE
  <2>1. <<y, x>> \in R
    BY <1>3 DEF OpToRel
  <2> HIDE DEF R
  <2> QED BY <2>1, <1>2, Zenon
<1> QED BY <1>3

\* A bounded set of naturals has a greatest element.
LEMMA GreatestNat ==
  ASSUME NEW n \in Nat, NEW S \in SUBSET (0..n), S # {}
  PROVE  \E i \in S : \A j \in S : j <= i
<1>1. \E x \in {n - i : i \in S} : \A y \in {n - i : i \in S} : x <= y
  <2>1. {n - i : i \in S} \in SUBSET Nat /\ {n - i : i \in S} # {}
    <3>1. \A i \in S : i \in 0..n /\ n - i \in Nat
      OBVIOUS
    <3>2. {n - i : i \in S} \in SUBSET Nat
      BY <3>1
    <3>3. PICK i \in S : TRUE
      OBVIOUS
    <3>4. n - i \in {n - j : j \in S}
      BY <3>3
    <3> QED BY <3>2, <3>4
  <2> QED BY <2>1, LeastNat
<1> QED
  BY <1>1

\* The statements of each kind of request.
Statements ==
  [k \in AllKinds |->
     IF k = "post" THEN {"number", "insert"}
     ELSE IF k = "patch" THEN {"previous", "update"}
     ELSE IF k = "edit" THEN {"save type", "previous", "update", "number", "insert"}
     ELSE IF k = "publish" THEN {"save type", "read last", "previous", "update"}
     ELSE IF k = "new version" THEN {"save type", "read last", "number", "insert"}
     ELSE IF k = "delete" THEN {"delete row"}
     ELSE IF k = "record" THEN {"save record"}
     ELSE {"cascade"}]

Places ==
  {"idle", "done", "failed", "save type", "read last", "number", "insert", "previous", "update",
   "delete row", "save record", "cascade"}

\* A row in memory may have no primary key yet.
Instance == [pk : Nat \cup {None}, status : Statuses, schema : Schemas, dated : BOOLEAN]
Copy == [number : Numbers \cup {None}, row : Instance \cup {None}, settled : BOOLEAN]

Tables ==
  /\ alive \in BOOLEAN /\ lastPk \in Nat
  /\ DOMAIN ver \subseteq Numbers
  /\ \A n \in DOMAIN ver : ver[n] \in Row /\ ver[n].pk \in 1..lastPk
  /\ \A m, n \in DOMAIN ver : ver[m].pk = ver[n].pk => m = n
  /\ records \subseteq [number : Numbers, row : Row, settled : BOOLEAN]

\* What request t holds at its statement.
Carries(t) ==
  /\ pc[t] \notin {"idle", "done", "failed"} => kind[t] \in AllKinds /\ pc[t] \in Statements[kind[t]]
  /\ pc[t] \in {"number", "insert"} => copy[t].row \in Instance
  /\ pc[t] = "insert" => copy[t].number \in Numbers
  /\ pc[t] = "save type" /\ kind[t] = "edit" => copy[t].row \in Instance
  /\ HasRow(t) \/ pc[t] = "save record" => copy[t].number \in Numbers /\ copy[t].row \in Row
  /\ HasRow(t) => copy[t].row.pk \in 1..lastPk
  /\ HasRow(t) /\ kind[t] = "edit" => copy[t].row.status = "draft"

Requests ==
  /\ pc \in [Txns -> Places] /\ kind \in [Txns -> AllKinds \cup {None}]
  /\ copy \in [Txns -> Copy]
  /\ \A t \in Txns : Carries(t)

\* The primary key tells the number, in the table and in memory.
KeysName ==
  /\ \A t \in Txns : \A n \in DOMAIN ver : Holds(t, n) => copy[t].number = n
  /\ \A t, u \in Txns :
       HasRow(t) /\ HasRow(u) /\ copy[t].row.pk = copy[u].row.pk =>
         copy[t].number = copy[u].number

\* The row that t publishes has a date when it is written, or a rival.  One without a
\* date that finds its version published has a rival.
Dates(t) ==
  /\ pc[t] = "update" /\ copy[t].row.status = "published" =>
       copy[t].row.dated \/ copy[t].row.pk \in rivals
  /\ pc[t] = "previous" /\ copy[t].row.status = "published" =>
       \A n \in DOMAIN ver :
         ver[n].pk = copy[t].row.pk /\ ver[n].status = "published" =>
           copy[t].row.dated \/ copy[t].row.pk \in rivals

RivalsKnown == Overlapping \subseteq rivals

\* The version that a record was validated against is settled still.
Against(r) == r.settled => Settled(r.number) /\ ver[r.number] = r.row
RecordsFit == \A r \in records : Against(r)
RequestsFit == \A t \in Txns : pc[t] = "save record" => Against(copy[t])

VersionsInv ==
  /\ Tables /\ Requests
  /\ KeysName
  /\ PublishedDated /\ RivalsKnown /\ \A t \in Txns : Dates(t)
  /\ RecordsFit /\ RequestsFit

\* Settled versions are the same after the step, and settled.
Frozen ==
  \A n \in DOMAIN ver :
    Settled(n) => n \in DOMAIN ver' /\ ver'[n] = ver[n] /\ Settled(n)'

\* Requests that publish the same row are found out.
RivalsGrow == rivals' = rivals \cup Overlapping'

\* No other request moves.
Moves(t) ==
  /\ \A u \in Txns \ {t} : pc'[u] = pc[u] /\ kind'[u] = kind[u] /\ copy'[u] = copy[u]
  /\ RivalsGrow

\* What a step of t does to the rows: those there are were there, are new, or are what t
\* wrote; and the settled ones are untouched, and t can do nothing to them afterwards.
Writes(t) ==
  /\ \A n \in DOMAIN ver' :
       \/ n \in DOMAIN ver /\ ver'[n] = ver[n]
       \/ /\ ver'[n].pk = lastPk + 1 /\ (ver'[n].status = "published" => ver'[n].dated)
       \/ pc[t] = "update" /\ n = copy[t].number /\ ver'[n] = copy[t].row
  /\ lastPk' >= lastPk
  /\ \A n \in DOMAIN ver :
       Settled(n) => n \in DOMAIN ver' /\ ver'[n] = ver[n] /\ ~Disturbs(t, n)'

\* What t has in memory afterwards: the row that it had, or one that it has just read.
Reads(t) ==
  HasRow(t)' =>
    \/ HasRow(t) /\ copy'[t].row.pk = copy[t].row.pk /\ copy'[t].number = copy[t].number
       /\ ver' = ver
    \/ /\ copy'[t].number \in DOMAIN ver /\ copy'[t].row.pk = ver[copy'[t].number].pk
       /\ ver' = ver

-----------------------------------------------------------------------------
(* Facts about the rows and the requests. *)

\* The last version is one of the versions.
LEMMA LastIsThere ==
  ASSUME Tables, DOMAIN ver # {}
  PROVE  LastNumber \in DOMAIN ver /\ LastNumber \in Numbers
<1>1. DOMAIN ver \in SUBSET (0..MaxVersion)
  BY DEF Tables, Numbers
<1>2. \E n \in DOMAIN ver : \A m \in DOMAIN ver : m <= n
  BY <1>1, GreatestNat, MaxVersionAssumption
<1>3. LastNumber \in DOMAIN ver
  BY <1>2 DEF LastNumber
<1> QED
  BY <1>3 DEF Tables

\* The keys that are given stay below those to come.
LEMMA KeysGrow ==
  ASSUME NEW m \in Nat, NEW l \in Nat, l >= m, NEW i \in 1..m
  PROVE  i \in 1..l /\ i # m + 1
  OBVIOUS

LEMMA KeysStay == \A m, l \in Nat : l = m => l >= m
  OBVIOUS

\* A step that writes, reads and moves in these ways keeps the invariant.
LEMMA StepKeeps ==
  ASSUME VersionsInv, NEW t \in Txns, Moves(t), Writes(t), Reads(t), Tables',
         pc' \in [Txns -> Places], kind' \in [Txns -> AllKinds \cup {None}],
         copy' \in [Txns -> Copy], Carries(t)', Dates(t)',
         pc'[t] = "save record" => Against(copy[t])',
         \/ records' = records
         \/ records' = records \cup {copy[t]} /\ pc[t] = "save record"
  PROVE  VersionsInv' /\ Frozen
<1>0. /\ lastPk \in Nat /\ lastPk' \in Nat /\ lastPk' >= lastPk
      /\ \A u \in Txns : Carries(u) /\ Dates(u)
      /\ KeysName /\ PublishedDated /\ RivalsKnown /\ RecordsFit /\ RequestsFit /\ Tables
  BY DEF VersionsInv, Tables, Requests, Writes
<1>k. \A pk \in 1..lastPk : pk \in 1..lastPk' /\ pk # lastPk + 1
  BY <1>0, KeysGrow
<1>1. \A u \in Txns \ {t} : pc'[u] = pc[u] /\ kind'[u] = kind[u] /\ copy'[u] = copy[u]
  BY DEF Moves
<1>2. \A u \in Txns \ {t} : HasRow(u)' <=> HasRow(u)
  BY <1>1 DEF HasRow
<1>3. \A r \in rivals : r \in rivals'
  BY DEF Moves, RivalsGrow
<1>4. Frozen
  <2>1. SUFFICES ASSUME NEW n \in DOMAIN ver, Settled(n)
                 PROVE  n \in DOMAIN ver' /\ ver'[n] = ver[n] /\ Settled(n)'
    BY DEF Frozen
  <2>2. n \in DOMAIN ver' /\ ver'[n] = ver[n] /\ ~Disturbs(t, n)'
    BY <2>1 DEF Writes
  <2>3. ASSUME NEW u \in Txns \ {t} PROVE ~Disturbs(u, n)'
    <3>1. ~Disturbs(u, n)
      BY <2>1 DEF Settled
    <3> QED
      BY <1>1, <1>2, <2>2, <3>1 DEF Disturbs, Holds
  <2>4. ver[n].status = "published"
    BY <2>1 DEF Settled
  <2> QED
    BY <2>2, <2>3, <2>4 DEF Settled
<1>5. Requests'
  <2>1. ASSUME NEW u \in Txns \ {t} PROVE Carries(u)'
    <3>1. Carries(u)
      BY <1>0
    <3>2. HasRow(u) => copy[u].row.pk \in 1..lastPk'
      BY <1>k, <3>1 DEF Carries
    <3> QED
      BY <1>1, <1>2, <3>1, <3>2 DEF Carries
  <2> QED
    BY <2>1 DEF Requests
<1>6. KeysName'
  <2>1. ASSUME NEW u \in Txns \ {t}, NEW n \in DOMAIN ver', HasRow(u), copy[u].row.pk = ver'[n].pk
        PROVE  copy[u].number = n
    <3>1. CASE n \in DOMAIN ver /\ ver'[n] = ver[n]
      BY <1>0, <2>1, <3>1 DEF KeysName, Holds
    <3>2. CASE ver'[n].pk = lastPk + 1
      BY <1>0, <1>k, <2>1, <3>2 DEF Carries
    <3>3. CASE pc[t] = "update" /\ n = copy[t].number /\ ver'[n] = copy[t].row
      <4>1. HasRow(t) /\ copy[t].row.pk = copy[u].row.pk
        BY <2>1, <3>3 DEF HasRow
      <4> QED
        BY <1>0, <2>1, <3>3, <4>1 DEF KeysName
    <3> QED
      BY <3>1, <3>2, <3>3 DEF Writes
  <2>2. ASSUME NEW n \in DOMAIN ver', HasRow(t)', copy'[t].row.pk = ver'[n].pk
        PROVE  copy'[t].number = n
    BY <1>0, <2>2 DEF Reads, KeysName, Holds, Tables
  <2>3. ASSUME NEW u \in Txns \ {t}, HasRow(t)', HasRow(u), copy'[t].row.pk = copy[u].row.pk
        PROVE  copy'[t].number = copy[u].number
    BY <1>0, <2>3 DEF Reads, KeysName, Holds
  <2>4. ASSUME NEW v \in Txns, NEW n \in DOMAIN ver', Holds(v, n)' PROVE copy'[v].number = n
    BY <1>1, <1>2, <2>1, <2>2, <2>4 DEF Holds
  <2>5. ASSUME NEW u \in Txns, NEW v \in Txns, HasRow(u)', HasRow(v)',
               copy'[u].row.pk = copy'[v].row.pk
        PROVE  copy'[u].number = copy'[v].number
    <3>1. CASE u # t /\ v # t
      BY <1>0, <1>1, <1>2, <2>5, <3>1 DEF KeysName
    <3>2. CASE u = t \/ v = t
      BY <1>1, <1>2, <2>3, <2>5, <3>2
    <3> QED
      BY <3>1, <3>2
  <2> QED
    BY <2>4, <2>5 DEF KeysName
<1>7. PublishedDated'
  <2>1. ASSUME NEW n \in DOMAIN ver', ver'[n].status = "published"
        PROVE  ver'[n].dated \/ ver'[n].pk \in rivals'
    <3>1. CASE n \in DOMAIN ver /\ ver'[n] = ver[n]
      BY <1>0, <1>3, <2>1, <3>1 DEF PublishedDated
    <3>2. CASE pc[t] = "update" /\ n = copy[t].number /\ ver'[n] = copy[t].row
      BY <1>0, <1>3, <2>1, <3>2 DEF Dates
    <3> QED
      BY <2>1, <3>1, <3>2 DEF Writes
  <2> QED
    BY <2>1 DEF PublishedDated
<1>8. RivalsKnown'
  BY DEF RivalsKnown, Moves, RivalsGrow
<1>9. ASSUME NEW u \in Txns \ {t} PROVE Dates(u)'
  <2>1. ASSUME pc'[u] = "update", copy'[u].row.status = "published"
        PROVE  copy'[u].row.dated \/ copy'[u].row.pk \in rivals'
    BY <1>0, <1>1, <1>3, <2>1 DEF Dates
  <2>2. ASSUME pc'[u] = "previous", copy'[u].row.status = "published", NEW n \in DOMAIN ver',
               ver'[n].pk = copy'[u].row.pk, ver'[n].status = "published"
        PROVE  copy'[u].row.dated \/ copy'[u].row.pk \in rivals'
    <3>0. pc[u] = "previous" /\ HasRow(u) /\ copy'[u] = copy[u]
      BY <1>1, <2>2 DEF HasRow
    <3>1. CASE n \in DOMAIN ver /\ ver'[n] = ver[n]
      BY <1>0, <1>3, <2>2, <3>0, <3>1 DEF Dates
    <3>2. CASE ver'[n].pk = lastPk + 1
      BY <1>0, <1>k, <2>2, <3>0, <3>2 DEF Carries
    <3>3. CASE pc[t] = "update" /\ n = copy[t].number /\ ver'[n] = copy[t].row
      <4>1. Publishing(t) /\ Publishing(u) /\ copy[t].row.pk = copy[u].row.pk
        BY <2>2, <3>0, <3>3 DEF Publishing
      <4>2. copy[u].row.pk \in 1..lastPk
        BY <1>0, <3>0 DEF Carries
      <4>3. copy[u].row.pk \in Overlapping
        BY <4>1, <4>2 DEF Overlapping
      <4> QED
        BY <1>0, <1>3, <3>0, <4>3 DEF RivalsKnown
    <3> QED
      BY <3>1, <3>2, <3>3 DEF Writes
  <2> QED
    BY <2>1, <2>2 DEF Dates
<1>10. ASSUME NEW r, Against(r), r.settled PROVE Settled(r.number)' /\ ver'[r.number] = r.row
  <2>1. Settled(r.number) /\ ver[r.number] = r.row
    BY <1>10 DEF Against
  <2>2. r.number \in DOMAIN ver
    BY <2>1 DEF Settled
  <2> QED
    BY <1>4, <2>1, <2>2 DEF Frozen
<1>11. RecordsFit'
  <2>1. ASSUME NEW r \in records' PROVE Against(r)
    <3>1. CASE r \in records
      BY <1>0, <3>1, Zenon DEF RecordsFit
    <3>2. CASE r = copy[t] /\ pc[t] = "save record"
      <4>1. Against(copy[t])
        BY <1>0, <3>2, Zenon DEF RequestsFit
      <4> QED
        BY <3>2, <4>1 DEF Against
    <3> QED
      BY <2>1, <3>1, <3>2
  <2>2. ASSUME NEW r \in records' PROVE r.settled => Settled(r.number)' /\ ver'[r.number] = r.row
    BY <1>10, <2>1, <2>2
  <2> QED
    BY <2>2 DEF RecordsFit, Against
<1>12. RequestsFit'
  <2>1. ASSUME NEW u \in Txns \ {t}, pc'[u] = "save record" PROVE Against(copy[u])'
    <3>1. Against(copy[u]) /\ copy'[u] = copy[u]
      BY <1>0, <1>1, <2>1 DEF RequestsFit
    <3>2. copy[u].settled => Settled(copy[u].number)' /\ ver'[copy[u].number] = copy[u].row
      BY <1>10, <3>1
    <3> QED
      BY <3>1, <3>2 DEF Against
  <2> QED
    BY <2>1 DEF RequestsFit
<1> QED
  BY <1>4, <1>5, <1>6, <1>7, <1>8, <1>9, <1>11, <1>12 DEF VersionsInv

\* A statement that changes no row, after which t goes on.
LEMMA GoStep ==
  ASSUME VersionsInv, NEW t \in Txns, NEW stmt \in Places \ {"save record"}, NEW c \in Copy,
         pc' = [pc EXCEPT ![t] = stmt], copy' = [copy EXCEPT ![t] = c], kind' = kind,
         UNCHANGED dbvars, RivalsGrow,
         Carries(t)', Dates(t)', Reads(t), \A n \in DOMAIN ver : Settled(n) => ~Disturbs(t, n)'
  PROVE  VersionsInv' /\ Frozen
<1>1. Requests /\ Tables
  BY DEF VersionsInv
<1>2. Moves(t) /\ pc'[t] = stmt
  BY <1>1 DEF Moves, Requests
<1>3. ver' = ver /\ lastPk' = lastPk /\ lastPk \in Nat /\ records' = records
  BY <1>1 DEF dbvars, Tables
<1>4. Writes(t)
  <2>1. lastPk' >= lastPk
    BY <1>3, KeysStay
  <2> QED
    BY <1>3, <2>1 DEF Writes
<1>5. Tables'
  BY <1>1 DEF Tables, dbvars
<1>6. /\ pc' \in [Txns -> Places] /\ kind' \in [Txns -> AllKinds \cup {None}]
      /\ copy' \in [Txns -> Copy]
  BY <1>1 DEF Requests
<1>7. pc'[t] # "save record"
  BY <1>2
<1> QED
  BY <1>2, <1>3, <1>4, <1>5, <1>6, <1>7, StepKeeps

\* The last statement of a request.
LEMMA EndStep ==
  ASSUME VersionsInv, NEW t \in Txns, NEW how \in {"done", "failed"}, End(t, how),
         RivalsGrow, Tables', lastPk' >= lastPk,
         \A n \in DOMAIN ver' :
           \/ n \in DOMAIN ver /\ ver'[n] = ver[n]
           \/ /\ ver'[n].pk = lastPk + 1 /\ (ver'[n].status = "published" => ver'[n].dated)
           \/ pc[t] = "update" /\ n = copy[t].number /\ ver'[n] = copy[t].row,
         \A n \in DOMAIN ver : Settled(n) => n \in DOMAIN ver' /\ ver'[n] = ver[n],
         \/ records' = records
         \/ records' = records \cup {copy[t]} /\ pc[t] = "save record"
  PROVE  VersionsInv' /\ Frozen
<1>1. Requests
  BY DEF VersionsInv
<1>2. /\ pc' = [pc EXCEPT ![t] = how] /\ copy' = [copy EXCEPT ![t] = NoCopy] /\ kind' = kind
      /\ pc'[t] = how /\ Moves(t)
  BY <1>1 DEF End, Goto, Moves, Requests
<1>3. NoCopy \in Copy /\ how \in Places
  BY DEF NoCopy, Copy, Places
<1>4. /\ pc' \in [Txns -> Places] /\ kind' \in [Txns -> AllKinds \cup {None}]
      /\ copy' \in [Txns -> Copy]
  BY <1>1, <1>2, <1>3 DEF Requests
<1>5. ~HasRow(t)' /\ pc'[t] # "cascade" /\ pc'[t] # "save record"
  BY <1>2 DEF HasRow
<1>6. Carries(t)' /\ Dates(t)' /\ Reads(t)
  BY <1>2, <1>5 DEF Carries, Dates, Reads
<1>7. \A n : ~Disturbs(t, n)'
  BY <1>5 DEF Disturbs, Holds
<1>8. Writes(t)
  BY <1>7 DEF Writes
<1> QED
  BY <1>2, <1>4, <1>5, <1>6, <1>8, StepKeeps

\* A request that fails leaves the tables.
LEMMA AbortStep ==
  ASSUME VersionsInv, NEW t \in Txns, Abort(t), RivalsGrow
  PROVE  VersionsInv' /\ Frozen
<1>1. End(t, "failed") /\ UNCHANGED dbvars
  BY DEF Abort
<1>2. Tables /\ lastPk \in Nat
  BY DEF VersionsInv, Tables
<1>3. ver' = ver /\ lastPk' = lastPk /\ records' = records
  BY <1>1 DEF dbvars
<1>4. Tables'
  BY <1>1, <1>2 DEF Tables, dbvars
<1>5. lastPk' >= lastPk
  BY <1>2, <1>3
<1> QED
  BY <1>1, <1>3, <1>4, <1>5, EndStep

\* What a request of each kind has read when it arrives.
Arrives(k, n, row) ==
  /\ k = "post" => row \in Instance
  /\ k \in {"patch", "delete"} =>
       n \in DOMAIN ver /\ row \in Row /\ row.pk = ver[n].pk /\ ver[n].status = "draft"
  /\ k = "edit" =>
       /\ row \in Instance /\ row.status = "draft"
       /\ row.pk # None =>
            n \in DOMAIN ver /\ row \in Row /\ row.pk = ver[n].pk /\ ver[n].status = "draft"
  /\ k = "delete type" => DOMAIN ver = {}
  /\ k = "record" => n \in DOMAIN ver /\ row = ver[n]

\* The first statement of each kind.
Begins(k, stmt) ==
  <<k, stmt>> \in {<<"post", "number">>, <<"patch", "previous">>, <<"edit", "save type">>,
                  <<"publish", "save type">>, <<"new version", "save type">>,
                  <<"delete", "delete row">>, <<"record", "save record">>,
                  <<"delete type", "cascade">>}

\* A request arrives.
LEMMA BeginStep ==
  ASSUME VersionsInv, NEW t \in Txns, NEW k \in AllKinds,
         NEW n \in Numbers \cup {None}, NEW row \in Instance \cup {None},
         NEW stmt, Begins(k, stmt), Begin(t, k, n, row, stmt), Arrives(k, n, row),
         RivalsGrow
  PROVE  VersionsInv' /\ Frozen
<1> DEFINE c == [number |-> n, row |-> row, settled |-> Settled(n)]
<1>0. /\ stmt \in Places \ {"insert", "update", "idle", "done", "failed"}
      /\ stmt \in Statements[k]
      /\ stmt = "number" => k = "post"
      /\ stmt = "previous" => k = "patch"
      /\ stmt = "delete row" => k = "delete"
      /\ stmt = "save record" => k = "record"
      /\ stmt = "cascade" => k = "delete type"
      /\ k = "edit" => stmt = "save type"
  BY DEF Begins, Places, Statements, AllKinds
<1>1. /\ kind' = [kind EXCEPT ![t] = k] /\ copy' = [copy EXCEPT ![t] = c]
      /\ pc' = [pc EXCEPT ![t] = stmt] /\ UNCHANGED dbvars /\ Idle(t)
  BY DEF Begin, Goto
<1>2. Requests /\ Tables /\ KeysName
  BY DEF VersionsInv
<1>3. c \in Copy /\ c.number = n /\ c.row = row /\ c.settled = Settled(n)
  <2>1. Settled(n) \in BOOLEAN
    BY Zenon DEF Settled
  <2> QED
    BY <2>1 DEF Copy
<1> HIDE DEF c
<1>4. /\ kind'[t] = k /\ pc'[t] = stmt /\ Moves(t) /\ copy'[t] = c
  BY <1>1, <1>2 DEF Moves, Requests
<1>5. ver' = ver /\ lastPk' = lastPk /\ lastPk \in Nat /\ records' = records
  BY <1>1, <1>2 DEF dbvars, Tables
<1>6. HasRow(t)' =>
        /\ k \in {"patch", "delete", "edit"} /\ (k = "edit" => row.pk # None)
        /\ n \in DOMAIN ver /\ row \in Row /\ row.pk = ver[n].pk /\ ver[n].status = "draft"
  BY <1>0, <1>3, <1>4 DEF HasRow, Arrives
<1>7. Carries(t)'
  <2>1. stmt = "number" => row \in Instance
    BY <1>0 DEF Arrives
  <2>2. k = "edit" => row \in Instance /\ row.status = "draft"
    BY DEF Arrives
  <2>3. HasRow(t)' \/ stmt = "save record" => n \in Numbers /\ row \in Row
    BY <1>0, <1>2, <1>6 DEF Tables, Arrives
  <2>4. HasRow(t)' => row.pk \in 1..lastPk'
    BY <1>2, <1>5, <1>6 DEF Tables
  <2> QED
    BY <1>0, <1>3, <1>4, <2>1, <2>2, <2>3, <2>4 DEF Carries
<1>8. Dates(t)'
  <2>1. ASSUME stmt = "previous", NEW m \in DOMAIN ver, ver[m].pk = row.pk
        PROVE  ver[m].status = "draft"
    BY <1>0, <1>2, <2>1 DEF Arrives, Tables
  <2> QED
    BY <1>0, <1>3, <1>4, <1>5, <2>1 DEF Dates
<1>9. Reads(t)
  BY <1>3, <1>4, <1>5, <1>6 DEF Reads
<1>10. ASSUME NEW m \in DOMAIN ver, Settled(m) PROVE ~Disturbs(t, m)'
  <2>1. ver[m].status = "published"
    BY <1>10 DEF Settled
  <2>2. stmt # "cascade"
    BY <1>0, <1>10 DEF Arrives
  <2>3. ~Holds(t, m)'
    BY <1>2, <1>3, <1>4, <1>5, <1>6, <2>1 DEF Holds, Tables
  <2> QED
    BY <1>4, <2>2, <2>3 DEF Disturbs
<1>11. stmt = "save record" => Against(copy[t])'
  <2>1. SUFFICES ASSUME stmt = "save record", Settled(n) PROVE Settled(n)' /\ ver'[n] = row
    BY <1>3, <1>4 DEF Against
  <2>2. n \in DOMAIN ver /\ row = ver[n] /\ ~Disturbs(t, n)'
    BY <1>0, <1>10, <2>1 DEF Arrives
  <2>3. ASSUME NEW u \in Txns \ {t} PROVE ~Disturbs(u, n)'
    <3>1. ~Disturbs(u, n)
      BY <2>1 DEF Settled
    <3> QED
      BY <1>4, <1>5, <3>1 DEF Disturbs, Holds, HasRow, Moves
  <2>4. ver[n].status = "published"
    BY <2>1 DEF Settled
  <2> QED
    BY <1>5, <2>2, <2>3, <2>4 DEF Settled
<1>12. Writes(t)
  <2>1. lastPk' >= lastPk
    BY <1>5
  <2> QED
    BY <1>5, <1>10, <2>1 DEF Writes
<1>13. Tables'
  BY <1>1, <1>2 DEF Tables, dbvars
<1>14. /\ pc' \in [Txns -> Places] /\ kind' \in [Txns -> AllKinds \cup {None}]
       /\ copy' \in [Txns -> Copy]
  BY <1>0, <1>1, <1>2, <1>3 DEF Requests
<1> QED
  BY <1>4, <1>5, <1>7, <1>8, <1>9, <1>11, <1>12, <1>13, <1>14, StepKeeps

\* Every request, with what it reads when it arrives.
LEMMA ArriveStep ==
  ASSUME VersionsInv, NEW t \in Txns, Arrive(t), RivalsGrow
  PROVE  VersionsInv' /\ Frozen
<1>T. /\ Tables /\ \A n \in DOMAIN ver : ver[n] \in Row /\ n \in Numbers
      /\ \A r \in Row : r \in Instance
  BY DEF VersionsInv, Tables, Row, Instance
<1>B. \A k \in AllKinds : \A n \in Numbers \cup {None}, row \in Instance \cup {None} : \A stmt :
        Begins(k, stmt) /\ Begin(t, k, n, row, stmt) /\ Arrives(k, n, row) => VersionsInv' /\ Frozen
  BY BeginStep
<1>K. /\ AllKinds = {"post", "patch", "delete", "edit", "publish", "new version", "record", "delete type"}
      /\ Begins("post", "number") /\ Begins("patch", "previous") /\ Begins("edit", "save type")
      /\ Begins("publish", "save type") /\ Begins("new version", "save type")
      /\ Begins("delete", "delete row") /\ Begins("record", "save record")
      /\ Begins("delete type", "cascade")
  BY DEF AllKinds, Begins
<1>1. ASSUME NEW schema \in Schemas, NEW status \in Statuses, Post(t, schema, status)
      PROVE  VersionsInv' /\ Frozen
  <2> DEFINE row == [pk |-> None, status |-> status, schema |-> schema, dated |-> FALSE]
  <2>1. row \in Instance
    BY DEF Instance
  <2>2. Begin(t, "post", None, row, "number") /\ Arrives("post", None, row)
    BY <1>1, <2>1 DEF Post, Arrives
  <2> HIDE DEF row
  <2> QED
    BY <1>B, <1>K, <2>1, <2>2
<1>2. ASSUME NEW n \in Numbers, NEW schema \in Schemas, NEW status \in Statuses,
             Patch(t, n, schema, status)
      PROVE  VersionsInv' /\ Frozen
  <2> DEFINE row == [ver[n] EXCEPT !.schema = schema, !.status = status]
  <2>1. n \in DOMAIN ver /\ ver[n].status = "draft" /\ Begin(t, "patch", n, row, "previous")
    BY <1>2 DEF Patch
  <2>2. row \in Row /\ row \in Instance /\ row.pk = ver[n].pk
    BY <1>T, <2>1 DEF Row
  <2> HIDE DEF row
  <2>3. Arrives("patch", n, row)
    BY <2>1, <2>2 DEF Arrives
  <2> QED
    BY <1>B, <1>K, <2>1, <2>2, <2>3
<1>3. ASSUME NEW n \in Numbers, Delete(t, n) PROVE VersionsInv' /\ Frozen
  <2>1. /\ Begin(t, "delete", n, ver[n], "delete row") /\ Arrives("delete", n, ver[n])
        /\ ver[n] \in Instance
    BY <1>3, <1>T DEF Delete, Arrives
  <2> QED
    BY <1>B, <1>K, <2>1
<1>4. ASSUME NEW n \in Numbers, Validate(t, n) PROVE VersionsInv' /\ Frozen
  <2>1. /\ Begin(t, "record", n, ver[n], "save record") /\ Arrives("record", n, ver[n])
        /\ ver[n] \in Instance
    BY <1>4, <1>T DEF Validate, Arrives
  <2> QED
    BY <1>B, <1>K, <2>1
<1>5. ASSUME NEW schema \in Schemas, Edit(t, schema) PROVE VersionsInv' /\ Frozen
  <2>1. CASE DOMAIN ver # {}
    <3> DEFINE row == [ver[LastNumber] EXCEPT !.schema = schema]
    <3>1. /\ LastNumber \in DOMAIN ver /\ LastNumber \in Numbers
          /\ ver[LastNumber].status = "draft" /\ Begin(t, "edit", LastNumber, row, "save type")
      BY <1>5, <1>T, <2>1, LastIsThere DEF Edit
    <3>2. row \in Row /\ row \in Instance /\ row.pk = ver[LastNumber].pk /\ row.status = "draft"
      BY <1>T, <3>1 DEF Row
    <3> HIDE DEF row
    <3>3. Arrives("edit", LastNumber, row)
      BY <3>1, <3>2 DEF Arrives
    <3> QED
      BY <1>B, <1>K, <3>1, <3>2, <3>3
  <2>2. CASE DOMAIN ver = {}
    <3> DEFINE row == [pk |-> None, status |-> "draft", schema |-> schema, dated |-> FALSE]
    <3>1. row \in Instance
      BY DEF Instance, Statuses
    <3>2. Begin(t, "edit", None, row, "save type") /\ Arrives("edit", None, row)
      BY <1>5, <2>2, <3>1 DEF Edit, Arrives
    <3> HIDE DEF row
    <3> QED
      BY <1>B, <1>K, <3>1, <3>2
  <2> QED
    BY <2>1, <2>2
<1>6. CASE Publish(t) \/ NewVersion(t)
  <2>1. /\ Begin(t, "publish", None, None, "save type") \/ Begin(t, "new version", None, None, "save type")
        /\ Arrives("publish", None, None) /\ Arrives("new version", None, None)
    BY <1>6 DEF Publish, NewVersion, Arrives
  <2> QED
    BY <1>B, <1>K, <2>1
<1>7. CASE DeleteType(t)
  <2>1. Begin(t, "delete type", None, None, "cascade") /\ Arrives("delete type", None, None)
    BY <1>7 DEF DeleteType, Arrives
  <2> QED
    BY <1>B, <1>K, <2>1
<1> QED
  BY <1>1, <1>2, <1>3, <1>4, <1>5, <1>6, <1>7 DEF Arrive

\* A request at a statement is one that has this statement.
LEMMA AtStatement ==
  ASSUME VersionsInv, NEW t \in Txns, pc[t] \in Places \ {"idle", "done", "failed"}
  PROVE  /\ kind[t] \in AllKinds
         /\ pc[t] = "save type" => kind[t] \in AdminKinds
         /\ pc[t] = "read last" => kind[t] \in {"publish", "new version"}
         /\ pc[t] \in {"number", "insert"} => kind[t] \in {"post", "new version", "edit"}
         /\ pc[t] \in {"previous", "update"} => kind[t] \in {"patch", "edit", "publish"}
<1>1. Carries(t)
  BY DEF VersionsInv, Requests
<1>2. kind[t] \in AllKinds /\ pc[t] \in Statements[kind[t]]
  BY <1>1 DEF Carries
<1> QED
  BY <1>1, <1>2 DEF Statements, AllKinds, AdminKinds

\* A request of the admin gets the object type when no other has it.
LEMMA SaveTypeStep ==
  ASSUME VersionsInv, NEW t \in Txns, SaveType(t), RivalsGrow
  PROVE  VersionsInv' /\ Frozen
<1> DEFINE stmt == IF kind[t] # "edit" THEN "read last"
                   ELSE IF copy[t].row.pk = None THEN "number" ELSE "previous"
<1>1. /\ kind[t] \in AdminKinds /\ pc[t] = "save type"
      /\ Carries(t) /\ Requests /\ copy[t] \in Copy /\ KeysName /\ Tables
  BY AtStatement DEF SaveType, Places, VersionsInv, Requests
<1>2. /\ pc' = [pc EXCEPT ![t] = stmt] /\ copy' = [copy EXCEPT ![t] = copy[t]] /\ kind' = kind
      /\ UNCHANGED dbvars /\ pc'[t] = stmt /\ copy' = copy
  BY <1>1 DEF SaveType, Goto, Requests
<1>3. stmt \in Places \ {"save record"} /\ stmt \in Statements[kind[t]]
  BY <1>1 DEF Places, Statements, AdminKinds, AllKinds
<1>s. /\ stmt = "previous" => kind[t] = "edit" /\ copy[t].row.pk # None
      /\ stmt \in {"read last", "number", "previous"}
  OBVIOUS
<1> HIDE DEF stmt
<1>4. HasRow(t)' => kind[t] = "edit" /\ stmt = "previous" /\ HasRow(t)
  <2>1. HasRow(t)' => stmt = "previous"
    BY <1>2, <1>s DEF HasRow
  <2> QED
    BY <1>1, <1>s, <2>1 DEF HasRow
<1>5. ver' = ver /\ lastPk' = lastPk
  BY <1>2 DEF dbvars
<1>6. Carries(t)'
  <2>1. stmt = "number" => copy[t].row \in Instance
    <3>1. stmt = "number" => kind[t] = "edit"
      BY DEF stmt
    <3> QED
      BY <1>1, <3>1 DEF Carries
  <2> QED
    BY <1>1, <1>2, <1>3, <1>4, <1>5, <1>s, <2>1 DEF Carries
<1>7. Dates(t)'
  <2>1. stmt = "previous" => copy[t].row.status = "draft"
    BY <1>1, <1>s DEF Carries, HasRow
  <2> QED
    BY <1>2, <1>s, <2>1 DEF Dates
<1>8. Reads(t)
  BY <1>2, <1>4, <1>5 DEF Reads
<1>9. ASSUME NEW n \in DOMAIN ver, Settled(n) PROVE ~Disturbs(t, n)'
  <2>1. ~Disturbs(t, n)
    BY <1>9 DEF Settled
  <2> QED
    BY <1>1, <1>2, <1>4, <1>5, <1>s, <2>1 DEF Disturbs, Holds
<1> QED
  BY <1>1, <1>2, <1>3, <1>6, <1>7, <1>8, <1>9, GoStep

\* publish() and add_new_version() change the last version in memory.
LEMMA ReadLastStep ==
  ASSUME VersionsInv, NEW t \in Txns, ReadLast(t), RivalsGrow
  PROVE  VersionsInv' /\ Frozen
<1> DEFINE last == ver[LastNumber]
<1>1. /\ kind[t] \in {"publish", "new version"} /\ pc[t] = "read last"
      /\ UNCHANGED <<dbvars, kind>> /\ Requests /\ Tables /\ PublishedDated
  BY AtStatement DEF ReadLast, Places, VersionsInv
<1>2. LastNumber \in DOMAIN ver /\ LastNumber \in Numbers /\ last \in Row
      /\ last.pk \in 1..lastPk
  BY <1>1, LastIsThere DEF ReadLast, Tables
<1>V. ver' = ver /\ lastPk' = lastPk
  BY <1>1 DEF dbvars
<1>3. CASE kind[t] = "publish"
  <2> DEFINE row == [last EXCEPT !.status = "published"]
             c == [number |-> LastNumber, settled |-> FALSE, row |-> row]
  <2>1. /\ row \in Row /\ row \in Instance /\ row.pk = last.pk /\ row.status = "published"
        /\ row.dated = last.dated
        /\ last.status = "published" => row = last
    BY <1>2 DEF Row, Instance, Statuses
  <2>2. c \in Copy /\ c.row = row /\ c.number = LastNumber
    BY <1>2, <2>1 DEF Copy
  <2>3. /\ copy' = [copy EXCEPT ![t] = c] /\ pc' = [pc EXCEPT ![t] = "previous"]
        /\ kind' = kind /\ UNCHANGED dbvars
    BY <1>1, <1>3 DEF ReadLast, Goto
  <2>4. "previous" \in Places \ {"save record"} /\ "previous" \in Statements[kind[t]]
    BY <1>3 DEF Places, Statements, AllKinds
  <2> HIDE DEF c, row
  <2>5. pc'[t] = "previous" /\ copy'[t] = c
    BY <1>1, <2>3 DEF Requests
  <2>6. Carries(t)'
    BY <1>2, <1>3, <1>V, <2>1, <2>2, <2>3, <2>4, <2>5 DEF Carries, AllKinds
  <2>7. Dates(t)'
    <3>1. ASSUME NEW n \in DOMAIN ver, ver[n].pk = row.pk, ver[n].status = "published"
          PROVE  row.dated \/ row.pk \in rivals
      <4>1. n = LastNumber
        BY <1>1, <1>2, <2>1, <3>1 DEF Tables
      <4>2. last.dated \/ last.pk \in rivals
        BY <1>1, <3>1, <4>1, Zenon DEF PublishedDated
      <4> QED
        BY <2>1, <4>2
    <3>2. \A r \in rivals : r \in rivals'
      BY DEF RivalsGrow
    <3> QED
      BY <1>V, <2>2, <2>5, <3>1, <3>2 DEF Dates
  <2>8. Reads(t)
    BY <1>2, <1>V, <2>1, <2>2, <2>5 DEF Reads
  <2>9. ASSUME NEW n \in DOMAIN ver, Settled(n) PROVE ~Disturbs(t, n)'
    <3>1. ver[n].status = "published"
      BY <2>9 DEF Settled
    <3>2. ver[n].pk = row.pk => n = LastNumber
      BY <1>1, <1>2, <2>1 DEF Tables
    <3> QED
      BY <1>V, <2>1, <2>2, <2>5, <3>1, <3>2 DEF Disturbs, Holds
  <2> QED
    BY <2>2, <2>3, <2>4, <2>6, <2>7, <2>8, <2>9, GoStep
<1>4. CASE kind[t] = "new version"
  <2> DEFINE row == [last EXCEPT !.pk = None, !.status = "draft"]
             c == [number |-> None, settled |-> FALSE, row |-> row]
  <2>1. row \in Instance
    BY <1>2 DEF Row, Instance, Statuses
  <2>2. c \in Copy /\ c.row = row
    BY <1>2, <2>1 DEF Copy
  <2>3. /\ copy' = [copy EXCEPT ![t] = c] /\ pc' = [pc EXCEPT ![t] = "number"]
        /\ kind' = kind /\ UNCHANGED dbvars
    BY <1>1, <1>4 DEF ReadLast, Goto
  <2>4. "number" \in Places \ {"save record"} /\ "number" \in Statements[kind[t]]
    BY <1>4 DEF Places, Statements, AllKinds
  <2> HIDE DEF c, row
  <2>5. pc'[t] = "number" /\ copy'[t] = c
    BY <1>1, <2>3 DEF Requests
  <2>6. ~HasRow(t)'
    BY <2>5 DEF HasRow
  <2>7. Carries(t)' /\ Dates(t)' /\ Reads(t)
    BY <1>4, <2>1, <2>2, <2>3, <2>4, <2>5, <2>6 DEF Carries, AllKinds, Dates, Reads
  <2>8. \A n : ~Disturbs(t, n)'
    BY <2>5, <2>6 DEF Disturbs, Holds
  <2> QED
    BY <2>2, <2>3, <2>4, <2>7, <2>8, GoStep
<1> QED
  BY <1>1, <1>3, <1>4

LEMMA NumberAbove == 1 \in Nat \ {0} /\ \A i \in 1..MaxVersion : i + 1 \in Nat \ {0}
  BY MaxVersionAssumption

\* The number is taken when it is in the range.
LEMMA NumberStep ==
  ASSUME VersionsInv, NEW t \in Txns, Number(t), RivalsGrow
  PROVE  VersionsInv' /\ Frozen
<1> DEFINE n == IF DOMAIN ver = {} THEN 1 ELSE LastNumber + 1
           c == [copy[t] EXCEPT !.number = n]
<1>1. kind[t] \in {"post", "new version", "edit"} /\ pc[t] = "number" /\ Requests /\ Tables
  BY AtStatement DEF Number, Places, VersionsInv
<1>2. CASE n > MaxVersion
  BY <1>1, <1>2, AbortStep DEF Number
<1>3. CASE ~(n > MaxVersion)
  <2>1. n \in Numbers
    <3>1. DOMAIN ver # {} => LastNumber \in 1..MaxVersion
      BY <1>1, LastIsThere DEF Numbers
    <3>2. n \in Nat \ {0}
      BY <3>1, NumberAbove
    <3> QED
      BY <1>3, <3>2, MaxVersionAssumption DEF Numbers
  <2>2. copy[t] \in Copy /\ copy[t].row \in Instance
    BY <1>1 DEF Carries, Requests
  <2>3. /\ copy' = [copy EXCEPT ![t] = c] /\ pc' = [pc EXCEPT ![t] = "insert"]
        /\ kind' = kind /\ UNCHANGED dbvars
    BY <1>3 DEF Number, Goto
  <2>4. "insert" \in Places \ {"save record"} /\ "insert" \in Statements[kind[t]]
    BY <1>1 DEF Places, Statements, AllKinds
  <2> HIDE DEF n
  <2>5. c \in Copy /\ c.row \in Instance /\ c.number \in Numbers
    BY <2>1, <2>2 DEF Copy
  <2> HIDE DEF c
  <2>6. pc'[t] = "insert" /\ copy'[t] = c
    BY <1>1, <2>3 DEF Requests
  <2>7. ~HasRow(t)'
    BY <2>6 DEF HasRow
  <2>8. Carries(t)' /\ Dates(t)' /\ Reads(t)
    BY <1>1, <2>3, <2>4, <2>5, <2>6, <2>7 DEF Carries, AllKinds, Dates, Reads
  <2>9. \A m : ~Disturbs(t, m)'
    BY <2>6, <2>7 DEF Disturbs, Holds
  <2> QED
    BY <2>3, <2>4, <2>5, <2>8, <2>9, GoStep
<1> QED
  BY <1>2, <1>3

\* Without a rival, the date of a version that becomes published is set.
LEMMA PreviousStep ==
  ASSUME VersionsInv, NEW t \in Txns, Previous(t), RivalsGrow
  PROVE  VersionsInv' /\ Frozen
<1> DEFINE becomes == /\ copy[t].row.status = "published"
                      /\ \A n \in Found(t) : ver[n].status # "published"
           c == [copy[t] EXCEPT !.row.dated = @ \/ becomes]
<1>1. /\ kind[t] \in {"patch", "edit", "publish"} /\ pc[t] = "previous" /\ HasRow(t)
      /\ Requests /\ Tables /\ Carries(t) /\ Dates(t)
  BY AtStatement DEF Previous, Places, HasRow, VersionsInv, Requests
<1>2. CASE Found(t) = {}
  BY <1>2, AbortStep DEF Previous
<1>3. CASE Found(t) # {}
  <2>1. copy[t].number \in Numbers /\ copy[t].row \in Row /\ copy[t].row.pk \in 1..lastPk /\ copy[t] \in Copy
    BY <1>1 DEF Carries, Requests
  <2>2. /\ copy' = [copy EXCEPT ![t] = c] /\ pc' = [pc EXCEPT ![t] = "update"]
        /\ kind' = kind /\ UNCHANGED dbvars
    BY <1>3, <2>1 DEF Previous, Goto
  <2>3. /\ c.number = copy[t].number /\ c.settled = copy[t].settled
        /\ c.row = [copy[t].row EXCEPT !.dated = copy[t].row.dated \/ becomes]
    BY <2>1 DEF Copy
  <2>4. PICK d \in BOOLEAN : d = (copy[t].row.dated \/ becomes)
    BY Zenon
  <2>5. /\ c.row \in Row /\ c.row.pk = copy[t].row.pk /\ c.row.status = copy[t].row.status
        /\ c.row.schema = copy[t].row.schema /\ c.row.dated = d
    <3>1. c.row = [copy[t].row EXCEPT !.dated = d]
      BY <2>3, <2>4
    <3> HIDE DEF c, becomes
    <3> QED
      BY <2>1, <3>1 DEF Row
  <2>6. c \in Copy
    BY <2>1, <2>3, <2>5 DEF Copy, Row, Instance
  <2>7. "update" \in Places \ {"save record"} /\ "update" \in Statements[kind[t]]
    BY <1>1 DEF Places, Statements, AllKinds
  <2>8. \A n \in DOMAIN ver : ver[n].pk = copy[t].row.pk => n \in Found(t)
    BY DEF Found
  <2>9. c.row.status = "published" => c.row.dated \/ c.row.pk \in rivals
    <3> SUFFICES ASSUME copy[t].row.status = "published", ~becomes
                 PROVE  copy[t].row.dated \/ copy[t].row.pk \in rivals
      BY <2>4, <2>5
    <3>1. PICK n \in DOMAIN ver : ver[n].pk = copy[t].row.pk /\ ver[n].status = "published"
      BY DEF Found
    <3> QED
      BY <1>1, <3>1 DEF Dates
  <2>10. ASSUME NEW n \in DOMAIN ver, copy[t].row.pk = ver[n].pk, copy[t].row = ver[n],
                ver[n].status = "published"
         PROVE  c.row = ver[n]
    <3>1. ~becomes
      BY <2>8, <2>10
    <3>2. copy[t].row.dated \in BOOLEAN /\ (copy[t].row.dated \/ becomes) = copy[t].row.dated
      BY <2>1, <3>1 DEF Row
    <3> QED
      BY <2>1, <2>3, <2>10, <3>2 DEF Row
  <2> HIDE DEF c, becomes
  <2>11. pc'[t] = "update" /\ copy'[t] = c
    BY <1>1, <2>2 DEF Requests
  <2>12. ver' = ver /\ lastPk' = lastPk
    BY <2>2 DEF dbvars
  <2>13. Carries(t)'
    BY <1>1, <2>1, <2>2, <2>3, <2>5, <2>7, <2>11, <2>12 DEF Carries
  <2>14. Dates(t)'
    BY <2>9, <2>11 DEF Dates, RivalsGrow
  <2>15. Reads(t)
    BY <1>1, <2>3, <2>5, <2>11, <2>12 DEF Reads
  <2>16. ASSUME NEW n \in DOMAIN ver, Settled(n) PROVE ~Disturbs(t, n)'
    <3>1. ~Disturbs(t, n) /\ ver[n].status = "published"
      BY <2>16 DEF Settled
    <3>2. copy[t].row.pk = ver[n].pk => copy[t].row = ver[n]
      BY <1>1, <3>1 DEF Disturbs, Holds
    <3> QED
      BY <2>5, <2>10, <2>11, <2>12, <3>1, <3>2 DEF Disturbs, Holds
  <2> QED
    BY <2>2, <2>6, <2>7, <2>13, <2>14, <2>15, <2>16, GoStep
<1> QED
  BY <1>2, <1>3

\* A version is added under a number that is free.
LEMMA InsertStep ==
  ASSUME VersionsInv, NEW t \in Txns, Insert(t), RivalsGrow
  PROVE  VersionsInv' /\ Frozen
<1> DEFINE n == copy[t].number
           row == copy[t].row
           r == [row EXCEPT !.pk = lastPk + 1, !.dated = row.dated \/ row.status = "published"]
<1>1. pc[t] = "insert" /\ Tables /\ row \in Instance /\ n \in Numbers
  BY DEF Insert, VersionsInv, Requests, Carries
<1>2. CASE n \in DOMAIN ver \/ ~alive
  BY <1>2, AbortStep DEF Insert
<1>3. CASE ~(n \in DOMAIN ver \/ ~alive)
  <2>1. lastPk \in Nat
    BY <1>1 DEF Tables
  <2>2. PICK d \in BOOLEAN : d = (row.dated \/ row.status = "published")
    BY Zenon
  <2>3. /\ r \in Row /\ r.pk = lastPk + 1 /\ r.status = row.status
        /\ r.status = "published" => r.dated
    <3>1. r = [row EXCEPT !.pk = lastPk + 1, !.dated = d]
      BY <2>2
    <3> HIDE DEF r, row
    <3>2. r \in Row /\ r.pk = lastPk + 1 /\ r.status = row.status /\ r.dated = d
      <4>1. /\ row.status \in Statuses /\ row.schema \in Schemas
            /\ r = [pk |-> lastPk + 1, status |-> row.status, schema |-> row.schema, dated |-> d]
        BY <1>1, <3>1 DEF Instance
      <4> QED
        BY <2>1, <4>1 DEF Row
    <3> QED
      BY <2>2, <3>2
  <2>4. /\ ver' = With(ver, n, r) /\ lastPk' = lastPk + 1 /\ End(t, "done")
        /\ UNCHANGED <<alive, records>>
    BY <1>3 DEF Insert
  <2> HIDE DEF r
  <2>5. /\ DOMAIN ver' = DOMAIN ver \cup {n} /\ ver'[n] = r
        /\ \A m \in DOMAIN ver : m # n /\ ver'[m] = ver[m]
    <3>1. /\ DOMAIN With(ver, n, r) = DOMAIN ver \cup {n} /\ With(ver, n, r)[n] = r
          /\ \A m \in DOMAIN ver : m # n => With(ver, n, r)[m] = ver[m]
      BY DEF With
    <3> QED
      BY <1>3, <2>4, <3>1
  <2>6. Tables'
    <3>1. \A m \in DOMAIN ver : ver[m] \in Row /\ ver[m].pk \in 1..lastPk
      BY <1>1 DEF Tables
    <3>2. \A m \in DOMAIN ver' : ver'[m] \in Row /\ ver'[m].pk \in 1..lastPk'
      BY <2>1, <2>3, <2>4, <2>5, <3>1
    <3>3. \A m, k \in DOMAIN ver' : ver'[m].pk = ver'[k].pk => m = k
      BY <1>1, <2>1, <2>3, <2>5, <3>1 DEF Tables
    <3> QED
      BY <1>1, <2>1, <2>4, <2>5, <3>2, <3>3 DEF Tables
  <2>7. lastPk' >= lastPk
    BY <2>1, <2>4
  <2>8. \A m \in DOMAIN ver' :
           \/ m \in DOMAIN ver /\ ver'[m] = ver[m]
           \/ /\ ver'[m].pk = lastPk + 1 /\ (ver'[m].status = "published" => ver'[m].dated)
           \/ pc[t] = "update" /\ m = copy[t].number /\ ver'[m] = copy[t].row
    BY <2>3, <2>5
  <2>9. \A m \in DOMAIN ver : Settled(m) => m \in DOMAIN ver' /\ ver'[m] = ver[m]
    BY <2>5
  <2> QED
    BY <2>4, <2>6, <2>7, <2>8, <2>9, EndStep
<1> QED
  BY <1>2, <1>3

\* A whole row is written: that of the version itself, if it is settled.
LEMMA UpdateStep ==
  ASSUME VersionsInv, NEW t \in Txns, Update(t), RivalsGrow
  PROVE  VersionsInv' /\ Frozen
<1> DEFINE n == copy[t].number
           row == copy[t].row
<1>1. /\ pc[t] = "update" /\ HasRow(t) /\ Tables /\ KeysName
      /\ n \in Numbers /\ row \in Row /\ row.pk \in 1..lastPk
  BY DEF Update, HasRow, VersionsInv, Requests, Carries
<1>2. CASE Found(t) = {} /\ (n \in DOMAIN ver \/ ~alive)
  BY <1>2, AbortStep DEF Update
<1>3. CASE ~(Found(t) = {} /\ (n \in DOMAIN ver \/ ~alive))
  <2>1. ver' = With(ver, n, row) /\ End(t, "done") /\ UNCHANGED <<alive, lastPk, records>>
    BY <1>3 DEF Update
  <2>2. \A m \in DOMAIN ver : ver[m].pk = row.pk => m = n
    BY <1>1 DEF KeysName, Holds
  <2>3. n \in DOMAIN ver => ver[n].pk = row.pk
    <3> SUFFICES ASSUME n \in DOMAIN ver PROVE ver[n].pk = row.pk
      OBVIOUS
    <3>1. PICK m \in DOMAIN ver : ver[m].pk = row.pk
      BY <1>3 DEF Found
    <3> QED
      BY <2>2, <3>1
  <2>4. /\ DOMAIN ver' = DOMAIN ver \cup {n} /\ ver'[n] = row
        /\ \A m \in DOMAIN ver : m # n => ver'[m] = ver[m]
    <3>1. /\ DOMAIN With(ver, n, row) = DOMAIN ver \cup {n} /\ With(ver, n, row)[n] = row
          /\ \A m \in DOMAIN ver : m # n => With(ver, n, row)[m] = ver[m]
      BY DEF With
    <3> QED
      BY <2>1, <3>1
  <2>5. Tables'
    <3>1. \A m \in DOMAIN ver' : ver'[m] \in Row /\ ver'[m].pk \in 1..lastPk'
      BY <1>1, <2>1, <2>4 DEF Tables
    <3>2. \A m, k \in DOMAIN ver' : ver'[m].pk = ver'[k].pk => m = k
      <4>1. \A m \in DOMAIN ver \ {n} : ver[m].pk # row.pk
        BY <2>2
      <4> QED
        BY <1>1, <2>4, <4>1 DEF Tables
    <3> QED
      BY <1>1, <2>1, <2>4, <3>1, <3>2 DEF Tables
  <2>6. lastPk' >= lastPk
    BY <1>1, <2>1, KeysStay DEF Tables
  <2>7. \A m \in DOMAIN ver' :
           \/ m \in DOMAIN ver /\ ver'[m] = ver[m]
           \/ /\ ver'[m].pk = lastPk + 1 /\ (ver'[m].status = "published" => ver'[m].dated)
           \/ pc[t] = "update" /\ m = copy[t].number /\ ver'[m] = copy[t].row
    BY <1>1, <2>4
  <2>8. ASSUME NEW m \in DOMAIN ver, Settled(m) PROVE m \in DOMAIN ver' /\ ver'[m] = ver[m]
    <3>1. CASE m # n
      BY <2>4, <3>1
    <3>2. CASE m = n
      <4>1. ~Disturbs(t, m)
        BY <2>8 DEF Settled
      <4>2. row = ver[m]
        BY <1>1, <2>3, <3>2, <4>1 DEF Disturbs, Holds
      <4> QED
        BY <2>4, <3>2, <4>2
    <3> QED
      BY <3>1, <3>2
  <2>9. records' = records
    BY <2>1
  <2> QED
    BY <2>1, <2>5, <2>6, <2>7, <2>8, <2>9, EndStep
<1> QED
  BY <1>2, <1>3

\* A row is removed that was a draft: no settled one.
LEMMA DeleteRowStep ==
  ASSUME VersionsInv, NEW t \in Txns, DeleteRow(t), RivalsGrow
  PROVE  VersionsInv' /\ Frozen
<1> DEFINE n == copy[t].number
<1>1. pc[t] = "delete row" /\ HasRow(t) /\ Tables /\ KeysName
  BY DEF DeleteRow, HasRow, VersionsInv
<1>2. /\ ver' = IF Found(t) = {} THEN ver ELSE Without(ver, n)
      /\ End(t, "done") /\ UNCHANGED <<alive, lastPk, records>>
  BY DEF DeleteRow
<1>3. /\ DOMAIN ver' \subseteq DOMAIN ver /\ \A m \in DOMAIN ver' : ver'[m] = ver[m]
  <2>1. DOMAIN Without(ver, n) = DOMAIN ver \ {n} /\ \A m \in DOMAIN ver \ {n} : Without(ver, n)[m] = ver[m]
    BY DEF Without
  <2> QED
    BY <1>2, <2>1
<1>4. ASSUME NEW m \in DOMAIN ver, Settled(m) PROVE m \in DOMAIN ver' /\ ver'[m] = ver[m]
  <2>1. ~Disturbs(t, m)
    BY <1>4 DEF Settled
  <2>2. ver[m].pk # copy[t].row.pk
    BY <1>1, <2>1 DEF Disturbs, Holds
  <2>3. CASE Found(t) = {}
    BY <1>2, <2>3
  <2>4. CASE Found(t) # {}
    <3>1. PICK k \in DOMAIN ver : ver[k].pk = copy[t].row.pk
      BY <2>4 DEF Found
    <3>2. k = n /\ m # n
      BY <1>1, <2>2, <3>1 DEF KeysName, Holds
    <3>3. ver' = [j \in DOMAIN ver \ {n} |-> ver[j]]
      BY <1>2, <2>4 DEF Without
    <3> QED
      BY <3>2, <3>3
  <2> QED
    BY <2>3, <2>4
<1>5. Tables'
  BY <1>1, <1>2, <1>3 DEF Tables
<1>6. lastPk' >= lastPk
  BY <1>1, <1>2, KeysStay DEF Tables
<1> QED
  BY <1>2, <1>3, <1>4, <1>5, <1>6, EndStep

\* A record is saved with the version that it was validated against.
LEMMA SaveRecordStep ==
  ASSUME VersionsInv, NEW t \in Txns, SaveRecord(t), RivalsGrow
  PROVE  VersionsInv' /\ Frozen
<1>1. pc[t] = "save record" /\ Tables /\ Requests /\ Carries(t)
  BY DEF SaveRecord, VersionsInv, Requests
<1>2. CASE ~alive
  BY <1>2, AbortStep DEF SaveRecord
<1>3. CASE alive
  <2>1. records' = records \cup {copy[t]} /\ End(t, "done") /\ UNCHANGED <<alive, ver, lastPk>>
    BY <1>3 DEF SaveRecord
  <2>2. copy[t] \in [number : Numbers, row : Row, settled : BOOLEAN]
    BY <1>1 DEF Carries, Requests, Copy
  <2>3. Tables'
    BY <1>1, <2>1, <2>2 DEF Tables
  <2>4. lastPk' >= lastPk
    BY <1>1, <2>1, KeysStay DEF Tables
  <2> QED
    BY <1>1, <2>1, <2>3, <2>4, EndStep
<1> QED
  BY <1>2, <1>3

\* The object type goes: no version is settled meanwhile.
LEMMA CascadeStep ==
  ASSUME VersionsInv, NEW t \in Txns, Cascade(t), RivalsGrow
  PROVE  VersionsInv' /\ Frozen
<1>1. pc[t] = "cascade" /\ Tables
  BY DEF Cascade, VersionsInv
<1>2. CASE records # {}
  BY <1>2, AbortStep DEF Cascade
<1>3. CASE records = {}
  <2>1. /\ alive' = FALSE /\ ver' = [n \in {} |-> None] /\ End(t, "done")
        /\ UNCHANGED <<lastPk, records>>
    BY <1>3 DEF Cascade
  <2>2. Tables'
    BY <1>1, <2>1 DEF Tables
  <2>3. lastPk' >= lastPk
    BY <1>1, <2>1, KeysStay DEF Tables
  <2>4. \A m \in DOMAIN ver : ~Settled(m)
    BY <1>1 DEF Settled, Disturbs
  <2> QED
    BY <2>1, <2>2, <2>3, <2>4, EndStep
<1> QED
  BY <1>2, <1>3

\* A draft, and no request.
LEMMA VersionsInit == Init => VersionsInv
<1> SUFFICES ASSUME Init PROVE VersionsInv
  OBVIOUS
<1>1. DOMAIN ver = {1} /\ ver[1] \in [pk : {1}, status : {"draft"}, schema : Schemas, dated : {FALSE}]
  BY DEF Init
<1>2. ver[1] \in Row /\ ver[1].pk = 1 /\ ver[1].status = "draft"
  <2>1. PICK r \in [pk : {1}, status : {"draft"}, schema : Schemas, dated : {FALSE}] : ver[1] = r
    BY <1>1
  <2>2. /\ r.pk = 1 /\ r.status = "draft" /\ r.schema \in Schemas
        /\ r = [pk |-> r.pk, status |-> r.status, schema |-> r.schema, dated |-> r.dated]
    OBVIOUS
  <2>3. r.dated \in BOOLEAN
    BY Zenon
  <2>4. r.pk \in Nat /\ r.status \in Statuses
    BY <2>2 DEF Statuses
  <2>5. \A pk, status, schema, dated :
            pk \in Nat /\ status \in Statuses /\ schema \in Schemas /\ dated \in BOOLEAN =>
              [pk |-> pk, status |-> status, schema |-> schema, dated |-> dated] \in Row
    BY Zenon DEF Row
  <2>6. r \in Row
    <3>1. [pk |-> r.pk, status |-> r.status, schema |-> r.schema, dated |-> r.dated] \in Row
      BY <2>2, <2>3, <2>4, <2>5, ZenonT(60)
    <3> QED
      BY <2>2, <3>1
  <2> QED
    BY <2>1, <2>2, <2>6
<1>3. Tables
  BY <1>1, <1>2, MaxVersionAssumption DEF Init, Tables, Numbers
<1>4. \A t \in Txns : pc[t] = "idle" /\ ~HasRow(t)
  BY DEF Init, HasRow
<1>5. NoCopy \in Copy
  BY DEF NoCopy, Copy
<1>6. Requests
  BY <1>4, <1>5 DEF Init, Requests, Carries, Places
<1>7. KeysName /\ \A t \in Txns : Dates(t)
  BY <1>4 DEF KeysName, Holds, Dates
<1>8. PublishedDated /\ RecordsFit /\ RequestsFit
  BY <1>1, <1>2, <1>4 DEF Init, PublishedDated, RecordsFit, RequestsFit
<1>9. RivalsKnown
  BY <1>4 DEF RivalsKnown, Overlapping, Publishing
<1> QED
  BY <1>3, <1>6, <1>7, <1>8, <1>9 DEF VersionsInv

-----------------------------------------------------------------------------
(* The theorems. *)

\* A step that changes nothing.
LEMMA Stutter ==
  ASSUME VersionsInv, UNCHANGED vars
  PROVE  VersionsInv' /\ Frozen
<1>1. /\ alive' = alive /\ ver' = ver /\ lastPk' = lastPk /\ records' = records
      /\ pc' = pc /\ kind' = kind /\ copy' = copy /\ rivals' = rivals
  BY DEF vars
<1>2. \A t : HasRow(t)' <=> HasRow(t)
  BY <1>1 DEF HasRow
<1>3. \A t, n : Disturbs(t, n)' <=> Disturbs(t, n)
  BY <1>1, <1>2 DEF Disturbs, Holds
<1>4. \A n : Settled(n)' <=> Settled(n)
  BY <1>1, <1>3 DEF Settled
<1>5. Tables' /\ PublishedDated'
  BY <1>1 DEF VersionsInv, Tables, PublishedDated
<1>6. Requests'
  <2>1. \A t \in Txns : Carries(t)'
    BY <1>1, <1>2 DEF VersionsInv, Requests, Carries
  <2> QED
    BY <1>1, <2>1 DEF VersionsInv, Requests
<1>7. KeysName'
  BY <1>1, <1>2 DEF VersionsInv, KeysName, Holds
<1>8. \A t \in Txns : Dates(t)'
  BY <1>1 DEF VersionsInv, Dates
<1>9. RivalsKnown'
  BY <1>1 DEF VersionsInv, RivalsKnown, Overlapping, Publishing
<1>10. \A r : Against(r) => (r.settled => Settled(r.number)' /\ ver'[r.number] = r.row)
  BY <1>1, <1>4 DEF Against
<1>11. RecordsFit' /\ RequestsFit'
  BY <1>1, <1>10 DEF VersionsInv, RecordsFit, RequestsFit, Against
<1> QED
  BY <1>1, <1>4, <1>5, <1>6, <1>7, <1>8, <1>9, <1>11 DEF VersionsInv, Frozen

\* Every step keeps the invariant, and the settled versions.
LEMMA VersionsNext ==
  ASSUME VersionsInv, [Next]_vars
  PROVE  VersionsInv' /\ Frozen
<1>1. CASE UNCHANGED vars
  BY <1>1, Stutter
<1>2. CASE Next
  <2>1. RivalsGrow /\ \E t \in Txns : Arrive(t) \/ Step(t) \/ Fail(t)
    BY <1>2 DEF Next, RivalsGrow
  <2>2. PICK t \in Txns : Arrive(t) \/ Step(t) \/ Fail(t)
    BY <2>1
  <2>3. CASE Arrive(t)
    BY <2>1, <2>3, ArriveStep
  <2>4. CASE Step(t)
    BY <2>1, <2>4, SaveTypeStep, ReadLastStep, NumberStep, InsertStep, PreviousStep, UpdateStep,
       DeleteRowStep, SaveRecordStep, CascadeStep DEF Step
  <2>5. CASE Fail(t)
    BY <2>1, <2>5, AbortStep DEF Fail
  <2> QED
    BY <2>2, <2>3, <2>4, <2>5
<1> QED
  BY <1>1, <1>2

\* The invariant: a primary key tells the number of a version, rivals are known, and the
\* versions that settled records name are settled.
THEOREM VersionsInvariant == Spec => []VersionsInv
<1>1. VersionsInv /\ [Next]_vars => VersionsInv'
  BY VersionsNext
<1> QED
  BY <1>1, VersionsInit, PTL DEF Spec

\* A published version never changes and never goes any more, once the requests that read
\* it before have ended, whatever is posted, changed, published or destroyed then.
THEOREM FrozenOncePublished == Spec => PublishedFrozen
<1>1. VersionsInv /\ [Next]_vars =>
        [\A n \in DOMAIN ver :
           Settled(n) => /\ n \in DOMAIN ver' /\ ver'[n] = ver[n]
                         /\ Settled(n)']_vars
  BY VersionsNext DEF Frozen
<1> QED
  BY <1>1, VersionsInvariant, PTL DEF Spec, PublishedFrozen

\* The rows of the versions have numbers and keys of their own, whatever the other
\* requests did since a request read.
THEOREM VersionsTypeOK == Spec => []TypeOK
<1>1. VersionsInv => TypeOK
  <2>1. ASSUME VersionsInv, NEW t \in Txns
        PROVE  kind[t] \in AllKinds \cup {None} /\ copy[t].number \in Numbers \cup {None}
    BY <2>1 DEF VersionsInv, Requests, Copy
  <2>2. VersionsInv => \A r \in records : r.number \in Numbers /\ r.row \in Row
    BY DEF VersionsInv, Tables
  <2> QED BY <2>1, <2>2 DEF VersionsInv, Tables, TypeOK
<1> QED
  BY <1>1, VersionsInvariant, PTL

\* A version that is published, by the API or in the admin, has the date of its
\* publication, unless two requests published it at the same time.
THEOREM DatedOncePublished == Spec => []PublishedDated
<1>1. VersionsInv => PublishedDated
  BY DEF VersionsInv
<1> QED
  BY <1>1, VersionsInvariant, PTL

\* A record that was validated against a settled version names that version, with the
\* schema that its data fits.
THEOREM FittingOncePublished == Spec => []PublishedFits
<1>1. VersionsInv => PublishedFits
  BY DEF VersionsInv, RecordsFit, Against, Settled, PublishedFits
<1> QED
  BY <1>1, VersionsInvariant, PTL
=============================================================================
