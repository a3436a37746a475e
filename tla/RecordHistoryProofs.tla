------------------------- MODULE RecordHistoryProofs -------------------------
(***************************************************************************)
(* Proofs about RecordHistory: that it keeps its types; that concurrent    *)
(* requests keep the records of an object a chain; and what it promises    *)
(* its clients from that: what ?date= shows, that saved records are kept,  *)
(* that a deleted object stays deleted, and that the transactions          *)
(* implement the append-only history of ObjectHistory.                     *)
(*                                                                         *)
(* But for the types the proofs assume Disciplined: HistoryChained does    *)
(* not hold without it.  HistoryInv is the inductive invariant; a run      *)
(* checks it as well.                                                      *)
(***************************************************************************)
EXTENDS RecordHistory, WellFoundedInduction, SequenceTheorems, TLAPS

-----------------------------------------------------------------------------
(* Sets of naturals.                                                          *)

\* A set of naturals has a least element.
LEMMA LeastNat ==
  ASSUME NEW T \in SUBSET Nat, T # {}
  PROVE  \E x \in T : \A y \in T : x <= y
<1> DEFINE R == OpToRel(<, Nat)
<1>1. \E x \in T : \A y \in T : ~ (<<y, x>> \in R)
  BY WFMin, NatLessThanWellFounded, Zenon
<1>2. PICK x \in T : \A y \in T : ~ (<<y, x>> \in R)
  BY <1>1, Zenon
<1>3. ASSUME NEW y \in T, y < x
      PROVE  FALSE
  <2>1. <<y, x>> \in R
    BY <1>3 DEF OpToRel
  <2> HIDE DEF R
  <2> QED BY <2>1, <1>2, Zenon
<1> QED BY <1>3

\* A bounded set of naturals has a greatest element.
LEMMA GreatestNat ==
  ASSUME NEW n \in Nat, NEW S \in SUBSET (0..n), S # {}
  PROVE  \E i \in S : \A j \in S : j <= i
<1>1. \E x \in {n - i : i \in S} : \A y \in {n - i : i \in S} : x <= y
  <2>1. {n - i : i \in S} \in SUBSET Nat /\ {n - i : i \in S} # {}
    <3>1. \A i \in S : i \in 0..n /\ n - i \in Nat
      OBVIOUS
    <3>2. {n - i : i \in S} \in SUBSET Nat
      BY <3>1
    <3>3. PICK i \in S : TRUE
      OBVIOUS
    <3>4. n - i \in {n - j : j \in S}
      BY <3>3
    <3> QED BY <3>2, <3>4
  <2> QED BY <2>1, LeastNat
<1> QED
  BY <1>1

-----------------------------------------------------------------------------
(* The types, and the control of a transaction. *)

Saving == {"test last", "read index", "read previous", "close previous", "insert"}
Deleting == {"collect", "delete rows", "object row", "delete"}

\* A transaction that has not started, or has ended, holds nothing.
Quiet(t) ==
  /\ ~Active(t) => upd[t] = NoRows /\ added[t] = 0
  /\ pc[t] # "close previous" => copy[t] = NoRows
  /\ pc[t] \in Deleting \cup {"save object"} => upd[t] = NoRows /\ added[t] = 0

\* What the statement a transaction is at says of its request.
Control(t) ==
  /\ ~Idle(t) => <<op[t].obj, op[t].kind>> \in Requests
  /\ pc[t] \in Deleting => op[t].kind = "delete"
  /\ pc[t] \in Saving => added[t] < Len(op[t].forms)
  /\ pc[t] = "commit" /\ added[t] = 0 => op[t].forms = <<>>
  /\ pc[t] \in {"read previous", "close previous", "insert"} => idx[t] \in Indexes

\* The types, and what the place of every transaction says of it.
TypeInv == TypeOK /\ \A t \in Txns : Quiet(t) /\ Control(t)

-----------------------------------------------------------------------------
(* Rows and their numbers. *)

\* A bounded set of naturals has a greatest element, and MaxOf is that element.
LEMMA MaxExists ==
  ASSUME NEW n \in Nat, NEW S \in SUBSET (0..n), S # {}
  PROVE  MaxOf(S) \in S /\ \A j \in S : j <= MaxOf(S)
BY GreatestNat DEF MaxOf

\* The last of a nonempty set of rows.
LEMMA LastOfRows ==
  ASSUME NEW rows, IsRows(rows), DOMAIN rows # {}
  PROVE  /\ LastIndex(rows) \in DOMAIN rows
         /\ LastIndex(rows) \in Indexes
         /\ \A j \in DOMAIN rows : j <= LastIndex(rows)
BY DEF IsRows, LastIndex, MaxOf

LEMMA NoRowsIsRows == IsRows(NoRows) /\ DOMAIN NoRows = {}
BY DEF IsRows, NoRows

\* One row is a set of rows.
LEMMA OneRowIsRows ==
  ASSUME NEW i \in Indexes, NEW r \in Row
  PROVE  IsRows([j \in {i} |-> r])
BY DEF IsRows, Indexes

\* Rows written over rows are rows.
LEMMA OverlayRows ==
  ASSUME NEW f, NEW g, IsRows(f), IsRows(g)
  PROVE  /\ IsRows(Overlay(f, g))
         /\ DOMAIN Overlay(f, g) = DOMAIN f \cup DOMAIN g
         /\ \A i \in DOMAIN f : Overlay(f, g)[i] = f[i]
         /\ \A i \in DOMAIN g \ DOMAIN f : Overlay(f, g)[i] = g[i]
<1>1. /\ DOMAIN Overlay(f, g) = DOMAIN f \cup DOMAIN g
      /\ \A i \in DOMAIN f : Overlay(f, g)[i] = f[i]
      /\ \A i \in DOMAIN g \ DOMAIN f : Overlay(f, g)[i] = g[i]
      /\ Overlay(f, g) = [i \in DOMAIN Overlay(f, g) |-> Overlay(f, g)[i]]
  BY DEF Overlay
<1>2. \A i \in DOMAIN Overlay(f, g) : Overlay(f, g)[i] \in Row
  BY <1>1 DEF IsRows
<1>3. ASSUME DOMAIN f \cup DOMAIN g # {}
      PROVE  \E i \in DOMAIN f \cup DOMAIN g : \A j \in DOMAIN f \cup DOMAIN g : j <= i
  <2>1. CASE DOMAIN f = {}
    BY <2>1, <1>3 DEF IsRows
  <2>2. CASE DOMAIN g = {}
    BY <2>2, <1>3 DEF IsRows
  <2>3. CASE DOMAIN f # {} /\ DOMAIN g # {}
    <3>1. PICK i \in DOMAIN f : \A j \in DOMAIN f : j <= i
      BY <2>3 DEF IsRows
    <3>2. PICK k \in DOMAIN g : \A j \in DOMAIN g : j <= k
      BY <2>3 DEF IsRows
    <3>3. i \in Nat /\ k \in Nat /\ DOMAIN f \subseteq Nat /\ DOMAIN g \subseteq Nat
      BY DEF IsRows, Indexes
    <3>4. CASE i <= k
      BY <3>1, <3>2, <3>3, <3>4
    <3>5. CASE k <= i
      BY <3>1, <3>2, <3>3, <3>5
    <3> QED BY <3>3, <3>4, <3>5
  <2> QED BY <2>1, <2>2, <2>3
<1> QED BY <1>1, <1>2, <1>3 DEF IsRows

\* Rows numbered 1..n are n rows.
LEMMA CountOfChain ==
  ASSUME NEW rows, NEW n \in Nat, DOMAIN rows = 1..n
  PROVE  Count(rows) = n /\ (n # 0 => LastIndex(rows) = n)
<1>1. CASE n = 0
  BY <1>1 DEF Count
<1>2. CASE n # 0
  <2>1. n \in DOMAIN rows /\ DOMAIN rows # {} /\ \A j \in DOMAIN rows : j <= n
    BY <1>2
  <2>2. LastIndex(rows) \in 1..n /\ \A j \in 1..n : j <= LastIndex(rows)
    BY <2>1 DEF LastIndex, MaxOf
  <2>3. LastIndex(rows) = n
    BY <1>2, <2>2
  <2> QED BY <2>1, <2>3 DEF Count
<1> QED BY <1>1, <1>2

LEMMA CountOfRows ==
  ASSUME NEW rows, IsRows(rows)
  PROVE  Count(rows) \in Nat /\ (Count(rows) = 0 <=> DOMAIN rows = {})
BY LastOfRows DEF Count, Indexes

-----------------------------------------------------------------------------
(* Types. *)

LEMMA NextCount ==
  ASSUME NEW a \in Nat, NEW n \in Nat, a < n
  PROVE  a + 1 \in Nat /\ a + 1 # 0 /\ (a + 1 # n => a + 1 < n)
OBVIOUS

\* The forms of a request, by position.
LEMMA FormsOf ==
  ASSUME NEW fs \in Seq(Form)
  PROVE  /\ Len(fs) \in Nat /\ DOMAIN fs = 1..Len(fs)
         /\ \A i \in 1..Len(fs) : fs[i] \in Form
         /\ fs # <<>> => 0 < Len(fs)
         /\ \A n \in Nat : n < Len(fs) => fs[n + 1] \in Form
<1>1. Len(fs) \in Nat /\ DOMAIN fs = 1..Len(fs) /\ \A i \in 1..Len(fs) : fs[i] \in Form
  BY LenProperties, ElementOfSeq
<1>2. Len(fs) = 0 <=> fs = <<>>
  BY EmptySeq
<1>3. \A n \in Nat : n < Len(fs) => fs[n + 1] \in Form
  BY <1>1
<1> QED BY <1>1, <1>2, <1>3

\* A list of inline forms is a sequence of forms.
LEMMA FormListsAreSeqs ==
  ASSUME NEW d \in SUBSET Txns, NEW fs \in FormLists(d)
  PROVE  fs \in Seq(Form)
<1>1. PICK n \in 0..MaxForms : fs \in [1..n -> [start : Dates, data : {d}]]
  BY DEF FormLists
<1>2. n \in Nat
  BY <1>1, FormsAssumption
<1>3. fs \in [1..n -> Form]
  BY <1>1 DEF Form
<1> QED BY <1>2, <1>3, SeqDef

\* The records of a new object are rows, numbered from 1.
LEMMA CreatedRows ==
  ASSUME NEW fs \in Seq(Form)
  PROVE  /\ IsRows(Created(fs))
         /\ DOMAIN Created(fs) = 1..Len(fs)
         /\ Chained(Created(fs))
<1>1. DOMAIN fs = 1..Len(fs) /\ Len(fs) \in Nat /\ \A i \in 1..Len(fs) : fs[i] \in Form
  BY LenProperties, ElementOfSeq
<1>2. DOMAIN Created(fs) = 1..Len(fs) /\ Created(fs) = [i \in 1..Len(fs) |-> Created(fs)[i]]
  BY <1>1 DEF Created
<1>3. \A i \in 1..Len(fs) :
        /\ Created(fs)[i] \in Row
        /\ Created(fs)[i].start = fs[i].start
        /\ Created(fs)[i].end = IF i = Len(fs) THEN None ELSE Created(fs)[i + 1].start
  BY <1>1 DEF Created, Row, Form
<1>4. IsRows(Created(fs))
  <2>1. DOMAIN Created(fs) # {} => Len(fs) \in DOMAIN Created(fs)
    BY <1>1, <1>2
  <2>2. DOMAIN Created(fs) \subseteq Indexes
    BY <1>1, <1>2 DEF Indexes
  <2>3. \A j \in DOMAIN Created(fs) : j <= Len(fs)
    BY <1>1, <1>2
  <2>4. Created(fs) = [i \in DOMAIN Created(fs) |-> Created(fs)[i]]
    BY <1>2
  <2>5. \A i \in DOMAIN Created(fs) : Created(fs)[i] \in Row
    BY <1>2, <1>3
  <2> HIDE DEF Created
  <2> QED BY <2>1, <2>2, <2>3, <2>4, <2>5 DEF IsRows
<1>5. Chained(Created(fs))
  BY <1>1, <1>2, <1>3, CountOfChain DEF Chained, ChainedTo
<1> QED BY <1>2, <1>4, <1>5

\* What the statements of a transaction read and write, by its types.
LEMMA TypeFacts ==
  ASSUME TypeInv, NEW t \in Txns, ~Idle(t)
  PROVE  /\ op[t].obj \in Objects /\ op[t].kind \in Kinds
         /\ op[t].forms \in Seq(Form)
         /\ IsRows(rec[op[t].obj])
         /\ IsRows(View(t))
         /\ DOMAIN View(t) = DOMAIN upd[t] \cup DOMAIN rec[op[t].obj]
         /\ pc[t] \in Saving => op[t].forms[added[t] + 1] \in Form
<1>1. op[t] \in [kind : Kinds, obj : Objects, forms : Seq(Form)]
  BY DEF TypeInv, TypeOK
<1>2. op[t].obj \in Objects /\ op[t].kind \in Kinds /\ op[t].forms \in Seq(Form)
  BY <1>1
<1>3. IsRows(rec[op[t].obj]) /\ IsRows(upd[t])
  BY <1>2 DEF TypeInv, TypeOK
<1>4. IsRows(View(t)) /\ DOMAIN View(t) = DOMAIN upd[t] \cup DOMAIN rec[op[t].obj]
  <2>1. IsRows(View(t))
    BY <1>3, OverlayRows DEF View
  <2>2. DOMAIN View(t) = DOMAIN upd[t] \cup DOMAIN rec[op[t].obj]
    BY DEF View, Overlay
  <2> QED BY <2>1, <2>2
<1>5. pc[t] \in Saving => op[t].forms[added[t] + 1] \in Form
  BY <1>2, FormsOf DEF TypeInv, TypeOK, Control
<1> QED BY <1>2, <1>3, <1>4, <1>5

\* The end of a transaction keeps the types, whatever it does to the tables.
LEMMA EndTyped ==
  ASSUME TypeInv, NEW t \in Txns, NEW how \in {"done", "failed"}, ~Idle(t), End(t, how),
         state' \in [Objects -> {"unborn", "live", "deleted"}],
         DOMAIN rec' = Objects, \A o \in Objects : IsRows(rec'[o])
  PROVE  TypeInv'
<1>1. /\ pc' = [pc EXCEPT ![t] = how] /\ added' = [added EXCEPT ![t] = 0]
      /\ idx' = [idx EXCEPT ![t] = 0] /\ copy' = [copy EXCEPT ![t] = NoRows]
      /\ upd' = [upd EXCEPT ![t] = NoRows] /\ gone' = [gone EXCEPT ![t] = {}] /\ op' = op
  BY DEF End
<1>2. TypeOK'
  BY <1>1, NoRowsIsRows DEF TypeInv, TypeOK, Statements, Idle
<1>3. ASSUME NEW u \in Txns
      PROVE  Quiet(u)'
  BY <1>1 DEF TypeInv, TypeOK, Quiet, Active, Idle, Ended, Deleting
<1>4. ASSUME NEW u \in Txns
      PROVE  Control(u)'
  BY <1>1 DEF TypeInv, TypeOK, Control, Idle, Saving, Deleting
<1> QED BY <1>2, <1>3, <1>4 DEF TypeInv

LEMMA RollBackTyped ==
  ASSUME TypeInv, NEW t \in Txns, ~Idle(t), RollBack(t)
  PROVE  TypeInv'
BY EndTyped DEF RollBack, dbvars, TypeInv, TypeOK

\* The arrival of a request keeps the types.
LEMMA BeginTyped ==
  ASSUME TypeInv, NEW t \in Txns, NEW o \in Objects, NEW kind \in Kinds,
         NEW fs \in Seq(Form), NEW stmt,
         stmt \in {"test last", "save object", "collect"},
         stmt = "test last" => 0 < Len(fs),
         stmt = "collect" => kind = "delete",
         Idle(t), <<o, kind>> \in Requests,
         op' = [op EXCEPT ![t] = [kind |-> kind, obj |-> o, forms |-> fs]],
         pc' = [pc EXCEPT ![t] = stmt],
         UNCHANGED <<state, rec, added, idx, copy, upd, gone>>
  PROVE  TypeInv'
<1>1. /\ Idle(t) /\ <<o, kind>> \in Requests
      /\ op' = [op EXCEPT ![t] = [kind |-> kind, obj |-> o, forms |-> fs]]
      /\ pc' = [pc EXCEPT ![t] = stmt]
      /\ state' = state /\ rec' = rec
      /\ added' = added /\ idx' = idx /\ copy' = copy /\ upd' = upd /\ gone' = gone
  OBVIOUS
<1>2. op'[t] = [kind |-> kind, obj |-> o, forms |-> fs] /\ pc'[t] = stmt
      /\ \A u \in Txns \ {t} : op'[u] = op[u] /\ pc'[u] = pc[u]
  BY <1>1 DEF TypeInv, TypeOK
<1>3. upd[t] = NoRows /\ added[t] = 0 /\ copy[t] = NoRows
  BY <1>1 DEF TypeInv, Quiet, Active, Idle
<1>4. TypeOK'
  <2>1. op'[t] \in [kind : Kinds, obj : Objects, forms : Seq(Form)]
    <3>1. [kind |-> kind, obj |-> o, forms |-> fs] \in [kind : Kinds, obj : Objects, forms : Seq(Form)]
      OBVIOUS
    <3> QED BY <3>1, <1>2, Zenon
  <2>2. \A u \in Txns : Idle(u)' \/ op'[u] \in [kind : Kinds, obj : Objects, forms : Seq(Form)]
    BY <2>1, <1>2 DEF TypeInv, TypeOK, Idle
  <2>3. pc' \in [Txns -> Statements] /\ DOMAIN op' = Txns
    BY <1>1, ZenonT(40) DEF TypeInv, TypeOK, Statements
  <2> QED BY <2>2, <2>3, <1>1 DEF TypeInv, TypeOK
<1>5. ASSUME NEW u \in Txns \ {t}
      PROVE  Quiet(u)' /\ Control(u)'
  BY <1>1, <1>2, ZenonT(40) DEF TypeInv, Quiet, Control, Active, Idle, Ended
<1>6. Quiet(t)'
  BY <1>1, <1>2, <1>3 DEF Quiet, Active, Idle, Ended, Deleting
<1>7. Control(t)'
  <2>1. op'[t].kind = kind /\ op'[t].obj = o /\ op'[t].forms = fs
    <3> DEFINE r == [kind |-> kind, obj |-> o, forms |-> fs]
    <3>1. r.kind = kind /\ r.obj = o /\ r.forms = fs
      OBVIOUS
    <3>2. op'[t] = r
      BY <1>2
    <3> HIDE DEF r
    <3> QED BY <3>1, <3>2
  <2>2. added'[t] = 0
    BY <1>1, <1>3
  <2>3. pc'[t] = stmt
    BY <1>2
  <2>4. <<op'[t].obj, op'[t].kind>> \in Requests
    BY <1>1, <2>1
  <2>5. pc'[t] \in Saving => stmt = "test last"
    BY <2>3 DEF Saving
  <2>6. pc'[t] \in Deleting => stmt = "collect"
    BY <2>3 DEF Deleting
  <2>7. pc'[t] \notin {"commit", "read previous", "close previous", "insert"}
    BY <2>3
  <2>8. pc'[t] \in Saving => added'[t] < Len(op'[t].forms)
    BY <2>1, <2>2, <2>5, Zenon
  <2>9. pc'[t] \in Deleting => op'[t].kind = "delete"
    BY <2>1, <2>6
  <2> QED BY <2>4, <2>7, <2>8, <2>9 DEF Control
<1> QED BY <1>4, <1>5, <1>6, <1>7 DEF TypeInv

\* The transactions other than t stay where they are.
Others(t) ==
  \A u \in Txns \ {t} :
    /\ pc'[u] = pc[u] /\ op'[u] = op[u] /\ added'[u] = added[u] /\ idx'[u] = idx[u]
    /\ copy'[u] = copy[u] /\ upd'[u] = upd[u] /\ gone'[u] = gone[u]

LEMMA OthersTyped ==
  ASSUME TypeInv, NEW t \in Txns, TypeOK', Others(t), Quiet(t)', Control(t)'
  PROVE  TypeInv'
<1>1. ASSUME NEW u \in Txns \ {t}
      PROVE  Quiet(u)' /\ Control(u)'
  <2>1. /\ pc'[u] = pc[u] /\ op'[u] = op[u] /\ added'[u] = added[u] /\ idx'[u] = idx[u]
        /\ copy'[u] = copy[u] /\ upd'[u] = upd[u]
    BY DEF Others
  <2>2. Quiet(u) /\ Control(u)
    BY DEF TypeInv
  <2>3. Quiet(u)'
    BY <2>1, <2>2 DEF Quiet, Active, Idle, Ended
  <2>4. Control(u)'
    BY <2>1, <2>2, Zenon DEF Control, Idle
  <2> QED BY <2>3, <2>4
<1> QED BY <1>1 DEF TypeInv

\* Every statement of a transaction keeps the types.
LEMMA StepTyped ==
  ASSUME TypeInv, NEW t \in Txns, Step(t)
  PROVE  TypeInv'
<1> USE DEF Goto, dbvars
<1>1. CASE SaveObject(t)
  <2>1. ~Idle(t) /\ Quiet(t) /\ Control(t)
    BY <1>1 DEF SaveObject, Idle, TypeInv
  <2>2. TypeOK'
    BY <1>1, <2>1 DEF SaveObject, TypeInv, TypeOK, Statements, Idle
  <2>3. Others(t)
    BY <1>1 DEF SaveObject, Others, TypeInv, TypeOK
  <2>4. Quiet(t)'
    BY <1>1, <2>1 DEF SaveObject, TypeInv, TypeOK, Quiet, Active, Idle, Ended, Deleting
  <2>5. Control(t)'
    BY <1>1, <2>1, TypeFacts, FormsOf DEF SaveObject, TypeInv, TypeOK, Control, Quiet, Idle, Saving, Deleting
  <2> QED BY <2>2, <2>3, <2>4, <2>5, OthersTyped
<1>2. CASE TestLast(t)
  <2>1. ~Idle(t) /\ Quiet(t) /\ Control(t)
    BY <1>2 DEF TestLast, Idle, TypeInv
  <2>2. PICK i \in Indexes, stmt \in {"insert", "read index"} :
          /\ pc[t] = "test last"
          /\ pc' = [pc EXCEPT ![t] = stmt]
          /\ \/ stmt = "insert" /\ idx' = [idx EXCEPT ![t] = i]
             \/ stmt = "read index" /\ idx' = idx
          /\ UNCHANGED <<state, rec, op, added, copy, upd, gone>>
    <3>1. 1 \in Indexes
      BY DEF Indexes
    <3> QED BY <1>2, <3>1 DEF TestLast
  <2>3. TypeOK'
    BY <2>1, <2>2, ZenonT(40) DEF TypeInv, TypeOK, Statements, Idle, Indexes
  <2>4. Others(t)
    BY <2>2 DEF Others, TypeInv, TypeOK
  <2>5. Quiet(t)'
    BY <2>1, <2>2 DEF TypeInv, TypeOK, Quiet, Active, Idle, Ended, Deleting
  <2>6. Control(t)'
    BY <2>1, <2>2 DEF TypeInv, TypeOK, Control, Idle, Saving, Deleting
  <2> QED BY <2>3, <2>4, <2>5, <2>6, OthersTyped
<1>3. CASE ReadIndex(t)
  <2>1. ~Idle(t) /\ Quiet(t) /\ Control(t)
    BY <1>3 DEF ReadIndex, Idle, TypeInv
  <2>2. CASE DOMAIN View(t) = {}
    BY <1>3, <2>1, <2>2, RollBackTyped DEF ReadIndex
  <2>3. CASE DOMAIN View(t) # {}
    <3>1. PICK i \in Indexes :
          /\ pc[t] = "read index"
          /\ pc' = [pc EXCEPT ![t] = "read previous"]
          /\ idx' = [idx EXCEPT ![t] = i]
          /\ UNCHANGED <<state, rec, op, added, copy, upd, gone>>
      <4>1. LastIndex(View(t)) \in Indexes
        BY <2>1, <2>3, TypeFacts, LastOfRows
      <4>2. LastIndex(View(t)) + 1 \in Indexes
        BY <4>1 DEF Indexes
      <4> QED BY <1>3, <2>3, <4>2 DEF ReadIndex
    <3>2. TypeOK'
      BY <2>1, <3>1 DEF TypeInv, TypeOK, Statements, Idle, Indexes
    <3>3. Others(t)
      BY <3>1 DEF Others, TypeInv, TypeOK
    <3>4. Quiet(t)'
      BY <2>1, <3>1 DEF TypeInv, TypeOK, Quiet, Active, Idle, Ended, Deleting
    <3>5. Control(t)'
      BY <2>1, <3>1 DEF TypeInv, TypeOK, Control, Idle, Saving, Deleting
    <3> QED BY <3>2, <3>3, <3>4, <3>5, OthersTyped
  <2> QED BY <2>2, <2>3
<1>4. CASE ReadPrevious(t)
  <2>1. ~Idle(t) /\ Quiet(t) /\ Control(t)
    BY <1>4 DEF ReadPrevious, Idle, TypeInv
  <2>2. CASE DOMAIN View(t) = {}
    BY <1>4, <2>1, <2>2, RollBackTyped DEF ReadPrevious
  <2>3. CASE DOMAIN View(t) # {}
    <3>1. PICK c :
          /\ IsRows(c)
          /\ pc[t] = "read previous"
          /\ pc' = [pc EXCEPT ![t] = "close previous"]
          /\ copy' = [copy EXCEPT ![t] = c]
          /\ UNCHANGED <<state, rec, op, added, idx, upd, gone>>
      <4> DEFINE p == LastIndex(View(t))
                 start == op[t].forms[added[t] + 1].start
                 c == [i \in {p} |-> Closed(View(t)[p], start)]
      <4>1. p \in Indexes /\ p \in DOMAIN View(t)
        BY <2>1, <2>3, TypeFacts, LastOfRows
      <4>2. pc[t] \in Saving
        BY <1>4 DEF ReadPrevious, Saving
      <4>3. start \in Dates
        BY <4>2, <2>1, TypeFacts DEF Form
      <4>4. View(t)[p] \in Row
        BY <4>1, <2>1, TypeFacts DEF IsRows
      <4> HIDE DEF p, start
      <4>5. Closed(View(t)[p], start) \in Row
        BY <4>3, <4>4 DEF Closed, Row
      <4>6. IsRows(c)
        BY <4>1, <4>5, OneRowIsRows
      <4>7. /\ pc[t] = "read previous"
            /\ pc' = [pc EXCEPT ![t] = "close previous"]
            /\ copy' = [copy EXCEPT ![t] = c]
            /\ UNCHANGED <<state, rec, op, added, idx, upd, gone>>
        BY <1>4, <2>3 DEF ReadPrevious, p, start
      <4> HIDE DEF c
      <4> QED BY <4>6, <4>7
    <3>2. TypeOK'
      BY <2>1, <3>1 DEF TypeInv, TypeOK, Statements, Idle
    <3>3. Others(t)
      BY <3>1 DEF Others, TypeInv, TypeOK
    <3>4. Quiet(t)'
      BY <2>1, <3>1 DEF TypeInv, TypeOK, Quiet, Active, Idle, Ended, Deleting
    <3>5. Control(t)'
      BY <2>1, <3>1 DEF TypeInv, TypeOK, Control, Idle, Saving, Deleting
    <3> QED BY <3>2, <3>3, <3>4, <3>5, OthersTyped
  <2> QED BY <2>2, <2>3
<1>5. CASE ClosePrevious(t)
  <2>1. ~Idle(t) /\ Quiet(t) /\ Control(t)
    BY <1>5 DEF ClosePrevious, Idle, TypeInv
  <2>2. CASE RollBack(t)
    BY <2>1, <2>2, RollBackTyped
  <2>3. CASE ~RollBack(t)
    <3> DEFINE f == Overlay(copy[t], upd[t])
    <3>1. /\ pc[t] = "close previous"
          /\ pc' = [pc EXCEPT ![t] = "insert"]
          /\ upd' = [upd EXCEPT ![t] = f]
          /\ copy' = [copy EXCEPT ![t] = NoRows]
          /\ UNCHANGED <<state, rec, op, added, idx, gone>>
      BY <1>5, <2>3 DEF ClosePrevious
    <3>2. IsRows(copy[t]) /\ IsRows(upd[t])
      BY DEF TypeInv, TypeOK
    <3>3. IsRows(f)
      BY <3>2, OverlayRows
    <3> HIDE DEF f
    <3>4. TypeOK'
      BY <2>1, <3>1, <3>3, NoRowsIsRows DEF TypeInv, TypeOK, Statements, Idle
    <3>5. Others(t)
      BY <3>1 DEF Others, TypeInv, TypeOK
    <3>6. Quiet(t)'
      BY <2>1, <3>1 DEF TypeInv, TypeOK, Quiet, Active, Idle, Ended, Deleting
    <3>7. Control(t)'
      BY <2>1, <3>1 DEF TypeInv, TypeOK, Control, Idle, Saving, Deleting
    <3> QED BY <3>4, <3>5, <3>6, <3>7, OthersTyped
  <2> QED BY <2>2, <2>3
<1>6. CASE InsertRecord(t)
  <2>1. ~Idle(t) /\ Quiet(t) /\ Control(t)
    BY <1>6 DEF InsertRecord, Idle, TypeInv
  <2>2. CASE RollBack(t)
    BY <2>1, <2>2, RollBackTyped
  <2>3. CASE ~RollBack(t)
    <3> DEFINE f == Overlay([i \in {idx[t]} |-> NewRow(t)], upd[t])
               k == added[t] + 1
    <3>1. PICK stmt \in {"commit", "test last"} :
          /\ pc[t] = "insert"
          /\ pc' = [pc EXCEPT ![t] = stmt]
          /\ stmt = "test last" => k # Len(op[t].forms)
          /\ upd' = [upd EXCEPT ![t] = f]
          /\ added' = [added EXCEPT ![t] = k]
          /\ UNCHANGED <<state, rec, op, idx, copy, gone>>
      BY <1>6, <2>3 DEF InsertRecord
    <3>2. pc[t] \in Saving
      BY <3>1 DEF Saving
    <3>3. IsRows(f)
      <4>1. op[t].forms[added[t] + 1] \in Form
        BY <2>1, <3>2, TypeFacts
      <4>2. NewRow(t) \in Row
        BY <4>1 DEF NewRow, Form, Row
      <4>3. idx[t] \in Indexes
        BY <2>1, <3>1 DEF Control
      <4> DEFINE g == [i \in {idx[t]} |-> NewRow(t)]
      <4>4. IsRows(g)
        BY <4>2, <4>3, OneRowIsRows
      <4>5. IsRows(upd[t])
        BY DEF TypeInv, TypeOK
      <4> HIDE DEF g
      <4>6. IsRows(Overlay(g, upd[t]))
        BY <4>4, <4>5, OverlayRows
      <4> QED BY <4>6 DEF g
    <3>4. k \in Nat /\ k # 0 /\ (k # Len(op[t].forms) => k < Len(op[t].forms))
      <4>1. added[t] < Len(op[t].forms)
        BY <2>1, <3>2 DEF Control
      <4>2. added[t] \in Nat /\ Len(op[t].forms) \in Nat
        BY <2>1, TypeFacts, FormsOf DEF TypeInv, TypeOK
      <4> QED BY <4>1, <4>2, NextCount
    <3> HIDE DEF f, k
    <3>5. TypeOK'
      BY <2>1, <3>1, <3>3, <3>4 DEF TypeInv, TypeOK, Statements, Idle
    <3>6. Others(t)
      BY <3>1 DEF Others, TypeInv, TypeOK
    <3>7. Quiet(t)'
      BY <2>1, <3>1 DEF TypeInv, TypeOK, Quiet, Active, Idle, Ended, Deleting
    <3>8. Control(t)'
      BY <2>1, <3>1, <3>4 DEF TypeInv, TypeOK, Control, Idle, Saving, Deleting
    <3> QED BY <3>5, <3>6, <3>7, <3>8, OthersTyped
  <2> QED BY <2>2, <2>3
<1>7. CASE Commit(t)
  <2>1. ~Idle(t)
    BY <1>7 DEF Commit, Idle
  <2>2. CASE RollBack(t)
    BY <2>1, <2>2, RollBackTyped
  <2>3. CASE ~RollBack(t)
    <3> DEFINE o == op[t].obj
               f == Overlay(upd[t], rec[o])
    <3>1. /\ state' = [state EXCEPT ![o] = "live"]
          /\ rec' = [rec EXCEPT ![o] = f]
          /\ End(t, "done")
      BY <1>7, <2>3 DEF Commit
    <3>2. IsRows(upd[t]) /\ IsRows(rec[o])
      BY <2>1, TypeFacts DEF TypeInv, TypeOK
    <3>3. IsRows(f)
      BY <3>2, OverlayRows
    <3> HIDE DEF o, f
    <3>4. state' \in [Objects -> {"unborn", "live", "deleted"}]
      BY <3>1 DEF TypeInv, TypeOK
    <3>5. DOMAIN rec' = Objects /\ \A x \in Objects : IsRows(rec'[x])
      BY <3>1, <3>3 DEF TypeInv, TypeOK
    <3> QED BY <2>1, <3>1, <3>4, <3>5, EndTyped
  <2> QED BY <2>2, <2>3
<1>8. CASE CollectRecords(t)
  <2>1. ~Idle(t) /\ Quiet(t) /\ Control(t)
    BY <1>8 DEF CollectRecords, Idle, TypeInv
  <2>2. Pks(rec[op[t].obj]) \in SUBSET (Indexes \X (Txns \cup {None}))
    <3>1. IsRows(rec[op[t].obj])
      BY <2>1, TypeFacts
    <3> QED BY <3>1 DEF IsRows, Pks, Row
  <2>3. PICK g \in SUBSET (Indexes \X (Txns \cup {None})) :
          /\ pc[t] = "collect"
          /\ pc' = [pc EXCEPT ![t] = "delete rows"]
          /\ gone' = [gone EXCEPT ![t] = g]
          /\ UNCHANGED <<state, rec, op, added, idx, copy, upd>>
    BY <1>8, <2>2 DEF CollectRecords
  <2>4. TypeOK'
    BY <2>1, <2>3 DEF TypeInv, TypeOK, Statements, Idle
  <2>5. Others(t)
    BY <2>3 DEF Others, TypeInv, TypeOK
  <2>6. Quiet(t)'
    BY <2>1, <2>3 DEF TypeInv, TypeOK, Quiet, Active, Idle, Ended, Deleting
  <2>7. Control(t)'
    BY <2>1, <2>3 DEF TypeInv, TypeOK, Control, Idle, Saving, Deleting
  <2> QED BY <2>4, <2>5, <2>6, <2>7, OthersTyped
<1>9. CASE DeleteRows(t) \/ DeleteObject(t)
  <2>1. PICK from \in {"delete rows", "object row"}, to \in {"object row", "delete"} :
          /\ pc[t] = from
          /\ pc' = [pc EXCEPT ![t] = to]
          /\ UNCHANGED <<state, rec, op, added, idx, copy, upd, gone>>
    BY <1>9 DEF DeleteRows, DeleteObject
  <2>2. ~Idle(t) /\ Quiet(t) /\ Control(t)
    BY <2>1 DEF Idle, TypeInv
  <2>3. TypeOK'
    BY <2>1, <2>2 DEF TypeInv, TypeOK, Statements, Idle
  <2>4. Others(t)
    BY <2>1 DEF Others, TypeInv, TypeOK
  <2>5. Quiet(t)'
    BY <2>1, <2>2 DEF TypeInv, TypeOK, Quiet, Active, Idle, Ended, Deleting
  <2>6. Control(t)'
    BY <2>1, <2>2 DEF TypeInv, TypeOK, Control, Idle, Saving, Deleting
  <2> QED BY <2>3, <2>4, <2>5, <2>6, OthersTyped
<1>10. CASE CommitDelete(t)
  <2>1. ~Idle(t)
    BY <1>10 DEF CommitDelete, Idle
  <2>2. CASE RollBack(t)
    BY <2>1, <2>2, RollBackTyped
  <2>3. CASE ~RollBack(t)
    <3>1. /\ state' = [state EXCEPT ![op[t].obj] = "deleted"]
          /\ rec' = [rec EXCEPT ![op[t].obj] = NoRows]
          /\ End(t, "done")
      BY <1>10, <2>3 DEF CommitDelete
    <3>2. state' \in [Objects -> {"unborn", "live", "deleted"}]
      BY <3>1 DEF TypeInv, TypeOK
    <3>3. DOMAIN rec' = Objects /\ \A x \in Objects : IsRows(rec'[x])
      BY <3>1, NoRowsIsRows DEF TypeInv, TypeOK
    <3> QED BY <2>1, <3>1, <3>2, <3>3, EndTyped
  <2> QED BY <2>2, <2>3
<1> QED BY <1>1, <1>2, <1>3, <1>4, <1>5, <1>6, <1>7, <1>8, <1>9, <1>10 DEF Step

\* The arrival of a request, and the creation of an object, keep the types.
LEMMA ArriveTyped ==
  ASSUME TypeInv, NEW t \in Txns, Arrive(t)
  PROVE  TypeInv'
<1> USE DEF Begin, Goto, dbvars
<1>1. ASSUME NEW d \in Dates, NEW data \in SUBSET Txns
      PROVE  /\ <<[start |-> d, data |-> data]>> \in Seq(Form)
             /\ 0 < Len(<<[start |-> d, data |-> data]>>)
  BY DEF Form
<1>2. <<>> \in Seq(Form)
  OBVIOUS
<1>3. "put" \in Kinds /\ "patch" \in Kinds /\ "admin" \in Kinds /\ "delete" \in Kinds
  BY DEF Kinds
<1>4. PICK o \in Objects :
        \/ \E s \in Dates : Put(t, o, s)
        \/ \E s \in Dates \cup {None} : Patch(t, o, s)
        \/ \E fs \in FormLists({t}) : AdminChange(t, o, fs)
        \/ Destroy(t, o)
  BY DEF Arrive
<1>5. ASSUME NEW s \in Dates, Put(t, o, s)
      PROVE  TypeInv'
  <2> DEFINE fs == <<[start |-> s, data |-> {t}]>>
  <2>1. fs \in Seq(Form) /\ 0 < Len(fs)
    BY <1>1
  <2>2. /\ Idle(t) /\ <<o, "put">> \in Requests
        /\ op' = [op EXCEPT ![t] = [kind |-> "put", obj |-> o, forms |-> fs]]
        /\ pc' = [pc EXCEPT ![t] = "test last"]
        /\ UNCHANGED <<state, rec, added, idx, copy, upd, gone>>
    BY <1>5 DEF Put
  <2> HIDE DEF fs
  <2> QED BY <1>3, <2>1, <2>2, BeginTyped
<1>6. ASSUME NEW s \in Dates \cup {None}, Patch(t, o, s)
      PROVE  TypeInv'
  <2> DEFINE r == Patched(t, rec[o][LastIndex(rec[o])], s)
             fs == <<r>>
  <2>1. r \in Form
    <3>1. IsRows(rec[o]) /\ DOMAIN rec[o] # {}
      BY <1>6 DEF Patch, TypeInv, TypeOK
    <3>2. rec[o][LastIndex(rec[o])] \in Row
      BY <3>1, LastOfRows DEF IsRows
    <3> QED BY <3>2 DEF Patched, Row, Form
  <2>2. /\ Idle(t) /\ <<o, "patch">> \in Requests
        /\ op' = [op EXCEPT ![t] = [kind |-> "patch", obj |-> o, forms |-> fs]]
        /\ pc' = [pc EXCEPT ![t] = "test last"]
        /\ UNCHANGED <<state, rec, added, idx, copy, upd, gone>>
    BY <1>6 DEF Patch
  <2> HIDE DEF r
  <2>3. fs \in Seq(Form) /\ 0 < Len(fs)
    BY <2>1
  <2> HIDE DEF fs
  <2> QED BY <1>3, <2>2, <2>3, BeginTyped
<1>7. ASSUME NEW fs \in FormLists({t}), AdminChange(t, o, fs)
      PROVE  TypeInv'
  <2>1. fs \in Seq(Form)
    BY FormListsAreSeqs
  <2>2. /\ Idle(t) /\ <<o, "admin">> \in Requests
        /\ op' = [op EXCEPT ![t] = [kind |-> "admin", obj |-> o, forms |-> fs]]
        /\ pc' = [pc EXCEPT ![t] = "save object"]
        /\ UNCHANGED <<state, rec, added, idx, copy, upd, gone>>
    BY <1>7 DEF AdminChange
  <2> QED BY <1>3, <2>1, <2>2, BeginTyped
<1>8. CASE Destroy(t, o)
  <2>1. /\ Idle(t) /\ <<o, "delete">> \in Requests
        /\ op' = [op EXCEPT ![t] = [kind |-> "delete", obj |-> o, forms |-> <<>>]]
        /\ pc' = [pc EXCEPT ![t] = "collect"]
        /\ UNCHANGED <<state, rec, added, idx, copy, upd, gone>>
    BY <1>8 DEF Destroy
  <2> QED BY <1>2, <1>3, <2>1, BeginTyped
<1> QED BY <1>4, <1>5, <1>6, <1>7, <1>8

LEMMA CreateTyped ==
  ASSUME TypeInv, NEW o \in Objects, NEW fs \in FormLists({}), Create(o, fs)
  PROVE  TypeInv'
<1>1. fs \in Seq(Form)
  BY FormListsAreSeqs
<1>2. IsRows(Created(fs))
  BY <1>1, CreatedRows
<1>3. /\ state' = [state EXCEPT ![o] = "live"] /\ rec' = [rec EXCEPT ![o] = Created(fs)]
      /\ UNCHANGED <<pc, op, added, idx, copy, upd, gone>>
  BY DEF Create, txvars
<1>4. TypeOK'
  BY <1>2, <1>3 DEF TypeInv, TypeOK, Idle
<1>5. ASSUME NEW t \in Txns
      PROVE  Quiet(t)' /\ Control(t)'
  BY <1>3 DEF TypeInv, Quiet, Control, Idle, Active, Ended
<1> QED BY <1>4, <1>5 DEF TypeInv

LEMMA InitTyped == Init => TypeInv
<1> SUFFICES ASSUME Init PROVE TypeInv
  OBVIOUS
<1>1. TypeOK
  BY NoRowsIsRows DEF Init, TypeOK, Statements, Idle
<1>2. ASSUME NEW t \in Txns
      PROVE  Quiet(t) /\ Control(t)
  BY DEF Init, Quiet, Control, Idle, Active, Ended, Saving, Deleting
<1> QED BY <1>1, <1>2 DEF TypeInv

LEMMA NextTyped == TypeInv /\ [Next]_vars => TypeInv'
<1> SUFFICES ASSUME TypeInv, [Next]_vars PROVE TypeInv'
  OBVIOUS
<1>1. CASE UNCHANGED vars
  <2>1. TypeOK'
    BY <1>1 DEF vars, TypeInv, TypeOK, Idle
  <2>2. ASSUME NEW t \in Txns
        PROVE  Quiet(t)' /\ Control(t)'
    BY <1>1 DEF vars, TypeInv, Quiet, Control, Idle, Active, Ended
  <2> QED BY <2>1, <2>2 DEF TypeInv
<1>2. CASE \E o \in Objects, fs \in FormLists({}) : Create(o, fs)
  BY <1>2, CreateTyped
<1>3. ASSUME NEW t \in Txns, Arrive(t) \/ Step(t) \/ Fail(t)
      PROVE  TypeInv'
  BY <1>3, ArriveTyped, StepTyped, RollBackTyped DEF Fail, Active
<1> QED BY <1>1, <1>2, <1>3 DEF Next

\* The tables, the requests and what every transaction holds keep their types.
THEOREM Typing == Spec => []TypeInv
BY InitTyped, NextTyped, PTL DEF Spec

THEOREM TypeCorrect == Spec => []TypeOK
<1>1. TypeInv => TypeOK
  BY DEF TypeInv
<1> QED BY Typing, <1>1, PTL

-----------------------------------------------------------------------------
(* The chain. *)

\* A request is made for an object that exists, and what the admin can change is
\* never deleted.
Lifecycle ==
  /\ \A t \in Txns : ~Idle(t) => state[op[t].obj] # "unborn"
  /\ \A o \in Objects : <<o, "admin">> \in Requests => state[o] # "deleted"

\* No two transactions have written the same row.
RowsDisjoint ==
  \A t, u \in Txns :
    t # u /\ op[t].obj = op[u].obj => DOMAIN upd[t] \cap DOMAIN upd[u] = {}

\* c is one row: the row p of rows, closed at s.
Copied(c, rows, p, s) == DOMAIN c = {p} /\ c[p] = Closed(rows[p], s)

\* c closes a row that is at most the last of the rows 1..n, and i is at most the
\* index after it.
Claim(i, c, rows, n, s) == \E p \in 1..n : i \in 1..(p + 1) /\ Copied(c, rows, p, s)

\* c holds the rows n + 1 .. n + k, and perhaps the row n, closed where n + 1 starts.
Written(c, rows, n, k) ==
  /\ (n + 1)..(n + k) \subseteq DOMAIN c
  /\ DOMAIN c \subseteq n..(n + k)
  /\ n \in DOMAIN c => c[n] = Closed(rows[n], c[n + 1].start)

\* A transaction that has inserted no record: what it has read is at most as far
\* as the records that are committed now.
Before(t, rows, n) ==
  LET start == op[t].forms[1].start IN
  /\ pc[t] # "insert" => upd[t] = NoRows
  /\ pc[t] = "read previous" => idx[t] \in 1..(n + 1)
  /\ pc[t] = "close previous" => Claim(idx[t], copy[t], rows, n, start)
  /\ pc[t] = "insert" =>
       (upd[t] = NoRows /\ idx[t] = 1) \/ Claim(idx[t], upd[t], rows, n, start)

\* A transaction that has inserted k records: what it sees is the committed
\* records with those after them, chained.
After(t, rows, n, k) ==
  LET start == op[t].forms[k + 1].start IN
  /\ Written(upd[t], rows, n, k)
  /\ pc[t] # "insert" => ChainedTo(View(t), n + k, None)
  /\ pc[t] = "insert" => ChainedTo(View(t), n + k, start)
  /\ pc[t] \in {"read previous", "close previous", "insert"} => idx[t] = n + k + 1
  /\ pc[t] = "close previous" => Copied(copy[t], View(t), n + k, start)

\* What a transaction knows of the records of its object, if it is still there.
Knows(t) ==
  ~Idle(t) /\ state[op[t].obj] = "live" =>
    LET rows == rec[op[t].obj]
        n == Count(rows)
    IN  IF added[t] = 0 THEN Before(t, rows, n) ELSE After(t, rows, n, added[t])

\* The inductive invariant.
HistoryInv ==
  /\ Lifecycle /\ NoOrphans /\ HistoryChained /\ RowsDisjoint
  /\ \A t \in Txns : Knows(t)
-----------------------------------------------------------------------------
(* Chains of rows, and what closing and adding a row makes of them. *)

\* Closing a row changes its end only, and may be done again.
LEMMA ClosedRow ==
  ASSUME NEW r \in Row, NEW s \in Dates
  PROVE  /\ Closed(r, s) \in Row
         /\ Closed(r, s).start = r.start /\ Closed(r, s).end = s
         /\ Closed(r, s).data = r.data /\ Closed(r, s).writer = r.writer
         /\ \A x : Closed(Closed(r, x), s) = Closed(r, s)
BY DEF Closed, Row

LEMMA OverlayAssociates ==
  ASSUME NEW f, NEW g, NEW h
  PROVE  Overlay(Overlay(f, g), h) = Overlay(f, Overlay(g, h))
BY DEF Overlay

LEMMA OverlayNoRows ==
  ASSUME NEW g, IsRows(g)
  PROVE  Overlay(NoRows, g) = g /\ Overlay(g, NoRows) = g
<1>1. g = [i \in DOMAIN g |-> g[i]]
  BY DEF IsRows
<1> QED BY <1>1 DEF Overlay, NoRows

\* Closing the last row of an open chain.
LEMMA ClosingChains ==
  ASSUME NEW v, IsRows(v), NEW m \in Nat \ {0}, ChainedTo(v, m, None),
         NEW s \in Dates, NEW c, Copied(c, v, m, s)
  PROVE  ChainedTo(Overlay(c, v), m, s)
<1> DEFINE w == Overlay(c, v)
<1>1. DOMAIN v = 1..m /\ \A i \in 1..m : v[i] \in Row /\ v[i].end = IF i = m THEN None ELSE v[i + 1].start
  BY DEF ChainedTo, IsRows
<1>2. DOMAIN c = {m} /\ c[m] = Closed(v[m], s)
  BY DEF Copied
<1>3. DOMAIN w = 1..m /\ w[m] = Closed(v[m], s) /\ \A i \in 1..m : i # m => w[i] = v[i]
  BY <1>1, <1>2 DEF Overlay
<1>4. w[m].end = s /\ w[m].start = v[m].start
  BY <1>1, <1>3, ClosedRow
<1>5. \A i \in 1..m : w[i].start = v[i].start
  BY <1>3, <1>4
<1> HIDE DEF w
<1>6. ASSUME NEW i \in 1..m, i # m
      PROVE  w[i].end = w[i + 1].start
  BY <1>1, <1>3, <1>5, <1>6
<1> QED BY <1>3, <1>4, <1>6 DEF ChainedTo, w

\* Adding a row after a chain that ends where the row starts.
LEMMA AppendingChains ==
  ASSUME NEW v, NEW m \in Nat, NEW s, ChainedTo(v, m, s),
         NEW r, r.end = None, m # 0 => r.start = s
  PROVE  ChainedTo(Overlay([i \in {m + 1} |-> r], v), m + 1, None)
<1> DEFINE c == [i \in {m + 1} |-> r]
           w == Overlay(c, v)
<1>1. DOMAIN v = 1..m /\ \A i \in 1..m : v[i].end = IF i = m THEN s ELSE v[i + 1].start
  BY DEF ChainedTo
<1>2. DOMAIN w = 1..(m + 1) /\ w[m + 1] = r /\ \A i \in 1..m : w[i] = v[i]
  BY <1>1 DEF Overlay
<1> HIDE DEF w
<1>3. ASSUME NEW i \in 1..m
      PROVE  w[i].end = w[i + 1].start
  <2>1. CASE i = m
    BY <1>1, <1>2, <2>1
  <2>2. CASE i # m
    BY <1>1, <1>2, <2>2
  <2> QED BY <2>1, <2>2
<1>4. w[m + 1].end = None
  BY <1>2
<1> QED BY <1>2, <1>3, <1>4 DEF ChainedTo, w

\* A claim survives what is committed meanwhile: rows are added and open ends are
\* filled in.
LEMMA ClaimSurvives ==
  ASSUME NEW n \in Nat, NEW m \in Nat, n <= m, NEW rows, NEW later, NEW s,
         \A p \in 1..n : Closed(later[p], s) = Closed(rows[p], s),
         NEW i, NEW c, Claim(i, c, rows, n, s)
  PROVE  Claim(i, c, later, m, s)
<1>1. PICK p \in 1..n : i \in 1..(p + 1) /\ Copied(c, rows, p, s)
  BY DEF Claim
<1>2. Copied(c, later, p, s)
  BY <1>1 DEF Copied
<1>3. p \in 1..m
  OBVIOUS
<1> QED BY <1>1, <1>2, <1>3 DEF Claim

\* An index that is still free is the one after the last row, and the row that was
\* closed is the last one.
LEMMA FreeIndex ==
  ASSUME NEW n \in Nat, NEW rows, DOMAIN rows = 1..n, NEW s,
         NEW i, NEW c, Claim(i, c, rows, n, s), i \notin 1..n
  PROVE  i = n + 1 /\ n # 0 /\ Copied(c, rows, n, s)
<1>1. PICK p \in 1..n : i \in 1..(p + 1) /\ Copied(c, rows, p, s)
  BY DEF Claim
<1>2. p = n /\ i = n + 1
  BY <1>1
<1> QED BY <1>1, <1>2
\* What a transaction sees, and what it has written.
LEMMA WrittenRows ==
  ASSUME NEW rows, NEW n \in Nat, DOMAIN rows = 1..n, NEW k \in Nat, k # 0,
         NEW c, Written(c, rows, n, k)
  PROVE  /\ n + k \in DOMAIN c /\ n + 1 \in DOMAIN c
         /\ \A i \in (n + 1)..(n + k) : Overlay(c, rows)[i] = c[i]
         /\ \A i \in 1..n : i # n => Overlay(c, rows)[i] = rows[i]
<1>1. n + k \in (n + 1)..(n + k) /\ n + 1 \in (n + 1)..(n + k)
  OBVIOUS
<1>2. \A i \in 1..n : i # n => i \notin DOMAIN c
  BY DEF Written
<1>3. \A i \in DOMAIN c : Overlay(c, rows)[i] = c[i]
  BY DEF Overlay
<1>4. \A i \in DOMAIN rows : i \notin DOMAIN c => Overlay(c, rows)[i] = rows[i]
  BY DEF Overlay
<1>5. (n + 1)..(n + k) \subseteq DOMAIN c
  BY DEF Written
<1> QED BY <1>1, <1>2, <1>3, <1>4, <1>5

\* Closing its last new row does not change what a transaction has written before.
LEMMA WrittenClosed ==
  ASSUME NEW rows, NEW n \in Nat, DOMAIN rows = 1..n, NEW k \in Nat, k # 0,
         NEW u, IsRows(u), Written(u, rows, n, k),
         NEW s \in Dates, NEW c, Copied(c, Overlay(u, rows), n + k, s)
  PROVE  Written(Overlay(c, u), rows, n, k)
<1> DEFINE w == Overlay(c, u)
<1>1. /\ (n + 1)..(n + k) \subseteq DOMAIN u
      /\ DOMAIN u \subseteq n..(n + k)
      /\ n \in DOMAIN u => u[n] = Closed(rows[n], u[n + 1].start)
  BY DEF Written
<1>2. n + k \in DOMAIN u /\ n + 1 \in DOMAIN u /\ n # n + k
  BY WrittenRows
<1>3. DOMAIN c = {n + k} /\ c[n + k] = Closed(u[n + k], s)
  BY <1>2 DEF Copied, Overlay
<1>4. DOMAIN w = DOMAIN u /\ w[n + k] = Closed(u[n + k], s)
      /\ \A i \in DOMAIN u : i # n + k => w[i] = u[i]
  BY <1>2, <1>3 DEF Overlay
<1>5. u[n + k] \in Row
  BY <1>2 DEF IsRows
<1>6. w[n + k].start = u[n + k].start
  BY <1>4, <1>5, ClosedRow
<1>7. w[n + 1].start = u[n + 1].start
  BY <1>2, <1>4, <1>6
<1>8. n \in DOMAIN w => w[n] = Closed(rows[n], w[n + 1].start)
  BY <1>1, <1>2, <1>4, <1>7
<1> HIDE DEF w
<1>9. Written(w, rows, n, k)
  BY <1>1, <1>4, <1>8 DEF Written
<1> QED BY <1>9 DEF w

\* A further new row.
LEMMA WrittenMore ==
  ASSUME NEW rows, NEW n \in Nat, NEW k \in Nat, k # 0,
         NEW u, Written(u, rows, n, k), NEW r
  PROVE  Written(Overlay([i \in {n + k + 1} |-> r], u), rows, n, k + 1)
<1> DEFINE c == [i \in {n + k + 1} |-> r]
           w == Overlay(c, u)
<1>1. /\ (n + 1)..(n + k) \subseteq DOMAIN u
      /\ DOMAIN u \subseteq n..(n + k)
      /\ n \in DOMAIN u => u[n] = Closed(rows[n], u[n + 1].start)
  BY DEF Written
<1>2. DOMAIN w = DOMAIN u \cup {n + k + 1} /\ \A i \in DOMAIN u : i # n + k + 1 => w[i] = u[i]
  BY DEF Overlay
<1> HIDE DEF w
<1>3. n + 1 \in DOMAIN u /\ n + 1 # n + k + 1
  BY <1>1
<1>4. (n + 1)..(n + (k + 1)) \subseteq DOMAIN w /\ DOMAIN w \subseteq n..(n + (k + 1))
  BY <1>1, <1>2
<1>5. n \in DOMAIN w => w[n] = Closed(rows[n], w[n + 1].start)
  <2>1. n \in DOMAIN w => n \in DOMAIN u /\ w[n] = u[n]
    BY <1>2
  <2>2. w[n + 1] = u[n + 1]
    BY <1>2, <1>3
  <2> QED BY <1>1, <2>1, <2>2
<1>6. Written(w, rows, n, k + 1)
  BY <1>4, <1>5 DEF Written
<1> QED BY <1>6 DEF w

\* The first new row, after the row n was closed, or of an object without records.
LEMMA WrittenFirst ==
  ASSUME NEW rows, NEW n \in Nat, NEW r, NEW u,
         (n = 0 /\ DOMAIN u = {}) \/ Copied(u, rows, n, r.start)
  PROVE  Written(Overlay([i \in {n + 1} |-> r], u), rows, n, 1)
<1> DEFINE c == [i \in {n + 1} |-> r]
           w == Overlay(c, u)
<1>1. DOMAIN w = DOMAIN u \cup {n + 1} /\ w[n + 1] = r /\ \A i \in DOMAIN u : i # n + 1 => w[i] = u[i]
  BY DEF Overlay
<1> HIDE DEF w
<1>2. (n + 1)..(n + 1) \subseteq DOMAIN w /\ DOMAIN w \subseteq n..(n + 1)
  BY <1>1 DEF Copied
<1>3. n \in DOMAIN w => w[n] = Closed(rows[n], w[n + 1].start)
  BY <1>1 DEF Copied
<1>4. Written(w, rows, n, 1)
  BY <1>2, <1>3 DEF Written
<1> QED BY <1>4 DEF w

\* What is committed closes the rows that others may still want to close.
LEMMA CommittedRows ==
  ASSUME NEW rows, IsRows(rows), NEW n \in Nat, DOMAIN rows = 1..n, NEW k \in Nat, k # 0,
         NEW u, IsRows(u), Written(u, rows, n, k), NEW s \in Dates
  PROVE  \A p \in 1..n : Closed(Overlay(u, rows)[p], s) = Closed(rows[p], s)
<1> SUFFICES ASSUME NEW p \in 1..n
             PROVE  Closed(Overlay(u, rows)[p], s) = Closed(rows[p], s)
  OBVIOUS
<1>1. CASE p \in DOMAIN u
  <2>1. p = n
    BY <1>1 DEF Written
  <2>2. u[p] = Closed(rows[p], u[n + 1].start)
    BY <1>1, <2>1 DEF Written
  <2>3. rows[p] \in Row
    BY DEF IsRows
  <2>4. Closed(u[p], s) = Closed(rows[p], s)
    BY <2>2, <2>3, ClosedRow
  <2> QED BY <1>1, <2>4 DEF Overlay
<1>2. CASE p \notin DOMAIN u
  BY <1>2 DEF Overlay
<1> QED BY <1>1, <1>2
-----------------------------------------------------------------------------
(* One step of one transaction. *)

\* A step that leaves the tables alone leaves the others what they know.
LEMMA OthersKnow ==
  ASSUME HistoryInv, NEW t \in Txns, Others(t), UNCHANGED <<state, rec>>,
         NEW u \in Txns \ {t}
  PROVE  Knows(u)'
<1>1. /\ pc'[u] = pc[u] /\ op'[u] = op[u] /\ added'[u] = added[u] /\ idx'[u] = idx[u]
      /\ copy'[u] = copy[u] /\ upd'[u] = upd[u] /\ state' = state /\ rec' = rec
  BY DEF Others
<1>2. Knows(u)
  BY DEF HistoryInv
<1>3. View(u)' = View(u)
  BY <1>1 DEF View
<1>4. \A rows, n : Before(u, rows, n)' <=> Before(u, rows, n)
  BY <1>1, Zenon DEF Before
<1>5. \A rows, n, k : After(u, rows, n, k)' <=> After(u, rows, n, k)
  BY <1>1, <1>3, ZenonT(40) DEF After
<1> QED BY <1>1, <1>2, <1>4, <1>5, Zenon DEF Knows, Idle

\* A statement before the commit keeps the invariant, when what it writes is not
\* written by another transaction and what it reads is true.
LEMMA StatementKeeps ==
  ASSUME TypeInv, HistoryInv, NEW t \in Txns, Others(t), UNCHANGED <<state, rec, op>>,
         ~Idle(t), Knows(t)',
         \A u \in Txns \ {t} : op[u].obj = op[t].obj => DOMAIN upd'[t] \cap DOMAIN upd[u] = {}
  PROVE  HistoryInv'
<1>1. \A u \in Txns : op'[u] = op[u]
  OBVIOUS
<1>2. \A u \in Txns \ {t} : pc'[u] = pc[u] /\ upd'[u] = upd[u]
  BY DEF Others
<1>3. Lifecycle'
  BY <1>2 DEF HistoryInv, Lifecycle, Idle
<1>4. NoOrphans' /\ HistoryChained'
  BY DEF HistoryInv, NoOrphans, HistoryChained
<1>5. RowsDisjoint'
  BY <1>1, <1>2 DEF HistoryInv, RowsDisjoint
<1>6. \A u \in Txns : Knows(u)'
  BY OthersKnow
<1> QED BY <1>3, <1>4, <1>5, <1>6 DEF HistoryInv

LEMMA RollBackKeeps ==
  ASSUME TypeInv, HistoryInv, NEW t \in Txns, ~Idle(t), RollBack(t)
  PROVE  HistoryInv'
<1>1. /\ pc' = [pc EXCEPT ![t] = "failed"] /\ added' = [added EXCEPT ![t] = 0]
      /\ upd' = [upd EXCEPT ![t] = NoRows] /\ UNCHANGED <<state, rec, op>>
      /\ Others(t)
  BY DEF RollBack, End, dbvars, Others, TypeInv, TypeOK
<1>2. upd'[t] = NoRows /\ added'[t] = 0 /\ pc'[t] = "failed"
  BY <1>1 DEF TypeInv, TypeOK
<1>3. Knows(t)'
  BY <1>2 DEF Knows, Before
<1>4. DOMAIN upd'[t] = {}
  BY <1>2, NoRowsIsRows
<1> QED BY <1>1, <1>3, <1>4, StatementKeeps

\* The rows of an object that is there, and what t knows of them.
LEMMA KnowsFacts ==
  ASSUME TypeInv, HistoryInv, NEW t \in Txns, ~Idle(t), state[op[t].obj] = "live",
         NEW rows, rows = rec[op[t].obj], NEW n, n = Count(rows)
  PROVE  /\ IsRows(rows) /\ n \in Nat /\ DOMAIN rows = 1..n /\ ChainedTo(rows, n, None)
         /\ added[t] = 0 => Before(t, rows, n)
         /\ added[t] # 0 => After(t, rows, n, added[t])
         /\ View(t) = Overlay(upd[t], rows) /\ IsRows(upd[t])
<1>1. op[t].obj \in Objects /\ IsRows(rows)
  BY TypeFacts
<1>2. ChainedTo(rows, n, None)
  BY <1>1 DEF HistoryInv, HistoryChained, Chained
<1>3. n \in Nat
  BY <1>1, CountOfRows
<1>4. DOMAIN rows = 1..n
  BY <1>2 DEF ChainedTo
<1>5. Knows(t)
  BY DEF HistoryInv
<1>6. /\ added[t] = 0 => Before(t, rows, n)
      /\ added[t] # 0 => After(t, rows, n, added[t])
  BY <1>5, Zenon DEF Knows
<1>7. View(t) = Overlay(upd[t], rows) /\ IsRows(upd[t])
  BY DEF View, TypeInv, TypeOK
<1> QED BY <1>1, <1>2, <1>3, <1>4, <1>6, <1>7

\* The last record that a transaction which has inserted k records sees.
LEMMA LastSeen ==
  ASSUME NEW t \in Txns, NEW rows, NEW n \in Nat, NEW k \in Nat, k # 0,
         After(t, rows, n, k)
  PROVE  LastIndex(View(t)) = n + k
<1>1. DOMAIN View(t) = 1..(n + k)
  BY DEF After, ChainedTo
<1>2. n + k \in Nat /\ n + k # 0
  OBVIOUS
<1> QED BY <1>1, <1>2, CountOfChain

\* The object of a transaction that is not there any more: nothing is claimed.
LEMMA KnowsNothing ==
  ASSUME NEW t \in Txns, UNCHANGED <<state, op>>, state[op[t].obj] # "live"
  PROVE  Knows(t)'
BY DEF Knows
\* What t knows after a step that leaves the tables alone.
LEMMA KnowsNext ==
  ASSUME NEW t \in Txns, UNCHANGED <<state, rec, op>>,
         NEW rows, rows = rec[op[t].obj], NEW n, n = Count(rows), NEW k, k = added'[t],
         k = 0 => Before(t, rows, n)',
         k # 0 => After(t, rows, n, k)'
  PROVE  Knows(t)'
<1>1. rec'[op'[t].obj] = rows /\ Count(rows) = n
  OBVIOUS
<1> QED BY <1>1, Zenon DEF Knows

\* The statements that read, and those of a delete before its commit.
LEMMA ReadsKeep ==
  ASSUME TypeInv, HistoryInv, NEW t \in Txns,
         SaveObject(t) \/ TestLast(t) \/ ReadIndex(t) \/ ReadPrevious(t)
         \/ CollectRecords(t) \/ DeleteRows(t) \/ DeleteObject(t)
  PROVE  HistoryInv'
<1> USE DEF Goto, dbvars
<1> PICK rows, n, k : rows = rec[op[t].obj] /\ n = Count(rows) /\ k = added[t]
  OBVIOUS
<1>1. ~Idle(t) /\ Quiet(t)
  BY DEF SaveObject, TestLast, ReadIndex, ReadPrevious, CollectRecords, DeleteRows, DeleteObject,
         Idle, TypeInv
<1>2. CASE RollBack(t)
  BY <1>1, <1>2, RollBackKeeps
<1>3. CASE ~RollBack(t)
  <2>1. UNCHANGED <<state, rec, op, added, upd>> /\ Others(t)
    BY <1>3 DEF SaveObject, TestLast, ReadIndex, ReadPrevious, CollectRecords, DeleteRows,
                DeleteObject, Others, TypeInv, TypeOK
  <2>2. \A u \in Txns \ {t} : op[u].obj = op[t].obj => DOMAIN upd'[t] \cap DOMAIN upd[u] = {}
    BY <2>1 DEF HistoryInv, RowsDisjoint
  <2>3. View(t)' = View(t)
    BY <2>1 DEF View
  <2>4. ASSUME state[op[t].obj] = "live"
        PROVE  Knows(t)'
    <3>1. /\ IsRows(rows) /\ n \in Nat /\ DOMAIN rows = 1..n /\ ChainedTo(rows, n, None)
          /\ k = 0 => Before(t, rows, n)
          /\ k # 0 => After(t, rows, n, k)
          /\ View(t) = Overlay(upd[t], rows) /\ IsRows(upd[t])
      BY <1>1, <2>4, KnowsFacts
    <3>2. added'[t] = k /\ upd'[t] = upd[t] /\ op'[t] = op[t]
      BY <2>1
    <3>3. k \in Nat
      BY DEF TypeInv, TypeOK
    <3>4. k = 0 => (View(t) = rows /\ upd[t] = NoRows) \/ pc[t] = "insert"
      BY <3>1, OverlayNoRows DEF Before
    <3>5. CASE SaveObject(t) \/ CollectRecords(t) \/ DeleteRows(t) \/ DeleteObject(t)
      <4>1. k = 0 /\ upd[t] = NoRows
        BY <1>1, <3>5 DEF SaveObject, CollectRecords, DeleteRows, DeleteObject, Quiet, Deleting
      <4>2. pc'[t] \notin {"read previous", "close previous", "insert"}
        BY <1>3, <3>5 DEF SaveObject, CollectRecords, DeleteRows, DeleteObject, TypeInv, TypeOK
      <4>3. Before(t, rows, n)'
        BY <3>2, <4>1, <4>2 DEF Before
      <4> QED BY <2>1, <3>2, <4>1, <4>3, KnowsNext
    <3>6. CASE TestLast(t)
      <4>1. pc[t] = "test last" /\ copy' = copy
        BY <3>6 DEF TestLast
      <4>2. CASE DOMAIN View(t) = {}
        <5>1. pc'[t] = "insert" /\ idx'[t] = 1
          BY <3>6, <4>2 DEF TestLast, TypeInv, TypeOK
        <5>2. k = 0
          <6>1. k # 0 => n + k \in DOMAIN View(t)
            <7>1. k # 0 => DOMAIN View(t) = 1..(n + k)
              BY <3>1, <4>1 DEF After, ChainedTo
            <7> QED BY <3>1, <3>3, <7>1
          <6> QED BY <4>2, <6>1
        <5>3. Before(t, rows, n)'
          BY <3>1, <3>2, <4>1, <5>1, <5>2 DEF Before
        <5> QED BY <2>1, <3>2, <5>2, <5>3, KnowsNext
      <4>3. CASE DOMAIN View(t) # {}
        <5>1. pc'[t] = "read index"
          BY <3>6, <4>3 DEF TestLast, TypeInv, TypeOK
        <5>2. k = 0 => Before(t, rows, n)'
          BY <3>1, <3>2, <4>1, <5>1 DEF Before
        <5>3. k # 0 => After(t, rows, n, k)'
          BY <2>3, <3>1, <3>2, <4>1, <5>1, Zenon DEF After
        <5> QED BY <2>1, <3>2, <5>2, <5>3, KnowsNext
      <4> QED BY <4>2, <4>3
    <3>7. CASE ReadIndex(t)
      <4>1. pc[t] = "read index" /\ copy' = copy
            /\ pc'[t] = "read previous" /\ idx'[t] = LastIndex(View(t)) + 1 /\ DOMAIN View(t) # {}
        BY <1>3, <3>7 DEF ReadIndex, TypeInv, TypeOK
      <4>2. k = 0 => LastIndex(View(t)) + 1 \in 1..(n + 1)
        <5>1. k = 0 => View(t) = rows
          BY <3>4, <4>1
        <5>2. n # 0 => LastIndex(rows) = n
          BY <3>1, CountOfChain
        <5>3. DOMAIN View(t) # {}
          BY <4>1
        <5>4. k = 0 => n # 0
          BY <3>1, <5>1, <5>3
        <5> QED BY <3>1, <5>1, <5>2, <5>4
      <4>3. k # 0 => LastIndex(View(t)) + 1 = n + k + 1
        <5>1. k # 0 => LastIndex(View(t)) = n + k
          BY <3>1, <3>3, <4>1, LastSeen
        <5> QED BY <5>1
      <4>4. k = 0 => Before(t, rows, n)'
        BY <3>1, <3>2, <4>1, <4>2, Zenon DEF Before
      <4>5. k # 0 => After(t, rows, n, k)'
        BY <2>3, <3>1, <3>2, <4>1, <4>3, Zenon DEF After
      <4> QED BY <2>1, <3>2, <4>4, <4>5, KnowsNext
    <3>8. CASE ReadPrevious(t)
      <4> PICK v, start, p : v = View(t) /\ start = op[t].forms[k + 1].start /\ p = LastIndex(v)
        OBVIOUS
      <4>1. /\ pc[t] = "read previous" /\ pc'[t] = "close previous" /\ idx' = idx
            /\ copy' = [copy EXCEPT ![t] = [i \in {p} |-> Closed(v[p], start)]]
        BY <1>3, <3>8 DEF ReadPrevious, TypeInv, TypeOK
      <4>2. DOMAIN v # {}
        BY <1>3, <3>8 DEF ReadPrevious
      <4>3. Copied(copy'[t], v, p, start)
        <5>1. copy'[t] = [i \in {p} |-> Closed(v[p], start)]
          BY <4>1 DEF TypeInv, TypeOK
        <5> QED BY <5>1 DEF Copied
      <4>4. ASSUME k = 0
            PROVE  Before(t, rows, n)'
        <5>1. v = rows /\ upd[t] = NoRows
          BY <3>4, <4>1, <4>4
        <5>2. p = n /\ n \in 1..n
          BY <3>1, <4>2, <5>1, CountOfChain
        <5>3. idx[t] \in 1..(n + 1)
          BY <3>1, <4>1, <4>4 DEF Before
        <5>4. start = op[t].forms[1].start
          BY <4>4
        <5>5. Claim(idx[t], copy'[t], rows, n, op[t].forms[1].start)
          BY <4>3, <5>1, <5>2, <5>3, <5>4 DEF Claim
        <5> QED BY <3>2, <4>1, <5>1, <5>5 DEF Before
      <4>5. ASSUME k # 0
            PROVE  After(t, rows, n, k)'
        <5>1. /\ Written(upd[t], rows, n, k) /\ ChainedTo(v, n + k, None)
              /\ idx[t] = n + k + 1
          BY <3>1, <4>1, <4>5 DEF After
        <5>2. p = n + k
          BY <3>1, <3>3, <4>5, LastSeen
        <5>3. Copied(copy'[t], v, n + k, start)
          BY <4>3, <5>2
        <5> QED BY <2>3, <3>2, <4>1, <5>1, <5>3, Zenon DEF After
      <4> QED BY <2>1, <3>2, <4>4, <4>5, KnowsNext
    <3> QED BY <3>5, <3>6, <3>7, <3>8
  <2>5. Knows(t)'
    BY <2>1, <2>4, KnowsNothing
  <2> QED BY <1>1, <2>1, <2>2, <2>5, StatementKeeps
<1> QED BY <1>2, <1>3

\* A row that another transaction has written is locked.
LEMMA Unlocked ==
  ASSUME TypeInv, NEW t \in Txns, NEW i, ~RowLocked(t, i),
         NEW u \in Txns \ {t}, op[u].obj = op[t].obj
  PROVE  i \notin DOMAIN upd[u]
<1>1. CASE Active(u)
  BY <1>1 DEF RowLocked
<1>2. CASE ~Active(u)
  <2>1. upd[u] = NoRows
    BY <1>2 DEF TypeInv, Quiet
  <2> QED BY <2>1, NoRowsIsRows
<1> QED BY <1>1, <1>2

\* The start date of the record that t is saving.
LEMMA StartOfForm ==
  ASSUME TypeInv, NEW t \in Txns, ~Idle(t), pc[t] \in Saving
  PROVE  op[t].forms[added[t] + 1].start \in Dates
BY TypeFacts DEF Form

\* The UPDATE of the previous record.
LEMMA CloseKeeps ==
  ASSUME TypeInv, HistoryInv, NEW t \in Txns, ClosePrevious(t)
  PROVE  HistoryInv'
<1> USE DEF Goto, dbvars
<1> PICK rows, n, k, start :
      /\ rows = rec[op[t].obj] /\ n = Count(rows) /\ k = added[t]
      /\ start = op[t].forms[k + 1].start
  OBVIOUS
<1>1. pc[t] = "close previous" /\ ~Idle(t) /\ pc[t] \in Saving
  BY DEF ClosePrevious, Idle, Saving
<1>2. CASE RollBack(t)
  BY <1>1, <1>2, RollBackKeeps
<1>3. CASE ~RollBack(t)
  <2> PICK c, f : c = copy[t] /\ f = Overlay(c, upd[t])
    OBVIOUS
  <2>1. /\ \A p \in DOMAIN c : ~RowLocked(t, p)
        /\ upd' = [upd EXCEPT ![t] = f] /\ pc'[t] = "insert"
        /\ UNCHANGED <<state, rec, op, added, idx>> /\ Others(t)
    BY <1>3 DEF ClosePrevious, Others, TypeInv, TypeOK
  <2>2. upd'[t] = f
    BY <2>1 DEF TypeInv, TypeOK
  <2>3. added'[t] = k /\ op'[t] = op[t] /\ idx'[t] = idx[t]
    BY <2>1
  <2>4. DOMAIN f = DOMAIN c \cup DOMAIN upd[t]
    BY DEF Overlay
  <2>5. \A u \in Txns \ {t} : op[u].obj = op[t].obj => DOMAIN upd'[t] \cap DOMAIN upd[u] = {}
    BY <2>1, <2>2, <2>4, Unlocked DEF HistoryInv, RowsDisjoint
  <2>6. ASSUME state[op[t].obj] = "live"
        PROVE  Knows(t)'
    <3>1. /\ IsRows(rows) /\ n \in Nat /\ DOMAIN rows = 1..n /\ ChainedTo(rows, n, None)
          /\ k = 0 => Before(t, rows, n)
          /\ k # 0 => After(t, rows, n, k)
          /\ View(t) = Overlay(upd[t], rows) /\ IsRows(upd[t])
      BY <1>1, <2>6, KnowsFacts
    <3>2. k \in Nat /\ start \in Dates /\ IsRows(c)
      BY <1>1, StartOfForm DEF TypeInv, TypeOK
    <3>3. ASSUME k = 0
          PROVE  Before(t, rows, n)'
      <4>1. upd[t] = NoRows /\ Claim(idx[t], c, rows, n, op[t].forms[1].start)
        BY <1>1, <3>1, <3>3 DEF Before
      <4>2. f = c
        BY <3>2, <4>1, OverlayNoRows
      <4> QED BY <2>1, <2>2, <2>3, <4>1, <4>2 DEF Before
    <3>4. ASSUME k # 0
          PROVE  After(t, rows, n, k)'
      <4> PICK v : v = View(t)
        OBVIOUS
      <4>1. /\ Written(upd[t], rows, n, k) /\ ChainedTo(v, n + k, None)
            /\ idx[t] = n + k + 1 /\ Copied(c, v, n + k, start)
        BY <1>1, <3>1, <3>4 DEF After
      <4>2. v = Overlay(upd[t], rows) /\ IsRows(v)
        BY <1>1, <3>1, TypeFacts
      <4>3. Written(f, rows, n, k)
        BY <3>1, <3>2, <3>4, <4>1, <4>2, WrittenClosed
      <4>4. ChainedTo(Overlay(c, v), n + k, start)
        <5>1. n + k \in Nat \ {0}
          BY <3>1, <3>2, <3>4
        <5> QED BY <3>2, <4>1, <4>2, <5>1, ClosingChains
      <4>5. View(t)' = Overlay(c, v)
        <5>1. View(t)' = Overlay(f, rows)
          BY <2>1, <2>2 DEF View
        <5> QED BY <4>2, <5>1, OverlayAssociates
      <4> QED BY <2>1, <2>2, <2>3, <4>1, <4>3, <4>4, <4>5, Zenon DEF After
    <3> QED BY <2>1, <2>3, <3>3, <3>4, KnowsNext
  <2>7. Knows(t)'
    BY <2>1, <2>6, KnowsNothing
  <2> QED BY <1>1, <2>1, <2>5, <2>7, StatementKeeps
<1> QED BY <1>2, <1>3

\* The INSERT of a record: an index that is still free is the next one.
LEMMA InsertKeeps ==
  ASSUME TypeInv, HistoryInv, NEW t \in Txns, InsertRecord(t)
  PROVE  HistoryInv'
<1> USE DEF Goto, dbvars
<1> PICK rows, n, k, start, r, i :
      /\ rows = rec[op[t].obj] /\ n = Count(rows) /\ k = added[t]
      /\ start = op[t].forms[k + 1].start /\ r = NewRow(t) /\ i = idx[t]
  OBVIOUS
<1>1. pc[t] = "insert" /\ ~Idle(t) /\ pc[t] \in Saving
  BY DEF InsertRecord, Idle, Saving
<1>2. CASE RollBack(t)
  BY <1>1, <1>2, RollBackKeeps
<1>3. CASE ~RollBack(t)
  <2> PICK f : f = Overlay([j \in {i} |-> r], upd[t])
    OBVIOUS
  <2>1. /\ ~RowLocked(t, i) /\ i \notin DOMAIN View(t)
        /\ upd' = [upd EXCEPT ![t] = f] /\ added' = [added EXCEPT ![t] = k + 1]
        /\ UNCHANGED <<state, rec, op>> /\ Others(t)
    BY <1>3 DEF InsertRecord, Others, TypeInv, TypeOK
  <2>2. upd'[t] = f /\ added'[t] = k + 1 /\ op'[t] = op[t]
    BY <2>1 DEF TypeInv, TypeOK
  <2>3. pc'[t] \in {"commit", "test last"}
    BY <1>3 DEF InsertRecord, TypeInv, TypeOK
  <2>4. DOMAIN f = {i} \cup DOMAIN upd[t]
    BY DEF Overlay
  <2>5. \A u \in Txns \ {t} : op[u].obj = op[t].obj => DOMAIN upd'[t] \cap DOMAIN upd[u] = {}
    BY <2>1, <2>2, <2>4, Unlocked DEF HistoryInv, RowsDisjoint
  <2>6. ASSUME state[op[t].obj] = "live"
        PROVE  Knows(t)'
    <3> PICK v : v = View(t)
      OBVIOUS
    <3>1. /\ IsRows(rows) /\ n \in Nat /\ DOMAIN rows = 1..n /\ ChainedTo(rows, n, None)
          /\ k = 0 => Before(t, rows, n)
          /\ k # 0 => After(t, rows, n, k)
          /\ v = Overlay(upd[t], rows) /\ IsRows(upd[t])
      BY <1>1, <2>6, KnowsFacts
    <3>2. k \in Nat /\ start \in Dates
      BY <1>1, StartOfForm DEF TypeInv, TypeOK
    <3>3. r.start = start /\ r.end = None
      BY DEF NewRow
    <3>4. DOMAIN v = DOMAIN upd[t] \cup DOMAIN rows
      BY <3>1 DEF Overlay
    <3>5. View(t)' = Overlay([j \in {i} |-> r], v)
      <4>1. View(t)' = Overlay(f, rows)
        BY <2>1, <2>2 DEF View
      <4> QED BY <3>1, <4>1, OverlayAssociates
    <3>6. Written(f, rows, n, k + 1) /\ ChainedTo(Overlay([j \in {i} |-> r], v), n + (k + 1), None)
      <4>1. CASE k = 0 /\ upd[t] = NoRows
        <5>1. v = rows /\ DOMAIN upd[t] = {}
          BY <3>1, <4>1, OverlayNoRows, NoRowsIsRows
        <5>2. i = 1
          <6>1. i = 1 \/ Claim(i, upd[t], rows, n, op[t].forms[1].start)
            BY <1>1, <3>1, <4>1 DEF Before
          <6>2. ~Claim(i, upd[t], rows, n, op[t].forms[1].start)
            BY <5>1 DEF Claim, Copied
          <6> QED BY <6>1, <6>2
        <5>3. n = 0
          BY <2>1, <3>1, <5>1, <5>2
        <5>4. i = n + 1 /\ n + (k + 1) = n + 1 /\ k + 1 = 1
          BY <4>1, <5>2, <5>3
        <5>5. Written(f, rows, n, 1)
          BY <5>1, <5>3, <5>4, <3>1, WrittenFirst
        <5>6. ChainedTo(Overlay([j \in {n + 1} |-> r], v), n + 1, None)
          BY <3>1, <3>3, <5>1, <5>3, AppendingChains
        <5> QED BY <5>4, <5>5, <5>6
      <4>2. CASE k = 0 /\ upd[t] # NoRows
        <5>1. Claim(i, upd[t], rows, n, start)
          BY <1>1, <3>1, <4>2 DEF Before
        <5>2. i \notin 1..n
          BY <2>1, <3>1, <3>4
        <5>3. i = n + 1 /\ n # 0 /\ Copied(upd[t], rows, n, start)
          BY <3>1, <5>1, <5>2, FreeIndex
        <5>4. n + (k + 1) = n + 1 /\ k + 1 = 1
          BY <3>1, <4>2
        <5>5. Written(f, rows, n, 1)
          BY <3>1, <3>3, <5>3, WrittenFirst, ZenonT(40)
        <5>6. ChainedTo(v, n, start)
          BY <3>1, <3>2, <5>3, ClosingChains
        <5>7. ChainedTo(Overlay([j \in {n + 1} |-> r], v), n + 1, None)
          BY <3>1, <3>3, <5>6, AppendingChains, ZenonT(40)
        <5> QED BY <5>3, <5>4, <5>5, <5>7
      <4>3. CASE k # 0
        <5>1. Written(upd[t], rows, n, k) /\ ChainedTo(v, n + k, start) /\ i = n + k + 1
          BY <1>1, <3>1, <4>3 DEF After
        <5>2. n + (k + 1) = n + k + 1 /\ n + k \in Nat
          BY <3>1, <3>2
        <5>3. Written(f, rows, n, k + 1)
          BY <3>1, <3>2, <4>3, <5>1, WrittenMore
        <5>4. ChainedTo(Overlay([j \in {n + k + 1} |-> r], v), n + k + 1, None)
          BY <3>3, <5>1, <5>2, AppendingChains, ZenonT(40)
        <5> QED BY <5>1, <5>2, <5>3, <5>4
      <4> QED BY <4>1, <4>2, <4>3
    <3> PICK m : m = k + 1
      OBVIOUS
    <3>7. m # 0
      BY <3>2
    <3>8. After(t, rows, n, m)'
      BY <2>2, <2>3, <3>5, <3>6 DEF After
    <3> QED BY <2>1, <2>2, <3>7, <3>8, KnowsNext
  <2>7. Knows(t)'
    BY <2>1, <2>6, KnowsNothing
  <2> QED BY <1>1, <2>1, <2>5, <2>7, StatementKeeps
<1> QED BY <1>2, <1>3

\* What a commit leaves the other transactions on the same object.
LEMMA OtherSurvivesCommit ==
  ASSUME TypeInv, HistoryInv, NEW t \in Txns, ~Idle(t), state[op[t].obj] = "live",
         NEW rows, rows = rec[op[t].obj], NEW n, n = Count(rows), NEW k, k = added[t], k # 0,
         After(t, rows, n, k),
         NEW u \in Txns \ {t}, ~Idle(u), op[u].obj = op[t].obj
  PROVE  added[u] = 0 /\ Before(u, Overlay(upd[t], rows), n + k)
<1> PICK f : f = Overlay(upd[t], rows)
  OBVIOUS
<1>1. /\ IsRows(rows) /\ n \in Nat /\ DOMAIN rows = 1..n
      /\ IsRows(upd[t]) /\ k \in Nat
  BY KnowsFacts DEF TypeInv, TypeOK
<1>2. Written(upd[t], rows, n, k)
  BY DEF After
<1>3. n + 1 \in DOMAIN upd[t]
  BY <1>1, <1>2, WrittenRows
<1>4. added[u] = 0
  <2> PICK l : l = added[u]
    OBVIOUS
  <2>1. l # 0 => After(u, rows, n, l)
    BY KnowsFacts
  <2>2. l # 0 => Written(upd[u], rows, n, l)
    BY <2>1 DEF After
  <2>3. l \in Nat
    BY DEF TypeInv, TypeOK
  <2>4. l # 0 => n + 1 \in DOMAIN upd[u]
    BY <1>1, <2>2, <2>3, WrittenRows
  <2>5. DOMAIN upd[t] \cap DOMAIN upd[u] = {}
    BY DEF HistoryInv, RowsDisjoint
  <2> QED BY <1>3, <2>4, <2>5
<1>5. Before(u, rows, n)
  BY <1>4, KnowsFacts
<1>6. n <= n + k /\ n + k \in Nat /\ 1..(n + 1) \subseteq 1..(n + k + 1)
  BY <1>1
<1>7. ASSUME NEW s \in Dates, NEW i, NEW c, Claim(i, c, rows, n, s)
      PROVE  Claim(i, c, f, n + k, s)
  <2>1. \A p \in 1..n : Closed(f[p], s) = Closed(rows[p], s)
    BY <1>1, <1>2, CommittedRows
  <2> QED BY <1>1, <1>6, <1>7, <2>1, ClaimSurvives
<1>8. pc[u] \in Saving => op[u].forms[1].start \in Dates
  <2>1. pc[u] \in Saving => op[u].forms[0 + 1].start \in Dates
    BY <1>4, StartOfForm
  <2> QED BY <2>1
<1>9. pc[u] \in {"close previous", "insert"} => pc[u] \in Saving
  BY DEF Saving
<1>10. Before(u, f, n + k)
  <2> PICK m, s : m = n + k /\ s = op[u].forms[1].start
    OBVIOUS
  <2>1. pc[u] # "insert" => upd[u] = NoRows
    BY <1>5 DEF Before
  <2>2. pc[u] = "read previous" => idx[u] \in 1..(m + 1)
    <3>1. pc[u] = "read previous" => idx[u] \in 1..(n + 1)
      BY <1>5 DEF Before
    <3>2. 1..(n + 1) \subseteq 1..(m + 1)
      BY <1>1
    <3> QED BY <3>1, <3>2, Zenon
  <2>3. pc[u] = "close previous" => Claim(idx[u], copy[u], f, m, s)
    BY <1>5, <1>7, <1>8, <1>9 DEF Before
  <2>4. pc[u] = "insert" => (upd[u] = NoRows /\ idx[u] = 1) \/ Claim(idx[u], upd[u], f, m, s)
    BY <1>5, <1>7, <1>8, <1>9 DEF Before
  <2>5. Before(u, f, m)
    BY <2>1, <2>2, <2>3, <2>4, Zenon DEF Before
  <2> QED BY <2>5
<1> QED BY <1>4, <1>10

LEMMA CommitKeeps ==
  ASSUME Disciplined, TypeInv, HistoryInv, NEW t \in Txns, Commit(t)
  PROVE  HistoryInv'
<1> USE DEF dbvars
<1> PICK o, rows, n, k, f :
      /\ o = op[t].obj /\ rows = rec[o] /\ n = Count(rows) /\ k = added[t]
      /\ f = Overlay(upd[t], rows)
  OBVIOUS
<1>1. pc[t] = "commit" /\ ~Idle(t)
  BY DEF Commit, Idle
<1>2. CASE RollBack(t)
  BY <1>1, <1>2, RollBackKeeps
<1>3. CASE ~RollBack(t)
  <2>1. /\ state' = [state EXCEPT ![o] = "live"] /\ rec' = [rec EXCEPT ![o] = f]
        /\ End(t, "done")
        /\ state[o] = "live" \/ op[t].kind = "admin"
    BY <1>3 DEF Commit
  <2>2. o \in Objects
    BY <1>1, TypeFacts
  <2>3. state[o] = "live"
    <3>1. op[t].kind = "admin" => <<o, "admin">> \in Requests
      BY <1>1 DEF TypeInv, Control
    <3>2. op[t].kind = "admin" => state[o] # "deleted"
      BY <2>2, <3>1 DEF HistoryInv, Lifecycle
    <3>3. state[o] # "unborn"
      BY <1>1 DEF HistoryInv, Lifecycle
    <3>4. state[o] \in {"unborn", "live", "deleted"}
      BY <2>2 DEF TypeInv, TypeOK
    <3> QED BY <2>1, <3>2, <3>3, <3>4
  <2>4. state' = state /\ op' = op /\ Others(t)
    BY <2>1, <2>3 DEF End, Others, TypeInv, TypeOK
  <2>5. rec'[o] = f /\ \A x \in Objects : x # o => rec'[x] = rec[x]
    BY <2>1, <2>2 DEF TypeInv, TypeOK
  <2>6. upd'[t] = NoRows /\ added'[t] = 0 /\ pc'[t] = "done"
    BY <2>1 DEF End, TypeInv, TypeOK
  <2>7. /\ IsRows(rows) /\ n \in Nat /\ DOMAIN rows = 1..n /\ ChainedTo(rows, n, None)
        /\ k = 0 => Before(t, rows, n)
        /\ k # 0 => After(t, rows, n, k)
        /\ View(t) = f
    BY <1>1, <2>3, KnowsFacts
  <2>8. k \in Nat
    BY DEF TypeInv, TypeOK
  <2>9. k = 0 => f = rows
    <3>1. k = 0 => upd[t] = NoRows
      BY <1>1, <2>7 DEF Before
    <3> QED BY <2>7, <3>1, OverlayNoRows
  <2>10. ChainedTo(f, n + k, None) /\ Count(f) = n + k
    <3>1. k = 0 => ChainedTo(f, n, None)
      BY <2>7, <2>9
    <3>2. k # 0 => ChainedTo(f, n + k, None)
      BY <1>1, <2>7 DEF After
    <3>3. ChainedTo(f, n + k, None)
      BY <2>7, <2>8, <3>1, <3>2
    <3>4. n + k \in Nat
      BY <2>7, <2>8
    <3>5. DOMAIN f = 1..(n + k)
      BY <3>3, Zenon DEF ChainedTo
    <3> QED BY <3>3, <3>4, <3>5, CountOfChain
  <2>11. Lifecycle'
    BY <1>1, <2>4 DEF HistoryInv, Lifecycle, Others, Idle
  <2>12. NoOrphans'
    BY <2>3, <2>4, <2>5 DEF HistoryInv, NoOrphans
  <2>13. HistoryChained'
    BY <2>5, <2>10 DEF HistoryInv, HistoryChained, Chained
  <2>14. RowsDisjoint'
    BY <2>4, <2>6, NoRowsIsRows DEF HistoryInv, RowsDisjoint, Others
  <2>15. Knows(t)'
    BY <2>6 DEF Knows, Before
  <2>16. ASSUME NEW u \in Txns \ {t}
         PROVE  Knows(u)'
    <3>1. /\ pc'[u] = pc[u] /\ op'[u] = op[u] /\ added'[u] = added[u] /\ idx'[u] = idx[u]
          /\ copy'[u] = copy[u] /\ upd'[u] = upd[u]
      BY <2>4 DEF Others
    <3>2. \A x, m : Before(u, x, m)' <=> Before(u, x, m)
      BY <3>1, Zenon DEF Before
    <3>3. CASE Idle(u)
      BY <3>1, <3>3 DEF Knows, Idle
    <3>4. CASE ~Idle(u) /\ (op[u].obj # o \/ k = 0)
      <4>1. op[u].obj \in Objects
        BY <3>4, TypeFacts
      <4>2. rec'[op[u].obj] = rec[op[u].obj]
        BY <2>5, <2>9, <3>4, <4>1
      <4>3. View(u)' = View(u)
        BY <3>1, <4>2 DEF View
      <4>4. \A x, m, l : After(u, x, m, l)' <=> After(u, x, m, l)
        BY <3>1, <4>3, ZenonT(40) DEF After
      <4>5. Knows(u)
        BY DEF HistoryInv
      <4> QED BY <2>4, <3>1, <3>2, <4>2, <4>4, <4>5, Zenon DEF Knows, Idle
    <3>5. CASE ~Idle(u) /\ op[u].obj = o /\ k # 0
      <4>1. added[u] = 0 /\ Before(u, f, n + k)
        BY <1>1, <2>3, <2>7, <3>5, OtherSurvivesCommit
      <4>2. rec'[op'[u].obj] = f /\ Count(f) = n + k /\ added'[u] = 0
        BY <2>5, <2>10, <3>1, <3>5, <4>1
      <4>3. Before(u, f, n + k)'
        BY <3>2, <4>1
      <4> QED BY <4>2, <4>3, Zenon DEF Knows
    <3> QED BY <3>3, <3>4, <3>5
  <2> QED BY <2>11, <2>12, <2>13, <2>14, <2>15, <2>16 DEF HistoryInv
<1> QED BY <1>2, <1>3

\* A step that changes the tables for one object leaves those who are at another
\* one what they know.
LEMMA ElsewhereKnows ==
  ASSUME TypeInv, HistoryInv, NEW o, NEW u \in Txns, op[u].obj # o \/ Idle(u),
         \A x \in Objects : x # o => rec'[x] = rec[x] /\ state'[x] = state[x],
         pc'[u] = pc[u], op'[u] = op[u], added'[u] = added[u], idx'[u] = idx[u],
         copy'[u] = copy[u], upd'[u] = upd[u]
  PROVE  Knows(u)'
<1>1. CASE Idle(u)
  BY <1>1 DEF Knows, Idle
<1>2. CASE ~Idle(u)
  <2>1. rec'[op[u].obj] = rec[op[u].obj] /\ state'[op[u].obj] = state[op[u].obj]
    BY <1>2, TypeFacts
  <2>2. View(u)' = View(u)
    BY <2>1 DEF View
  <2>3. \A x, m : Before(u, x, m)' <=> Before(u, x, m)
    BY Zenon DEF Before
  <2>4. \A x, m, l : After(u, x, m, l)' <=> After(u, x, m, l)
    BY <2>2, ZenonT(40) DEF After
  <2>5. Knows(u)
    BY DEF HistoryInv
  <2> QED BY <2>1, <2>3, <2>4, <2>5, Zenon DEF Knows, Idle
<1> QED BY <1>1, <1>2

LEMMA CommitDeleteKeeps ==
  ASSUME Disciplined, TypeInv, HistoryInv, NEW t \in Txns, CommitDelete(t)
  PROVE  HistoryInv'
<1> PICK o : o = op[t].obj
  OBVIOUS
<1>1. pc[t] = "delete" /\ ~Idle(t)
  BY DEF CommitDelete, Idle
<1>2. CASE RollBack(t)
  BY <1>1, <1>2, RollBackKeeps
<1>3. CASE ~RollBack(t)
  <2>1. /\ state' = [state EXCEPT ![o] = "deleted"] /\ rec' = [rec EXCEPT ![o] = NoRows]
        /\ End(t, "done")
    BY <1>3 DEF CommitDelete
  <2>2. o \in Objects /\ <<o, "delete">> \in Requests
    BY <1>1, TypeFacts DEF TypeInv, Control, Deleting
  <2>3. /\ rec'[o] = NoRows /\ state'[o] = "deleted"
        /\ \A x \in Objects : x # o => rec'[x] = rec[x] /\ state'[x] = state[x]
    BY <2>1, <2>2 DEF TypeInv, TypeOK
  <2>4. op' = op /\ Others(t) /\ upd'[t] = NoRows /\ added'[t] = 0 /\ pc'[t] = "done"
    BY <2>1 DEF End, Others, TypeInv, TypeOK
  <2>5. Lifecycle'
    <3>1. <<o, "admin">> \notin Requests
      BY <2>2 DEF Disciplined
    <3>2. \A u \in Txns : ~Idle(u)' => ~Idle(u)
      BY <1>1, <2>4 DEF Others, Idle
    <3>3. \A u \in Txns : ~Idle(u) => op[u].obj \in Objects
      BY TypeFacts
    <3> QED BY <2>3, <2>4, <3>1, <3>2, <3>3 DEF HistoryInv, Lifecycle
  <2>6. NoOrphans'
    BY <2>3 DEF HistoryInv, NoOrphans
  <2>7. HistoryChained'
    <3>1. Chained(NoRows)
      BY NoRowsIsRows DEF Chained, ChainedTo, Count
    <3> QED BY <2>3, <3>1 DEF HistoryInv, HistoryChained
  <2>8. RowsDisjoint'
    BY <2>4, NoRowsIsRows DEF HistoryInv, RowsDisjoint, Others
  <2>9. Knows(t)'
    BY <2>4 DEF Knows, Before
  <2>10. ASSUME NEW u \in Txns \ {t}
         PROVE  Knows(u)'
    <3>1. CASE op[u].obj = o
      BY <2>3, <2>4, <3>1 DEF Knows, Others
    <3>2. CASE op[u].obj # o
      BY <2>3, <2>4, <3>2, ElsewhereKnows, SMTT(30) DEF Others
    <3> QED BY <3>1, <3>2
  <2> QED BY <2>5, <2>6, <2>7, <2>8, <2>9, <2>10 DEF HistoryInv
<1> QED BY <1>2, <1>3

\* A request arrives for an object that is there.
LEMMA ArriveKeeps ==
  ASSUME TypeInv, HistoryInv, NEW t \in Txns, Arrive(t)
  PROVE  HistoryInv'
<1> USE DEF Begin, Goto, dbvars
<1>1. PICK o \in Objects : state[o] = "live" /\ op'[t].obj = o
  <2>1. PICK o \in Objects :
          /\ DOMAIN rec[o] # {} \/ state[o] = "live"
          /\ \E kind, fs : op' = [op EXCEPT ![t] = [kind |-> kind, obj |-> o, forms |-> fs]]
    BY DEF Arrive, Put, Patch, AdminChange, Destroy
  <2>2. PICK kind, fs : op' = [op EXCEPT ![t] = [kind |-> kind, obj |-> o, forms |-> fs]]
    BY <2>1
  <2>3. op'[t].obj = o
    BY <2>2 DEF TypeInv, TypeOK
  <2>4. state[o] = "live"
    BY <2>1, NoRowsIsRows DEF HistoryInv, NoOrphans
  <2> QED BY <2>3, <2>4
<1>2. /\ Idle(t) /\ UNCHANGED <<state, rec, added, idx, copy, upd, gone>>
      /\ Others(t) /\ pc'[t] \in {"test last", "save object", "collect"}
  BY DEF Arrive, Put, Patch, AdminChange, Destroy, Others, TypeInv, TypeOK
<1>3. upd[t] = NoRows /\ added[t] = 0
  BY <1>2 DEF TypeInv, Quiet, Active
<1>4. Lifecycle'
  BY <1>1, <1>2 DEF HistoryInv, Lifecycle, Others, Idle
<1>5. NoOrphans' /\ HistoryChained'
  BY <1>2 DEF HistoryInv, NoOrphans, HistoryChained
<1>6. RowsDisjoint'
  BY <1>2, <1>3, NoRowsIsRows, ZenonT(40) DEF HistoryInv, RowsDisjoint, Others
<1>7. Knows(t)'
  BY <1>2, <1>3 DEF Knows, Before
<1>8. \A u \in Txns \ {t} : Knows(u)'
  BY <1>2, OthersKnow
<1> QED BY <1>4, <1>5, <1>6, <1>7, <1>8 DEF HistoryInv

LEMMA CreateKeeps ==
  ASSUME TypeInv, HistoryInv, NEW o \in Objects, NEW fs \in FormLists({}), Create(o, fs)
  PROVE  HistoryInv'
<1>1. /\ state[o] = "unborn" /\ UNCHANGED <<pc, op, added, idx, copy, upd, gone>>
      /\ state'[o] = "live" /\ rec'[o] = Created(fs)
      /\ \A x \in Objects : x # o => rec'[x] = rec[x] /\ state'[x] = state[x]
  BY DEF Create, txvars, TypeInv, TypeOK
<1>2. Chained(Created(fs))
  BY FormListsAreSeqs, CreatedRows
<1>3. Lifecycle'
  <2>1. \A u \in Txns : ~Idle(u) => op[u].obj \in Objects
    BY TypeFacts
  <2> QED BY <1>1, <2>1 DEF HistoryInv, Lifecycle, Idle
<1>4. NoOrphans' /\ HistoryChained'
  BY <1>1, <1>2 DEF HistoryInv, NoOrphans, HistoryChained
<1>5. RowsDisjoint'
  BY <1>1 DEF HistoryInv, RowsDisjoint
<1>6. ASSUME NEW u \in Txns
      PROVE  Knows(u)'
  <2>1. op[u].obj # o \/ Idle(u)
    BY <1>1 DEF HistoryInv, Lifecycle
  <2> QED BY <1>1, <2>1, ElsewhereKnows
<1> QED BY <1>3, <1>4, <1>5, <1>6 DEF HistoryInv

-----------------------------------------------------------------------------
(* The invariant. *)

LEMMA InitHistory == Init => HistoryInv
<1> SUFFICES ASSUME Init PROVE HistoryInv
  OBVIOUS
<1>1. Lifecycle /\ NoOrphans /\ RowsDisjoint
  BY NoRowsIsRows DEF Init, Lifecycle, NoOrphans, RowsDisjoint, Idle
<1>2. HistoryChained
  <2>1. Chained(NoRows)
    BY NoRowsIsRows DEF Chained, ChainedTo, Count
  <2> QED BY <2>1 DEF Init, HistoryChained
<1>3. \A t \in Txns : Knows(t)
  BY DEF Init, Knows, Idle
<1> QED BY <1>1, <1>2, <1>3 DEF HistoryInv

LEMMA NextHistory ==
  ASSUME Disciplined, TypeInv, HistoryInv, [Next]_vars
  PROVE  HistoryInv'
<1>1. CASE UNCHANGED vars
  <2>1. UNCHANGED <<state, rec, pc, op, added, idx, copy, upd, gone>>
    BY <1>1 DEF vars
  <2>2. \A u \in Txns : Knows(u)'
    <3> SUFFICES ASSUME NEW u \in Txns PROVE Knows(u)'
      OBVIOUS
    <3>1. View(u)' = View(u)
      BY <2>1 DEF View
    <3>2. \A x, m : Before(u, x, m)' <=> Before(u, x, m)
      BY <2>1, Zenon DEF Before
    <3>3. \A x, m, l : After(u, x, m, l)' <=> After(u, x, m, l)
      BY <2>1, <3>1, ZenonT(40) DEF After
    <3>4. Knows(u)
      BY DEF HistoryInv
    <3> QED BY <2>1, <3>2, <3>3, <3>4, Zenon DEF Knows, Idle
  <2> QED BY <2>1, <2>2 DEF HistoryInv, Lifecycle, NoOrphans, HistoryChained, RowsDisjoint, Idle
<1>2. CASE \E o \in Objects, fs \in FormLists({}) : Create(o, fs)
  BY <1>2, CreateKeeps
<1>3. ASSUME NEW t \in Txns, Arrive(t) \/ Step(t) \/ Fail(t)
      PROVE  HistoryInv'
  <2>1. CASE Arrive(t)
    BY <2>1, ArriveKeeps
  <2>2. CASE Step(t)
    BY <2>2, ReadsKeep, CloseKeeps, InsertKeeps, CommitKeeps, CommitDeleteKeeps DEF Step
  <2>3. CASE Fail(t)
    BY <2>3, RollBackKeeps DEF Fail, Active
  <2> QED BY <1>3, <2>1, <2>2, <2>3
<1> QED BY <1>1, <1>2, <1>3 DEF Next

\* The inductive invariant holds, when no object is both changed in the admin and
\* deleted.
THEOREM Invariant == Disciplined => (Spec => []HistoryInv)
<1>1. ASSUME Disciplined
      PROVE  TypeInv /\ HistoryInv /\ [Next]_vars => HistoryInv'
  BY <1>1, NextHistory
<1>2. ASSUME Disciplined
      PROVE  Spec => []HistoryInv
  BY <1>1, <1>2, InitHistory, Typing, PTL DEF Spec
<1> QED BY <1>2

\* Whatever requests save records of an object at the same time, its committed
\* records are a chain: save()'s three queries and two writes need no lock of
\* their own, the unique index of a record is enough.
THEOREM ChainKept == Disciplined => (Spec => []HistoryChained)
<1>1. HistoryInv => HistoryChained
  BY DEF HistoryInv
<1> QED BY <1>1, Invariant, PTL

\* No record outlives its object.
THEOREM OrphansNever == Disciplined => (Spec => []NoOrphans)
<1>1. HistoryInv => NoOrphans
  BY DEF HistoryInv
<1> QED BY <1>1, Invariant, PTL

-----------------------------------------------------------------------------
(* The record of a date. *)

\* The greatest of the numbers up to n that have a property.
LEMMA GreatestIs ==
  ASSUME NEW n \in Nat, NEW S \in SUBSET (0..n), NEW m \in S, \A j \in S : j <= m
  PROVE  MaxOf(S) = m
<1> PICK x : x = MaxOf(S)
  OBVIOUS
<1>1. x \in S /\ m <= x
  BY MaxExists
<1>2. x <= m
  BY <1>1
<1>3. x \in 0..n /\ m \in 0..n
  BY <1>1
<1>4. x = m
  BY <1>1, <1>2, <1>3
<1> QED BY <1>4

\* In a chain, the newest record that had started by d is the one the date filter
\* of the API finds last.
LEMMA AsOf ==
  ASSUME NEW rows, IsRows(rows), NEW n \in Nat, ChainedTo(rows, n, None), NEW d \in Dates
  PROVE  /\ RecordOn(rows, d) = 0 => \A i \in DOMAIN rows : ~History!IsAsOf(EntriesOf(rows), d, i)
         /\ RecordOn(rows, d) # 0 => History!IsAsOf(EntriesOf(rows), d, RecordOn(rows, d))
<1> DEFINE S == {i \in 1..n : rows[i].start <= d}
           F == FilterForDate(rows, d)
<1>1. /\ DOMAIN rows = 1..n
      /\ \A i \in 1..n : rows[i] \in Row /\ rows[i].end = IF i = n THEN None ELSE rows[i + 1].start
  BY DEF IsRows, ChainedTo
<1>2. \A i \in 1..n : rows[i].start \in Nat
  BY <1>1, DatesAssumption DEF Row
<1>3. d \in Nat
  BY DatesAssumption
<1>4. F \subseteq S
  BY <1>1 DEF FilterForDate
<1>5. \A i : History!IsAsOf(EntriesOf(rows), d, i) <=> i \in S /\ \A j \in S : j <= i
  <2>1. DOMAIN EntriesOf(rows) = 1..n /\ \A i \in 1..n : EntriesOf(rows)[i].start = rows[i].start
    BY <1>1 DEF EntriesOf
  <2> QED BY <2>1 DEF History!IsAsOf
<1>6. CASE S = {}
  <2>1. RecordOn(rows, d) = 0
    BY <1>4, <1>6 DEF RecordOn
  <2> QED BY <1>5, <1>6, <2>1
<1>7. CASE S # {}
  <2>1. PICK m \in S : \A j \in S : j <= m
    <3>1. S \in SUBSET (0..n)
      OBVIOUS
    <3> QED BY <1>7, <3>1, MaxExists
  <2>2. rows[m].end = None \/ rows[m].end >= d
    <3>1. CASE m = n
      BY <1>1, <3>1
    <3>2. CASE m # n
      <4>1. m + 1 \in 1..n /\ m + 1 \notin S
        BY <2>1, <3>2
      <4>2. rows[m].end = rows[m + 1].start
        BY <1>1, <2>1, <3>2
      <4> QED BY <1>2, <1>3, <4>1, <4>2
    <3> QED BY <3>1, <3>2
  <2>3. m \in F
    BY <1>1, <2>1, <2>2 DEF FilterForDate
  <2>4. F \in SUBSET (0..n) /\ \A j \in F : j <= m
    BY <1>4, <2>1
  <2> HIDE DEF F
  <2>5. MaxOf(F) = m
    BY <2>3, <2>4, GreatestIs
  <2>6. RecordOn(rows, d) = m /\ m # 0
    BY <2>1, <2>3, <2>5 DEF RecordOn, F
  <2> QED BY <1>5, <2>1, <2>6
<1> QED BY <1>6, <1>7

\* The search by date shows the newest record that had started by then, although
\* records may start before the ones they follow, and although it looks at the
\* end dates that save() fills in.
THEOREM AsOfDate == Disciplined => (Spec => []ShowsAsOf)
<1>1. TypeInv /\ HistoryInv => ShowsAsOf
  <2> SUFFICES ASSUME TypeInv, HistoryInv, NEW o \in Objects, NEW d \in Dates
               PROVE  LET shown == RecordOn(rec[o], d) IN
                      IF shown = 0
                      THEN \A i \in DOMAIN rec[o] : ~History!IsAsOf(EntriesOf(rec[o]), d, i)
                      ELSE History!IsAsOf(EntriesOf(rec[o]), d, shown)
    BY DEF ShowsAsOf
  <2>1. IsRows(rec[o]) /\ ChainedTo(rec[o], Count(rec[o]), None)
    BY DEF TypeInv, TypeOK, HistoryInv, HistoryChained, Chained
  <2>2. Count(rec[o]) \in Nat
    BY <2>1, CountOfRows
  <2> QED BY <2>1, <2>2, AsOf
<1> QED BY <1>1, Typing, Invariant, PTL

-----------------------------------------------------------------------------
(* What a step does to the tables. *)

\* later is rows with k records added to it, and perhaps its last one closed.
Grown(rows, later) ==
  \E u : \E k \in Nat \ {0} :
    LET n == Count(rows) IN
    /\ Written(u, rows, n, k)
    /\ ChainedTo(Overlay(u, rows), n + k, None)
    /\ IsRows(Overlay(u, rows))
    /\ later = Overlay(u, rows)

LEMMA GrownIs ==
  ASSUME NEW rows, NEW n, n = Count(rows), NEW u, NEW k \in Nat \ {0}, Written(u, rows, n, k),
         ChainedTo(Overlay(u, rows), n + k, None), IsRows(Overlay(u, rows))
  PROVE  Grown(rows, Overlay(u, rows))
BY DEF Grown

\* Rows that are added leave those that were there as they are, but for the open
\* end of the last one.
LEMMA GrownKeeps ==
  ASSUME NEW rows, IsRows(rows), ChainedTo(rows, Count(rows), None),
         NEW later, Grown(rows, later)
  PROVE  /\ \A i \in DOMAIN rows : i \in DOMAIN later /\ SameRecord(rows[i], later[i])
         /\ IsRows(later)
         /\ \E n \in Nat, m \in Nat : DOMAIN rows = 1..n /\ DOMAIN later = 1..m /\ n < m
<1> PICK n : n = Count(rows)
  OBVIOUS
<1> PICK u : \E k \in Nat \ {0} :
      /\ Written(u, rows, n, k)
      /\ ChainedTo(Overlay(u, rows), n + k, None)
      /\ IsRows(Overlay(u, rows))
      /\ later = Overlay(u, rows)
  BY DEF Grown
<1> PICK k \in Nat \ {0} :
      /\ Written(u, rows, n, k)
      /\ ChainedTo(Overlay(u, rows), n + k, None)
      /\ IsRows(Overlay(u, rows))
      /\ later = Overlay(u, rows)
  OBVIOUS
<1>1. n \in Nat /\ DOMAIN rows = 1..n
  BY CountOfRows DEF ChainedTo
<1>2. DOMAIN later = 1..(n + k) /\ n + k \in Nat /\ n < n + k
  BY <1>1 DEF ChainedTo
<1>3. ASSUME NEW i \in 1..n
      PROVE  SameRecord(rows[i], later[i])
  <2>1. rows[i] \in Row
    BY <1>1 DEF IsRows
  <2>2. rows[i] = [rows[i] EXCEPT !.end = rows[i].end]
    BY <2>1 DEF Row
  <2>3. CASE later[i] = rows[i]
    BY <2>2, <2>3 DEF SameRecord
  <2>4. CASE i = n /\ n \in DOMAIN u
    <3>1. rows[i].end = None
      BY <1>1, <2>4 DEF ChainedTo
    <3>2. later[i] = Closed(rows[i], u[n + 1].start)
      BY <2>4 DEF Written, Overlay
    <3> QED BY <2>1, <3>1, <3>2 DEF SameRecord, Closed, Row
  <2>5. CASE i \notin DOMAIN u
    BY <1>1, <2>3, <2>5 DEF Overlay
  <2>6. i \in DOMAIN u => i = n
    BY <1>1 DEF Written
  <2> QED BY <2>4, <2>5, <2>6
<1> QED BY <1>1, <1>2, <1>3

\* Records are added to object o.
Appends(o) ==
  /\ state[o] = "live"
  /\ state' = state
  /\ Grown(rec[o], rec'[o])
  /\ \A x \in Objects : x # o => rec'[x] = rec[x]

\* Object o goes, with its records.
Goes(o) ==
  /\ state[o] # "unborn"
  /\ state' = [state EXCEPT ![o] = "deleted"]
  /\ rec' = [rec EXCEPT ![o] = NoRows]

\* The tables change only when an object is created, when records are added to
\* one, and when one is deleted.
LEMMA TableSteps ==
  ASSUME Disciplined, TypeInv, HistoryInv, [Next]_vars
  PROVE  \/ UNCHANGED dbvars
         \/ state' = state /\ \A x \in Objects : rec'[x] = rec[x]
         \/ \E o \in Objects, fs \in FormLists({}) : Create(o, fs)
         \/ \E o \in Objects : Appends(o) \/ Goes(o)
<1> DEFINE Goal ==
      \/ UNCHANGED dbvars
      \/ state' = state /\ \A x \in Objects : rec'[x] = rec[x]
      \/ \E o \in Objects, fs \in FormLists({}) : Create(o, fs)
      \/ \E o \in Objects : Appends(o) \/ Goes(o)
<1>1. CASE UNCHANGED vars
  BY <1>1 DEF vars, dbvars
<1>2. CASE \E o \in Objects, fs \in FormLists({}) : Create(o, fs)
  BY <1>2
<1>3. ASSUME NEW t \in Txns, Arrive(t) \/ Fail(t)
      PROVE  UNCHANGED dbvars
  BY <1>3 DEF Arrive, Put, Patch, AdminChange, Destroy, Begin, Fail, RollBack
<1>4. ASSUME NEW t \in Txns, Step(t), ~Commit(t), ~CommitDelete(t)
      PROVE  UNCHANGED dbvars
  BY <1>4 DEF Step, SaveObject, TestLast, ReadIndex, ReadPrevious, ClosePrevious, InsertRecord,
              CollectRecords, DeleteRows, DeleteObject, RollBack, dbvars
<1>5. ASSUME NEW t \in Txns, CommitDelete(t)
      PROVE  UNCHANGED dbvars \/ \E x \in Objects : Goes(x)
  <2>1. ~Idle(t)
    BY <1>5 DEF CommitDelete, Idle
  <2>2. op[t].obj \in Objects /\ state[op[t].obj] # "unborn"
    BY <2>1, TypeFacts DEF HistoryInv, Lifecycle
  <2> QED BY <1>5, <2>2 DEF CommitDelete, RollBack, Goes
<1>6. ASSUME NEW t \in Txns, Commit(t), ~RollBack(t)
      PROVE  \E x \in Objects :
               Appends(x) \/ (state' = state /\ \A y \in Objects : rec'[y] = rec[y])
  <2> PICK o, rows, n, k, u :
        /\ o = op[t].obj /\ rows = rec[o] /\ n = Count(rows) /\ k = added[t] /\ u = upd[t]
    OBVIOUS
  <2>1. pc[t] = "commit" /\ ~Idle(t)
    BY <1>6 DEF Commit, Idle
  <2>2. /\ state' = [state EXCEPT ![o] = "live"] /\ rec' = [rec EXCEPT ![o] = Overlay(u, rows)]
        /\ state[o] = "live" \/ op[t].kind = "admin"
    BY <1>6 DEF Commit
  <2>3. o \in Objects
    BY <2>1, TypeFacts
  <2>4. state[o] = "live"
    <3>1. op[t].kind = "admin" => <<o, "admin">> \in Requests
      BY <2>1 DEF TypeInv, Control
    <3>2. op[t].kind = "admin" => state[o] # "deleted"
      BY <2>3, <3>1 DEF HistoryInv, Lifecycle
    <3>3. state[o] # "unborn"
      BY <2>1 DEF HistoryInv, Lifecycle
    <3>4. state[o] \in {"unborn", "live", "deleted"}
      BY <2>3 DEF TypeInv, TypeOK
    <3> QED BY <2>2, <3>2, <3>3, <3>4
  <2>5. state' = state /\ rec'[o] = Overlay(u, rows) /\ \A x \in Objects : x # o => rec'[x] = rec[x]
    BY <2>2, <2>3, <2>4 DEF TypeInv, TypeOK
  <2>6. /\ IsRows(rows) /\ k = 0 => Before(t, rows, n)
        /\ k # 0 => After(t, rows, n, k)
        /\ View(t) = Overlay(u, rows)
    BY <2>1, <2>4, KnowsFacts
  <2>7. CASE k = 0
    <3>1. u = NoRows
      BY <2>1, <2>6, <2>7, KnowsFacts, <2>4 DEF Before
    <3>2. Overlay(u, rows) = rows
      BY <2>1, <2>4, <3>1, KnowsFacts, OverlayNoRows
    <3> QED BY <2>3, <2>5, <3>2
  <2>8. CASE k # 0
    <3>1. Written(u, rows, n, k) /\ ChainedTo(Overlay(u, rows), n + k, None)
      BY <2>1, <2>6, <2>8 DEF After
    <3>2. IsRows(Overlay(u, rows)) /\ k \in Nat
      BY <2>1, <2>6, TypeFacts DEF TypeInv, TypeOK
    <3>3. Grown(rows, Overlay(u, rows))
      BY <2>8, <3>1, <3>2, GrownIs
    <3>4. Grown(rec[o], rec'[o])
      BY <2>5, <3>3, Zenon
    <3>5. Appends(o)
      BY <2>4, <2>5, <3>4, Zenon DEF Appends
    <3>6. \E x \in Objects : Appends(x)
      BY <2>3, <3>5, Zenon
    <3> QED BY <3>6, Zenon
  <2> QED BY <2>7, <2>8
<1>7. ASSUME NEW t \in Txns, Arrive(t) \/ Step(t) \/ Fail(t)
      PROVE  Goal
  BY <1>3, <1>4, <1>5, <1>6, <1>7 DEF RollBack
<1> QED BY <1>1, <1>2, <1>7 DEF Next

LEMMA SameAsItself ==
  ASSUME NEW r \in Row
  PROVE  SameRecord(r, r)
BY DEF SameRecord, Row

\* A committed record keeps its start date, its data and its number as long as its
\* object exists, and its end date is filled in once.
THEOREM SavedRecordsKept == Disciplined => (Spec => RecordsKept)
<1> DEFINE Kept == \A o \in Objects :
                     state'[o] = "live" =>
                       \A i \in DOMAIN rec[o] :
                         i \in DOMAIN rec'[o] /\ SameRecord(rec[o][i], rec'[o][i])
<1>1. ASSUME Disciplined, TypeInv, HistoryInv, [Next]_vars
      PROVE  Kept
  <2> SUFFICES ASSUME NEW o \in Objects, state'[o] = "live", NEW i \in DOMAIN rec[o]
               PROVE  i \in DOMAIN rec'[o] /\ SameRecord(rec[o][i], rec'[o][i])
    OBVIOUS
  <2>1. IsRows(rec[o]) /\ ChainedTo(rec[o], Count(rec[o]), None)
    BY <1>1 DEF TypeInv, TypeOK, HistoryInv, HistoryChained, Chained
  <2>2. CASE rec'[o] = rec[o]
    <3>1. rec[o][i] \in Row
      BY <2>1 DEF IsRows
    <3>2. SameRecord(rec[o][i], rec[o][i])
      BY <3>1, SameAsItself
    <3> QED BY <2>2, <3>2
  <2>3. ASSUME NEW x \in Objects, NEW fs \in FormLists({}), Create(x, fs)
        PROVE  rec'[o] = rec[o]
    <3>1. state[x] # "live"
      BY <2>3 DEF Create
    <3>2. rec[x] = NoRows
      BY <1>1, <3>1 DEF HistoryInv, NoOrphans
    <3>3. x # o
      BY <3>2 DEF NoRows
    <3> QED BY <1>1, <2>3, <3>3 DEF Create, TypeInv, TypeOK
  <2>4. CASE Appends(o)
    <3> PICK later : later = rec'[o]
      OBVIOUS
    <3>1. Grown(rec[o], later)
      BY <2>4 DEF Appends
    <3> QED BY <2>1, <3>1, GrownKeeps
  <2>5. ASSUME NEW x \in Objects, x # o, Appends(x) \/ Goes(x)
        PROVE  rec'[o] = rec[o]
    BY <1>1, <2>5 DEF Appends, Goes, TypeInv, TypeOK
  <2>6. ~Goes(o)
    <3>1. state \in [Objects -> {"unborn", "live", "deleted"}]
      BY <1>1 DEF TypeInv, TypeOK
    <3> QED BY <3>1 DEF Goes
  <2>7. \/ UNCHANGED dbvars
        \/ \A x \in Objects : rec'[x] = rec[x]
        \/ \E x \in Objects, fs \in FormLists({}) : Create(x, fs)
        \/ \E x \in Objects : Appends(x) \/ Goes(x)
    BY <1>1, TableSteps
  <2> QED BY <2>2, <2>3, <2>4, <2>5, <2>6, <2>7 DEF dbvars
<1>2. ASSUME Disciplined
      PROVE  TypeInv /\ HistoryInv /\ [Next]_vars => [Kept]_vars
  BY <1>1, <1>2
<1>3. ASSUME Disciplined
      PROVE  Spec => RecordsKept
  BY <1>2, <1>3, Typing, Invariant, PTL DEF Spec, RecordsKept
<1> QED BY <1>3

\* An object that was deleted is never live again: not even a transaction that was
\* changing it when it was deleted brings it back.
THEOREM DeletedStays == Disciplined => (Spec => DeletedForGood)
<1> DEFINE Stays == \A o \in Objects : state[o] = "deleted" => state'[o] = "deleted"
<1>1. ASSUME Disciplined, TypeInv, HistoryInv, [Next]_vars
      PROVE  Stays
  <2>1. /\ state \in [Objects -> {"unborn", "live", "deleted"}]
        /\ \/ state' = state
           \/ \E x \in Objects, fs \in FormLists({}) : Create(x, fs)
           \/ \E x \in Objects : Appends(x) \/ Goes(x)
    BY <1>1, TableSteps DEF dbvars, TypeInv, TypeOK
  <2>2. ASSUME NEW x \in Objects, NEW fs \in FormLists({}), Create(x, fs)
        PROVE  Stays
    BY <2>1, <2>2 DEF Create
  <2>3. ASSUME NEW x \in Objects, Appends(x) \/ Goes(x)
        PROVE  Stays
    BY <2>1, <2>3 DEF Appends, Goes
  <2> QED BY <2>1, <2>2, <2>3
<1>2. ASSUME Disciplined
      PROVE  TypeInv /\ HistoryInv /\ [Next]_vars => [Stays]_vars
  BY <1>1, <1>2
<1>3. ASSUME Disciplined
      PROVE  Spec => DeletedForGood
  BY <1>2, <1>3, Typing, Invariant, PTL DEF Spec, DeletedForGood
<1> QED BY <1>3

-----------------------------------------------------------------------------
(* The refinement. *)

LEMMA SameLength ==
  ASSUME NEW n \in Nat, NEW m \in Nat, 1..n = 1..m
  PROVE  n = m
<1>1. \A i \in Int : (1 <= i /\ i <= n) <=> (1 <= i /\ i <= m)
  <2>1. \A i \in Int : (1 <= i /\ i <= n) <=> i \in 1..n
    OBVIOUS
  <2>2. \A i \in Int : (1 <= i /\ i <= m) <=> i \in 1..m
    OBVIOUS
  <2> QED BY <2>1, <2>2
<1>2. ~(n < m) /\ ~(m < n)
  BY <1>1
<1> QED BY <1>2

\* The entries of a chain are a sequence.
LEMMA EntriesAreSeq ==
  ASSUME NEW rows, NEW n \in Nat, DOMAIN rows = 1..n, \A i \in 1..n : rows[i] \in Row
  PROVE  /\ EntriesOf(rows) \in Seq(Entry)
         /\ Len(EntriesOf(rows)) = n
         /\ \A i \in 1..n : EntriesOf(rows)[i] =
              [start |-> rows[i].start, data |-> rows[i].data, writer |-> rows[i].writer]
<1> DEFINE e == EntriesOf(rows)
<1>1. e \in [1..n -> Entry]
  BY DEF EntriesOf, Row, Entry
<1>2. e \in Seq(Entry)
  BY <1>1, SeqDef
<1>3. Len(e) \in Nat /\ DOMAIN e = 1..Len(e) /\ DOMAIN e = 1..n
  BY <1>1, <1>2, LenProperties
<1> HIDE DEF e
<1>4. Len(e) = n
  BY <1>3, SameLength
<1> QED BY <1>2, <1>4 DEF e, EntriesOf

LEMMA NoEntries == EntriesOf(NoRows) = <<>>
<1>1. \A i \in 1..0 : NoRows[i] \in Row
  OBVIOUS
<1>2. DOMAIN NoRows = 1..0
  BY DEF NoRows
<1>3. EntriesOf(NoRows) \in Seq(Entry) /\ Len(EntriesOf(NoRows)) = 0
  BY <1>1, <1>2, EntriesAreSeq
<1> QED BY <1>3, EmptySeq

\* Rows that are added are entries added after the others.
LEMMA GrownExtends ==
  ASSUME NEW rows, IsRows(rows), ChainedTo(rows, Count(rows), None),
         NEW later, Grown(rows, later)
  PROVE  /\ EntriesOf(later) \in Seq(Entry)
         /\ Len(EntriesOf(rows)) < Len(EntriesOf(later))
         /\ \A i \in 1..Len(EntriesOf(rows)) : EntriesOf(later)[i] = EntriesOf(rows)[i]
<1>1. /\ IsRows(later)
      /\ \A i \in DOMAIN rows : i \in DOMAIN later /\ SameRecord(rows[i], later[i])
  BY GrownKeeps
<1>2. PICK n \in Nat, m \in Nat : DOMAIN rows = 1..n /\ DOMAIN later = 1..m /\ n < m
  BY GrownKeeps
<1>3. (\A i \in 1..n : rows[i] \in Row) /\ (\A i \in 1..m : later[i] \in Row)
  BY <1>1, <1>2 DEF IsRows
<1>4. /\ Len(EntriesOf(rows)) = n
      /\ \A i \in 1..n : EntriesOf(rows)[i] =
           [start |-> rows[i].start, data |-> rows[i].data, writer |-> rows[i].writer]
  BY <1>2, <1>3, EntriesAreSeq
<1>5. /\ EntriesOf(later) \in Seq(Entry)
      /\ Len(EntriesOf(later)) = m
      /\ \A i \in 1..m : EntriesOf(later)[i] =
           [start |-> later[i].start, data |-> later[i].data, writer |-> later[i].writer]
  BY <1>2, <1>3, EntriesAreSeq
<1>6. ASSUME NEW i \in 1..n
      PROVE  EntriesOf(later)[i] = EntriesOf(rows)[i]
  <2>1. i \in 1..m
    BY <1>2
  <2>2. rows[i] \in Row /\ SameRecord(rows[i], later[i])
    BY <1>1, <1>2, <1>3
  <2>3. later[i].start = rows[i].start /\ later[i].data = rows[i].data /\ later[i].writer = rows[i].writer
    BY <2>2 DEF SameRecord, Row
  <2> QED BY <1>4, <1>5, <2>1, <2>3
<1> QED BY <1>2, <1>4, <1>5, <1>6

\* Each transaction is, at its commit, one step of the append-only history of
\* ObjectHistory: entries appear at the end, all of them at once, and stay what they
\* are until the object goes as a whole.
THEOREM Refinement == Disciplined => (Spec => ImplementsHistory)
<1> DEFINE h == [o \in Objects |-> EntriesOf(rec[o])]
<1>1. ASSUME Init
      PROVE  History!Init
  <2>1. state = [o \in Objects |-> "unborn"] /\ h = [o \in Objects |-> <<>>]
    BY <1>1, NoEntries DEF Init
  <2>2. h \in [Objects -> Seq(Entry)] /\ state \in [Objects -> {"unborn", "live"}]
    <3>1. << >> \in Seq(Entry)
      OBVIOUS
    <3> HIDE DEF h
    <3> QED BY <2>1, <3>1
  <2>3. \A o \in Objects : h[o] = <<>>
    <3> HIDE DEF h
    <3> QED BY <2>1
  <2> QED BY <2>2, <2>3, Zenon DEF History!Init
<1>2. ASSUME Disciplined, TypeInv, HistoryInv, [Next]_vars
      PROVE  [History!Next]_(History!hvars)
  <2>1. ASSUME state' = state, \A x \in Objects : rec'[x] = rec[x]
        PROVE  h' = h /\ state' = state
    BY <2>1
  <2>2. ASSUME UNCHANGED dbvars
        PROVE  h' = h /\ state' = state
    BY <2>2 DEF dbvars
  <2>3. ASSUME NEW o \in Objects, NEW fs \in FormLists({}), Create(o, fs)
        PROVE  History!Create(o)
    <3>1. fs \in Seq(Form)
      BY FormListsAreSeqs
    <3>2. EntriesOf(Created(fs)) \in Seq(Entry)
      <4>1. /\ IsRows(Created(fs)) /\ DOMAIN Created(fs) = 1..Len(fs) /\ Len(fs) \in Nat
        BY <3>1, CreatedRows, LenProperties
      <4>2. \A i \in 1..Len(fs) : Created(fs)[i] \in Row
        BY <4>1 DEF IsRows
      <4> QED BY <4>1, <4>2, EntriesAreSeq
    <3>3. rec'[o] = Created(fs) /\ \A x \in Objects : x # o => rec'[x] = rec[x]
      BY <1>2, <2>3 DEF Create, TypeInv, TypeOK
    <3>4. h'[o] \in Seq(Entry) /\ h' = [h EXCEPT ![o] = h'[o]]
      BY <3>2, <3>3
    <3> QED BY <2>3, <3>4 DEF Create, History!Create
  <2>4. ASSUME NEW o \in Objects, Appends(o)
        PROVE  History!Extend(o)
    <3>1. IsRows(rec[o]) /\ ChainedTo(rec[o], Count(rec[o]), None)
      BY <1>2 DEF TypeInv, TypeOK, HistoryInv, HistoryChained, Chained
    <3>2. PICK later : later = rec'[o]
      OBVIOUS
    <3>3. Grown(rec[o], later)
      BY <2>4, <3>2 DEF Appends
    <3>4. /\ EntriesOf(later) \in Seq(Entry)
          /\ Len(EntriesOf(rec[o])) < Len(EntriesOf(later))
          /\ \A i \in 1..Len(EntriesOf(rec[o])) : EntriesOf(later)[i] = EntriesOf(rec[o])[i]
      BY <3>1, <3>3, GrownExtends
    <3>5. h[o] = EntriesOf(rec[o]) /\ h'[o] = EntriesOf(later)
      BY <3>2
    <3>6. h' = [h EXCEPT ![o] = h'[o]]
      BY <2>4 DEF Appends
    <3>7. state[o] = "live" /\ UNCHANGED state
      BY <2>4 DEF Appends
    <3>8. /\ h'[o] \in Seq(Entry)
          /\ Len(h[o]) < Len(h'[o])
          /\ \A i \in 1..Len(h[o]) : h'[o][i] = h[o][i]
      BY <3>4, <3>5, Zenon
    <3> HIDE DEF h
    <3> QED BY <3>6, <3>7, <3>8, Zenon DEF History!Extend, h
  <2>5. ASSUME NEW o \in Objects, Goes(o)
        PROVE  History!Delete(o) \/ (h' = h /\ state' = state)
    <3>1. state \in [Objects -> {"unborn", "live", "deleted"}] /\ DOMAIN rec = Objects
      BY <1>2 DEF TypeInv, TypeOK
    <3>2. rec'[o] = NoRows /\ \A x \in Objects : x # o => rec'[x] = rec[x]
      BY <2>5, <3>1 DEF Goes
    <3>3. h' = [h EXCEPT ![o] = <<>>]
      BY <3>2, NoEntries
    <3>4. CASE state[o] = "live"
      BY <2>5, <3>3, <3>4 DEF Goes, History!Delete
    <3>5. CASE state[o] # "live"
      <4>1. rec[o] = NoRows
        BY <1>2, <3>5 DEF HistoryInv, NoOrphans
      <4>2. state' = state
        BY <2>5, <3>1, <3>5 DEF Goes
      <4>3. \A x \in Objects : rec'[x] = rec[x]
        BY <3>2, <4>1
      <4> QED BY <4>2, <4>3
    <3> QED BY <3>4, <3>5
  <2> QED BY <1>2, <2>1, <2>2, <2>3, <2>4, <2>5, TableSteps DEF History!Next, History!hvars
<1>3. ASSUME Disciplined
      PROVE  TypeInv /\ HistoryInv /\ [Next]_vars => [History!Next]_(History!hvars)
  BY <1>2, <1>3
<1>4. ASSUME Disciplined
      PROVE  Spec => ImplementsHistory
  BY <1>1, <1>3, <1>4, Typing, Invariant, PTL DEF Spec, ImplementsHistory, History!Spec
<1> QED BY <1>4
=============================================================================
