--------------------------- MODULE UpgradesProofs ---------------------------
(* Grants and histories survive every upgrade. *)
EXTENDS Upgrades, FiniteSetTheorems, WellFoundedInduction, TLAPS

-----------------------------------------------------------------------------

\* A set of naturals has a least element.
LEMMA LeastNat ==
  ASSUME NEW T \in SUBSET Nat, T # {}
  PROVE  \E x \in T : \A y \in T : x <= y
<1> DEFINE R == OpToRel(<, Nat)
<1>1. \E x \in T : \A y \in T : ~ (<<y, x>> \in R)
  BY WFMin, NatLessThanWellFounded, Zenon
<1>2. PICK x \in T : \A y \in T : ~ (<<y, x>> \in R)
  BY <1>1, Zenon
<1>3. ASSUME NEW y \in T, y < x
      PROVE  FALSE
  <2>1. <<y, x>> \in R
    BY <1>3 DEF OpToRel
  <2> HIDE DEF R
  <2> QED BY <2>1, <1>2, Zenon
<1> QED BY <1>3

\* A bounded set of naturals has a greatest element.
LEMMA GreatestNat ==
  ASSUME NEW n \in Nat, NEW S \in SUBSET (0..n), S # {}
  PROVE  \E i \in S : \A j \in S : j <= i
<1>1. \E x \in {n - i : i \in S} : \A y \in {n - i : i \in S} : x <= y
  <2>1. {n - i : i \in S} \in SUBSET Nat /\ {n - i : i \in S} # {}
    <3>1. \A i \in S : i \in 0..n /\ n - i \in Nat
      OBVIOUS
    <3>2. {n - i : i \in S} \in SUBSET Nat
      BY <3>1
    <3>3. PICK i \in S : TRUE
      OBVIOUS
    <3>4. n - i \in {n - j : j \in S}
      BY <3>3
    <3> QED BY <3>2, <3>4
  <2> QED BY <2>1, LeastNat
<1> QED
  BY <1>1

\* What holds of m, and of the next number if of one before n, holds of m to n.
LEMMA Upward ==
  ASSUME NEW m \in Nat, NEW n \in Nat, NEW T, m \in T,
         \A i \in m..n : i # n /\ i \in T => i + 1 \in T
  PROVE  m..n \subseteq T
<1> DEFINE Bad == {i \in m..n : i \notin T}
<1>1. SUFFICES ASSUME Bad # {}
               PROVE  FALSE
  BY <1>1
<1>2. PICK i \in Bad : \A j \in Bad : i <= j
  <2>1. Bad \in SUBSET Nat
    OBVIOUS
  <2> HIDE DEF Bad
  <2> QED BY <1>1, <2>1, LeastNat, Zenon
<1>3. i \in m..n /\ i \notin T /\ i # m
  BY <1>2
<1>4. i - 1 \in m..n /\ i - 1 # n /\ ~(i <= i - 1) /\ (i - 1) + 1 = i
  BY <1>3
<1>5. i - 1 \in T
  BY <1>2, <1>4
<1> QED BY <1>3, <1>4, <1>5
-----------------------------------------------------------------------------
(* The states between the operations of a migration: FoldLeft is defined by a *)
(* recursive function on the subsets of its indices.                         *)

LEMMA GreatestOfSet ==
  ASSUME NEW n \in Nat, NEW S \in SUBSET (1..n), S # {}
  PROVE  Max(S) \in S /\ \A x \in S : x <= Max(S)
<1>1. S \in SUBSET (0..n)
  OBVIOUS
<1>2. \E i \in S : \A j \in S : j <= i
  BY <1>1, GreatestNat, Zenon
<1>3. \E i \in S : \A j \in S : i >= j
  BY <1>2
<1>4. Max(S) \in S /\ \A x \in S : Max(S) >= x
  BY <1>3, Zenon DEF Max
<1>5. Max(S) \in Nat /\ \A x \in S : x \in Nat
  <2>1. \A x \in S : x \in 1..n
    OBVIOUS
  <2>2. \A x \in 1..n : x \in Nat
    OBVIOUS
  <2> QED BY <1>4, <2>1, <2>2, Zenon
<1> QED BY <1>4, <1>5

LEMMA LastOfFirst ==
  ASSUME NEW k \in Nat, k # 0
  PROVE  Max(1..k) = k /\ (1..k) \ {k} = 1..(k - 1)
<1>1. k \in 1..k /\ 1..k \in SUBSET (1..k) /\ 1..k # {}
  OBVIOUS
<1>2. Max(1..k) \in 1..k /\ k <= Max(1..k)
  BY <1>1, GreatestOfSet, Zenon
<1> QED BY <1>2

\* One operation.
Do(d, op) == IF op.do = "run" THEN Python(op.code, d) ELSE Apply(d, op)

\* What FoldLeft says of the first n operations, on the subsets of 1..n.
Folds(iter, n, d, ops) ==
  iter = [s \in SUBSET (1..n) |-> IF s = {} THEN d ELSE Do(iter[s \ {Max(s)}], ops[Max(s)])]

\* There is such a function: that for k+1 uses that for k where k+1 is not in the set.
LEMMA FoldsExist ==
  ASSUME NEW n \in Nat, NEW d, NEW ops
  PROVE  \E iter : Folds(iter, n, d, ops)
<1> DEFINE T == {k \in Nat : \E iter : Folds(iter, k, d, ops)}
<1>1. 0 \in T
  <2> DEFINE none == [s \in SUBSET (1..0) |-> d]
  <2>1. \A s \in SUBSET (1..0) : s = {}
    OBVIOUS
  <2>2. Folds(none, 0, d, ops)
    BY <2>1 DEF Folds
  <2> QED BY <2>2
<1>2. ASSUME NEW j \in 0..n, j # n, j \in T
      PROVE  j + 1 \in T
  <2>1. PICK g : Folds(g, j, d, ops)
    BY <1>2
  <2> DEFINE k == j + 1
  <2>2. k \in Nat /\ j \in Nat /\ k # 0 /\ j = k - 1 /\ 0 \in Nat
    OBVIOUS
  <2> HIDE DEF k
  <2> DEFINE h == [s \in SUBSET (1..k) |-> IF k \in s THEN Do(g[s \ {k}], ops[k]) ELSE g[s]]
  <2>3. \A s \in SUBSET (1..k) : /\ s \ {k} \in SUBSET (1..(k - 1))
                                 /\ k \notin s => s \in SUBSET (1..(k - 1))
    <3>1. \A x \in 1..k : x # k => x \in 1..(k - 1)
      BY <2>2
    <3> QED BY <3>1
  <2>4. ASSUME NEW s \in SUBSET (1..k)
        PROVE  h[s] = IF s = {} THEN d ELSE Do(h[s \ {Max(s)}], ops[Max(s)])
    <3>1. CASE k \in s
      <4>1. Max(s) = k
        <5>1. s # {} /\ k \in Nat
          BY <3>1, <2>2
        <5>2. Max(s) \in s /\ k <= Max(s)
          BY <5>1, <3>1, GreatestOfSet, Zenon
        <5>3. Max(s) \in 1..k
          BY <5>2
        <5> QED BY <5>2, <5>3, <2>2
      <4>2. s \ {k} \in SUBSET (1..k) /\ k \notin s \ {k}
        OBVIOUS
      <4>3. h[s \ {k}] = g[s \ {k}]
        BY <4>2
      <4>4. h[s] = Do(g[s \ {k}], ops[k])
        BY <3>1
      <4> QED BY <3>1, <4>1, <4>3, <4>4
    <3>2. CASE k \notin s
      <4>1. s \in SUBSET (1..(k - 1)) /\ h[s] = g[s]
        BY <3>2, <2>3
      <4>2. g[s] = IF s = {} THEN d ELSE Do(g[s \ {Max(s)}], ops[Max(s)])
        BY <4>1, <2>1, <2>2 DEF Folds
      <4>3. s \ {Max(s)} \in SUBSET (1..k) /\ k \notin s \ {Max(s)}
        BY <3>2
      <4>4. h[s \ {Max(s)}] = g[s \ {Max(s)}]
        BY <4>3
      <4> QED BY <4>1, <4>2, <4>4
    <3> QED BY <3>1, <3>2
  <2>5. Folds(h, k, d, ops)
    <3> HIDE DEF h
    <3>1. h = [s \in SUBSET (1..k) |-> h[s]]
      BY DEF h
    <3> QED BY <2>4, <3>1, Zenon DEF Folds
  <2> QED BY <2>2, <2>5 DEF k
<1>3. 0 \in Nat /\ 0 \in 0..n /\ n \in 0..n
  OBVIOUS
<1> HIDE DEF T
<1>4. 0..n \subseteq T
  BY <1>1, <1>2, <1>3, Upward
<1> QED BY <1>3, <1>4 DEF T

\* The states at, from before the first operation to behind the last.
Walk(at, d, ops) ==
  /\ at[0] = d
  /\ \A k \in 1..Len(ops) : at[k] = Do(at[k - 1], ops[k])
  /\ at[Len(ops)] = Migrated(d, ops)

IsOps(ops) == Len(ops) \in Nat /\ DOMAIN ops = 1..Len(ops)

LEMMA Walks ==
  ASSUME NEW d, NEW ops, IsOps(ops)
  PROVE  \E at : Walk(at, d, ops)
<1> DEFINE n == Len(ops)
           Is(i) == Folds(i, n, d, ops)
<1>1. n \in Nat /\ DOMAIN ops = 1..n
  BY DEF IsOps
<1>2. Migrated(d, ops) = (CHOOSE i : Is(i))[1..n]
  BY <1>1, Zenon DEF Migrated, FoldLeft, MapThenFoldSet, Do, Folds
<1> HIDE DEF n
<1>3. \E i : Is(i)
  BY <1>1, FoldsExist, Zenon
<1>4. PICK iter : iter = (CHOOSE i : Is(i)) /\ Is(iter)
  BY <1>3, Zenon
<1> DEFINE at == [k \in 0..n |-> iter[1..k]]
<1>5. at[0] = d /\ 0 \in 0..n /\ n \in 0..n
  <2>1. 1..0 = {} /\ 0 \in 0..n /\ {} \in SUBSET (1..n) /\ n \in 0..n
    BY <1>1
  <2> QED BY <1>4, <2>1 DEF Folds
<1>6. ASSUME NEW k \in 1..n
      PROVE  at[k] = Do(at[k - 1], ops[k])
  <2>1. k \in Nat /\ k # 0 /\ 1..k \in SUBSET (1..n) /\ 1..k # {} /\ k \in 0..n /\ k - 1 \in 0..n
    <3>1. k \in Nat /\ k # 0 /\ k \in 1..k /\ \A x \in 1..k : x \in 1..n
      BY <1>1
    <3>2. k \in 0..n /\ k - 1 \in 0..n
      BY <1>1
    <3> QED BY <3>1, <3>2
  <2>2. Max(1..k) = k /\ (1..k) \ {k} = 1..(k - 1)
    BY <2>1, LastOfFirst
  <2>3. iter[1..k] = Do(iter[1..(k - 1)], ops[k])
    BY <1>4, <2>1, <2>2 DEF Folds
  <2> QED BY <2>1, <2>3
<1>7. at[n] = Migrated(d, ops)
  BY <1>2, <1>4, <1>5
<1> HIDE DEF at
<1>8. Walk(at, d, ops)
  BY <1>5, <1>6, <1>7 DEF Walk, n
<1> QED BY <1>8

\* Migrations of one operation to four.
LEMMA Unrolled ==
  ASSUME NEW d
  PROVE  /\ \A a : Migrated(d, <<a>>) = Do(d, a)
         /\ \A a, b : Migrated(d, <<a, b>>) = Do(Do(d, a), b)
         /\ \A a, b, c : Migrated(d, <<a, b, c>>) = Do(Do(Do(d, a), b), c)
         /\ \A a, b, c, z : Migrated(d, <<a, b, c, z>>) = Do(Do(Do(Do(d, a), b), c), z)
<1>1. ASSUME NEW a
      PROVE  Migrated(d, <<a>>) = Do(d, a)
  <2>1. PICK at : Walk(at, d, <<a>>)
    BY Walks DEF IsOps
  <2> QED BY <2>1 DEF Walk
<1>2. ASSUME NEW a, NEW b
      PROVE  Migrated(d, <<a, b>>) = Do(Do(d, a), b)
  <2>0. IsOps(<<a, b>>)
    BY DEF IsOps
  <2>1. PICK at : Walk(at, d, <<a, b>>)
    BY <2>0, Walks, Zenon
  <2> QED BY <2>1 DEF Walk
<1>3. ASSUME NEW a, NEW b, NEW c
      PROVE  Migrated(d, <<a, b, c>>) = Do(Do(Do(d, a), b), c)
  <2>0. IsOps(<<a, b, c>>)
    BY DEF IsOps
  <2>1. PICK at : Walk(at, d, <<a, b, c>>)
    BY <2>0, Walks, Zenon
  <2> QED BY <2>1 DEF Walk
<1>4. ASSUME NEW a, NEW b, NEW c, NEW z
      PROVE  Migrated(d, <<a, b, c, z>>) = Do(Do(Do(Do(d, a), b), c), z)
  <2>0. IsOps(<<a, b, c, z>>)
    BY DEF IsOps
  <2>1. PICK at : Walk(at, d, <<a, b, c, z>>)
    BY <2>0, Walks, Zenon
  <2> QED BY <2>1 DEF Walk
<1> QED BY <1>1, <1>2, <1>3, <1>4

\* As sequences that are joined.
IsSeq(ops) == IsOps(ops) /\ ops = [k \in 1..Len(ops) |-> ops[k]]

\* One sequence of operations and then another.
LEMMA Joined ==
  ASSUME NEW a, NEW b, IsSeq(a), IsSeq(b)
  PROVE  /\ IsSeq(a \o b) /\ Len(a \o b) = Len(a) + Len(b)
         /\ \A k \in 1..Len(a) : (a \o b)[k] = a[k]
         /\ \A k \in 1..Len(b) : (a \o b)[Len(a) + k] = b[k]
         /\ \A k \in 1..Len(a \o b) : k \in 1..Len(a) \/ k - Len(a) \in 1..Len(b)
<1> DEFINE S == {a[k] : k \in 1..Len(a)} \cup {b[k] : k \in 1..Len(b)}
<1>1. a \in Seq(S)
  <2>1. Len(a) \in Nat /\ \A k \in 1..Len(a) : a[k] \in S
    BY DEF IsSeq, IsOps
  <2> HIDE DEF S
  <2>2. [k \in 1..Len(a) |-> a[k]] \in Seq(S)
    BY <2>1
  <2> QED BY <2>2 DEF IsSeq
<1>2. b \in Seq(S)
  <2>1. Len(b) \in Nat /\ \A k \in 1..Len(b) : b[k] \in S
    BY DEF IsSeq, IsOps
  <2> HIDE DEF S
  <2>2. [k \in 1..Len(b) |-> b[k]] \in Seq(S)
    BY <2>1
  <2> QED BY <2>2 DEF IsSeq
<1> HIDE DEF S
<1>3. a \o b \in Seq(S) /\ Len(a \o b) = Len(a) + Len(b) /\ Len(a) \in Nat /\ Len(b) \in Nat
  BY <1>1, <1>2
<1>4. IsSeq(a \o b)
  <2> DEFINE c == a \o b
  <2> HIDE DEF c
  <2>1. c \in Seq(S)
    BY <1>3 DEF c
  <2>2. IsSeq(c)
    BY <2>1 DEF IsSeq, IsOps
  <2> QED BY <2>2 DEF c
<1>5. /\ \A k \in 1..Len(a) : (a \o b)[k] = a[k]
      /\ \A k \in 1..Len(b) : (a \o b)[Len(a) + k] = b[k]
  BY <1>1, <1>2, <1>3
<1>6. \A k \in 1..Len(a \o b) : k \in 1..Len(a) \/ k - Len(a) \in 1..Len(b)
  BY <1>3
<1> QED BY <1>3, <1>4, <1>5, <1>6

LEMMA MigratedJoined ==
  ASSUME NEW d, NEW a, NEW b, IsSeq(a), IsSeq(b)
  PROVE  Migrated(d, a \o b) = Migrated(Migrated(d, a), b)
<1> DEFINE n == Len(a)
           m == Len(b)
           c == a \o b
<1>1. /\ IsSeq(c) /\ Len(c) = n + m
      /\ \A k \in 1..n : c[k] = a[k]
      /\ \A k \in 1..m : c[n + k] = b[k]
  BY Joined
<1>2. n \in Nat /\ m \in Nat
  BY DEF IsSeq, IsOps
<1> HIDE DEF n, m, c
<1>3. PICK x : Walk(x, d, a)
  BY Walks, Zenon DEF IsSeq
<1>4. PICK y : Walk(y, Migrated(d, a), b)
  BY Walks, Zenon DEF IsSeq
<1>5. PICK z : Walk(z, d, c)
  <2>1. IsOps(c)
    BY <1>1 DEF IsSeq
  <2> QED BY <2>1, Walks, Zenon
<1>6. z[n] = Migrated(d, a)
  <2> DEFINE T == {k \in 0..n : z[k] = x[k]}
  <2>1. 0 \in T /\ 0 \in Nat /\ n \in 0..n
    BY <1>2, <1>3, <1>5 DEF Walk
  <2>2. ASSUME NEW k \in 0..n, k # n, k \in T
        PROVE  k + 1 \in T
    <3>1. k + 1 \in 1..n /\ k + 1 \in 1..(n + m) /\ (k + 1) - 1 = k /\ k + 1 \in 0..n
      BY <1>2, <2>2
    <3>2. z[k + 1] = Do(z[k], c[k + 1]) /\ x[k + 1] = Do(x[k], a[k + 1])
      BY <1>1, <1>3, <1>5, <3>1 DEF Walk, n
    <3>3. z[k] = x[k] /\ c[k + 1] = a[k + 1]
      BY <1>1, <2>2, <3>1
    <3> QED BY <3>1, <3>2, <3>3
  <2> HIDE DEF T
  <2>3. 0..n \subseteq T
    BY <1>2, <2>1, <2>2, Upward
  <2>4. z[n] = x[n]
    BY <2>1, <2>3 DEF T
  <2> QED BY <2>4, <1>3 DEF Walk, n
<1>7. z[n + m] = Migrated(Migrated(d, a), b)
  <2> DEFINE T == {k \in 0..m : z[n + k] = y[k]}
  <2>1. 0 \in T /\ 0 \in Nat /\ m \in 0..m
    <3>1. n + 0 = n /\ 0 \in 0..m /\ m \in 0..m
      BY <1>2
    <3> QED BY <3>1, <1>4, <1>6 DEF Walk
  <2>2. ASSUME NEW k \in 0..m, k # m, k \in T
        PROVE  k + 1 \in T
    <3>1. k + 1 \in 1..m /\ n + (k + 1) \in 1..(n + m) /\ (n + (k + 1)) - 1 = n + k
          /\ (k + 1) - 1 = k /\ k + 1 \in 0..m
      BY <1>2, <2>2
    <3>2. z[n + (k + 1)] = Do(z[n + k], c[n + (k + 1)]) /\ y[k + 1] = Do(y[k], b[k + 1])
      BY <1>1, <1>4, <1>5, <3>1 DEF Walk, m
    <3>3. z[n + k] = y[k] /\ c[n + (k + 1)] = b[k + 1]
      BY <1>1, <2>2, <3>1
    <3> QED BY <3>1, <3>2, <3>3
  <2> HIDE DEF T
  <2>3. 0..m \subseteq T
    BY <1>2, <2>1, <2>2, Upward
  <2>4. z[n + m] = y[m]
    BY <2>1, <2>3 DEF T
  <2> QED BY <2>4, <1>4 DEF Walk, m
<1>8. z[n + m] = Migrated(d, c)
  BY <1>1, <1>5 DEF Walk
<1> QED BY <1>7, <1>8 DEF c

-----------------------------------------------------------------------------
(* What an operation leaves alone: the columns C of a table T, of which its    *)
(* key is one.                                                                 *)

\* The rows have the columns of their table, and a key is unique.
Shaped(d, T) ==
  /\ "columns" \in DOMAIN d /\ "rows" \in DOMAIN d
  /\ T \in DOMAIN d.columns <=> T \in DOMAIN d.rows
  /\ T \in DOMAIN d.columns =>
       /\ \A r \in d.rows[T] : DOMAIN r = DOMAIN d.columns[T]
       /\ "id" \in DOMAIN d.columns[T] => d.columns[T]["id"] = {"unique"}

\* Each row of one has a row of the other with the same values.
Alike(r, s, C) == \A c \in C : r[c] = s[c]
SameRows(R, S, C) ==
  /\ \A r \in R : \E s \in S : Alike(r, s, C)
  /\ \A s \in S : \E r \in R : Alike(r, s, C)

\* The columns of a table that are tracked.
Names(d, T, C) == DOMAIN d.columns[T] \cap C

\* Its rows, seen through them, stay.
Keeps(d, e, T, C) ==
  /\ T \in DOMAIN d.columns <=> T \in DOMAIN e.columns
  /\ T \in DOMAIN d.columns =>
       /\ Names(d, T, C) = Names(e, T, C)
       /\ SameRows(d.rows[T], e.rows[T], Names(d, T, C))

LEMMA KeepsAll ==
  ASSUME NEW d, NEW T, NEW C
  PROVE  Keeps(d, d, T, C)
BY DEF Keeps, SameRows, Alike

LEMMA KeepsBoth ==
  ASSUME NEW d, NEW e, NEW f, NEW T, NEW C, Keeps(d, e, T, C), Keeps(e, f, T, C)
  PROVE  Keeps(d, f, T, C)
<1>1. T \in DOMAIN d.columns <=> T \in DOMAIN f.columns
  BY DEF Keeps
<1>2. ASSUME T \in DOMAIN d.columns
      PROVE  /\ Names(d, T, C) = Names(f, T, C)
             /\ SameRows(d.rows[T], f.rows[T], Names(d, T, C))
  <2> DEFINE N == Names(d, T, C)
  <2>1. N = Names(e, T, C) /\ N = Names(f, T, C)
    BY <1>2 DEF Keeps
  <2>2. SameRows(d.rows[T], e.rows[T], N) /\ SameRows(e.rows[T], f.rows[T], N)
    BY <1>2, <2>1 DEF Keeps
  <2> HIDE DEF N
  <2>3. SameRows(d.rows[T], f.rows[T], N)
    BY <2>2 DEF SameRows, Alike
  <2> QED BY <2>1, <2>3 DEF N
<1> QED BY <1>1, <1>2 DEF Keeps

\* Rows that are changed one by one.
LEMMA EachKept ==
  ASSUME NEW R, NEW C, NEW f, DOMAIN f = R, \A r \in R : Alike(r, f[r], C)
  PROVE  SameRows(R, {f[r] : r \in R}, C)
BY DEF SameRows, Alike

\* The code of a migration that leaves them alone.
QuietCode(code, T, C) ==
  \/ code \in {"move_data_to_record", "move_version_to_record", "fill_record_index"}
     /\ T # "objectrecord"
  \/ code = "generate_record_uuids" /\ (T # "objectrecord" \/ "uuid" \notin C)
  \/ code = "forward" /\ (T # "objectrecord" \/ "_object_type" \notin C)
  \/ code = "move_objecttypes_to_model" /\ T \notin {"object", "objecttype"}
  \/ code = "remove_objects_with_empty_object_type" /\ T \notin {"object", "objectrecord"}
  \/ code = "switch_to_new_token_model" /\ T \notin {"tokenauth", "permission"}
  \/ code = "_generate_unique_identifiers" /\ (T # "tokenauth" \/ "identifier" \notin C)

\* An operation that leaves the columns C of T as they are.
Quiet(op, T, C) ==
  \/ op.do \in {"together", "index"}
  \/ op.do \in {"create", "delete", "add", "alter", "remove", "rename"} /\ op.table # T
  \/ op.do = "call" /\ op.table # T /\ op.name # T
  \/ op.do \in {"add", "remove"} /\ op.column \notin C
  \/ op.do = "alter" /\ op.column # "id" /\ (op.column \notin C \/ op.value = Null)
  \/ op.do = "rename" /\ op.column \notin C /\ op.name \notin C
  \/ op.do = "run" /\ QuietCode(op.code, T, C)

\* d became e.
Unharmed(d, e, T, C) == Shaped(e, T) /\ Keeps(d, e, T, C)

LEMMA ElsewhereQuiet ==
  ASSUME NEW d, NEW op, NEW T, NEW C, Shaped(d, T),
         op.do \in {"create", "delete", "add", "alter", "remove", "rename"}, op.table # T
  PROVE  Unharmed(d, Apply(d, op), T, C)
<1>1. "columns" \in DOMAIN d /\ "rows" \in DOMAIN d
  BY DEF Shaped
<1>2. /\ "columns" \in DOMAIN Apply(d, op) /\ "rows" \in DOMAIN Apply(d, op)
      /\ T \in DOMAIN Apply(d, op).columns <=> T \in DOMAIN d.columns
      /\ T \in DOMAIN Apply(d, op).rows <=> T \in DOMAIN d.rows
      /\ T \in DOMAIN d.columns => Apply(d, op).columns[T] = d.columns[T]
      /\ T \in DOMAIN d.rows => Apply(d, op).rows[T] = d.rows[T]
  <2>1. CASE op.do = "create"
    BY <1>1, <2>1 DEF Apply, With
  <2>2. CASE op.do = "delete"
    BY <1>1, <2>2 DEF Apply, AllTables, Without, Restrict
  <2>3. CASE op.do = "add"
    BY <1>1, <2>3 DEF Apply, AddColumn, With
  <2>4. CASE op.do = "alter"
    BY <1>1, <2>4 DEF Apply, AlterColumn
  <2>5. CASE op.do = "remove"
    BY <1>1, <2>5 DEF Apply, RemoveColumn
  <2>6. CASE op.do = "rename"
    BY <1>1, <2>6 DEF Apply, RenameColumn
  <2> QED BY <2>1, <2>2, <2>3, <2>4, <2>5, <2>6
<1> QED BY <1>2 DEF Unharmed, Shaped, Keeps, Names, SameRows, Alike

\* The rows of the table itself, changed one by one.
LEMMA RowsKept ==
  ASSUME NEW d, NEW e, NEW T, NEW C, Shaped(d, T), T \in DOMAIN d.columns,
         "columns" \in DOMAIN e, "rows" \in DOMAIN e,
         T \in DOMAIN e.columns, T \in DOMAIN e.rows,
         "id" \in DOMAIN e.columns[T] => e.columns[T]["id"] = {"unique"},
         Names(d, T, C) = Names(e, T, C),
         NEW f, DOMAIN f = d.rows[T], e.rows[T] = {f[r] : r \in d.rows[T]},
         \A r \in d.rows[T] : DOMAIN r = DOMAIN d.columns[T] =>
            DOMAIN f[r] = DOMAIN e.columns[T] /\ Alike(r, f[r], Names(d, T, C))
  PROVE  Unharmed(d, e, T, C)
<1> DEFINE R == d.rows[T]
           N == Names(d, T, C)
<1>1. \A r \in R : DOMAIN f[r] = DOMAIN e.columns[T] /\ Alike(r, f[r], N)
  BY DEF Shaped
<1>2. Shaped(e, T)
  BY <1>1 DEF Shaped
<1>3. SameRows(R, e.rows[T], N)
  <2> HIDE DEF N, R
  <2>1. SameRows(R, {f[r] : r \in R}, N)
    BY <1>1, EachKept DEF R
  <2> QED BY <2>1 DEF R
<1> QED BY <1>2, <1>3 DEF Unharmed, Keeps

LEMMA AddQuiet ==
  ASSUME NEW d, NEW op, NEW T, NEW C, Shaped(d, T), "id" \in C,
         op.do = "add", op.table = T, op.column \notin C
  PROVE  Unharmed(d, Apply(d, op), T, C)
<1> DEFINE e == Apply(d, op)
           f == [r \in d.rows[T] |-> With(r, op.column, op.value)]
<1>1. e = AddColumn(d, op) /\ "columns" \in DOMAIN d /\ "rows" \in DOMAIN d
  BY DEF Apply, Shaped
<1>2. CASE T \in DOMAIN d.columns
  <2>1. /\ "columns" \in DOMAIN e /\ "rows" \in DOMAIN e
        /\ T \in DOMAIN e.columns /\ T \in DOMAIN e.rows
        /\ e.columns[T] = With(d.columns[T], op.column, op.traits)
        /\ e.rows[T] = {With(r, op.column, op.value) : r \in d.rows[T]}
    <3> HIDE DEF e
    <3> QED BY <1>1, <1>2 DEF AddColumn, Shaped
  <2> HIDE DEF e
  <2>2. e.rows[T] = {f[r] : r \in d.rows[T]}
    BY <2>1
  <2>3. Names(d, T, C) = Names(e, T, C)
    BY <2>1 DEF Names, With
  <2>4. "id" \in DOMAIN e.columns[T] => e.columns[T]["id"] = {"unique"}
    BY <1>2, <2>1 DEF With, Shaped
  <2>5. ASSUME NEW r \in d.rows[T], DOMAIN r = DOMAIN d.columns[T]
        PROVE  DOMAIN f[r] = DOMAIN e.columns[T] /\ Alike(r, f[r], Names(d, T, C))
    <3>1. f[r] = With(r, op.column, op.value)
      OBVIOUS
    <3> QED BY <2>1, <2>5, <3>1 DEF With, Alike, Names
  <2> HIDE DEF f
  <2>6. DOMAIN f = d.rows[T]
    BY DEF f
  <2>7. Unharmed(d, e, T, C)
    BY <1>2, <2>1, <2>2, <2>3, <2>4, <2>5, <2>6, RowsKept
  <2> QED BY <2>7 DEF e
<1>3. CASE T \notin DOMAIN d.columns
  <2>1. T \notin DOMAIN e.columns /\ T \notin DOMAIN e.rows
        /\ "columns" \in DOMAIN e /\ "rows" \in DOMAIN e
    <3> HIDE DEF e
    <3> QED BY <1>1, <1>3 DEF AddColumn, Shaped
  <2> QED BY <1>3, <2>1 DEF Unharmed, Shaped, Keeps
<1> QED BY <1>2, <1>3

LEMMA RemoveQuiet ==
  ASSUME NEW d, NEW op, NEW T, NEW C, Shaped(d, T), "id" \in C,
         op.do = "remove", op.table = T, op.column \notin C
  PROVE  Unharmed(d, Apply(d, op), T, C)
<1> DEFINE e == Apply(d, op)
           f == [r \in d.rows[T] |-> Without(r, op.column)]
<1>1. e = RemoveColumn(d, op) /\ "columns" \in DOMAIN d /\ "rows" \in DOMAIN d
  BY DEF Apply, Shaped
<1>2. CASE T \in DOMAIN d.columns
  <2>1. /\ "columns" \in DOMAIN e /\ "rows" \in DOMAIN e
        /\ T \in DOMAIN e.columns /\ T \in DOMAIN e.rows
        /\ e.columns[T] = Without(d.columns[T], op.column)
        /\ e.rows[T] = {Without(r, op.column) : r \in d.rows[T]}
    <3> HIDE DEF e
    <3> QED BY <1>1, <1>2 DEF RemoveColumn, Shaped
  <2> HIDE DEF e
  <2>2. e.rows[T] = {f[r] : r \in d.rows[T]}
    BY <2>1
  <2>3. Names(d, T, C) = Names(e, T, C)
    BY <2>1 DEF Names, Without, Restrict
  <2>4. "id" \in DOMAIN e.columns[T] => e.columns[T]["id"] = {"unique"}
    BY <1>2, <2>1 DEF Without, Restrict, Shaped
  <2>5. ASSUME NEW r \in d.rows[T], DOMAIN r = DOMAIN d.columns[T]
        PROVE  DOMAIN f[r] = DOMAIN e.columns[T] /\ Alike(r, f[r], Names(d, T, C))
    <3>1. f[r] = Without(r, op.column)
      OBVIOUS
    <3> QED BY <2>1, <2>5, <3>1 DEF Without, Restrict, Alike, Names
  <2> HIDE DEF f
  <2>6. DOMAIN f = d.rows[T]
    BY DEF f
  <2>7. Unharmed(d, e, T, C)
    BY <1>2, <2>1, <2>2, <2>3, <2>4, <2>5, <2>6, RowsKept
  <2> QED BY <2>7 DEF e
<1>3. CASE T \notin DOMAIN d.columns
  <2>1. T \notin DOMAIN e.columns /\ T \notin DOMAIN e.rows
        /\ "columns" \in DOMAIN e /\ "rows" \in DOMAIN e
    <3> HIDE DEF e
    <3> QED BY <1>1, <1>3 DEF RemoveColumn, Shaped
  <2> QED BY <1>3, <2>1 DEF Unharmed, Shaped, Keeps
<1> QED BY <1>2, <1>3

LEMMA RenameQuiet ==
  ASSUME NEW d, NEW op, NEW T, NEW C, Shaped(d, T), "id" \in C,
         op.do = "rename", op.table = T, op.column \notin C, op.name \notin C
  PROVE  Unharmed(d, Apply(d, op), T, C)
<1> DEFINE e == Apply(d, op)
           f == [r \in d.rows[T] |-> Renamed(r, op.column, op.name)]
<1>1. e = RenameColumn(d, op) /\ "columns" \in DOMAIN d /\ "rows" \in DOMAIN d
  BY DEF Apply, Shaped
<1>2. CASE T \in DOMAIN d.columns
  <2>1. /\ "columns" \in DOMAIN e /\ "rows" \in DOMAIN e
        /\ T \in DOMAIN e.columns /\ T \in DOMAIN e.rows
        /\ e.columns[T] = Renamed(d.columns[T], op.column, op.name)
        /\ e.rows[T] = {Renamed(r, op.column, op.name) : r \in d.rows[T]}
    <3> HIDE DEF e
    <3> QED BY <1>1, <1>2 DEF RenameColumn, Shaped
  <2> HIDE DEF e
  <2>2. e.rows[T] = {f[r] : r \in d.rows[T]}
    BY <2>1
  <2>3. Names(d, T, C) = Names(e, T, C)
    BY <2>1 DEF Names, Renamed
  <2>4. "id" \in DOMAIN e.columns[T] => e.columns[T]["id"] = {"unique"}
    BY <1>2, <2>1 DEF Renamed, Shaped
  <2>5. ASSUME NEW r \in d.rows[T], DOMAIN r = DOMAIN d.columns[T]
        PROVE  DOMAIN f[r] = DOMAIN e.columns[T] /\ Alike(r, f[r], Names(d, T, C))
    <3>1. f[r] = Renamed(r, op.column, op.name)
      OBVIOUS
    <3> QED BY <2>1, <2>5, <3>1 DEF Renamed, Alike, Names
  <2> HIDE DEF f
  <2>6. DOMAIN f = d.rows[T]
    BY DEF f
  <2>7. Unharmed(d, e, T, C)
    BY <1>2, <2>1, <2>2, <2>3, <2>4, <2>5, <2>6, RowsKept
  <2> QED BY <2>7 DEF e
<1>3. CASE T \notin DOMAIN d.columns
  <2>1. T \notin DOMAIN e.columns /\ T \notin DOMAIN e.rows
        /\ "columns" \in DOMAIN e /\ "rows" \in DOMAIN e
    <3> HIDE DEF e
    <3> QED BY <1>1, <1>3 DEF RenameColumn, Shaped
  <2> QED BY <1>3, <2>1 DEF Unharmed, Shaped, Keeps
<1> QED BY <1>2, <1>3

LEMMA AlterQuiet ==
  ASSUME NEW d, NEW op, NEW T, NEW C, Shaped(d, T), "id" \in C,
         op.do = "alter", op.table = T, op.column # "id", op.column \notin C \/ op.value = Null
  PROVE  Unharmed(d, Apply(d, op), T, C)
<1> DEFINE e == Apply(d, op)
           f == [r \in d.rows[T] |->
                   IF "null" \in op.traits THEN r
                   ELSE [r EXCEPT ![op.column] = IF @ = Null THEN op.value ELSE @]]
<1>1. e = AlterColumn(d, op) /\ "columns" \in DOMAIN d /\ "rows" \in DOMAIN d
  BY DEF Apply, Shaped
<1>2. CASE T \in DOMAIN d.columns
  <2>1. /\ "columns" \in DOMAIN e /\ "rows" \in DOMAIN e
        /\ T \in DOMAIN e.columns /\ T \in DOMAIN e.rows
        /\ e.columns[T] = [d.columns[T] EXCEPT ![op.column] = op.traits]
        /\ e.rows[T] = IF "null" \in op.traits THEN d.rows[T]
                       ELSE {[r EXCEPT ![op.column] = IF @ = Null THEN op.value ELSE @] :
                               r \in d.rows[T]}
    <3> HIDE DEF e
    <3> QED BY <1>1, <1>2 DEF AlterColumn, Shaped
  <2> HIDE DEF e
  <2>2. e.rows[T] = {f[r] : r \in d.rows[T]}
    <3>1. CASE "null" \in op.traits
      <4>1. e.rows[T] = d.rows[T] /\ \A r \in d.rows[T] : f[r] = r
        BY <2>1, <3>1
      <4> HIDE DEF f
      <4>2. {f[r] : r \in d.rows[T]} = d.rows[T]
        BY <4>1
      <4> QED BY <4>1, <4>2
    <3>2. CASE "null" \notin op.traits
      BY <2>1, <3>2
    <3> QED BY <3>1, <3>2
  <2>3. Names(d, T, C) = Names(e, T, C)
    BY <2>1 DEF Names
  <2>4. "id" \in DOMAIN e.columns[T] => e.columns[T]["id"] = {"unique"}
    BY <1>2, <2>1 DEF Shaped
  <2>5. ASSUME NEW r \in d.rows[T], DOMAIN r = DOMAIN d.columns[T]
        PROVE  DOMAIN f[r] = DOMAIN e.columns[T] /\ Alike(r, f[r], Names(d, T, C))
    <3>1. f[r] = IF "null" \in op.traits THEN r
                 ELSE [r EXCEPT ![op.column] = IF @ = Null THEN op.value ELSE @]
      OBVIOUS
    <3> HIDE DEF f
    <3> QED BY <2>1, <2>5, <3>1 DEF Alike, Names
  <2> HIDE DEF f
  <2>6. DOMAIN f = d.rows[T]
    BY DEF f
  <2>7. Unharmed(d, e, T, C)
    BY <1>2, <2>1, <2>2, <2>3, <2>4, <2>5, <2>6, RowsKept
  <2> QED BY <2>7 DEF e
<1>3. CASE T \notin DOMAIN d.columns
  <2>1. T \notin DOMAIN e.columns /\ T \notin DOMAIN e.rows
        /\ "columns" \in DOMAIN e /\ "rows" \in DOMAIN e
    <3> HIDE DEF e
    <3> QED BY <1>1, <1>3 DEF AlterColumn, Shaped
  <2> QED BY <1>3, <2>1 DEF Unharmed, Shaped, Keeps
<1> QED BY <1>2, <1>3

\* A table that is not renamed, nor the new name of one.
LEMMA CallQuiet ==
  ASSUME NEW d, NEW op, NEW T, NEW C, Shaped(d, T), op.do = "call", op.table # T, op.name # T
  PROVE  Unharmed(d, Apply(d, op), T, C)
<1>1. "columns" \in DOMAIN d /\ "rows" \in DOMAIN d
  BY DEF Shaped
<1>2. /\ "columns" \in DOMAIN Apply(d, op) /\ "rows" \in DOMAIN Apply(d, op)
      /\ T \in DOMAIN Apply(d, op).columns <=> T \in DOMAIN d.columns
      /\ T \in DOMAIN Apply(d, op).rows <=> T \in DOMAIN d.rows
      /\ T \in DOMAIN d.columns => Apply(d, op).columns[T] = d.columns[T]
      /\ T \in DOMAIN d.rows => Apply(d, op).rows[T] = d.rows[T]
  BY <1>1 DEF Apply, AllTables, Renamed
<1> QED BY <1>2 DEF Unharmed, Shaped, Keeps, Names, SameRows, Alike

\* Unique sets and indexes are no columns.
LEMMA RestQuiet ==
  ASSUME NEW d, NEW op, NEW T, NEW C, Shaped(d, T), op.do \in {"together", "index"}
  PROVE  Unharmed(d, Apply(d, op), T, C)
<1>1. "columns" \in DOMAIN d /\ "rows" \in DOMAIN d
  BY DEF Shaped
<1>2. /\ "columns" \in DOMAIN Apply(d, op) /\ "rows" \in DOMAIN Apply(d, op)
      /\ Apply(d, op).columns = d.columns /\ Apply(d, op).rows = d.rows
  <2>1. CASE op.do = "together"
    BY <1>1, <2>1 DEF Apply
  <2>2. CASE op.do = "index"
    BY <1>1, <2>2 DEF Apply
  <2> QED BY <2>1, <2>2
<1> QED BY <1>2 DEF Unharmed, Shaped, Keeps, Names, SameRows, Alike

\* Only rows of some tables change.
Elsewhere(d, e, T) ==
  /\ "columns" \in DOMAIN e /\ "rows" \in DOMAIN e
  /\ e.columns = d.columns /\ DOMAIN e.rows = DOMAIN d.rows
  /\ T \in DOMAIN d.rows => e.rows[T] = d.rows[T]

LEMMA ElsewhereUnharmed ==
  ASSUME NEW d, NEW e, NEW T, NEW C, Shaped(d, T), Elsewhere(d, e, T)
  PROVE  Unharmed(d, e, T, C)
BY DEF Elsewhere, Unharmed, Shaped, Keeps, Names, SameRows, Alike

\* The code that changes the rows of two tables.
TwoTables(d, T, X, U, Y) == [d EXCEPT !.rows[T] = X, !.rows[U] = Y]

LEMMA TwoTablesRows ==
  ASSUME NEW d, NEW T, NEW X, NEW U, NEW Y, T # U, "columns" \in DOMAIN d, "rows" \in DOMAIN d
  PROVE  /\ "columns" \in DOMAIN TwoTables(d, T, X, U, Y)
         /\ "rows" \in DOMAIN TwoTables(d, T, X, U, Y)
         /\ TwoTables(d, T, X, U, Y).columns = d.columns
         /\ DOMAIN TwoTables(d, T, X, U, Y).rows = DOMAIN d.rows
         /\ T \in DOMAIN d.rows => TwoTables(d, T, X, U, Y).rows[T] = X
         /\ U \in DOMAIN d.rows => TwoTables(d, T, X, U, Y).rows[U] = Y
         /\ \A V \in DOMAIN d.rows \ {T, U} : TwoTables(d, T, X, U, Y).rows[V] = d.rows[V]
<1> DEFINE e == TwoTables(d, T, X, U, Y)
           R == d.rows
<1>1. /\ "columns" \in DOMAIN e /\ "rows" \in DOMAIN e /\ e.columns = d.columns
      /\ e.rows = [R EXCEPT ![T] = X, ![U] = Y]
  BY DEF TwoTables
<1> HIDE DEF e, R
<1>2. \A V \in DOMAIN R \ {T, U} : e.rows[V] = R[V]
  <2> SUFFICES ASSUME NEW V \in DOMAIN R \ {T, U}
               PROVE  e.rows[V] = R[V]
    OBVIOUS
  <2> QED BY <1>1
<1>3. DOMAIN e.rows = DOMAIN R /\ (T \in DOMAIN R => e.rows[T] = X) /\ (U \in DOMAIN R => e.rows[U] = Y)
  BY <1>1
<1> QED BY <1>1, <1>2, <1>3 DEF e, R

TypeIds(d) == {TypeId(url) : url \in {u \in {object.object_type : object \in d.rows["object"]} : HasType(u)}}
Typed(object) == IF HasType(object.object_type)
                 THEN [object EXCEPT !.object_type_fk = TypeId(object.object_type)]
                 ELSE object

LEMMA MoveTypesRows ==
  ASSUME NEW d
  PROVE  MoveTypes(d) = TwoTables(d, "objecttype",
                                  d.rows["objecttype"] \cup {TypeRow(d, id) : id \in TypeIds(d)},
                                  "object", {Typed(object) : object \in d.rows["object"]})
BY Zenon DEF MoveTypes, TwoTables, TypeIds, Typed

Kept(d) == {object \in d.rows["object"] : object.object_type # Null}

LEMMA RemoveUntypedRows ==
  ASSUME NEW d
  PROVE  RemoveUntyped(d) = TwoTables(d, "object", Kept(d), "objectrecord",
                                      {record \in d.rows["objectrecord"] :
                                         \E object \in Kept(d) : object.id = record.object})
BY Zenon DEF RemoveUntyped, TwoTables, Kept

LEMMA CopyTokensRows ==
  ASSUME NEW d
  PROVE  CopyTokens(d) = TwoTables(d, "tokenauth",
                                   d.rows["tokenauth"] \cup
                                     {RowOf(d, "tokenauth", [id |-> NewId(old.token), token |-> old.token]) :
                                        old \in d.rows["oldtokenauth"]},
                                   "permission",
                                   {[p EXCEPT !.new_token_auth = NewKey(d, p)] : p \in d.rows["permission"]})
BY Zenon DEF CopyTokens, TwoTables

LEMMA CodeQuiet ==
  ASSUME NEW d, NEW code, NEW T, NEW C, Shaped(d, T), "id" \in C, QuietCode(code, T, C)
  PROVE  Unharmed(d, Python(code, d), T, C)
<1>1. "columns" \in DOMAIN d /\ "rows" \in DOMAIN d
  BY DEF Shaped
<1>2. CASE code = "move_data_to_record" /\ T # "objectrecord"
  <2>1. Elsewhere(d, MoveData(d), T) /\ Python(code, d) = MoveData(d)
    BY <1>1, <1>2 DEF MoveData, Elsewhere, Python
  <2> QED BY <2>1, ElsewhereUnharmed
<1>3. CASE code = "move_version_to_record" /\ T # "objectrecord"
  <2>1. Elsewhere(d, MoveVersion(d), T) /\ Python(code, d) = MoveVersion(d)
    BY <1>1, <1>3 DEF MoveVersion, Elsewhere, Python
  <2> QED BY <2>1, ElsewhereUnharmed
<1>4. CASE code = "fill_record_index" /\ T # "objectrecord"
  <2>1. Elsewhere(d, FillIndex(d), T) /\ Python(code, d) = FillIndex(d)
    BY <1>1, <1>4 DEF FillIndex, Elsewhere, Python
  <2> QED BY <2>1, ElsewhereUnharmed
<1>5. CASE code = "generate_record_uuids" /\ T # "objectrecord"
  <2>1. Elsewhere(d, GenerateUuids(d), T) /\ Python(code, d) = GenerateUuids(d)
    BY <1>1, <1>5 DEF GenerateUuids, Elsewhere, Python
  <2> QED BY <2>1, ElsewhereUnharmed
<1>6. CASE code = "forward" /\ T # "objectrecord"
  <2>1. Elsewhere(d, Backfill(d), T) /\ Python(code, d) = Backfill(d)
    BY <1>1, <1>6 DEF Backfill, Elsewhere, Python
  <2> QED BY <2>1, ElsewhereUnharmed
<1>7. CASE code = "move_objecttypes_to_model" /\ T \notin {"object", "objecttype"}
  <2> DEFINE X == d.rows["objecttype"] \cup {TypeRow(d, id) : id \in TypeIds(d)}
             Y == {Typed(object) : object \in d.rows["object"]}
  <2>1. MoveTypes(d) = TwoTables(d, "objecttype", X, "object", Y)
    BY MoveTypesRows, Zenon
  <2> HIDE DEF X, Y
  <2>2. Elsewhere(d, MoveTypes(d), T)
    BY <1>1, <1>7, <2>1, TwoTablesRows DEF Elsewhere
  <2>3. Python(code, d) = MoveTypes(d)
    BY <1>7 DEF Python
  <2> QED BY <2>2, <2>3, ElsewhereUnharmed
<1>8. CASE code = "remove_objects_with_empty_object_type" /\ T \notin {"object", "objectrecord"}
  <2> DEFINE X == Kept(d)
             Y == {record \in d.rows["objectrecord"] :
                   \E object \in Kept(d) : object.id = record.object}
  <2>1. RemoveUntyped(d) = TwoTables(d, "object", X, "objectrecord", Y)
    BY RemoveUntypedRows, Zenon
  <2> HIDE DEF X, Y
  <2>2. Elsewhere(d, RemoveUntyped(d), T)
    BY <1>1, <1>8, <2>1, TwoTablesRows DEF Elsewhere
  <2>3. Python(code, d) = RemoveUntyped(d)
    BY <1>8 DEF Python
  <2> QED BY <2>2, <2>3, ElsewhereUnharmed
<1>9. CASE code = "switch_to_new_token_model" /\ T \notin {"tokenauth", "permission"}
  <2> DEFINE X == d.rows["tokenauth"] \cup
                   {RowOf(d, "tokenauth", [id |-> NewId(old.token), token |-> old.token]) :
                      old \in d.rows["oldtokenauth"]}
             Y == {[p EXCEPT !.new_token_auth = NewKey(d, p)] : p \in d.rows["permission"]}
  <2>1. CopyTokens(d) = TwoTables(d, "tokenauth", X, "permission", Y)
    BY CopyTokensRows, Zenon
  <2> HIDE DEF X, Y
  <2>2. Elsewhere(d, CopyTokens(d), T)
    BY <1>1, <1>9, <2>1, TwoTablesRows DEF Elsewhere
  <2>3. Python(code, d) = CopyTokens(d)
    BY <1>9 DEF Python
  <2> QED BY <2>2, <2>3, ElsewhereUnharmed
<1>10. CASE code = "_generate_unique_identifiers" /\ T # "tokenauth"
  <2>1. Elsewhere(d, GenerateIdentifiers(d), T) /\ Python(code, d) = GenerateIdentifiers(d)
    BY <1>1, <1>10 DEF GenerateIdentifiers, Elsewhere, Python
  <2> QED BY <2>1, ElsewhereUnharmed
<1>11. CASE code = "generate_record_uuids" /\ T = "objectrecord" /\ "uuid" \notin C
  <2> DEFINE e == GenerateUuids(d)
             f == [r \in d.rows[T] |-> [r EXCEPT !.uuid = r.id]]
  <2>1. /\ Python(code, d) = e
        /\ "columns" \in DOMAIN e /\ "rows" \in DOMAIN e
        /\ e.columns = d.columns /\ DOMAIN e.rows = DOMAIN d.rows
        /\ T \in DOMAIN d.rows => e.rows[T] = {[r EXCEPT !.uuid = r.id] : r \in d.rows[T]}
    BY <1>1, <1>11 DEF GenerateUuids, Python
  <2> HIDE DEF e
  <2>2. CASE T \notin DOMAIN d.columns
    BY <2>1, <2>2 DEF Unharmed, Shaped, Keeps
  <2>3. CASE T \in DOMAIN d.columns
    <3>1. T \in DOMAIN d.rows
      BY <2>3 DEF Shaped
    <3>2. e.rows[T] = {f[r] : r \in d.rows[T]} /\ DOMAIN f = d.rows[T]
      BY <2>1, <3>1
    <3>3. ASSUME NEW r \in d.rows[T], DOMAIN r = DOMAIN d.columns[T]
          PROVE  DOMAIN f[r] = DOMAIN e.columns[T] /\ Alike(r, f[r], Names(d, T, C))
      <4>1. f[r] = [r EXCEPT !.uuid = r.id]
        OBVIOUS
      <4> HIDE DEF f
      <4> QED BY <1>11, <2>1, <3>3, <4>1 DEF Alike, Names
    <3>4. Names(d, T, C) = Names(e, T, C) /\ T \in DOMAIN e.columns /\ T \in DOMAIN e.rows
          /\ ("id" \in DOMAIN e.columns[T] => e.columns[T]["id"] = {"unique"})
      BY <2>1, <2>3, <3>1 DEF Names, Shaped
    <3> HIDE DEF f
    <3> QED BY <2>1, <2>3, <3>2, <3>3, <3>4, RowsKept
  <2> QED BY <2>2, <2>3
<1>12. CASE code = "forward" /\ T = "objectrecord" /\ "_object_type" \notin C
  <2> DEFINE e == Backfill(d)
             f == [r \in d.rows[T] |-> [r EXCEPT !._object_type = RowWith(d, "object", r.object).object_type]]
  <2>1. /\ Python(code, d) = e
        /\ "columns" \in DOMAIN e /\ "rows" \in DOMAIN e
        /\ e.columns = d.columns /\ DOMAIN e.rows = DOMAIN d.rows
        /\ T \in DOMAIN d.rows => e.rows[T] = {[r EXCEPT !._object_type = RowWith(d, "object", r.object).object_type] : r \in d.rows[T]}
    BY <1>1, <1>12 DEF Backfill, Python
  <2> HIDE DEF e
  <2>2. CASE T \notin DOMAIN d.columns
    BY <2>1, <2>2 DEF Unharmed, Shaped, Keeps
  <2>3. CASE T \in DOMAIN d.columns
    <3>1. T \in DOMAIN d.rows
      BY <2>3 DEF Shaped
    <3>2. e.rows[T] = {f[r] : r \in d.rows[T]} /\ DOMAIN f = d.rows[T]
      BY <2>1, <3>1
    <3>3. ASSUME NEW r \in d.rows[T], DOMAIN r = DOMAIN d.columns[T]
          PROVE  DOMAIN f[r] = DOMAIN e.columns[T] /\ Alike(r, f[r], Names(d, T, C))
      <4>1. f[r] = [r EXCEPT !._object_type = RowWith(d, "object", r.object).object_type]
        OBVIOUS
      <4> HIDE DEF f
      <4> QED BY <1>12, <2>1, <3>3, <4>1 DEF Alike, Names
    <3>4. Names(d, T, C) = Names(e, T, C) /\ T \in DOMAIN e.columns /\ T \in DOMAIN e.rows
          /\ ("id" \in DOMAIN e.columns[T] => e.columns[T]["id"] = {"unique"})
      BY <2>1, <2>3, <3>1 DEF Names, Shaped
    <3> HIDE DEF f
    <3> QED BY <2>1, <2>3, <3>2, <3>3, <3>4, RowsKept
  <2> QED BY <2>2, <2>3
<1>13. CASE code = "_generate_unique_identifiers" /\ T = "tokenauth" /\ "identifier" \notin C
  <2> DEFINE e == GenerateIdentifiers(d)
             f == [r \in d.rows[T] |-> [r EXCEPT !.identifier = r.id]]
  <2>1. /\ Python(code, d) = e
        /\ "columns" \in DOMAIN e /\ "rows" \in DOMAIN e
        /\ e.columns = d.columns /\ DOMAIN e.rows = DOMAIN d.rows
        /\ T \in DOMAIN d.rows => e.rows[T] = {[r EXCEPT !.identifier = r.id] : r \in d.rows[T]}
    BY <1>1, <1>13 DEF GenerateIdentifiers, Python
  <2> HIDE DEF e
  <2>2. CASE T \notin DOMAIN d.columns
    BY <2>1, <2>2 DEF Unharmed, Shaped, Keeps
  <2>3. CASE T \in DOMAIN d.columns
    <3>1. T \in DOMAIN d.rows
      BY <2>3 DEF Shaped
    <3>2. e.rows[T] = {f[r] : r \in d.rows[T]} /\ DOMAIN f = d.rows[T]
      BY <2>1, <3>1
    <3>3. ASSUME NEW r \in d.rows[T], DOMAIN r = DOMAIN d.columns[T]
          PROVE  DOMAIN f[r] = DOMAIN e.columns[T] /\ Alike(r, f[r], Names(d, T, C))
      <4>1. f[r] = [r EXCEPT !.identifier = r.id]
        OBVIOUS
      <4> HIDE DEF f
      <4> QED BY <1>13, <2>1, <3>3, <4>1 DEF Alike, Names
    <3>4. Names(d, T, C) = Names(e, T, C) /\ T \in DOMAIN e.columns /\ T \in DOMAIN e.rows
          /\ ("id" \in DOMAIN e.columns[T] => e.columns[T]["id"] = {"unique"})
      BY <2>1, <2>3, <3>1 DEF Names, Shaped
    <3> HIDE DEF f
    <3> QED BY <2>1, <2>3, <3>2, <3>3, <3>4, RowsKept
  <2> QED BY <2>2, <2>3
<1> QED
  BY <1>2, <1>3, <1>4, <1>5, <1>6, <1>7, <1>8, <1>9, <1>10, <1>11, <1>12, <1>13 DEF QuietCode

LEMMA QuietStep ==
  ASSUME NEW d, NEW op, NEW T, NEW C, Shaped(d, T), "id" \in C, Quiet(op, T, C)
  PROVE  Unharmed(d, Do(d, op), T, C)
<1>1. op.do # "run" => Do(d, op) = Apply(d, op)
  BY DEF Do
<1>2. CASE op.do = "run" /\ QuietCode(op.code, T, C)
  BY <1>2, CodeQuiet DEF Do
<1>3. CASE op.do \in {"together", "index"}
  BY <1>1, <1>3, RestQuiet
<1>4. CASE op.do \in {"create", "delete", "add", "alter", "remove", "rename"} /\ op.table # T
  BY <1>1, <1>4, ElsewhereQuiet
<1>5. CASE op.do = "call" /\ op.table # T /\ op.name # T
  BY <1>1, <1>5, CallQuiet
<1>6. CASE op.do \in {"add", "alter", "remove", "rename"} /\ op.table = T /\ Quiet(op, T, C)
  BY <1>1, <1>6, AddQuiet, AlterQuiet, RemoveQuiet, RenameQuiet DEF Quiet
<1> QED
  BY <1>2, <1>3, <1>4, <1>5, <1>6 DEF Quiet

\* A migration of which all operations are quiet, but perhaps some.
QuietOps(ops, T, C) == \A k \in 1..Len(ops) : Quiet(ops[k], T, C)

\* Quiet operations, one after another, leave the rows of T as seen through C.
LEMMA QuietMigration ==
  ASSUME NEW d, NEW ops, NEW T, NEW C, Shaped(d, T), "id" \in C, IsOps(ops), QuietOps(ops, T, C)
  PROVE  Unharmed(d, Migrated(d, ops), T, C)
<1>1. PICK at : Walk(at, d, ops)
  BY Walks
<1> DEFINE S == {k \in 0..Len(ops) : Unharmed(d, at[k], T, C)}
<1>2. 0 \in S /\ Len(ops) \in Nat /\ 0 \in Nat /\ Len(ops) \in 0..Len(ops)
  BY <1>1, KeepsAll DEF Walk, Unharmed, IsOps
<1>3. ASSUME NEW i \in 0..Len(ops), i # Len(ops), i \in S
      PROVE  i + 1 \in S
  <2>1. i + 1 \in 1..Len(ops) /\ i + 1 \in 0..Len(ops) /\ (i + 1) - 1 = i
    BY <1>2, <1>3
  <2>2. at[i + 1] = Do(at[i], ops[i + 1])
    BY <1>1, <2>1 DEF Walk
  <2>3. Shaped(at[i], T) /\ Keeps(d, at[i], T, C)
    BY <1>3 DEF Unharmed
  <2>4. Unharmed(at[i], at[i + 1], T, C)
    BY <2>1, <2>2, <2>3, QuietStep DEF QuietOps
  <2>5. Unharmed(d, at[i + 1], T, C)
    BY <2>3, <2>4, KeepsBoth DEF Unharmed
  <2> QED BY <2>1, <2>5
<1> HIDE DEF S
<1>4. 0..Len(ops) \subseteq S
  BY <1>2, <1>3, Upward
<1>5. Len(ops) \in S
  BY <1>2, <1>4
<1> QED BY <1>1, <1>5 DEF S, Walk

-----------------------------------------------------------------------------
(* What the other operations do to a table.                                   *)

LEMMA CreateDoes ==
  ASSUME NEW d, NEW op, NEW T, Shaped(d, T), op.do = "create", op.table = T,
         T \notin DOMAIN d.columns, "id" \in DOMAIN op.columns => op.columns["id"] = {"unique"}
  PROVE  /\ Shaped(Do(d, op), T)
         /\ T \in DOMAIN Do(d, op).columns /\ Do(d, op).columns[T] = op.columns
         /\ Do(d, op).rows[T] = {}
<1> DEFINE e == Do(d, op)
<1>1. "columns" \in DOMAIN d /\ "rows" \in DOMAIN d
  BY DEF Shaped
<1>2. e = [d EXCEPT !.columns = With(@, op.table, op.columns), !.rows = With(@, op.table, {}),
                    !.together = With(@, op.table, {})]
  BY DEF Do, Apply
<1>3. "columns" \in DOMAIN e /\ "rows" \in DOMAIN e
      /\ e.columns = With(d.columns, T, op.columns) /\ e.rows = With(d.rows, T, {})
  <2> HIDE DEF e
  <2> QED BY <1>1, <1>2
<1> HIDE DEF e
<1>4. /\ T \in DOMAIN e.columns /\ T \in DOMAIN e.rows
      /\ e.columns[T] = op.columns /\ e.rows[T] = {}
  BY <1>3 DEF With
<1>5. Shaped(e, T)
  BY <1>3, <1>4 DEF Shaped
<1> QED BY <1>4, <1>5 DEF e

\* e is d with a column more in T.
Added(d, e, T, C, column, value) ==
  /\ Shaped(e, T)
  /\ T \in DOMAIN e.columns
  /\ Names(e, T, C) = Names(d, T, C) \cup ({column} \cap C)
  /\ SameRows(d.rows[T], e.rows[T], Names(d, T, C))
  /\ \A s \in e.rows[T] : s[column] = value

LEMMA AddDoes ==
  ASSUME NEW d, NEW op, NEW T, NEW C, Shaped(d, T), op.do = "add", op.table = T,
         T \in DOMAIN d.columns, op.column \notin DOMAIN d.columns[T], op.column # "id"
  PROVE  Added(d, Do(d, op), T, C, op.column, op.value)
<1> DEFINE e == Do(d, op)
           f == [r \in d.rows[T] |-> With(r, op.column, op.value)]
           N == Names(d, T, C)
<1>1. e = AddColumn(d, op) /\ "columns" \in DOMAIN d /\ "rows" \in DOMAIN d
  BY DEF Apply, Do, Shaped
<1>2. /\ "columns" \in DOMAIN e /\ "rows" \in DOMAIN e
      /\ T \in DOMAIN e.columns /\ T \in DOMAIN e.rows
      /\ e.columns[T] = With(d.columns[T], op.column, op.traits)
      /\ e.rows[T] = {With(r, op.column, op.value) : r \in d.rows[T]}
  <2> HIDE DEF e
  <2> QED BY <1>1 DEF AddColumn, Shaped
<1> HIDE DEF e
<1>3. e.rows[T] = {f[r] : r \in d.rows[T]} /\ DOMAIN f = d.rows[T]
  BY <1>2
<1>4. ASSUME NEW r \in d.rows[T]
      PROVE  DOMAIN f[r] = DOMAIN e.columns[T] /\ Alike(r, f[r], N) /\ f[r][op.column] = op.value
  <2>1. f[r] = With(r, op.column, op.value) /\ DOMAIN r = DOMAIN d.columns[T]
    BY DEF Shaped
  <2> HIDE DEF f
  <2> QED BY <2>1, <1>2 DEF With, Alike, Names
<1>5. Names(e, T, C) = N \cup ({op.column} \cap C)
  BY <1>2 DEF Names, With
<1>6. "id" \in DOMAIN e.columns[T] => e.columns[T]["id"] = {"unique"}
  BY <1>2 DEF With, Shaped
<1> HIDE DEF f, N
<1>7. SameRows(d.rows[T], e.rows[T], N)
  BY <1>3, <1>4, EachKept
<1>8. Shaped(e, T)
  BY <1>2, <1>3, <1>4, <1>6 DEF Shaped
<1>9. \A s \in e.rows[T] : s[op.column] = op.value
  BY <1>3, <1>4
<1> QED BY <1>2, <1>5, <1>7, <1>8, <1>9 DEF e, N, Added

\* e is d with a column less in T.
Removed(d, e, T, C, column) ==
  /\ Shaped(e, T)
  /\ T \in DOMAIN e.columns
  /\ Names(e, T, C) = Names(d, T, C) \ {column}
  /\ SameRows(d.rows[T], e.rows[T], Names(d, T, C) \ {column})

LEMMA RemoveDoes ==
  ASSUME NEW d, NEW op, NEW T, NEW C, Shaped(d, T), op.do = "remove", op.table = T,
         T \in DOMAIN d.columns
  PROVE  Removed(d, Do(d, op), T, C, op.column)
<1> DEFINE e == Do(d, op)
           f == [r \in d.rows[T] |-> Without(r, op.column)]
           N == Names(d, T, C) \ {op.column}
<1>1. e = RemoveColumn(d, op) /\ "columns" \in DOMAIN d /\ "rows" \in DOMAIN d
  BY DEF Apply, Do, Shaped
<1>2. /\ "columns" \in DOMAIN e /\ "rows" \in DOMAIN e
      /\ T \in DOMAIN e.columns /\ T \in DOMAIN e.rows
      /\ e.columns[T] = Without(d.columns[T], op.column)
      /\ e.rows[T] = {Without(r, op.column) : r \in d.rows[T]}
  <2> HIDE DEF e
  <2> QED BY <1>1 DEF RemoveColumn, Shaped
<1> HIDE DEF e
<1>3. e.rows[T] = {f[r] : r \in d.rows[T]} /\ DOMAIN f = d.rows[T]
  BY <1>2
<1>4. ASSUME NEW r \in d.rows[T]
      PROVE  DOMAIN f[r] = DOMAIN e.columns[T] /\ Alike(r, f[r], N)
  <2>1. f[r] = Without(r, op.column) /\ DOMAIN r = DOMAIN d.columns[T]
    BY DEF Shaped
  <2> HIDE DEF f
  <2> QED BY <2>1, <1>2 DEF Without, Restrict, Alike, Names
<1>5. Names(e, T, C) = N
  BY <1>2 DEF Names, Without, Restrict
<1>6. "id" \in DOMAIN e.columns[T] => e.columns[T]["id"] = {"unique"}
  BY <1>2 DEF Without, Restrict, Shaped
<1> HIDE DEF f, N
<1>7. SameRows(d.rows[T], e.rows[T], N)
  BY <1>3, <1>4, EachKept
<1>8. Shaped(e, T)
  BY <1>2, <1>3, <1>4, <1>6 DEF Shaped
<1> QED BY <1>2, <1>5, <1>7, <1>8 DEF e, N, Removed

\* The values of a column are in another, and those of the columns N where they were.
MovedRows(R, S, N, old, new) ==
  /\ \A r \in R : \E s \in S : Alike(r, s, N) /\ s[new] = r[old]
  /\ \A s \in S : \E r \in R : Alike(r, s, N) /\ s[new] = r[old]

\* e is d with another name for a column of T.
Moved(d, e, T, C, old, new) ==
  /\ Shaped(e, T)
  /\ T \in DOMAIN e.columns
  /\ Names(e, T, C) = (Names(d, T, C) \ {old}) \cup {new}
  /\ MovedRows(d.rows[T], e.rows[T], Names(d, T, C) \ {old}, old, new)

LEMMA RenameDoes ==
  ASSUME NEW d, NEW op, NEW T, NEW C, Shaped(d, T), op.do = "rename", op.table = T,
         T \in DOMAIN d.columns, op.column \in Names(d, T, C), op.name \in C,
         op.name \notin Names(d, T, C), op.column # "id", op.name # "id"
  PROVE  Moved(d, Do(d, op), T, C, op.column, op.name)
<1> DEFINE e == Do(d, op)
           f == [r \in d.rows[T] |-> Renamed(r, op.column, op.name)]
           N == Names(d, T, C) \ {op.column}
<1>1. e = RenameColumn(d, op) /\ "columns" \in DOMAIN d /\ "rows" \in DOMAIN d
  BY DEF Apply, Do, Shaped
<1>2. /\ "columns" \in DOMAIN e /\ "rows" \in DOMAIN e
      /\ T \in DOMAIN e.columns /\ T \in DOMAIN e.rows
      /\ e.columns[T] = Renamed(d.columns[T], op.column, op.name)
      /\ e.rows[T] = {Renamed(r, op.column, op.name) : r \in d.rows[T]}
  <2> HIDE DEF e
  <2> QED BY <1>1 DEF RenameColumn, Shaped
<1> HIDE DEF e
<1>3. e.rows[T] = {f[r] : r \in d.rows[T]} /\ DOMAIN f = d.rows[T]
  BY <1>2
<1>4. ASSUME NEW r \in d.rows[T]
      PROVE  /\ DOMAIN f[r] = DOMAIN e.columns[T] /\ Alike(r, f[r], N)
             /\ f[r][op.name] = r[op.column]
  <2>1. f[r] = Renamed(r, op.column, op.name) /\ DOMAIN r = DOMAIN d.columns[T]
    BY DEF Shaped
  <2> HIDE DEF f
  <2> QED BY <2>1, <1>2 DEF Renamed, Alike, Names
<1>5. Names(e, T, C) = N \cup {op.name}
  BY <1>2 DEF Names, Renamed
<1>6. "id" \in DOMAIN e.columns[T] => e.columns[T]["id"] = {"unique"}
  BY <1>2 DEF Renamed, Shaped
<1> HIDE DEF f, N
<1>7. MovedRows(d.rows[T], e.rows[T], N, op.column, op.name)
  BY <1>3, <1>4 DEF MovedRows
<1>8. Shaped(e, T)
  BY <1>2, <1>3, <1>4, <1>6 DEF Shaped
<1> QED BY <1>2, <1>5, <1>7, <1>8 DEF e, N, Moved

LEMMA DeleteDoes ==
  ASSUME NEW d, NEW op, NEW T, Shaped(d, T), op.do = "delete", op.table = T
  PROVE  Shaped(Do(d, op), T) /\ T \notin DOMAIN Do(d, op).columns
<1>1. "columns" \in DOMAIN d /\ "rows" \in DOMAIN d
  BY DEF Shaped
<1>2. /\ "columns" \in DOMAIN Apply(d, op) /\ "rows" \in DOMAIN Apply(d, op)
      /\ T \notin DOMAIN Apply(d, op).columns /\ T \notin DOMAIN Apply(d, op).rows
  BY <1>1 DEF Apply, AllTables, Without, Restrict
<1> QED BY <1>2 DEF Do, Shaped

LEMMA CallDoes ==
  ASSUME NEW d, NEW op, NEW T, NEW U, Shaped(d, T), Shaped(d, U), op.do = "call",
         op.table = T, op.name = U, T # U, T \in DOMAIN d.columns
  PROVE  /\ Shaped(Do(d, op), T) /\ Shaped(Do(d, op), U)
         /\ T \notin DOMAIN Do(d, op).columns /\ U \in DOMAIN Do(d, op).columns
         /\ Do(d, op).columns[U] = d.columns[T] /\ Do(d, op).rows[U] = d.rows[T]
<1>1. "columns" \in DOMAIN d /\ "rows" \in DOMAIN d /\ T \in DOMAIN d.rows
  BY DEF Shaped
<1>2. /\ "columns" \in DOMAIN Apply(d, op) /\ "rows" \in DOMAIN Apply(d, op)
      /\ T \notin DOMAIN Apply(d, op).columns /\ T \notin DOMAIN Apply(d, op).rows
      /\ U \in DOMAIN Apply(d, op).columns /\ U \in DOMAIN Apply(d, op).rows
      /\ Apply(d, op).columns[U] = d.columns[T] /\ Apply(d, op).rows[U] = d.rows[T]
  BY <1>1 DEF Apply, AllTables, Renamed
<1> QED BY <1>2 DEF Do, Shaped

-----------------------------------------------------------------------------
(* The tables of tokens and permissions behind token migration t.             *)

TypeColumns  == {"id", "uuid"}
TokenColumns == {"id", "token"}
PermColumns  == {"id", "object_type", "mode", "fields",
                 "token_auth", "old_token_auth", "new_token_auth"}

Absent(d, T)          == T \notin DOMAIN d.columns
HasNames(d, T, C, N)  == T \in DOMAIN d.columns /\ Names(d, T, C) = N

\* The columns by which a permission points to its token, and the one that counts.
Points(t) ==
  IF t \in 2..10 \/ t >= 15 THEN {"token_auth"}
  ELSE IF t = 11 THEN {"old_token_auth"}
  ELSE IF t \in {12, 13} THEN {"old_token_auth", "new_token_auth"}
  ELSE {"new_token_auth"}
Point(t) ==
  IF t \in 2..10 \/ t >= 15 THEN "token_auth"
  ELSE IF t \in {11, 12} THEN "old_token_auth"
  ELSE "new_token_auth"

Listed(t)    == t \in {5, 6} \/ t >= 8
PermNames(t) == {"id", "object_type", "mode"} \cup Points(t) \cup (IF Listed(t) THEN {"fields"} ELSE {})

\* The tables of tokens and permissions behind token migration t.
TokenStage(d, t) ==
  /\ Shaped(d, "tokenauth") /\ Shaped(d, "oldtokenauth") /\ Shaped(d, "permission")
  /\ t \in {0, 11} => Absent(d, "tokenauth")
  /\ t \in 1..10 => HasNames(d, "tokenauth", TokenColumns, {"token"})
  /\ t >= 12 => HasNames(d, "tokenauth", TokenColumns, {"id", "token"})
  /\ t \in 11..13 => HasNames(d, "oldtokenauth", TokenColumns, {"token"})
  /\ t \notin 11..13 => Absent(d, "oldtokenauth")
  /\ t <= 1 => Absent(d, "permission")
  /\ t >= 2 => HasNames(d, "permission", PermColumns, PermNames(t))
  /\ t \in {1, 12} => d.rows["tokenauth"] = {}
  /\ t \in {5, 6} => \A p \in d.rows["permission"] : p.fields = Default

\* A token and its key, that which it gets later if it has none yet.
TokenTable(t) == IF t \in {11, 12} THEN "oldtokenauth" ELSE "tokenauth"
TokenKey(t, r) == IF t <= 12 THEN NewId(r.token) ELSE r.id
KeysOf(d, t)  == {<<TokenKey(t, r), r.token>> : r \in d.rows[TokenTable(t)]}

\* What a permission gives, and the key of the token to which it does.
PermKey(t, p)  == IF t <= 12 THEN NewId(p[Point(t)]) ELSE p[Point(t)]
FieldsAt(t, p) == IF Listed(t) THEN p.fields ELSE Default
UuidOf(d, id)  == RowWith(d, "objecttype", id).uuid
Gives(d, t, p) == [key |-> PermKey(t, p), uuid |-> UuidOf(d, p.object_type),
                   mode |-> p.mode, fields |-> FieldsAt(t, p)]
GivesOf(d, t)  == {Gives(d, t, p) : p \in d.rows["permission"]}

GrantsFrom(K, G) ==
  [secret \in {k[2] : k \in K} |->
     {[uuid |-> g.uuid, mode |-> g.mode, fields |-> g.fields] :
        g \in {h \in G : \E k \in K : k[2] = secret /\ k[1] = h.key}}]

GrantsIn(d, t) == IF t >= 2 THEN GrantsFrom(KeysOf(d, t), GivesOf(d, t)) ELSE GrantsFrom({}, {})

-----------------------------------------------------------------------------
(* One migration of tokens and permissions after the other.                   *)

SamePerm(t, p, u, q) ==
  /\ q.object_type = p.object_type /\ q.mode = p.mode
  /\ PermKey(u, q) = PermKey(t, p) /\ FieldsAt(u, q) = FieldsAt(t, p)

SamePerms(d, t, e, u) ==
  /\ \A p \in d.rows["permission"] : \E q \in e.rows["permission"] : SamePerm(t, p, u, q)
  /\ \A q \in e.rows["permission"] : \E p \in d.rows["permission"] : SamePerm(t, p, u, q)

\* From d, behind t, to e, behind u, all tokens and permissions are there.
Carried(d, t, e, u) ==
  TokenStage(e, u) /\ KeysOf(e, u) = KeysOf(d, t) /\ SamePerms(d, t, e, u)

TokensUnharmed(d, e) ==
  /\ Unharmed(d, e, "tokenauth", TokenColumns)
  /\ Unharmed(d, e, "oldtokenauth", TokenColumns)
  /\ Unharmed(d, e, "permission", PermColumns)

\* Tables with the same rows, and what is read of them.
LEMMA TokenRowsSame ==
  ASSUME NEW R, NEW S, NEW N, SameRows(R, S, N), "token" \in N
  PROVE  /\ {<<NewId(r.token), r.token>> : r \in R} = {<<NewId(s.token), s.token>> : s \in S}
         /\ "id" \in N => {<<r.id, r.token>> : r \in R} = {<<s.id, s.token>> : s \in S}
<1>1. /\ \A r \in R : \E s \in S : r.token = s.token /\ ("id" \in N => r.id = s.id)
      /\ \A s \in S : \E r \in R : r.token = s.token /\ ("id" \in N => r.id = s.id)
  BY DEF SameRows, Alike
<1>2. {<<NewId(r.token), r.token>> : r \in R} = {<<NewId(s.token), s.token>> : s \in S}
  BY <1>1
<1>3. ASSUME "id" \in N
      PROVE  {<<r.id, r.token>> : r \in R} = {<<s.id, s.token>> : s \in S}
  BY <1>1, <1>3
<1> QED BY <1>2, <1>3

\* Quiet migrations: those of core, and between t and u of token.
LEMMA QuietCarries ==
  ASSUME NEW d, NEW e, NEW t \in Nat, NEW u \in Nat, TokenStage(d, t), TokensUnharmed(d, e),
         t = u \/ <<t, u>> \in {<<2, 3>>, <<3, 4>>, <<5, 6>>, <<8, 9>>, <<9, 10>>, <<15, 16>>, <<16, 17>>}
  PROVE  TokenStage(e, u) /\ (t >= 2 => Carried(d, t, e, u))
<1>0. t = u \/ (t = 2 /\ u = 3) \/ (t = 3 /\ u = 4) \/ (t = 5 /\ u = 6) \/ (t = 8 /\ u = 9)
      \/ (t = 9 /\ u = 10) \/ (t = 15 /\ u = 16) \/ (t = 16 /\ u = 17)
  OBVIOUS
<1>1. PermNames(u) = PermNames(t) /\ TokenTable(u) = TokenTable(t) /\ Point(u) = Point(t)
      /\ (Listed(u) <=> Listed(t)) /\ (u <= 12 <=> t <= 12)
  BY <1>0 DEF PermNames, Points, Listed, TokenTable, Point
<1>2. ASSUME NEW r, NEW s, t >= 2, Alike(r, s, PermNames(t))
      PROVE  SamePerm(t, r, u, s)
  <2>1. Point(t) \in PermNames(t) /\ "object_type" \in PermNames(t) /\ "mode" \in PermNames(t)
        /\ (Listed(t) => "fields" \in PermNames(t))
    BY <1>2 DEF PermNames, Points, Point
  <2> QED BY <1>1, <1>2, <2>1 DEF Alike, SamePerm, PermKey, FieldsAt
<1>3. ASSUME t >= 2
      PROVE  SamePerms(d, t, e, u)
  <2>1. SameRows(d.rows["permission"], e.rows["permission"], PermNames(t))
    BY <1>3 DEF TokenStage, HasNames, TokensUnharmed, Unharmed, Keeps
  <2> QED BY <1>2, <1>3, <2>1 DEF SameRows, SamePerms
<1>4. ASSUME t >= 2
      PROVE  KeysOf(e, u) = KeysOf(d, t)
  <2>1. CASE t \in {11, 12}
    <3>1. SameRows(d.rows["oldtokenauth"], e.rows["oldtokenauth"], {"token"})
      BY <2>1 DEF TokenStage, HasNames, TokensUnharmed, Unharmed, Keeps
    <3> QED BY <3>1, <2>1, <1>1, TokenRowsSame DEF KeysOf, TokenTable, TokenKey
  <2>2. CASE t <= 10
    <3>1. SameRows(d.rows["tokenauth"], e.rows["tokenauth"], {"token"})
      BY <2>2, <1>4 DEF TokenStage, HasNames, TokensUnharmed, Unharmed, Keeps
    <3> QED BY <3>1, <2>2, <1>1, TokenRowsSame DEF KeysOf, TokenTable, TokenKey
  <2>3. CASE t >= 13
    <3>1. SameRows(d.rows["tokenauth"], e.rows["tokenauth"], {"id", "token"})
      BY <2>3 DEF TokenStage, HasNames, TokensUnharmed, Unharmed, Keeps
    <3> QED BY <3>1, <2>3, <1>1, TokenRowsSame DEF KeysOf, TokenTable, TokenKey
  <2> QED BY <2>1, <2>2, <2>3
<1>5. TokenStage(e, u)
  <2>1. /\ Shaped(e, "tokenauth") /\ Shaped(e, "oldtokenauth") /\ Shaped(e, "permission")
        /\ u \in {0, 11} => Absent(e, "tokenauth")
        /\ u \in 1..10 => HasNames(e, "tokenauth", TokenColumns, {"token"})
        /\ u >= 12 => HasNames(e, "tokenauth", TokenColumns, {"id", "token"})
        /\ u \in 11..13 => HasNames(e, "oldtokenauth", TokenColumns, {"token"})
        /\ u \notin 11..13 => Absent(e, "oldtokenauth")
        /\ u <= 1 => Absent(e, "permission")
        /\ u >= 2 => HasNames(e, "permission", PermColumns, PermNames(u))
    BY <1>0, <1>1 DEF TokenStage, HasNames, Absent, TokensUnharmed, Unharmed, Keeps
  <2>2. u \in {1, 12} => e.rows["tokenauth"] = {}
    BY <1>0 DEF TokenStage, HasNames, TokensUnharmed, Unharmed, Keeps, SameRows
  <2>3. ASSUME u \in {5, 6}, NEW p \in e.rows["permission"]
        PROVE  p.fields = Default
    <3>1. t \in {5, 6} /\ Listed(t)
      BY <1>0, <2>3 DEF Listed
    <3>2. "fields" \in PermNames(t)
      BY <3>1 DEF PermNames
    <3>5. SameRows(d.rows["permission"], e.rows["permission"], PermNames(t))
      BY <3>1 DEF TokenStage, HasNames, TokensUnharmed, Unharmed, Keeps
    <3>3. PICK r \in d.rows["permission"] : Alike(r, p, PermNames(t))
      BY <3>5 DEF SameRows
    <3>4. r.fields = p.fields
      BY <3>2, <3>3 DEF Alike
    <3> QED BY <3>1, <3>4 DEF TokenStage
  <2> QED BY <2>1, <2>2, <2>3 DEF TokenStage
<1> QED BY <1>3, <1>4, <1>5 DEF Carried

\* Token migrations of which no operation touches a tracked column.
LEMMA QuietTokens ==
  ASSUME NEW d, NEW ops, NEW t \in Nat, TokenStage(d, t),
         ops \in {Token03, Token04, Token06, Token09, Token10, Token16, Token17}
  PROVE  TokensUnharmed(d, Migrated(d, ops))
<1>1. IsOps(ops)
  <2>1. IsOps(Token03) /\ IsOps(Token04) /\ IsOps(Token06) /\ IsOps(Token09)
    BY DEF IsOps, Token03, Token04, Token06, Token09
  <2>2. IsOps(Token10) /\ IsOps(Token16) /\ IsOps(Token17)
    BY DEF IsOps, Token10, Token16, Token17
  <2> QED BY <2>1, <2>2
<1>2. CASE ops = Token03
  <2>1. /\ QuietOps(ops, "tokenauth", TokenColumns) /\ QuietOps(ops, "oldtokenauth", TokenColumns)
        /\ QuietOps(ops, "permission", PermColumns)
    BY <1>2 DEF QuietOps, Quiet, QuietCode, Token03, TokenColumns, PermColumns, AddField, AddFieldAs,
       AlterField, AlterFieldAs, AlterUniqueTogether, RunPython
  <2> QED BY <1>1, <2>1, QuietMigration DEF TokensUnharmed, TokenStage, TokenColumns, PermColumns
<1>3. CASE ops = Token04
  <2>1. /\ QuietOps(ops, "tokenauth", TokenColumns) /\ QuietOps(ops, "oldtokenauth", TokenColumns)
        /\ QuietOps(ops, "permission", PermColumns)
    BY <1>3 DEF QuietOps, Quiet, QuietCode, Token04, TokenColumns, PermColumns, AddField, AddFieldAs,
       AlterField, AlterFieldAs, AlterUniqueTogether, RunPython
  <2> QED BY <1>1, <2>1, QuietMigration DEF TokensUnharmed, TokenStage, TokenColumns, PermColumns
<1>4. CASE ops = Token06
  <2>1. /\ QuietOps(ops, "tokenauth", TokenColumns) /\ QuietOps(ops, "oldtokenauth", TokenColumns)
        /\ QuietOps(ops, "permission", PermColumns)
    BY <1>4 DEF QuietOps, Quiet, QuietCode, Token06, TokenColumns, PermColumns, AddField, AddFieldAs,
       AlterField, AlterFieldAs, AlterUniqueTogether, RunPython
  <2> QED BY <1>1, <2>1, QuietMigration DEF TokensUnharmed, TokenStage, TokenColumns, PermColumns
<1>5. CASE ops = Token09
  <2>1. /\ QuietOps(ops, "tokenauth", TokenColumns) /\ QuietOps(ops, "oldtokenauth", TokenColumns)
        /\ QuietOps(ops, "permission", PermColumns)
    BY <1>5 DEF QuietOps, Quiet, QuietCode, Token09, TokenColumns, PermColumns, AddField, AddFieldAs,
       AlterField, AlterFieldAs, AlterUniqueTogether, RunPython
  <2> QED BY <1>1, <2>1, QuietMigration DEF TokensUnharmed, TokenStage, TokenColumns, PermColumns
<1>6. CASE ops = Token10
  <2>1. /\ QuietOps(ops, "tokenauth", TokenColumns) /\ QuietOps(ops, "oldtokenauth", TokenColumns)
        /\ QuietOps(ops, "permission", PermColumns)
    BY <1>6 DEF QuietOps, Quiet, QuietCode, Token10, TokenColumns, PermColumns, AddField, AddFieldAs,
       AlterField, AlterFieldAs, AlterUniqueTogether, RunPython
  <2> QED BY <1>1, <2>1, QuietMigration DEF TokensUnharmed, TokenStage, TokenColumns, PermColumns
<1>7. CASE ops = Token16
  <2>1. /\ QuietOps(ops, "tokenauth", TokenColumns) /\ QuietOps(ops, "oldtokenauth", TokenColumns)
        /\ QuietOps(ops, "permission", PermColumns)
    BY <1>7 DEF QuietOps, Quiet, QuietCode, Token16, TokenColumns, PermColumns, AddField, AddFieldAs,
       AlterField, AlterFieldAs, AlterUniqueTogether, RunPython
  <2> QED BY <1>1, <2>1, QuietMigration DEF TokensUnharmed, TokenStage, TokenColumns, PermColumns
<1>8. CASE ops = Token17
  <2>1. /\ QuietOps(ops, "tokenauth", TokenColumns) /\ QuietOps(ops, "oldtokenauth", TokenColumns)
        /\ QuietOps(ops, "permission", PermColumns)
    BY <1>8 DEF QuietOps, Quiet, QuietCode, Token17, TokenColumns, PermColumns, AddField, AddFieldAs,
       AlterField, AlterFieldAs, AlterUniqueTogether, RunPython
  <2> QED BY <1>1, <2>1, QuietMigration DEF TokensUnharmed, TokenStage, TokenColumns, PermColumns
<1> QED BY <1>2, <1>3, <1>4, <1>5, <1>6, <1>7, <1>8

\* The operations of a migration, unrolled.
LEMMA Token01Tables ==
  ASSUME NEW d, TokenStage(d, 0)
  PROVE  TokenStage(Migrated(d, Token01), 1)
<1> DEFINE op == CreateModel("tokenauth", Fields(Contact, {}, {"token"}))
           e  == Migrated(d, Token01)
<1>1. e = Do(d, op)
  BY Unrolled DEF Token01
<1>2. op.do = "create" /\ op.table = "tokenauth" /\ op.columns = Fields(Contact, {}, {"token"})
  BY DEF CreateModel
<1>3. "id" \notin DOMAIN op.columns /\ DOMAIN op.columns \cap TokenColumns = {"token"}
  BY <1>2 DEF Fields, Contact, TokenColumns
<1>4. Shaped(d, "tokenauth") /\ "tokenauth" \notin DOMAIN d.columns
      /\ Shaped(d, "oldtokenauth") /\ "oldtokenauth" \notin DOMAIN d.columns
      /\ Shaped(d, "permission") /\ "permission" \notin DOMAIN d.columns
  BY DEF TokenStage, Absent
<1> HIDE DEF op, e
<1>5. Shaped(e, "tokenauth") /\ e.rows["tokenauth"] = {}
      /\ HasNames(e, "tokenauth", TokenColumns, {"token"})
  <2>1. /\ Shaped(e, "tokenauth") /\ "tokenauth" \in DOMAIN e.columns
        /\ e.columns["tokenauth"] = op.columns /\ e.rows["tokenauth"] = {}
    BY <1>1, <1>2, <1>3, <1>4, CreateDoes
  <2> QED BY <2>1, <1>3 DEF HasNames, Names
<1>6. Shaped(e, "oldtokenauth") /\ Absent(e, "oldtokenauth")
  <2>1. Quiet(op, "oldtokenauth", TokenColumns) /\ "id" \in TokenColumns
    BY <1>2 DEF Quiet, TokenColumns
  <2> QED BY <1>1, <1>4, <2>1, QuietStep DEF Unharmed, Keeps, Absent
<1>7. Shaped(e, "permission") /\ Absent(e, "permission")
  <2>1. Quiet(op, "permission", PermColumns) /\ "id" \in PermColumns
    BY <1>2 DEF Quiet, PermColumns
  <2> QED BY <1>1, <1>4, <2>1, QuietStep DEF Unharmed, Keeps, Absent
<1>8. TokenStage(e, 1)
  BY <1>5, <1>6, <1>7 DEF TokenStage
<1> QED BY <1>8 DEF e

LEMMA Token02Tables ==
  ASSUME NEW d, TokenStage(d, 1)
  PROVE  /\ TokenStage(Migrated(d, Token02), 2)
         /\ KeysOf(Migrated(d, Token02), 2) = {} /\ GivesOf(Migrated(d, Token02), 2) = {}
<1> DEFINE op == CreateModel("permission", Columns({"mode", "object_type", "token_auth"}, {}, {}))
           e  == Migrated(d, Token02)
<1>1. e = Do(d, op)
  BY Unrolled DEF Token02
<1>2. op.do = "create" /\ op.table = "permission"
      /\ op.columns = Columns({"mode", "object_type", "token_auth"}, {}, {})
  BY DEF CreateModel
<1>3. op.columns["id"] = {"unique"} /\ DOMAIN op.columns \cap PermColumns = PermNames(2)
  <2>1. op.columns["id"] = {"unique"}
        /\ DOMAIN op.columns = {"id", "mode", "object_type", "token_auth"}
    BY <1>2 DEF Columns, Fields
  <2>2. PermNames(2) = {"id", "mode", "object_type", "token_auth"}
    BY DEF PermNames, Points, Listed
  <2> QED BY <2>1, <2>2 DEF PermColumns
<1>4. Shaped(d, "tokenauth") /\ HasNames(d, "tokenauth", TokenColumns, {"token"})
      /\ Shaped(d, "oldtokenauth") /\ "oldtokenauth" \notin DOMAIN d.columns
      /\ Shaped(d, "permission") /\ "permission" \notin DOMAIN d.columns
      /\ d.rows["tokenauth"] = {}
  BY DEF TokenStage, Absent
<1> HIDE DEF op, e
<1>5. Shaped(e, "permission") /\ e.rows["permission"] = {}
      /\ HasNames(e, "permission", PermColumns, PermNames(2))
  <2>1. /\ Shaped(e, "permission") /\ "permission" \in DOMAIN e.columns
        /\ e.columns["permission"] = op.columns /\ e.rows["permission"] = {}
    BY <1>1, <1>2, <1>3, <1>4, CreateDoes
  <2> QED BY <2>1, <1>3 DEF HasNames, Names
<1>6. Shaped(e, "oldtokenauth") /\ Absent(e, "oldtokenauth")
  <2>1. Quiet(op, "oldtokenauth", TokenColumns) /\ "id" \in TokenColumns
    BY <1>2 DEF Quiet, TokenColumns
  <2> QED BY <1>1, <1>4, <2>1, QuietStep DEF Unharmed, Keeps, Absent
<1>7. Shaped(e, "tokenauth") /\ HasNames(e, "tokenauth", TokenColumns, {"token"})
      /\ e.rows["tokenauth"] = {}
  <2>1. Quiet(op, "tokenauth", TokenColumns) /\ "id" \in TokenColumns
    BY <1>2 DEF Quiet, TokenColumns
  <2>2. Unharmed(d, e, "tokenauth", TokenColumns)
    BY <1>1, <1>4, <2>1, QuietStep
  <2> QED BY <1>4, <2>2 DEF Unharmed, Keeps, HasNames, SameRows
<1>8. TokenStage(e, 2)
  BY <1>5, <1>6, <1>7 DEF TokenStage
<1>9. KeysOf(e, 2) = {} /\ GivesOf(e, 2) = {}
  BY <1>5, <1>7 DEF KeysOf, GivesOf, TokenTable
<1> QED BY <1>8, <1>9 DEF e

\* Tokens that a migration leaves alone, which changes permissions.
LEMMA TokensStay ==
  ASSUME NEW d, NEW e, NEW t \in Nat, NEW u \in Nat, TokenStage(d, t),
         <<t, u>> \in {<<4, 5>>, <<6, 7>>, <<7, 8>>, <<14, 15>>},
         Unharmed(d, e, "tokenauth", TokenColumns), Unharmed(d, e, "oldtokenauth", TokenColumns),
         Shaped(e, "permission"), HasNames(e, "permission", PermColumns, PermNames(u)),
         u = 5 => \A p \in e.rows["permission"] : p.fields = Default
  PROVE  TokenStage(e, u) /\ KeysOf(e, u) = KeysOf(d, t)
<1>0. (t = 4 /\ u = 5) \/ (t = 6 /\ u = 7) \/ (t = 7 /\ u = 8) \/ (t = 14 /\ u = 15)
  OBVIOUS
<1>1. TokenTable(u) = "tokenauth" /\ TokenTable(t) = "tokenauth" /\ (u <= 12 <=> t <= 12)
  BY <1>0 DEF TokenTable
<1>2. TokenStage(e, u)
  BY <1>0 DEF TokenStage, HasNames, Absent, Unharmed, Keeps
<1>3. CASE t <= 12
  <2>1. SameRows(d.rows["tokenauth"], e.rows["tokenauth"], {"token"})
    BY <1>0, <1>3 DEF TokenStage, HasNames, Unharmed, Keeps
  <2> QED BY <2>1, <1>2, <1>3, <1>1, TokenRowsSame DEF KeysOf, TokenKey
<1>4. CASE ~(t <= 12)
  <2>1. SameRows(d.rows["tokenauth"], e.rows["tokenauth"], {"id", "token"})
    BY <1>0, <1>4 DEF TokenStage, HasNames, Unharmed, Keeps
  <2> QED BY <2>1, <1>2, <1>4, <1>1, TokenRowsSame DEF KeysOf, TokenKey
<1> QED BY <1>2, <1>3, <1>4

LEMMA Token05Tables ==
  ASSUME NEW d, TokenStage(d, 4)
  PROVE  Carried(d, 4, Migrated(d, Token05), 5)
<1> DEFINE op == AddField("permission", "fields", Required)
           qo == AddField("permission", "use_fields", Required)
           d1 == Do(d, op)
           e  == Do(d1, qo)
<1>1. Migrated(d, Token05) = e
  BY Unrolled DEF Token05
<1>2. /\ op.do = "add" /\ op.table = "permission" /\ op.column = "fields" /\ op.value = Default
      /\ qo.do = "add" /\ qo.table = "permission" /\ qo.column = "use_fields"
  BY DEF AddField, AddFieldAs, Required
<1> HIDE DEF op, qo, d1
<1>3. IsOps(Token05) /\ Token05 = <<op, qo>>
  BY DEF Token05, IsOps, op, qo
<1>4. /\ Unharmed(d, e, "tokenauth", TokenColumns) /\ Unharmed(d, e, "oldtokenauth", TokenColumns)
  <2>1. QuietOps(Token05, "tokenauth", TokenColumns) /\ QuietOps(Token05, "oldtokenauth", TokenColumns)
    BY <1>2, <1>3 DEF QuietOps, Quiet
  <2> QED BY <1>1, <1>3, <2>1, QuietMigration DEF TokenStage, TokenColumns
<1>5. Shaped(d, "permission") /\ HasNames(d, "permission", PermColumns, PermNames(4))
  BY DEF TokenStage
<1>6. PermNames(4) = {"id", "object_type", "mode", "token_auth"}
      /\ PermNames(5) = {"id", "object_type", "mode", "token_auth", "fields"}
  BY DEF PermNames, Points, Listed
<1>7. /\ Shaped(d1, "permission") /\ HasNames(d1, "permission", PermColumns, PermNames(5))
      /\ SameRows(d.rows["permission"], d1.rows["permission"], PermNames(4))
      /\ \A p \in d1.rows["permission"] : p.fields = Default
  <2>1. "fields" \notin DOMAIN d.columns["permission"] /\ "fields" \in PermColumns
    BY <1>5, <1>6 DEF HasNames, Names, PermColumns
  <2>2. Added(d, d1, "permission", PermColumns, op.column, op.value)
    <3>1. /\ op.do = "add" /\ op.table = "permission" /\ "permission" \in DOMAIN d.columns
          /\ op.column \notin DOMAIN d.columns["permission"] /\ op.column # "id"
          /\ Shaped(d, "permission")
      BY <1>2, <1>5, <2>1 DEF HasNames
    <3> QED BY <3>1, AddDoes, Zenon DEF d1
  <2>3. {op.column} \cap PermColumns = {"fields"}
    BY <1>2, <2>1
  <2> QED BY <1>2, <1>5, <1>6, <2>2, <2>3 DEF HasNames, Added
<1>8. Unharmed(d1, e, "permission", PermColumns)
  BY <1>2, <1>7, QuietStep DEF Quiet, PermColumns
<1> HIDE DEF e
<1>9. /\ Shaped(e, "permission") /\ HasNames(e, "permission", PermColumns, PermNames(5))
      /\ SameRows(d1.rows["permission"], e.rows["permission"], PermNames(5))
  BY <1>7, <1>8 DEF Unharmed, Keeps, HasNames
<1>10. \A p \in e.rows["permission"] : p.fields = Default
  BY <1>6, <1>7, <1>9 DEF SameRows, Alike
<1>11. SamePerms(d, 4, e, 5)
  <2>1. ASSUME NEW p, NEW q, Alike(p, q, PermNames(4)), q.fields = Default
        PROVE  SamePerm(4, p, 5, q)
    BY <1>6, <2>1 DEF Alike, SamePerm, PermKey, FieldsAt, Point, Listed
  <2>2. SameRows(d.rows["permission"], e.rows["permission"], PermNames(4))
    BY <1>6, <1>7, <1>9 DEF SameRows, Alike
  <2> QED BY <2>1, <2>2, <1>10 DEF SameRows, SamePerms
<1>12. TokenStage(e, 5) /\ KeysOf(e, 5) = KeysOf(d, 4)
  BY <1>4, <1>9, <1>10, TokensStay
<1> QED BY <1>1, <1>11, <1>12 DEF Carried

LEMMA Token07Tables ==
  ASSUME NEW d, TokenStage(d, 6)
  PROVE  Carried(d, 6, Migrated(d, Token07), 7)
<1> DEFINE op == RemoveField("permission", "fields")
           e  == Do(d, op)
<1>1. Migrated(d, Token07) = e
  BY Unrolled DEF Token07
<1>2. op.do = "remove" /\ op.table = "permission" /\ op.column = "fields"
  BY DEF RemoveField
<1> HIDE DEF op
<1>3. IsOps(Token07) /\ Token07 = <<op>>
  BY DEF Token07, IsOps, op
<1>4. /\ Unharmed(d, e, "tokenauth", TokenColumns) /\ Unharmed(d, e, "oldtokenauth", TokenColumns)
  <2>1. QuietOps(Token07, "tokenauth", TokenColumns) /\ QuietOps(Token07, "oldtokenauth", TokenColumns)
    BY <1>2, <1>3 DEF QuietOps, Quiet
  <2> QED BY <1>1, <1>3, <2>1, QuietMigration DEF TokenStage, TokenColumns
<1>5. Shaped(d, "permission") /\ HasNames(d, "permission", PermColumns, PermNames(6))
  BY DEF TokenStage
<1>6. PermNames(7) = {"id", "object_type", "mode", "token_auth"}
      /\ PermNames(6) = {"id", "object_type", "mode", "token_auth", "fields"}
  BY DEF PermNames, Points, Listed
<1>7. PermNames(7) = PermNames(6) \ {"fields"}
  BY <1>6
<1>8. /\ Shaped(e, "permission") /\ HasNames(e, "permission", PermColumns, PermNames(7))
      /\ SameRows(d.rows["permission"], e.rows["permission"], PermNames(7))
  <2>1. Removed(d, e, "permission", PermColumns, op.column)
    <3>1. op.do = "remove" /\ op.table = "permission" /\ "permission" \in DOMAIN d.columns
          /\ Shaped(d, "permission")
      BY <1>2, <1>5 DEF HasNames
    <3> QED BY <3>1, RemoveDoes, Zenon
  <2> HIDE DEF e
  <2> QED BY <1>2, <1>5, <1>7, <2>1 DEF HasNames, Removed
<1> HIDE DEF e
<1>9. SamePerms(d, 6, e, 7)
  <2>1. ASSUME NEW p \in d.rows["permission"], NEW q, Alike(p, q, PermNames(7))
        PROVE  SamePerm(6, p, 7, q)
    <3>1. p.fields = Default
      BY DEF TokenStage
    <3> QED BY <1>6, <2>1, <3>1 DEF Alike, SamePerm, PermKey, FieldsAt, Point, Listed
  <2> QED BY <2>1, <1>8 DEF SameRows, SamePerms
<1>10. TokenStage(e, 7) /\ KeysOf(e, 7) = KeysOf(d, 6)
  BY <1>4, <1>8, TokensStay
<1> QED BY <1>1, <1>9, <1>10 DEF Carried

LEMMA Token08Tables ==
  ASSUME NEW d, TokenStage(d, 7)
  PROVE  Carried(d, 7, Migrated(d, Token08), 8)
<1> DEFINE op == AddFieldAs("permission", "fields", Optional, Default)
           e  == Do(d, op)
<1>1. Migrated(d, Token08) = e
  BY Unrolled DEF Token08
<1>2. op.do = "add" /\ op.table = "permission" /\ op.column = "fields" /\ op.value = Default
  BY DEF AddFieldAs
<1> HIDE DEF op
<1>3. IsOps(Token08) /\ Token08 = <<op>>
  BY DEF Token08, IsOps, op
<1>4. /\ Unharmed(d, e, "tokenauth", TokenColumns) /\ Unharmed(d, e, "oldtokenauth", TokenColumns)
  <2>1. QuietOps(Token08, "tokenauth", TokenColumns) /\ QuietOps(Token08, "oldtokenauth", TokenColumns)
    BY <1>2, <1>3 DEF QuietOps, Quiet
  <2> QED BY <1>1, <1>3, <2>1, QuietMigration DEF TokenStage, TokenColumns
<1>5. Shaped(d, "permission") /\ HasNames(d, "permission", PermColumns, PermNames(7))
  BY DEF TokenStage
<1>6. PermNames(7) = {"id", "object_type", "mode", "token_auth"}
      /\ PermNames(8) = {"id", "object_type", "mode", "token_auth", "fields"}
  BY DEF PermNames, Points, Listed
<1>7. /\ Shaped(e, "permission") /\ HasNames(e, "permission", PermColumns, PermNames(8))
      /\ SameRows(d.rows["permission"], e.rows["permission"], PermNames(7))
      /\ \A p \in e.rows["permission"] : p.fields = Default
  <2>1. "fields" \notin DOMAIN d.columns["permission"] /\ "fields" \in PermColumns
    BY <1>5, <1>6 DEF HasNames, Names, PermColumns
  <2>2. Added(d, e, "permission", PermColumns, op.column, op.value)
    <3>1. /\ op.do = "add" /\ op.table = "permission" /\ "permission" \in DOMAIN d.columns
          /\ op.column \notin DOMAIN d.columns["permission"] /\ op.column # "id"
          /\ Shaped(d, "permission")
      BY <1>2, <1>5, <2>1 DEF HasNames
    <3> QED BY <3>1, AddDoes, Zenon
  <2> HIDE DEF e
  <2>3. {op.column} \cap PermColumns = {"fields"}
    BY <1>2, <2>1
  <2> QED BY <1>2, <1>5, <1>6, <2>2, <2>3 DEF HasNames, Added
<1> HIDE DEF e
<1>8. SamePerms(d, 7, e, 8)
  <2>1. ASSUME NEW p, NEW q, Alike(p, q, PermNames(7)), q.fields = Default
        PROVE  SamePerm(7, p, 8, q)
    BY <1>6, <2>1 DEF Alike, SamePerm, PermKey, FieldsAt, Point, Listed
  <2> QED BY <2>1, <1>7 DEF SameRows, SamePerms
<1>9. TokenStage(e, 8) /\ KeysOf(e, 8) = KeysOf(d, 7)
  BY <1>4, <1>7, TokensStay
<1> QED BY <1>1, <1>8, <1>9 DEF Carried

LEMMA QuietTwo ==
  ASSUME NEW d, NEW a, NEW b, NEW T, NEW C, Shaped(d, T), "id" \in C, Quiet(a, T, C), Quiet(b, T, C)
  PROVE  Unharmed(d, Do(Do(d, a), b), T, C)
<1>1. Unharmed(d, Do(d, a), T, C)
  BY QuietStep
<1>2. Unharmed(Do(d, a), Do(Do(d, a), b), T, C)
  BY <1>1, QuietStep DEF Unharmed
<1> QED BY <1>1, <1>2, KeepsBoth DEF Unharmed

\* A value that moves to another column, in rows that are then left alone.
LEMMA MovedThenSame ==
  ASSUME NEW R, NEW S, NEW Q, NEW N, NEW old, NEW new, MovedRows(R, S, N, old, new),
         SameRows(S, Q, N \cup {new})
  PROVE  MovedRows(R, Q, N, old, new)
BY DEF MovedRows, SameRows, Alike

LEMMA SameThenMoved ==
  ASSUME NEW R, NEW S, NEW Q, NEW N, NEW old, NEW new, SameRows(R, S, N \cup {old}),
         MovedRows(S, Q, N, old, new)
  PROVE  MovedRows(R, Q, N, old, new)
BY DEF MovedRows, SameRows, Alike

LEMMA SameThenSame ==
  ASSUME NEW R, NEW S, NEW Q, NEW N, SameRows(R, S, N), SameRows(S, Q, N)
  PROVE  SameRows(R, Q, N)
BY DEF SameRows, Alike

LEMMA Token11Tables ==
  ASSUME NEW d, TokenStage(d, 10)
  PROVE  Carried(d, 10, Migrated(d, Token11), 11)
<1> DEFINE o1 == RenameModel("tokenauth", "oldtokenauth")
           o2 == RenameField("permission", "token_auth", "old_token_auth")
           o3 == AlterUniqueTogether("permission", {{"old_token_auth", "object_type"}})
           d1 == Do(d, o1)
           d2 == Do(d1, o2)
           e  == Do(d2, o3)
           N  == {"id", "object_type", "mode", "fields"}
<1>1. Migrated(d, Token11) = e
  BY Unrolled DEF Token11
<1>2. /\ o1.do = "call" /\ o1.table = "tokenauth" /\ o1.name = "oldtokenauth"
      /\ o2.do = "rename" /\ o2.table = "permission" /\ o2.column = "token_auth"
      /\ o2.name = "old_token_auth"
      /\ o3.do = "together"
  BY DEF RenameModel, RenameField, AlterUniqueTogether
<1> HIDE DEF o1, o2, o3
<1>3. /\ Shaped(d, "tokenauth") /\ HasNames(d, "tokenauth", TokenColumns, {"token"})
      /\ Shaped(d, "oldtokenauth")
      /\ Shaped(d, "permission") /\ HasNames(d, "permission", PermColumns, PermNames(10))
  BY DEF TokenStage
<1>4. PermNames(10) = N \cup {"token_auth"} /\ PermNames(11) = N \cup {"old_token_auth"}
  BY DEF PermNames, Points, Listed
<1>5. /\ Shaped(d1, "tokenauth") /\ Shaped(d1, "oldtokenauth")
      /\ "tokenauth" \notin DOMAIN d1.columns /\ "oldtokenauth" \in DOMAIN d1.columns
      /\ d1.columns["oldtokenauth"] = d.columns["tokenauth"]
      /\ d1.rows["oldtokenauth"] = d.rows["tokenauth"]
  <2>1. "tokenauth" \in DOMAIN d.columns /\ "tokenauth" # "oldtokenauth"
    BY <1>3 DEF HasNames
  <2> QED BY <1>2, <1>3, <2>1, CallDoes
<1>6. Unharmed(d, d1, "permission", PermColumns)
  <2>1. Quiet(o1, "permission", PermColumns) /\ "id" \in PermColumns
    BY <1>2 DEF Quiet, PermColumns
  <2> QED BY <1>3, <2>1, QuietStep
<1> HIDE DEF d1
<1>7. Unharmed(d1, e, "tokenauth", TokenColumns) /\ Unharmed(d1, e, "oldtokenauth", TokenColumns)
  <2>1. /\ Quiet(o2, "tokenauth", TokenColumns) /\ Quiet(o3, "tokenauth", TokenColumns)
        /\ Quiet(o2, "oldtokenauth", TokenColumns) /\ Quiet(o3, "oldtokenauth", TokenColumns)
        /\ "id" \in TokenColumns
    BY <1>2 DEF Quiet, TokenColumns
  <2> QED BY <1>5, <2>1, QuietTwo
<1>8. /\ Shaped(d1, "permission") /\ "permission" \in DOMAIN d1.columns
      /\ Names(d1, "permission", PermColumns) = N \cup {"token_auth"}
      /\ SameRows(d.rows["permission"], d1.rows["permission"], N \cup {"token_auth"})
  BY <1>3, <1>4, <1>6 DEF Unharmed, Keeps, HasNames
<1>9. Moved(d1, d2, "permission", PermColumns, o2.column, o2.name)
  <2>1. /\ o2.do = "rename" /\ o2.table = "permission"
        /\ o2.column \in Names(d1, "permission", PermColumns) /\ o2.name \in PermColumns
        /\ o2.name \notin Names(d1, "permission", PermColumns)
        /\ o2.column # "id" /\ o2.name # "id"
    BY <1>2, <1>8 DEF PermColumns
  <2> QED BY <1>8, <2>1, RenameDoes, Zenon
<1> HIDE DEF d2
<1>10. /\ Shaped(d2, "permission") /\ "permission" \in DOMAIN d2.columns
       /\ Names(d2, "permission", PermColumns) = N \cup {"old_token_auth"}
       /\ MovedRows(d1.rows["permission"], d2.rows["permission"], N, "token_auth", "old_token_auth")
  <2>1. (N \cup {"token_auth"}) \ {"token_auth"} = N
    OBVIOUS
  <2> QED BY <1>2, <1>8, <1>9, <2>1 DEF Moved
<1>11. Unharmed(d2, e, "permission", PermColumns)
  <2>1. Quiet(o3, "permission", PermColumns) /\ "id" \in PermColumns
    BY <1>2 DEF Quiet, PermColumns
  <2> QED BY <1>10, <2>1, QuietStep
<1> HIDE DEF e
<1>12. /\ Shaped(e, "permission") /\ HasNames(e, "permission", PermColumns, PermNames(11))
       /\ SameRows(d2.rows["permission"], e.rows["permission"], N \cup {"old_token_auth"})
  BY <1>4, <1>10, <1>11 DEF Unharmed, Keeps, HasNames
<1>13. MovedRows(d.rows["permission"], e.rows["permission"], N, "token_auth", "old_token_auth")
  BY <1>8, <1>10, <1>12, MovedThenSame, SameThenMoved
<1>14. SamePerms(d, 10, e, 11)
  <2>1. ASSUME NEW p, NEW q, Alike(p, q, N), q["old_token_auth"] = p["token_auth"]
        PROVE  SamePerm(10, p, 11, q)
    BY <2>1 DEF Alike, SamePerm, PermKey, FieldsAt, Point, Listed
  <2> HIDE DEF N
  <2> QED BY <2>1, <1>13 DEF MovedRows, SamePerms
<1>15. /\ Shaped(e, "oldtokenauth") /\ HasNames(e, "oldtokenauth", TokenColumns, {"token"})
       /\ SameRows(d.rows["tokenauth"], e.rows["oldtokenauth"], {"token"})
       /\ Shaped(e, "tokenauth") /\ Absent(e, "tokenauth")
  BY <1>3, <1>5, <1>7 DEF Unharmed, Keeps, HasNames, Absent, Names
<1>16. KeysOf(e, 11) = KeysOf(d, 10)
  BY <1>15, TokenRowsSame DEF KeysOf, TokenTable, TokenKey
<1>17. TokenStage(e, 11)
  BY <1>12, <1>15 DEF TokenStage
<1> QED BY <1>1, <1>14, <1>16, <1>17 DEF Carried

NewTokenColumns ==
  Columns(Contact \cup {"token", "application", "administration", "is_superuser"}, {}, {})

LEMMA Token12Tables ==
  ASSUME NEW d, TokenStage(d, 11)
  PROVE  Carried(d, 11, Migrated(d, Token12), 12)
<1> DEFINE o1 == CreateModel("tokenauth", NewTokenColumns)
           o2 == AddField("permission", "new_token_auth", Optional)
           d1 == Do(d, o1)
           e  == Do(d1, o2)
           N  == PermNames(11)
<1>1. Migrated(d, Token12) = e
  BY Unrolled DEF Token12, NewTokenColumns
<1>2. /\ o1.do = "create" /\ o1.table = "tokenauth" /\ o1.columns = NewTokenColumns
      /\ o2.do = "add" /\ o2.table = "permission" /\ o2.column = "new_token_auth"
  BY DEF CreateModel, AddField, AddFieldAs
<1> HIDE DEF o1, o2
<1>3. /\ Shaped(d, "tokenauth") /\ "tokenauth" \notin DOMAIN d.columns
      /\ Shaped(d, "oldtokenauth") /\ HasNames(d, "oldtokenauth", TokenColumns, {"token"})
      /\ Shaped(d, "permission") /\ HasNames(d, "permission", PermColumns, N)
  BY DEF TokenStage, Absent
<1>4. N = {"id", "object_type", "mode", "fields", "old_token_auth"}
      /\ PermNames(12) = N \cup {"new_token_auth"}
  BY DEF PermNames, Points, Listed
<1> HIDE DEF N
<1>5. NewTokenColumns["id"] = {"unique"} /\ DOMAIN NewTokenColumns \cap TokenColumns = {"id", "token"}
  BY DEF NewTokenColumns, Columns, Fields, Contact, TokenColumns
<1>6. /\ Shaped(d1, "tokenauth") /\ "tokenauth" \in DOMAIN d1.columns
      /\ d1.columns["tokenauth"] = NewTokenColumns /\ d1.rows["tokenauth"] = {}
  BY <1>2, <1>3, <1>5, CreateDoes
<1>7. Unharmed(d, d1, "permission", PermColumns)
  <2>1. Quiet(o1, "permission", PermColumns) /\ "id" \in PermColumns
    BY <1>2 DEF Quiet, PermColumns
  <2> QED BY <1>3, <2>1, QuietStep
<1>8. Unharmed(d, e, "oldtokenauth", TokenColumns)
  <2>1. Quiet(o1, "oldtokenauth", TokenColumns) /\ Quiet(o2, "oldtokenauth", TokenColumns)
        /\ "id" \in TokenColumns
    BY <1>2 DEF Quiet, TokenColumns
  <2> QED BY <1>3, <2>1, QuietTwo
<1> HIDE DEF d1
<1>9. Unharmed(d1, e, "tokenauth", TokenColumns)
  <2>1. Quiet(o2, "tokenauth", TokenColumns) /\ "id" \in TokenColumns
    BY <1>2 DEF Quiet, TokenColumns
  <2> QED BY <1>6, <2>1, QuietStep
<1>10. /\ Shaped(d1, "permission") /\ HasNames(d1, "permission", PermColumns, N)
       /\ SameRows(d.rows["permission"], d1.rows["permission"], N)
  BY <1>3, <1>7 DEF Unharmed, Keeps, HasNames
<1>11. Added(d1, e, "permission", PermColumns, o2.column, o2.value)
  <2>1. /\ o2.do = "add" /\ o2.table = "permission" /\ "permission" \in DOMAIN d1.columns
        /\ o2.column \notin DOMAIN d1.columns["permission"] /\ o2.column # "id"
    <3>1. "new_token_auth" \in PermColumns /\ "new_token_auth" \notin Names(d1, "permission", PermColumns)
      BY <1>4, <1>10 DEF PermColumns, HasNames
    <3> QED BY <1>2, <1>10, <3>1 DEF HasNames, Names
  <2> QED BY <1>10, <2>1, AddDoes, Zenon
<1> HIDE DEF e
<1>12. /\ Shaped(e, "permission") /\ HasNames(e, "permission", PermColumns, PermNames(12))
       /\ SameRows(d1.rows["permission"], e.rows["permission"], N)
  <2>1. {o2.column} \cap PermColumns = {"new_token_auth"}
    BY <1>2 DEF PermColumns
  <2> QED BY <1>4, <1>10, <1>11, <2>1 DEF Added, HasNames
<1>13. SameRows(d.rows["permission"], e.rows["permission"], N)
  BY <1>10, <1>12, SameThenSame
<1>14. SamePerms(d, 11, e, 12)
  <2>1. ASSUME NEW p, NEW q, Alike(p, q, N)
        PROVE  SamePerm(11, p, 12, q)
    BY <1>4, <2>1 DEF Alike, SamePerm, PermKey, FieldsAt, Point, Listed
  <2> QED BY <2>1, <1>13 DEF SameRows, SamePerms
<1>15. /\ Shaped(e, "tokenauth") /\ HasNames(e, "tokenauth", TokenColumns, {"id", "token"})
       /\ e.rows["tokenauth"] = {}
  BY <1>5, <1>6, <1>9 DEF Unharmed, Keeps, HasNames, Names, SameRows
<1>16. /\ Shaped(e, "oldtokenauth") /\ HasNames(e, "oldtokenauth", TokenColumns, {"token"})
       /\ SameRows(d.rows["oldtokenauth"], e.rows["oldtokenauth"], {"token"})
  BY <1>3, <1>8 DEF Unharmed, Keeps, HasNames
<1>17. KeysOf(e, 12) = KeysOf(d, 11)
  BY <1>16, TokenRowsSame DEF KeysOf, TokenTable, TokenKey
<1>18. TokenStage(e, 12)
  BY <1>12, <1>15, <1>16 DEF TokenStage
<1> QED BY <1>1, <1>14, <1>17, <1>18 DEF Carried

NewRow(d, old) == RowOf(d, "tokenauth", [id |-> NewId(old.token), token |-> old.token])

LEMMA Token13Tables ==
  ASSUME NEW d, TokenStage(d, 12)
  PROVE  Carried(d, 12, Migrated(d, Token13), 13)
<1> DEFINE op == RunPython("switch_to_new_token_model")
           e  == CopyTokens(d)
           X  == d.rows["tokenauth"] \cup {NewRow(d, old) : old \in d.rows["oldtokenauth"]}
           Y  == {[p EXCEPT !.new_token_auth = NewKey(d, p)] : p \in d.rows["permission"]}
<1>1. Migrated(d, Token13) = e
  <2>1. Migrated(d, Token13) = Do(d, op)
    BY Unrolled DEF Token13
  <2>2. Do(d, op) = Python("switch_to_new_token_model", d)
    BY DEF Do, RunPython
  <2> QED BY <2>1, <2>2 DEF Python
<1>2. /\ Shaped(d, "tokenauth") /\ HasNames(d, "tokenauth", TokenColumns, {"id", "token"})
      /\ Shaped(d, "oldtokenauth") /\ HasNames(d, "oldtokenauth", TokenColumns, {"token"})
      /\ Shaped(d, "permission") /\ HasNames(d, "permission", PermColumns, PermNames(12))
      /\ d.rows["tokenauth"] = {}
  BY DEF TokenStage
<1>3. PermNames(13) = PermNames(12)
      /\ PermNames(12) = {"id", "object_type", "mode", "fields", "old_token_auth", "new_token_auth"}
  BY DEF PermNames, Points, Listed
<1>4. /\ "columns" \in DOMAIN d /\ "rows" \in DOMAIN d
      /\ "tokenauth" \in DOMAIN d.rows /\ "permission" \in DOMAIN d.rows
      /\ "oldtokenauth" \in DOMAIN d.rows
  BY <1>2 DEF Shaped, HasNames
<1>5. e = TwoTables(d, "tokenauth", X, "permission", Y)
  BY CopyTokensRows, Zenon DEF NewRow
<1> HIDE DEF e, X, Y
<1>6. /\ "columns" \in DOMAIN e /\ "rows" \in DOMAIN e /\ e.columns = d.columns
      /\ DOMAIN e.rows = DOMAIN d.rows
      /\ e.rows["tokenauth"] = X /\ e.rows["permission"] = Y
      /\ e.rows["oldtokenauth"] = d.rows["oldtokenauth"]
  BY <1>4, <1>5, TwoTablesRows
<1>7. ASSUME NEW old \in d.rows["oldtokenauth"]
      PROVE  /\ DOMAIN NewRow(d, old) = DOMAIN d.columns["tokenauth"]
             /\ NewRow(d, old).id = NewId(old.token) /\ NewRow(d, old).token = old.token
  <2>1. "id" \in DOMAIN d.columns["tokenauth"] /\ "token" \in DOMAIN d.columns["tokenauth"]
    BY <1>2 DEF HasNames, Names
  <2> QED BY <2>1 DEF NewRow, RowOf
<1>8. X = {NewRow(d, old) : old \in d.rows["oldtokenauth"]}
  BY <1>2 DEF X
<1>9. ASSUME NEW p \in d.rows["permission"]
      PROVE  LET q == [p EXCEPT !.new_token_auth = NewKey(d, p)]
             IN  DOMAIN q = DOMAIN d.columns["permission"] /\ SamePerm(12, p, 13, q)
  <2> DEFINE q == [p EXCEPT !.new_token_auth = NewKey(d, p)]
  <2>1. DOMAIN p = DOMAIN d.columns["permission"]
    BY <1>2 DEF Shaped, HasNames
  <2>2. PermNames(12) \subseteq DOMAIN p
    BY <1>2, <2>1 DEF HasNames, Names
  <2>3. /\ q.new_token_auth = NewId(p.old_token_auth) /\ q.object_type = p.object_type
        /\ q.mode = p.mode /\ q.fields = p.fields /\ DOMAIN q = DOMAIN p
    BY <1>3, <2>2 DEF NewKey
  <2> HIDE DEF q
  <2>4. SamePerm(12, p, 13, q)
    BY <2>3 DEF SamePerm, PermKey, FieldsAt, Point, Listed
  <2> QED BY <2>1, <2>3, <2>4 DEF q
<1>10. SamePerms(d, 12, e, 13)
  BY <1>6, <1>9 DEF SamePerms, Y
<1>11. KeysOf(e, 13) = KeysOf(d, 12)
  <2>1. KeysOf(e, 13) = {<<r.id, r.token>> : r \in X}
    BY <1>6 DEF KeysOf, TokenTable, TokenKey
  <2>2. KeysOf(d, 12) = {<<NewId(r.token), r.token>> : r \in d.rows["oldtokenauth"]}
    BY DEF KeysOf, TokenTable, TokenKey
  <2>3. {<<r.id, r.token>> : r \in {NewRow(d, old) : old \in d.rows["oldtokenauth"]}}
          = {<<NewId(r.token), r.token>> : r \in d.rows["oldtokenauth"]}
    BY <1>7
  <2> QED BY <1>8, <2>1, <2>2, <2>3
<1>12. Shaped(e, "tokenauth") /\ Shaped(e, "oldtokenauth") /\ Shaped(e, "permission")
  <2>1. Shaped(e, "tokenauth")
    BY <1>2, <1>4, <1>6, <1>7, <1>8 DEF Shaped, HasNames
  <2>2. Shaped(e, "oldtokenauth")
    BY <1>2, <1>4, <1>6 DEF Shaped, HasNames
  <2>3. Shaped(e, "permission")
    BY <1>2, <1>4, <1>6, <1>9 DEF Shaped, HasNames, Y
  <2> QED BY <2>1, <2>2, <2>3
<1>13. /\ HasNames(e, "tokenauth", TokenColumns, {"id", "token"})
       /\ HasNames(e, "oldtokenauth", TokenColumns, {"token"})
       /\ HasNames(e, "permission", PermColumns, PermNames(13))
  BY <1>2, <1>3, <1>6 DEF HasNames, Names
<1>14. TokenStage(e, 13)
  BY <1>12, <1>13 DEF TokenStage
<1> QED BY <1>1, <1>10, <1>11, <1>14 DEF Carried

LEMMA Token14Tables ==
  ASSUME NEW d, TokenStage(d, 13)
  PROVE  Carried(d, 13, Migrated(d, Token14), 14)
<1> DEFINE o1 == AlterUniqueTogether("permission", {{"new_token_auth", "object_type"}})
           o2 == RemoveField("permission", "old_token_auth")
           o3 == DeleteModel("oldtokenauth")
           d1 == Do(d, o1)
           d2 == Do(d1, o2)
           e  == Do(d2, o3)
           N  == {"id", "object_type", "mode", "fields", "new_token_auth"}
<1>1. Migrated(d, Token14) = e
  BY Unrolled DEF Token14
<1>2. /\ o1.do = "together"
      /\ o2.do = "remove" /\ o2.table = "permission" /\ o2.column = "old_token_auth"
      /\ o3.do = "delete" /\ o3.table = "oldtokenauth"
  BY DEF AlterUniqueTogether, RemoveField, DeleteModel
<1> HIDE DEF o1, o2, o3
<1>3. /\ Shaped(d, "tokenauth") /\ HasNames(d, "tokenauth", TokenColumns, {"id", "token"})
      /\ Shaped(d, "oldtokenauth")
      /\ Shaped(d, "permission") /\ HasNames(d, "permission", PermColumns, PermNames(13))
  BY DEF TokenStage
<1>4. PermNames(13) = N \cup {"old_token_auth"} /\ PermNames(14) = N
      /\ PermNames(13) \ {"old_token_auth"} = N
  BY DEF PermNames, Points, Listed
<1>5. Unharmed(d, d2, "tokenauth", TokenColumns) /\ Unharmed(d, d2, "oldtokenauth", TokenColumns)
  <2>1. /\ Quiet(o1, "tokenauth", TokenColumns) /\ Quiet(o2, "tokenauth", TokenColumns)
        /\ Quiet(o1, "oldtokenauth", TokenColumns) /\ Quiet(o2, "oldtokenauth", TokenColumns)
        /\ "id" \in TokenColumns
    BY <1>2 DEF Quiet, TokenColumns
  <2> QED BY <1>3, <2>1, QuietTwo
<1>6. Unharmed(d, d1, "permission", PermColumns)
  <2>1. Quiet(o1, "permission", PermColumns) /\ "id" \in PermColumns
    BY <1>2 DEF Quiet, PermColumns
  <2> QED BY <1>3, <2>1, QuietStep
<1> HIDE DEF d1
<1>7. /\ Shaped(d1, "permission") /\ HasNames(d1, "permission", PermColumns, PermNames(13))
      /\ SameRows(d.rows["permission"], d1.rows["permission"], PermNames(13))
  BY <1>3, <1>6 DEF Unharmed, Keeps, HasNames
<1>8. Removed(d1, d2, "permission", PermColumns, o2.column)
  <2>1. o2.do = "remove" /\ o2.table = "permission" /\ "permission" \in DOMAIN d1.columns
    BY <1>2, <1>7 DEF HasNames
  <2> QED BY <1>7, <2>1, RemoveDoes, Zenon
<1> HIDE DEF d2
<1>9. /\ Shaped(d2, "permission") /\ HasNames(d2, "permission", PermColumns, N)
      /\ SameRows(d1.rows["permission"], d2.rows["permission"], N)
  BY <1>2, <1>4, <1>7, <1>8 DEF Removed, HasNames
<1>10. Shaped(d2, "tokenauth") /\ Shaped(d2, "oldtokenauth")
  BY <1>5 DEF Unharmed
<1>11. Unharmed(d2, e, "permission", PermColumns) /\ Unharmed(d2, e, "tokenauth", TokenColumns)
  <2>1. Quiet(o3, "permission", PermColumns) /\ "id" \in PermColumns
        /\ Quiet(o3, "tokenauth", TokenColumns) /\ "id" \in TokenColumns
    BY <1>2 DEF Quiet, PermColumns, TokenColumns
  <2> QED BY <1>9, <1>10, <2>1, QuietStep
<1>12. Shaped(e, "oldtokenauth") /\ Absent(e, "oldtokenauth")
  BY <1>2, <1>10, DeleteDoes DEF Absent
<1> HIDE DEF e
<1>13. /\ Shaped(e, "permission") /\ HasNames(e, "permission", PermColumns, N)
       /\ SameRows(d2.rows["permission"], e.rows["permission"], N)
  BY <1>9, <1>11 DEF Unharmed, Keeps, HasNames
<1>14. SameRows(d.rows["permission"], e.rows["permission"], N)
  <2>1. SameRows(d.rows["permission"], d1.rows["permission"], N)
    BY <1>4, <1>7 DEF SameRows, Alike
  <2> HIDE DEF N
  <2>2. SameRows(d.rows["permission"], d2.rows["permission"], N)
    BY <1>9, <2>1, SameThenSame, Zenon
  <2> QED BY <1>13, <2>2, SameThenSame, Zenon
<1>15. SamePerms(d, 13, e, 14)
  <2>1. ASSUME NEW p, NEW q, Alike(p, q, N)
        PROVE  SamePerm(13, p, 14, q)
    BY <2>1 DEF Alike, SamePerm, PermKey, FieldsAt, Point, Listed
  <2> HIDE DEF N
  <2> QED BY <2>1, <1>14 DEF SameRows, SamePerms
<1>16. /\ Shaped(e, "tokenauth") /\ HasNames(e, "tokenauth", TokenColumns, {"id", "token"})
       /\ SameRows(d.rows["tokenauth"], e.rows["tokenauth"], {"id", "token"})
  <2>1. /\ HasNames(d2, "tokenauth", TokenColumns, {"id", "token"})
        /\ SameRows(d.rows["tokenauth"], d2.rows["tokenauth"], {"id", "token"})
    BY <1>3, <1>5 DEF Unharmed, Keeps, HasNames
  <2>2. /\ Shaped(e, "tokenauth") /\ HasNames(e, "tokenauth", TokenColumns, {"id", "token"})
        /\ SameRows(d2.rows["tokenauth"], e.rows["tokenauth"], {"id", "token"})
    BY <2>1, <1>11 DEF Unharmed, Keeps, HasNames
  <2> QED BY <2>1, <2>2, SameThenSame, Zenon
<1>17. KeysOf(e, 14) = KeysOf(d, 13)
  BY <1>16, TokenRowsSame DEF KeysOf, TokenTable, TokenKey
<1>18. TokenStage(e, 14)
  BY <1>4, <1>12, <1>13, <1>16 DEF TokenStage
<1> QED BY <1>1, <1>15, <1>17, <1>18 DEF Carried

LEMMA Token15Tables ==
  ASSUME NEW d, TokenStage(d, 14)
  PROVE  Carried(d, 14, Migrated(d, Token15), 15)
<1> DEFINE o1 == RenameField("permission", "new_token_auth", "token_auth")
           o2 == AlterUniqueTogether("permission", {{"token_auth", "object_type"}})
           d1 == Do(d, o1)
           e  == Do(d1, o2)
           N  == {"id", "object_type", "mode", "fields"}
<1>1. Migrated(d, Token15) = e
  BY Unrolled DEF Token15
<1>2. /\ o1.do = "rename" /\ o1.table = "permission" /\ o1.column = "new_token_auth"
      /\ o1.name = "token_auth" /\ o2.do = "together"
  BY DEF AlterUniqueTogether, RenameField
<1> HIDE DEF o1, o2
<1>3. /\ Shaped(d, "tokenauth") /\ Shaped(d, "oldtokenauth")
      /\ Shaped(d, "permission") /\ HasNames(d, "permission", PermColumns, PermNames(14))
  BY DEF TokenStage
<1>4. PermNames(14) = N \cup {"new_token_auth"} /\ PermNames(15) = N \cup {"token_auth"}
      /\ PermNames(14) \ {"new_token_auth"} = N
  BY DEF PermNames, Points, Listed
<1>5. Unharmed(d, e, "tokenauth", TokenColumns) /\ Unharmed(d, e, "oldtokenauth", TokenColumns)
  <2>1. /\ Quiet(o1, "tokenauth", TokenColumns) /\ Quiet(o2, "tokenauth", TokenColumns)
        /\ Quiet(o1, "oldtokenauth", TokenColumns) /\ Quiet(o2, "oldtokenauth", TokenColumns)
        /\ "id" \in TokenColumns
    BY <1>2 DEF Quiet, TokenColumns
  <2> QED BY <1>3, <2>1, QuietTwo
<1>6. Moved(d, d1, "permission", PermColumns, o1.column, o1.name)
  <2>1. /\ o1.do = "rename" /\ o1.table = "permission" /\ "permission" \in DOMAIN d.columns
        /\ o1.column \in Names(d, "permission", PermColumns) /\ o1.name \in PermColumns
        /\ o1.name \notin Names(d, "permission", PermColumns)
        /\ o1.column # "id" /\ o1.name # "id"
    BY <1>2, <1>3, <1>4 DEF PermColumns, HasNames
  <2> QED BY <1>3, <2>1, RenameDoes, Zenon
<1> HIDE DEF d1
<1>7. /\ Shaped(d1, "permission") /\ HasNames(d1, "permission", PermColumns, PermNames(15))
      /\ MovedRows(d.rows["permission"], d1.rows["permission"], N, "new_token_auth", "token_auth")
  BY <1>2, <1>3, <1>4, <1>6 DEF Moved, HasNames
<1>8. Unharmed(d1, e, "permission", PermColumns)
  <2>1. Quiet(o2, "permission", PermColumns) /\ "id" \in PermColumns
    BY <1>2 DEF Quiet, PermColumns
  <2> QED BY <1>7, <2>1, QuietStep
<1> HIDE DEF e
<1>9. /\ Shaped(e, "permission") /\ HasNames(e, "permission", PermColumns, PermNames(15))
      /\ SameRows(d1.rows["permission"], e.rows["permission"], N \cup {"token_auth"})
  BY <1>4, <1>7, <1>8 DEF Unharmed, Keeps, HasNames
<1>10. MovedRows(d.rows["permission"], e.rows["permission"], N, "new_token_auth", "token_auth")
  BY <1>7, <1>9, MovedThenSame
<1>11. SamePerms(d, 14, e, 15)
  <2>1. ASSUME NEW p, NEW q, Alike(p, q, N), q["token_auth"] = p["new_token_auth"]
        PROVE  SamePerm(14, p, 15, q)
    BY <2>1 DEF Alike, SamePerm, PermKey, FieldsAt, Point, Listed
  <2> HIDE DEF N
  <2> QED BY <2>1, <1>10 DEF MovedRows, SamePerms
<1>12. TokenStage(e, 15) /\ KeysOf(e, 15) = KeysOf(d, 14)
  BY <1>5, <1>9, TokensStay
<1> QED BY <1>1, <1>11, <1>12 DEF Carried

-----------------------------------------------------------------------------
(* The migrations of core leave tokens and permissions alone, and, but for two,  *)
(* the keys and uuids of object types.                                         *)

CoreTables == {"object", "objectrecord", "objecttype", "objecttypeversion", "reference"}
CoreCodes  == {"move_data_to_record", "move_version_to_record", "generate_record_uuids",
               "fill_record_index", "move_objecttypes_to_model",
               "remove_objects_with_empty_object_type", "forward"}

\* An operation of a migration of core.
CoreOp(op) ==
  \/ op.do \in {"together", "index"}
  \/ op.do \in {"create", "delete", "add", "alter", "remove", "rename"} /\ op.table \in CoreTables
  \/ op.do = "run" /\ op.code \in CoreCodes

Plain(ops) == IsSeq(ops) /\ \A k \in 1..Len(ops) : CoreOp(ops[k])
\* A core migration that leaves object types alone.
Calm(ops) == Plain(ops) /\ QuietOps(ops, "objecttype", TypeColumns)

LEMMA CalmTuples ==
  /\ Calm(Core01) /\ Calm(Core02) /\ Calm(Core03) /\ Calm(Core04) /\ Calm(Core05)
  /\ Calm(Core06) /\ Calm(Core07) /\ Calm(Core08) /\ Calm(Core09) /\ Calm(Core10)
  /\ Calm(Core11) /\ Calm(Core12) /\ Calm(Core13) /\ Calm(Core14) /\ Calm(Core15)
  /\ Calm(Core16) /\ Calm(Core17) /\ Calm(Core18) /\ Calm(Core19) /\ Calm(Core20)
  /\ Calm(Core23) /\ Calm(Core24) /\ Calm(Core25) /\ Calm(Core26) /\ Calm(Core27)
  /\ Calm(Core28) /\ Calm(Core29) /\ Calm(Core30) /\ Calm(Core31) /\ Calm(Core32)
  /\ Calm(Core33) /\ Calm(Core34) /\ Calm(Core36) /\ Calm(Core37) /\ Calm(Core38)
  /\ Calm(Core39) /\ Calm(Core40)
<1> USE DEF Calm, Plain, IsSeq, IsOps, QuietOps, Quiet, QuietCode, CoreOp, CoreTables, CoreCodes,
        TypeColumns, CreateModel, AddField, AddFieldAs, AlterField, AlterFieldAs, RemoveField,
        RenameField, AlterUniqueTogether, AddIndex, RunPython
<1>1. Calm(Core01)
  BY DEF Core01
<1>2. Calm(Core02)
  BY DEF Core02
<1>3. Calm(Core03)
  BY DEF Core03
<1>4. Calm(Core04)
  BY DEF Core04
<1>5. Calm(Core05)
  BY DEF Core05
<1>6. Calm(Core06)
  BY DEF Core06
<1>7. Calm(Core07)
  BY DEF Core07
<1>8. Calm(Core08)
  BY DEF Core08
<1>9. Calm(Core09)
  BY DEF Core09
<1>10. Calm(Core10)
  BY DEF Core10
<1>11. Calm(Core11)
  BY DEF Core11
<1>12. Calm(Core12)
  BY DEF Core12
<1>13. Calm(Core13)
  BY DEF Core13
<1>14. Calm(Core14)
  BY DEF Core14
<1>15. Calm(Core15)
  BY DEF Core15
<1>16. Calm(Core16)
  BY DEF Core16
<1>17. Calm(Core17)
  BY DEF Core17
<1>18. Calm(Core18)
  BY DEF Core18
<1>19. Calm(Core19)
  BY DEF Core19
<1>20. Calm(Core20)
  BY DEF Core20
<1>23. Calm(Core23)
  BY DEF Core23
<1>24. Calm(Core24)
  BY DEF Core24
<1>25. Calm(Core25)
  BY DEF Core25
<1>26. Calm(Core26)
  BY DEF Core26
<1>27. Calm(Core27)
  BY DEF Core27
<1>28. Calm(Core28)
  BY DEF Core28
<1>29. Calm(Core29)
  BY DEF Core29
<1>30. Calm(Core30)
  BY DEF Core30
<1>31. Calm(Core31)
  BY DEF Core31
<1>32. Calm(Core32)
  BY DEF Core32
<1>33. Calm(Core33)
  BY DEF Core33
<1>34. Calm(Core34)
  BY DEF Core34
<1>36. Calm(Core36)
  BY DEF Core36
<1>37. Calm(Core37)
  BY DEF Core37
<1>38. Calm(Core38)
  BY DEF Core38
<1>39. Calm(Core39)
  BY DEF Core39
<1>40. Calm(Core40)
  BY DEF Core40
<1> HIDE DEF Calm
<1> QED BY <1>1, <1>2, <1>3, <1>4, <1>5, <1>6, <1>7, <1>8, <1>9, <1>10, <1>11, <1>12, <1>13, <1>14, <1>15, <1>16, <1>17, <1>18, <1>19, <1>20, <1>23, <1>24, <1>25, <1>26, <1>27, <1>28, <1>29, <1>30, <1>31, <1>32, <1>33, <1>34, <1>36, <1>37, <1>38, <1>39, <1>40


LEMMA PlainJoined ==
  ASSUME NEW a, NEW b, Plain(a), Plain(b)
  PROVE  Plain(a \o b)
<1> DEFINE c == a \o b
<1>1. /\ IsSeq(c)
      /\ \A k \in 1..Len(a) : c[k] = a[k]
      /\ \A k \in 1..Len(b) : c[Len(a) + k] = b[k]
      /\ \A k \in 1..Len(c) : k \in 1..Len(a) \/ k - Len(a) \in 1..Len(b)
      /\ Len(a) \in Nat
  BY Joined DEF Plain, IsSeq, IsOps
<1> HIDE DEF c
<1>2. ASSUME NEW k \in 1..Len(c)
      PROVE  CoreOp(c[k])
  <2>1. CASE k \in 1..Len(a)
    BY <1>1, <2>1 DEF Plain
  <2>2. CASE k - Len(a) \in 1..Len(b)
    <3>1. c[Len(a) + (k - Len(a))] = b[k - Len(a)] /\ Len(a) + (k - Len(a)) = k
      BY <1>1, <2>2
    <3> QED BY <2>2, <3>1 DEF Plain
  <2> QED BY <1>1, <2>1, <2>2
<1>3. Plain(c)
  BY <1>1, <1>2 DEF Plain
<1> QED BY <1>3 DEF c

LEMMA CalmJoined ==
  ASSUME NEW a, NEW b, Calm(a), Calm(b)
  PROVE  Calm(a \o b)
<1> DEFINE c == a \o b
<1>1. /\ \A k \in 1..Len(a) : c[k] = a[k]
      /\ \A k \in 1..Len(b) : c[Len(a) + k] = b[k]
      /\ \A k \in 1..Len(c) : k \in 1..Len(a) \/ k - Len(a) \in 1..Len(b)
      /\ Len(a) \in Nat
  BY Joined DEF Calm, Plain, IsSeq, IsOps
<1>2. Plain(c)
  BY PlainJoined DEF Calm
<1> HIDE DEF c
<1>3. ASSUME NEW k \in 1..Len(c)
      PROVE  Quiet(c[k], "objecttype", TypeColumns)
  <2>1. CASE k \in 1..Len(a)
    BY <1>1, <2>1 DEF Calm, QuietOps
  <2>2. CASE k - Len(a) \in 1..Len(b)
    <3>1. c[Len(a) + (k - Len(a))] = b[k - Len(a)] /\ Len(a) + (k - Len(a)) = k
      BY <1>1, <2>2
    <3> QED BY <2>2, <3>1 DEF Calm, QuietOps
  <2> QED BY <1>1, <2>1, <2>2
<1>4. Calm(c)
  BY <1>2, <1>3 DEF Calm, QuietOps
<1> QED BY <1>4 DEF c

\* The columns that core 0035 and the squash add to object types.
Texts == {"allow_geometry", "contact_email", "contact_person", "data_classification",
          "description", "documentation_url", "labels", "linkable_to_zaken",
          "maintainer_department", "maintainer_organization", "name", "name_plural",
          "provider_organization", "source", "update_frequency"}

LEMMA TextsOf ==
  /\ TypeTexts \in Seq(Texts)
  /\ FirstTexts \o LastTexts \in Seq(Texts)
<1>1. FirstTexts \in Seq(Texts)
  BY DEF FirstTexts, Texts
<1>2. LastTexts \in Seq(Texts)
  BY DEF LastTexts, Texts
<1>3. <<"linkable_to_zaken">> \in Seq(Texts)
  BY DEF Texts
<1>4. FirstTexts \o <<"linkable_to_zaken">> \in Seq(Texts)
  BY <1>1, <1>3
<1> QED BY <1>1, <1>2, <1>3, <1>4 DEF TypeTexts

LEMMA TextsCalm ==
  ASSUME NEW columns \in Seq(Texts)
  PROVE  Calm(Each(columns, LAMBDA c : AddField("objecttype", c, Required)))
<1> DEFINE a == [i \in DOMAIN columns |-> AddField("objecttype", columns[i], Required)]
<1>1. Each(columns, LAMBDA c : AddField("objecttype", c, Required)) = a
  BY DEF Each
<1>2. Len(columns) \in Nat /\ DOMAIN columns = 1..Len(columns)
      /\ \A i \in 1..Len(columns) : columns[i] \in Texts
  OBVIOUS
<1>3. Len(a) = Len(columns) /\ IsSeq(a)
  BY <1>2 DEF IsSeq, IsOps
<1>4. ASSUME NEW k \in 1..Len(columns)
      PROVE  CoreOp(a[k]) /\ Quiet(a[k], "objecttype", TypeColumns)
  <2>1. a[k] = AddField("objecttype", columns[k], Required) /\ columns[k] \in Texts
    BY <1>2
  <2> HIDE DEF a
  <2>2. a[k].do = "add" /\ a[k].table = "objecttype" /\ a[k].column \in Texts
    BY <2>1 DEF AddField, AddFieldAs
  <2> QED BY <2>2 DEF CoreOp, CoreTables, Quiet, TypeColumns, Texts
<1> HIDE DEF a
<1> QED BY <1>1, <1>3, <1>4 DEF Calm, Plain, QuietOps

LEMMA CalmTypes == Calm(Core35)
<1> DEFINE a == Each(TypeTexts, LAMBDA c : AddField("objecttype", c, Required))
           b == <<AddField("objecttype", "created_at", Optional),
                  AddField("objecttype", "modified_at", Optional),
                  CreateModel("objecttypeversion", VersionColumns),
                  AlterUniqueTogether("objecttypeversion", {{"object_type", "version"}})>>
<1>1. Calm(a)
  BY TextsOf, TextsCalm
<1>2. Calm(b)
  BY DEF Calm, Plain, IsSeq, IsOps, QuietOps, Quiet, CoreOp, CoreTables, TypeColumns,
         CreateModel, AddField, AddFieldAs, AlterUniqueTogether
<1>3. Core35 = a \o b
  BY DEF Core35
<1> HIDE DEF a, b
<1> QED BY <1>1, <1>2, <1>3, CalmJoined


TypeTable(d) ==
  Shaped(d, "objecttype") /\ HasNames(d, "objecttype", TypeColumns, {"id", "uuid"})

\* Operations behind which object types have their table, which they had not before.
MakesTypes(ops) ==
  /\ Plain(ops)
  /\ \A d : Shaped(d, "objecttype") /\ Absent(d, "objecttype") => TypeTable(Migrated(d, ops))

\* Operations that are quiet.
LEMMA CalmKeeps ==
  ASSUME NEW d, NEW ops, Calm(ops), Shaped(d, "objecttype")
  PROVE  Unharmed(d, Migrated(d, ops), "objecttype", TypeColumns)
<1>1. "id" \in TypeColumns /\ IsOps(ops) /\ QuietOps(ops, "objecttype", TypeColumns)
  BY DEF TypeColumns, Calm, Plain, IsSeq
<1> QED BY <1>1, QuietMigration

LEMMA CalmKeepsTable ==
  ASSUME NEW d, NEW ops, Calm(ops), TypeTable(d)
  PROVE  TypeTable(Migrated(d, ops))
<1>1. Unharmed(d, Migrated(d, ops), "objecttype", TypeColumns)
  BY CalmKeeps DEF TypeTable
<1> QED BY <1>1 DEF TypeTable, Unharmed, Keeps, HasNames

LEMMA MakesThenCalm ==
  ASSUME NEW a, NEW b, MakesTypes(a), Calm(b)
  PROVE  MakesTypes(a \o b)
<1>1. Plain(a \o b) /\ IsSeq(a) /\ IsSeq(b)
  BY PlainJoined DEF MakesTypes, Calm, Plain
<1>2. ASSUME NEW d, Shaped(d, "objecttype"), Absent(d, "objecttype")
      PROVE  TypeTable(Migrated(d, a \o b))
  <2>1. Migrated(d, a \o b) = Migrated(Migrated(d, a), b)
    BY <1>1, MigratedJoined
  <2>2. TypeTable(Migrated(d, a))
    BY <1>2 DEF MakesTypes
  <2> QED BY <2>1, <2>2, CalmKeepsTable
<1> QED BY <1>1, <1>2 DEF MakesTypes

LEMMA CalmThenMakes ==
  ASSUME NEW a, NEW b, Calm(a), MakesTypes(b)
  PROVE  MakesTypes(a \o b)
<1>1. Plain(a \o b) /\ IsSeq(a) /\ IsSeq(b)
  BY PlainJoined DEF MakesTypes, Calm, Plain
<1>2. ASSUME NEW d, Shaped(d, "objecttype"), Absent(d, "objecttype")
      PROVE  TypeTable(Migrated(d, a \o b))
  <2>1. Migrated(d, a \o b) = Migrated(Migrated(d, a), b)
    BY <1>1, MigratedJoined
  <2>2. Shaped(Migrated(d, a), "objecttype") /\ Absent(Migrated(d, a), "objecttype")
    BY <1>2, CalmKeeps DEF Unharmed, Keeps, Absent
  <2> QED BY <2>1, <2>2 DEF MakesTypes
<1> QED BY <1>1, <1>2 DEF MakesTypes

LEMMA Core21Types == MakesTypes(Core21)
<1> DEFINE a == AlterField("objectrecord", "correct", OneToOne)
           b == CreateModel("objecttype", Columns({"uuid", "_name", "service"}, {}, {}))
           c == AlterUniqueTogether("objecttype", {{"service", "uuid"}})
           z == AddField("object", "object_type_fk", Optional)
<1>1. Core21 = <<a, b, c, z>>
  BY DEF Core21
<1>2. Plain(Core21)
  BY DEF Core21, Plain, IsSeq, IsOps, CoreOp, CoreTables, CreateModel, AddField, AddFieldAs,
         AlterField, AlterFieldAs, AlterUniqueTogether
<1>3. /\ b.do = "create" /\ b.table = "objecttype"
      /\ b.columns = Columns({"uuid", "_name", "service"}, {}, {})
      /\ Quiet(a, "objecttype", TypeColumns) /\ Quiet(c, "objecttype", TypeColumns)
      /\ Quiet(z, "objecttype", TypeColumns) /\ "id" \in TypeColumns
  BY DEF Quiet, TypeColumns, CreateModel, AddField, AddFieldAs, AlterField, AlterFieldAs,
         AlterUniqueTogether
<1>4. b.columns["id"] = {"unique"} /\ DOMAIN b.columns \cap TypeColumns = {"id", "uuid"}
  BY <1>3 DEF Columns, Fields, TypeColumns
<1> HIDE DEF a, b, c, z
<1>5. ASSUME NEW d, Shaped(d, "objecttype"), Absent(d, "objecttype")
      PROVE  TypeTable(Migrated(d, Core21))
  <2> DEFINE d1 == Do(d, a)
             d2 == Do(d1, b)
             e  == Do(Do(d2, c), z)
  <2>1. Migrated(d, Core21) = e
    BY <1>1, Unrolled
  <2>2. Shaped(d1, "objecttype") /\ "objecttype" \notin DOMAIN d1.columns
    BY <1>3, <1>5, QuietStep DEF Unharmed, Keeps, Absent
  <2> HIDE DEF d1
  <2>3. /\ Shaped(d2, "objecttype") /\ "objecttype" \in DOMAIN d2.columns
        /\ d2.columns["objecttype"] = b.columns
    BY <1>3, <1>4, <2>2, CreateDoes
  <2> HIDE DEF d2
  <2>4. Unharmed(d2, e, "objecttype", TypeColumns)
    BY <1>3, <2>3, QuietTwo
  <2> HIDE DEF e
  <2>5. TypeTable(e)
    BY <1>4, <2>3, <2>4 DEF TypeTable, Unharmed, Keeps, HasNames, Names
  <2> QED BY <2>1, <2>5
<1> QED BY <1>2, <1>5 DEF MakesTypes

LEMMA SquashMakesTypes == MakesTypes(Squash)
<1> USE DEF Calm, Plain, IsSeq, IsOps, QuietOps, Quiet, CoreOp, CoreTables, TypeColumns, CreateModel,
        AddField, AddFieldAs, AlterField, AlterFieldAs, RemoveField, RenameField,
        AlterUniqueTogether, AddIndex
<1> DEFINE r == <<RenameField("objectrecord", "material_date", "start_date"),
                  RemoveField("objectrecord", "record_type"),
                  AddField("objectrecord", "end_date", Optional),
                  AlterField("objectrecord", "registration_date", Required),
                  AlterField("objectrecord", "start_date", Required)>>
           i == <<RemoveField("objectrecord", "uuid")>>
           j == <<AddField("objectrecord", "index", Required),
                  AlterUniqueTogether("objectrecord", {{"object", "index"}})>>
           t == <<RemoveField("object", "object_type"),
                  RenameField("object", "object_type_fk", "object_type"),
                  AlterField("objectrecord", "geometry", Optional),
                  AlterField("objectrecord", "data", Required),
                  AlterField("object", "object_type", Required)>>
           l == <<AlterField("objectrecord", "_object_type", Required),
                  AddIndex("objectrecord", "idx_objectrecord_type_index"),
                  AddIndex("objectrecord", "idx_objectrecord_type_id"),
                  AddIndex("objectrecord", "idx_type_start_end_object_idx")>>
           x == Each(FirstTexts \o LastTexts, LAMBDA c : AddField("objecttype", c, Required))
           y == <<AddField("objecttype", "created_at", Optional),
                  AddField("objecttype", "modified_at", Optional)>>
<1>1. Calm(r)
  OBVIOUS
<1>2. Calm(i) /\ Calm(j)
  OBVIOUS
<1>3. Calm(t)
  OBVIOUS
<1>4. Calm(l)
  OBVIOUS
<1>5. Calm(y)
  OBVIOUS
<1>6. Calm(SquashTables)
  BY DEF SquashTables
<1> HIDE DEF Calm
<1>7. Calm(x)
  BY TextsOf, TextsCalm
<1>8. SquashRecords = ((Core01 \o Core03) \o Core05) \o r
  BY DEF SquashRecords
<1>9. SquashIndexes = (((((((Core08 \o Core09) \o Core11) \o Core12) \o i) \o Core15) \o Core16) \o Core17) \o j
  BY DEF SquashIndexes
<1>10. SquashTypes = Core21 \o t /\ SquashLookups = ((Core30 \o Core31) \o Core32) \o l
       /\ SquashTypeTexts = x \o y
  BY DEF SquashTypes, SquashLookups, SquashTypeTexts
<1> HIDE DEF r, i, j, t, l, x, y
<1>11. Calm(SquashRecords)
  <2>1. Calm((Core01 \o Core03) \o Core05)
    BY CalmTuples, CalmJoined
  <2> QED BY <1>1, <1>8, <2>1, CalmJoined
<1>12. Calm(SquashIndexes)
  <2>1. Calm(((Core08 \o Core09) \o Core11) \o Core12)
    BY CalmTuples, CalmJoined
  <2>2. Calm((((((Core08 \o Core09) \o Core11) \o Core12) \o i) \o Core15) \o Core16)
    BY <1>2, <2>1, CalmTuples, CalmJoined
  <2> QED BY <1>2, <1>9, <2>2, CalmTuples, CalmJoined
<1>13. MakesTypes(SquashTypes)
  BY <1>3, <1>10, Core21Types, MakesThenCalm
<1>14. Calm(SquashLookups) /\ Calm(SquashTypeTexts)
  BY <1>4, <1>5, <1>7, <1>10, CalmTuples, CalmJoined
<1>15. MakesTypes((SquashRecords \o SquashIndexes) \o SquashTypes)
  BY <1>11, <1>12, <1>13, CalmJoined, CalmThenMakes
<1>16. MakesTypes((((SquashRecords \o SquashIndexes) \o SquashTypes) \o SquashLookups) \o SquashTypeTexts)
  BY <1>14, <1>15, MakesThenCalm
<1> QED BY <1>6, <1>16, MakesThenCalm DEF Squash


\* Object types are added for the URLs of objects.
LEMMA Core22Types ==
  /\ Plain(Core22)
  /\ \A d : TypeTable(d) => TypeTable(Migrated(d, Core22))
<1> DEFINE op == RunPython("move_objecttypes_to_model")
<1>1. Plain(Core22)
  BY DEF Core22, Plain, IsSeq, IsOps, CoreOp, CoreCodes, RunPython
<1>2. ASSUME NEW d, TypeTable(d)
      PROVE  TypeTable(Migrated(d, Core22))
  <2> DEFINE e == MoveTypes(d)
             X == d.rows["objecttype"] \cup {TypeRow(d, id) : id \in TypeIds(d)}
             Y == {Typed(object) : object \in d.rows["object"]}
  <2>1. Migrated(d, Core22) = e
    <3>1. Migrated(d, Core22) = Do(d, op)
      BY Unrolled DEF Core22
    <3>2. Do(d, op) = Python("move_objecttypes_to_model", d)
      BY DEF Do, RunPython
    <3> QED BY <3>1, <3>2 DEF Python
  <2>2. /\ "columns" \in DOMAIN d /\ "rows" \in DOMAIN d /\ "objecttype" \in DOMAIN d.rows
        /\ "objecttype" \in DOMAIN d.columns
    BY <1>2 DEF TypeTable, Shaped, HasNames
  <2>3. e = TwoTables(d, "objecttype", X, "object", Y)
    BY MoveTypesRows, Zenon
  <2> HIDE DEF e, X, Y
  <2>4. /\ "columns" \in DOMAIN e /\ "rows" \in DOMAIN e /\ e.columns = d.columns
        /\ DOMAIN e.rows = DOMAIN d.rows /\ e.rows["objecttype"] = X
    BY <2>2, <2>3, TwoTablesRows
  <2>5. \A id : DOMAIN TypeRow(d, id) = DOMAIN d.columns["objecttype"]
    BY DEF TypeRow, RowOf
  <2>6. Shaped(e, "objecttype")
    BY <1>2, <2>2, <2>4, <2>5 DEF X, Shaped, TypeTable, HasNames
  <2>7. HasNames(e, "objecttype", TypeColumns, {"id", "uuid"})
    BY <1>2, <2>4 DEF TypeTable, HasNames, Names
  <2> QED BY <2>1, <2>6, <2>7 DEF TypeTable
<1> QED BY <1>1, <1>2

\* The table of object types behind core migration c.
TypeStage(d, c) ==
  IF c < 21 THEN Shaped(d, "objecttype") /\ Absent(d, "objecttype") ELSE TypeTable(d)

LEMMA EachCalm ==
  ASSUME NEW k \in 1..40 \ {21, 22}
  PROVE  Calm(Core[k])
BY CalmTuples, CalmTypes DEF Core

LEMMA EachPlain ==
  ASSUME NEW k \in 1..40
  PROVE  Plain(Core[k])
<1>1. Plain(Core21) /\ Plain(Core22)
  BY Core21Types, Core22Types DEF MakesTypes
<1>2. Core[21] = Core21 /\ Core[22] = Core22
  BY DEF Core
<1> QED BY <1>1, <1>2, EachCalm DEF Calm

\* Every core migration keeps the uuid of each type, from 0021 on.
LEMMA CoreTypes ==
  ASSUME NEW d, NEW k \in 1..40, TypeStage(d, k - 1)
  PROVE  /\ TypeStage(Migrated(d, Core[k]), k)
         /\ k >= 23 => Unharmed(d, Migrated(d, Core[k]), "objecttype", TypeColumns)
<1> DEFINE e == Migrated(d, Core[k])
<1>1. CASE k \notin {21, 22}
  <2>1. Unharmed(d, e, "objecttype", TypeColumns)
    BY <1>1, EachCalm, CalmKeeps DEF TypeStage, TypeTable
  <2> HIDE DEF e
  <2>2. TypeStage(e, k)
    BY <1>1, <2>1 DEF TypeStage, TypeTable, Unharmed, Keeps, HasNames, Absent
  <2> QED BY <2>1, <2>2 DEF e
<1>2. CASE k = 21
  <2>1. Core[k] = Core21
    BY <1>2 DEF Core
  <2> QED BY <1>2, <2>1, Core21Types DEF TypeStage, MakesTypes
<1>3. CASE k = 22
  <2>1. Core[k] = Core22
    BY <1>3 DEF Core
  <2> QED BY <1>3, <2>1, Core22Types DEF TypeStage
<1> QED BY <1>1, <1>2, <1>3

\* Operations of core leave the tables of tokens and permissions alone.
LEMMA PlainTokens ==
  ASSUME NEW d, NEW ops, NEW t, Plain(ops), TokenStage(d, t)
  PROVE  TokensUnharmed(d, Migrated(d, ops))
<1>1. /\ QuietOps(ops, "tokenauth", TokenColumns) /\ QuietOps(ops, "oldtokenauth", TokenColumns)
      /\ QuietOps(ops, "permission", PermColumns)
  BY DEF Plain, QuietOps, Quiet, QuietCode, CoreOp, CoreTables, CoreCodes
<1>2. "id" \in TokenColumns /\ "id" \in PermColumns /\ IsOps(ops)
  BY DEF TokenColumns, PermColumns, Plain, IsSeq
<1> QED BY <1>1, <1>2, QuietMigration DEF TokensUnharmed, TokenStage

-----------------------------------------------------------------------------
(* The object types of permissions.                                           *)

\* A key that is no null and unique.
UniqueIds(d, T) ==
  \A r \in d.rows[T], s \in d.rows[T] : r.id # Null /\ (r.id = s.id => r = s)

LEMMA ValidIds ==
  ASSUME NEW d, NEW T, Valid(d), Shaped(d, T), T \in DOMAIN d.columns, "id" \in DOMAIN d.columns[T]
  PROVE  UniqueIds(d, T)
<1>1. {"id"} \in Sets(d, T)
  BY DEF Sets, Shaped
<1>2. ASSUME NEW r \in d.rows[T]
      PROVE  r.id # Null
  <2>1. "id" \in DOMAIN r /\ "null" \notin d.columns[T]["id"]
    BY DEF Shaped
  <2> QED BY <2>1 DEF Valid
<1>3. ASSUME NEW r \in d.rows[T], NEW s \in d.rows[T], r.id = s.id, r # s
      PROVE  FALSE
  <2>1. s \in d.rows[T] \ {r}
    BY <1>3
  <2>2. ~Same(r, s, {"id"})
    BY <1>1, <2>1 DEF Valid
  <2> QED BY <1>2, <1>3, <2>2 DEF Same
<1> QED BY <1>2, <1>3 DEF UniqueIds

LEMMA RowWithId ==
  ASSUME NEW d, NEW T, UniqueIds(d, T), NEW r \in d.rows[T]
  PROVE  RowWith(d, T, r.id) = r
BY DEF UniqueIds, RowWith

\* Permissions are for object types that there are.
PermTypes(d) ==
  \A p \in d.rows["permission"] : \E type \in d.rows["objecttype"] : type.id = p.object_type

\* The object types of permissions are the same.
LEMMA SameUuids ==
  ASSUME NEW d, NEW e, TypeTable(d), TypeTable(e), Valid(d), Valid(e),
         Keeps(d, e, "objecttype", TypeColumns)
  PROVE  \A type \in d.rows["objecttype"] :
           /\ UuidOf(e, type.id) = UuidOf(d, type.id)
           /\ \E other \in e.rows["objecttype"] : other.id = type.id
<1>1. UniqueIds(d, "objecttype") /\ UniqueIds(e, "objecttype")
  BY ValidIds DEF TypeTable, HasNames, Names
<1>2. SameRows(d.rows["objecttype"], e.rows["objecttype"], {"id", "uuid"})
  BY DEF TypeTable, HasNames, Keeps
<1>3. ASSUME NEW type \in d.rows["objecttype"]
      PROVE  \E other \in e.rows["objecttype"] : other.id = type.id /\ other.uuid = type.uuid
  BY <1>2 DEF SameRows, Alike
<1>4. ASSUME NEW type \in d.rows["objecttype"], NEW other \in e.rows["objecttype"],
             other.id = type.id, other.uuid = type.uuid
      PROVE  UuidOf(e, type.id) = UuidOf(d, type.id)
  BY <1>1, <1>4, RowWithId DEF UuidOf
<1> QED BY <1>3, <1>4

LEMMA GrantsCarried ==
  ASSUME NEW d, NEW e, NEW t \in Nat, NEW u \in Nat, t >= 2, u >= 2, Carried(d, t, e, u),
         TypeTable(d), TypeTable(e), Valid(d), Valid(e), Keeps(d, e, "objecttype", TypeColumns),
         PermTypes(d)
  PROVE  PermTypes(e) /\ GrantsIn(e, u) = GrantsIn(d, t)
<1>1. \A type \in d.rows["objecttype"] :
           /\ UuidOf(e, type.id) = UuidOf(d, type.id)
           /\ \E other \in e.rows["objecttype"] : other.id = type.id
  BY SameUuids
<1>2. ASSUME NEW p \in d.rows["permission"], NEW q, SamePerm(t, p, u, q)
      PROVE  /\ Gives(e, u, q) = Gives(d, t, p)
             /\ \E type \in e.rows["objecttype"] : type.id = q.object_type
  <2>1. PICK type \in d.rows["objecttype"] : type.id = p.object_type
    BY DEF PermTypes
  <2> QED BY <1>1, <1>2, <2>1 DEF SamePerm, Gives
<1>3. PermTypes(e)
  BY <1>2 DEF PermTypes, Carried, SamePerms
<1>4. GivesOf(e, u) = GivesOf(d, t)
  BY <1>2 DEF GivesOf, Carried, SamePerms
<1> QED BY <1>3, <1>4 DEF GrantsIn, Carried


-----------------------------------------------------------------------------
(* Every migration keeps what all tokens open.                                *)

TypesQuiet(ops) == IsOps(ops) /\ QuietOps(ops, "objecttype", TypeColumns)

\* No token migration touches object types.
LEMMA TokensQuiet ==
  ASSUME NEW k \in 1..17
  PROVE  TypesQuiet(Token[k])
<1> USE DEF TypesQuiet, IsOps, QuietOps, Quiet, QuietCode, TypeColumns, CreateModel, DeleteModel,
        RenameModel, AddField, AddFieldAs, AlterField, AlterFieldAs, RemoveField, RenameField,
        AlterUniqueTogether, RunPython
<1>1. TypesQuiet(Token01)
  BY DEF Token01
<1>2. TypesQuiet(Token02)
  BY DEF Token02
<1>3. TypesQuiet(Token03)
  BY DEF Token03
<1>4. TypesQuiet(Token04)
  BY DEF Token04
<1>5. TypesQuiet(Token05)
  BY DEF Token05
<1>6. TypesQuiet(Token06)
  BY DEF Token06
<1>7. TypesQuiet(Token07)
  BY DEF Token07
<1>8. TypesQuiet(Token08)
  BY DEF Token08
<1>9. TypesQuiet(Token09)
  BY DEF Token09
<1>10. TypesQuiet(Token10)
  BY DEF Token10
<1>11. TypesQuiet(Token11)
  BY DEF Token11
<1>12. TypesQuiet(Token12)
  BY DEF Token12
<1>13. TypesQuiet(Token13)
  BY DEF Token13
<1>14. TypesQuiet(Token14)
  BY DEF Token14
<1>15. TypesQuiet(Token15)
  BY DEF Token15
<1>16. TypesQuiet(Token16)
  BY DEF Token16
<1>17. TypesQuiet(Token17)
  BY DEF Token17
<1> HIDE DEF TypesQuiet
<1> QED
  BY <1>1, <1>2, <1>3, <1>4, <1>5, <1>6, <1>7, <1>8, <1>9, <1>10, <1>11, <1>12, <1>13, <1>14,
     <1>15, <1>16, <1>17 DEF Token

\* The tables of tokens and of types behind core migration c and token migration t.
Stage(d, c, t) ==
  /\ TokenStage(d, t) /\ TypeStage(d, c) /\ Valid(d)
  /\ t >= 2 => c >= 26 /\ PermTypes(d)

\* A core migration keeps what is given.
LEMMA CoreGrants ==
  ASSUME NEW d, NEW k \in 1..40, NEW t \in 0..17, Stage(d, k - 1, t),
         Valid(Migrated(d, Core[k]))
  PROVE  /\ Stage(Migrated(d, Core[k]), k, t)
         /\ GrantsIn(Migrated(d, Core[k]), t) = GrantsIn(d, t)
<1> DEFINE e == Migrated(d, Core[k])
<1>1. TokensUnharmed(d, e)
  BY EachPlain, PlainTokens DEF Stage
<1>2. TypeStage(e, k) /\ (k >= 23 => Unharmed(d, e, "objecttype", TypeColumns))
  BY CoreTypes DEF Stage
<1>3. Valid(e)
  OBVIOUS
<1> HIDE DEF e
<1>4. TokenStage(e, t) /\ (t >= 2 => Carried(d, t, e, t))
  BY <1>1, QuietCarries DEF Stage
<1>5. CASE t >= 2
  <2>1. k - 1 >= 26 /\ TypeTable(d) /\ TypeTable(e) /\ Keeps(d, e, "objecttype", TypeColumns)
    BY <1>2, <1>5 DEF Stage, TypeStage, Unharmed
  <2>2. PermTypes(e) /\ GrantsIn(e, t) = GrantsIn(d, t)
    BY <1>3, <1>4, <1>5, <2>1, GrantsCarried DEF Stage
  <2> QED BY <1>2, <1>3, <1>4, <2>1, <2>2 DEF Stage, e
<1>6. CASE ~(t >= 2)
  BY <1>2, <1>3, <1>4, <1>6 DEF Stage, GrantsIn, e
<1> QED BY <1>5, <1>6

\* So does the squash.
LEMMA SquashGrants ==
  ASSUME NEW d, NEW t \in 0..17, Stage(d, 0, t), Valid(Migrated(d, Squash))
  PROVE  /\ Stage(Migrated(d, Squash), Squashed, t)
         /\ GrantsIn(Migrated(d, Squash), t) = GrantsIn(d, t)
<1> DEFINE e == Migrated(d, Squash)
<1>1. TokensUnharmed(d, e)
  BY SquashMakesTypes, PlainTokens DEF Stage, MakesTypes
<1>2. TypeTable(e)
  BY SquashMakesTypes DEF Stage, TypeStage, MakesTypes
<1>3. Valid(e)
  OBVIOUS
<1> HIDE DEF e
<1>4. TokenStage(e, t)
  BY <1>1, QuietCarries DEF Stage
<1>5. ~(t >= 2)
  BY DEF Stage
<1> QED BY <1>2, <1>3, <1>4, <1>5 DEF Stage, TypeStage, Squashed, GrantsIn, e

\* Every token migration makes the tables of the next one.
LEMMA TokenTables ==
  ASSUME NEW d, NEW k \in 3..17, TokenStage(d, k - 1)
  PROVE  Carried(d, k - 1, Migrated(d, Token[k]), k)
<1>1. CASE k \in {3, 4, 6, 9, 10, 16, 17}
  <2>1. Token[k] \in {Token03, Token04, Token06, Token09, Token10, Token16, Token17}
    BY <1>1 DEF Token
  <2>2. TokensUnharmed(d, Migrated(d, Token[k]))
    BY <2>1, QuietTokens
  <2>3. <<k - 1, k>> \in {<<2, 3>>, <<3, 4>>, <<5, 6>>, <<8, 9>>, <<9, 10>>, <<15, 16>>, <<16, 17>>}
    BY <1>1
  <2> QED BY <2>2, <2>3, QuietCarries
<1>2. CASE k = 5
  BY <1>2, Token05Tables DEF Token
<1>3. CASE k = 7
  BY <1>3, Token07Tables DEF Token
<1>4. CASE k = 8
  BY <1>4, Token08Tables DEF Token
<1>5. CASE k = 11
  BY <1>5, Token11Tables DEF Token
<1>6. CASE k = 12
  BY <1>6, Token12Tables DEF Token
<1>7. CASE k = 13
  BY <1>7, Token13Tables DEF Token
<1>8. CASE k = 14
  BY <1>8, Token14Tables DEF Token
<1>9. CASE k = 15
  BY <1>9, Token15Tables DEF Token
<1> QED BY <1>1, <1>2, <1>3, <1>4, <1>5, <1>6, <1>7, <1>8, <1>9

\* And they give what was given.
LEMMA TokenGrants ==
  ASSUME NEW d, NEW c \in 0..40, NEW k \in 1..17, Stage(d, c, k - 1), k >= 2 => c >= 26,
         Valid(Migrated(d, Token[k]))
  PROVE  /\ Stage(Migrated(d, Token[k]), c, k)
         /\ GrantsIn(Migrated(d, Token[k]), k) = GrantsIn(d, k - 1)
<1> DEFINE e == Migrated(d, Token[k])
<1>1. Shaped(d, "objecttype")
  BY DEF Stage, TypeStage, TypeTable
<1>2. Unharmed(d, e, "objecttype", TypeColumns)
  BY <1>1, TokensQuiet, QuietMigration DEF TypesQuiet, TypeColumns
<1>3. Valid(e)
  OBVIOUS
<1>4. CASE k = 1
  <2>1. TokenStage(e, 1)
    BY <1>4, Token01Tables DEF Token, Stage
  <2> HIDE DEF e
  <2>2. TypeStage(e, c)
    BY <1>2 DEF Stage, TypeStage, TypeTable, Unharmed, Keeps, HasNames, Absent
  <2> QED BY <1>3, <1>4, <2>1, <2>2 DEF Stage, GrantsIn, e
<1>5. CASE k = 2
  <2>1. TokenStage(e, 2) /\ KeysOf(e, 2) = {} /\ GivesOf(e, 2) = {}
    BY <1>5, Token02Tables DEF Token, Stage
  <2> HIDE DEF e
  <2>2. TypeStage(e, c)
    BY <1>2 DEF Stage, TypeStage, TypeTable, Unharmed, Keeps, HasNames, Absent
  <2>3. e.rows["permission"] = {}
    BY <2>1 DEF GivesOf
  <2> QED BY <1>3, <1>5, <2>1, <2>2, <2>3 DEF Stage, GrantsIn, PermTypes, e
<1>6. CASE k >= 3
  <2>1. Carried(d, k - 1, e, k)
    BY <1>6, TokenTables DEF Stage
  <2> HIDE DEF e
  <2>2. TypeTable(d) /\ TypeTable(e) /\ Keeps(d, e, "objecttype", TypeColumns)
    BY <1>2, <1>6 DEF Stage, TypeStage, TypeTable, Unharmed, Keeps, HasNames
  <2>3. PermTypes(e) /\ GrantsIn(e, k) = GrantsIn(d, k - 1)
    <3>1. k - 1 \in Nat /\ k \in Nat /\ k - 1 >= 2 /\ k >= 2 /\ Valid(d) /\ PermTypes(d)
      BY <1>6 DEF Stage
    <3>2. Valid(e)
      BY <1>3
    <3> QED BY <2>1, <2>2, <3>1, <3>2, GrantsCarried, Zenon
  <2> QED BY <1>3, <1>6, <2>1, <2>2, <2>3 DEF Stage, TypeStage, Carried, e
<1> QED BY <1>4, <1>5, <1>6


-----------------------------------------------------------------------------
(* What the app of a release tells of tokens is what is kept.                  *)

\* The app of a release runs on the tables of its migrations.
Settled == applied[2] \in 0..17 \ 11..15 /\ Stage(db, applied[1], applied[2])

\* The grants that the app tells are those of the tables.
LEMMA GrantsTold == Settled => Grants = GrantsIn(db, applied[2])
<1> DEFINE t == applied[2]
           R == db.rows["tokenauth"]
           P == db.rows["permission"]
<1> SUFFICES ASSUME Settled
             PROVE  Grants = GrantsIn(db, t)
  OBVIOUS
<1>1. TokenStage(db, t) /\ t \in Nat /\ t \notin 11..15 /\ t <= 17
  BY DEF Settled, Stage
<1> HIDE DEF t
<1>2. CASE t <= 1
  <2>1. Rows("tokenauth") = {}
    BY <1>1, <1>2 DEF Rows, TokenStage, Absent
  <2>2. Grants = [secret \in {} |-> {}]
    BY <2>1 DEF Grants
  <2>3. GrantsIn(db, t) = [secret \in {} |-> {}]
    BY <1>1, <1>2 DEF GrantsIn, GrantsFrom
  <2> QED BY <2>2, <2>3
<1>3. CASE t >= 2
  <2>1. /\ "tokenauth" \in DOMAIN db.columns /\ "permission" \in DOMAIN db.columns
        /\ "id" \in DOMAIN db.columns["tokenauth"] <=> t >= 12
        /\ "fields" \in DOMAIN db.columns["permission"] <=> Listed(t)
    <3>1. /\ t <= 10 => HasNames(db, "tokenauth", TokenColumns, {"token"})
          /\ t >= 12 => HasNames(db, "tokenauth", TokenColumns, {"id", "token"})
          /\ HasNames(db, "permission", PermColumns, PermNames(t))
      BY <1>1, <1>3 DEF TokenStage
    <3>2. "fields" \in PermNames(t) <=> Listed(t)
      BY DEF PermNames, Points
    <3>3. t <= 10 \/ t >= 12
      BY <1>1
    <3> QED BY <1>1, <1>3, <3>1, <3>2, <3>3 DEF HasNames, Names, TokenColumns, PermColumns
  <2>2. Rows("tokenauth") = R /\ Rows("permission") = P
    BY <2>1 DEF Rows
  <2>3. KeysOf(db, t) = {<<TokenKey(t, r), r.token>> : r \in R}
    BY <1>1 DEF KeysOf, TokenTable
  <2>4. ASSUME NEW r, NEW p
        PROVE  KeyOf(r) = p.token_auth <=> TokenKey(t, r) = PermKey(t, p)
    <3>1. Point(t) = "token_auth"
      BY <1>1, <1>3 DEF Point
    <3>2. CASE t <= 10
      BY <1>1, <2>1, <3>1, <3>2 DEF KeyOf, Has, TokenKey, PermKey, NewId
    <3>3. CASE t >= 16
      BY <1>1, <2>1, <3>1, <3>3 DEF KeyOf, Has, TokenKey, PermKey
    <3> QED BY <1>1, <3>2, <3>3
  <2>5. ASSUME NEW r \in R
         PROVE  \E k \in KeysOf(db, t) : k[2] = r.token /\ k[1] = TokenKey(t, r)
    <3>1. <<TokenKey(t, r), r.token>> \in KeysOf(db, t)
      BY <2>3
    <3> QED BY <3>1
  <2>6. ASSUME NEW k \in KeysOf(db, t)
         PROVE  \E r \in R : k[2] = r.token /\ k[1] = TokenKey(t, r)
    BY <2>3
  <2> DEFINE Shown(g) == [uuid |-> g.uuid, mode |-> g.mode, fields |-> g.fields]
             Held(secret) == {q \in P : \E r \in R : r.token = secret /\ KeyOf(r) = q.token_auth}
             Taken(secret) == {h \in GivesOf(db, t) :
                                 \E k \in KeysOf(db, t) : k[2] = secret /\ k[1] = h.key}
  <2>7. ASSUME NEW p \in P
        PROVE  Grant(p) = Shown(Gives(db, t, p))
    BY <2>1 DEF Grant, Gives, UuidOf, FieldsAt, Has
  <2>8. ASSUME NEW secret, NEW p \in P
        PROVE  p \in Held(secret) <=> Gives(db, t, p) \in Taken(secret)
    <3>1. Gives(db, t, p) \in GivesOf(db, t) /\ Gives(db, t, p).key = PermKey(t, p)
      BY DEF GivesOf, Gives
    <3>2. (\E k \in KeysOf(db, t) : k[2] = secret /\ k[1] = PermKey(t, p))
          <=> (\E r \in R : r.token = secret /\ TokenKey(t, r) = PermKey(t, p))
      BY <2>5, <2>6
    <3> QED BY <2>4, <3>1, <3>2
  <2>9. ASSUME NEW secret
        PROVE  {Grant(p) : p \in Held(secret)} = {Shown(g) : g \in Taken(secret)}
    <3>1. Held(secret) \subseteq P
      OBVIOUS
    <3>2. ASSUME NEW g \in Taken(secret)
          PROVE  \E p \in P : g = Gives(db, t, p)
      BY DEF GivesOf
    <3> HIDE DEF Held, Taken, Shown
    <3> QED BY <2>7, <2>8, <3>1, <3>2
  <2>10. {token.token : token \in R} = {k[2] : k \in KeysOf(db, t)}
    BY <2>5, <2>6
  <2>11. Grants = [secret \in {token.token : token \in R} |-> {Grant(p) : p \in Held(secret)}]
    BY <2>2, Zenon DEF Grants
  <2>12. GrantsIn(db, t) = [secret \in {k[2] : k \in KeysOf(db, t)} |-> {Shown(g) : g \in Taken(secret)}]
    BY <1>3, Zenon DEF GrantsIn, GrantsFrom
  <2> HIDE DEF Held, Taken, Shown
  <2> QED BY <2>9, <2>10, <2>11, <2>12
<1> QED BY <1>1, <1>2, <1>3


-----------------------------------------------------------------------------
(* What is entered.                                                           *)

Put(d, T, X) == [d EXCEPT !.rows[T] = @ \cup X]

LEMMA PutRows ==
  ASSUME NEW d, NEW T, NEW X, "columns" \in DOMAIN d, "rows" \in DOMAIN d
  PROVE  /\ "columns" \in DOMAIN Put(d, T, X) /\ "rows" \in DOMAIN Put(d, T, X)
         /\ Put(d, T, X).columns = d.columns
         /\ DOMAIN Put(d, T, X).rows = DOMAIN d.rows
         /\ T \in DOMAIN d.rows => Put(d, T, X).rows[T] = d.rows[T] \cup X
         /\ \A U \in DOMAIN d.rows \ {T} : Put(d, T, X).rows[U] = d.rows[U]
BY DEF Put

\* The table T of e is that of d, with rows more.
Grows(d, e, T) ==
  /\ "columns" \in DOMAIN e /\ "rows" \in DOMAIN e
  /\ e.columns = d.columns /\ DOMAIN e.rows = DOMAIN d.rows
  /\ T \in DOMAIN d.rows =>
       /\ d.rows[T] \subseteq e.rows[T]
       /\ \A r \in e.rows[T] \ d.rows[T] : DOMAIN r = DOMAIN d.columns[T]

GrowsAll(d, e) ==
  /\ Grows(d, e, "tokenauth") /\ Grows(d, e, "oldtokenauth")
  /\ Grows(d, e, "permission") /\ Grows(d, e, "objecttype")

LEMMA GrownShaped ==
  ASSUME NEW d, NEW e, NEW T, Shaped(d, T), Grows(d, e, T)
  PROVE  Shaped(e, T)
BY DEF Shaped, Grows

LEMMA GrownStage ==
  ASSUME NEW d, NEW e, NEW c \in 0..40, NEW t \in 0..17, Stage(d, c, t), Valid(e), GrowsAll(d, e),
         t \in {1, 12} => e.rows["tokenauth"] = {},
         t \in {5, 6} => \A p \in e.rows["permission"] : p.fields = Default,
         t >= 2 => PermTypes(e)
  PROVE  Stage(e, c, t)
<1>1. /\ Shaped(e, "tokenauth") /\ Shaped(e, "oldtokenauth") /\ Shaped(e, "permission")
      /\ Shaped(e, "objecttype") /\ e.columns = d.columns
  BY GrownShaped DEF Stage, TokenStage, TypeStage, TypeTable, GrowsAll, Grows
<1>2. TokenStage(e, t)
  BY <1>1 DEF Stage, TokenStage, HasNames, Names, Absent
<1>3. TypeStage(e, c)
  BY <1>1 DEF Stage, TypeStage, TypeTable, HasNames, Names, Absent
<1> QED BY <1>2, <1>3 DEF Stage

LEMMA TypeAddedRows ==
  ASSUME NEW url, Settled
  PROVE  /\ GrowsAll(db, TypeAdded(url))
         /\ \A T \in DOMAIN db.rows : T # "objecttype" => TypeAdded(url).rows[T] = db.rows[T]
         /\ Has("objecttype", "id") =>
              \E type \in TypeAdded(url).rows["objecttype"] : type.uuid = url.uuid
<1> DEFINE e == TypeAdded(url)
           new == Has("objecttype", "id") /\ ~\E type \in Rows("objecttype") : type.uuid = url.uuid
<1>1. "columns" \in DOMAIN db /\ "rows" \in DOMAIN db
      /\ ("objecttype" \in DOMAIN db.columns <=> "objecttype" \in DOMAIN db.rows)
  BY DEF Settled, Stage, TypeStage, TypeTable, Shaped
<1>2. CASE ~new
  <2>1. e = db
    BY <1>2 DEF TypeAdded
  <2> HIDE DEF e
  <2>2. GrowsAll(db, e)
    BY <1>1, <2>1 DEF GrowsAll, Grows
  <2>3. Has("objecttype", "id") => \E type \in e.rows["objecttype"] : type.uuid = url.uuid
    BY <1>2, <2>1 DEF Has, Rows
  <2> QED BY <2>1, <2>2, <2>3 DEF e
<1>3. CASE new
  <2> DEFINE row == TypeRow(db, TypeId(url))
  <2>1. e = Put(db, "objecttype", {row})
    BY <1>3 DEF TypeAdded, Put
  <2>2. "objecttype" \in DOMAIN db.rows /\ TypeTable(db)
    BY <1>1, <1>3 DEF Has, Settled, Stage, TypeStage, Absent
  <2>3. DOMAIN row = DOMAIN db.columns["objecttype"] /\ row.uuid = url.uuid
    <3>1. "uuid" \in DOMAIN db.columns["objecttype"]
      BY <2>2 DEF TypeTable, HasNames, Names
    <3> QED BY <3>1 DEF TypeRow, RowOf, TypeId
  <2> HIDE DEF e, row
  <2>4. /\ "columns" \in DOMAIN e /\ "rows" \in DOMAIN e /\ e.columns = db.columns
        /\ DOMAIN e.rows = DOMAIN db.rows
        /\ e.rows["objecttype"] = db.rows["objecttype"] \cup {row}
        /\ \A U \in DOMAIN db.rows \ {"objecttype"} : e.rows[U] = db.rows[U]
    BY <1>1, <2>1, <2>2, PutRows
  <2>5. GrowsAll(db, e)
    BY <2>3, <2>4 DEF GrowsAll, Grows
  <2> QED BY <2>3, <2>4, <2>5 DEF e
<1> QED BY <1>2, <1>3

\* Objects and records are no part of what tokens open.
LEMMA GrownElsewhere ==
  ASSUME NEW e, Settled, Runs, applied[1] \in 0..40, GrowsAll(db, e), Valid(e),
         \A T \in DOMAIN db.rows :
           T \notin {"object", "objectrecord", "objecttype"} => e.rows[T] = db.rows[T]
  PROVE  Stage(e, applied[1], applied[2])
<1> DEFINE c == applied[1]
           t == applied[2]
<1>1. c \in 0..40 /\ t \in 0..17 /\ Stage(db, c, t)
  BY DEF Settled
<1> HIDE DEF c, t
<1>2. t >= 1 => "tokenauth" \in DOMAIN db.rows \/ t = 11
  BY <1>1 DEF Stage, TokenStage, Shaped, HasNames
<1>3. t >= 2 => "permission" \in DOMAIN db.rows /\ "objecttype" \in DOMAIN db.rows
  BY <1>1 DEF Stage, TokenStage, TypeStage, TypeTable, Shaped, HasNames
<1>4. t \in {1, 12} => e.rows["tokenauth"] = {}
  BY <1>1, <1>2 DEF Stage, TokenStage
<1>5. t \in {5, 6} => \A p \in e.rows["permission"] : p.fields = Default
  BY <1>1, <1>3 DEF Stage, TokenStage
<1>6. t >= 2 => PermTypes(e)
  BY <1>1, <1>3 DEF Stage, PermTypes, GrowsAll, Grows
<1>7. Stage(e, c, t)
  BY <1>1, <1>4, <1>5, <1>6, GrownStage
<1> QED BY <1>7 DEF c, t


\* The inductive invariant of grants: the tables are those of the migrations that were run, and
\* give what was granted.
GrantInv ==
  /\ applied[1] \in 0..40 /\ applied[2] \in 0..17
  /\ target \in Releases /\ applied[1] <= target[1] /\ applied[2] <= target[2]
  /\ Stage(db, applied[1], applied[2])
  /\ granted = GrantsIn(db, applied[2])

\* When the app runs the migrations of a release were all run.
LEMMA RunsSettled == GrantInv /\ Runs => Settled
BY ReleaseAssumption DEF GrantInv, Runs, Settled

\* What is entered is granted from then on.
LEMMA EnterGrants ==
  ASSUME GrantInv, Runs, NEW new, Enter(new), Stage(new, applied[1], applied[2])
  PROVE  GrantInv'
<1>1. /\ db' = new /\ applied' = applied /\ target' = target /\ granted' = Grants'
  BY DEF Enter
<1>2. Settled'
  BY <1>1, RunsSettled DEF Settled
<1>3. (Settled => Grants = GrantsIn(db, applied[2]))'
  BY GrantsTold, PTL
<1>4. Grants' = GrantsIn(db', applied'[2])
  BY <1>2, <1>3
<1> QED BY <1>1, <1>4 DEF GrantInv

\* Objects grant nothing.
LEMMA AddObjectGrants ==
  ASSUME GrantInv, NEW url, NEW date, AddObject(url, date)
  PROVE  GrantInv'
<1>1. Runs /\ Settled
  BY RunsSettled DEF AddObject
<1> DEFINE typed  == Has("objecttype", "id")
           given  == [id |-> Entry, uuid |-> Entry, data |-> Entry, version |-> Entry,
                      object_type |-> IF typed THEN TypeKey(url) ELSE url]
           object == RowOf(db, "object", given)
           record == RowOf(db, "objectrecord", FirstRecord(given, date))
           base   == Put(TypeAdded(url), "object", {object})
           new    == IF Has("objectrecord", "id") THEN Put(base, "objectrecord", {record}) ELSE base
<1>2. Enter(new)
  BY Zenon DEF AddObject, Put
<1> HIDE DEF typed, given, object, record
<1>3. /\ GrowsAll(db, TypeAdded(url))
      /\ \A T \in DOMAIN db.rows : T # "objecttype" => TypeAdded(url).rows[T] = db.rows[T]
  BY <1>1, TypeAddedRows
<1>4. GrowsAll(db, base)
      /\ \A T \in DOMAIN db.rows :
           T \notin {"object", "objectrecord", "objecttype"} => base.rows[T] = db.rows[T]
  BY <1>3, PutRows DEF GrowsAll, Grows
<1> HIDE DEF base
<1>5. GrowsAll(db, new)
      /\ \A T \in DOMAIN db.rows :
           T \notin {"object", "objectrecord", "objecttype"} => new.rows[T] = db.rows[T]
  <2>1. CASE Has("objectrecord", "id")
    BY <1>4, <2>1, PutRows DEF GrowsAll, Grows
  <2>2. CASE ~Has("objectrecord", "id")
    BY <1>4, <2>2
  <2> QED BY <2>1, <2>2
<1> HIDE DEF new
<1>6. Valid(new) /\ applied[1] \in 0..40
  BY <1>2 DEF Enter, GrantInv
<1>7. Stage(new, applied[1], applied[2])
  BY <1>1, <1>5, <1>6, GrownElsewhere
<1> QED BY <1>1, <1>2, <1>7, EnterGrants

\* Nor do records.
LEMMA AddRecordGrants ==
  ASSUME GrantInv, NEW object, NEW date, AddRecord(object, date)
  PROVE  GrantInv'
<1>1. Runs /\ Settled /\ Has("objectrecord", "id")
  BY RunsSettled DEF AddRecord
<1>2. PICK given : Enter(Insert("objectrecord", given))
  BY Zenon DEF AddRecord
<1> DEFINE new == Put(db, "objectrecord", {RowOf(db, "objectrecord", given)})
<1>3. Enter(new)
  BY <1>2, Zenon DEF Insert, Put
<1>4. "columns" \in DOMAIN db /\ "rows" \in DOMAIN db
  BY <1>1 DEF Settled, Stage, TypeStage, TypeTable, Shaped
<1>5. GrowsAll(db, new)
      /\ \A T \in DOMAIN db.rows :
           T \notin {"object", "objectrecord", "objecttype"} => new.rows[T] = db.rows[T]
  BY <1>4, PutRows DEF GrowsAll, Grows
<1> HIDE DEF new
<1>6. Valid(new) /\ applied[1] \in 0..40
  BY <1>3 DEF Enter, GrantInv
<1>7. Stage(new, applied[1], applied[2])
  BY <1>1, <1>5, <1>6, GrownElsewhere
<1> QED BY <1>1, <1>3, <1>7, EnterGrants


\* The keys of token and permission, and the type that is taken for the URL.
TokenOf(secret) ==
  IF \E t \in Rows("tokenauth") : t.token = secret
  THEN CHOOSE t \in Rows("tokenauth") : t.token = secret
  ELSE RowOf(db, "tokenauth", [id |-> NewId(secret), token |-> secret, identifier |-> secret])
PermOf(secret, url, mode, fields) ==
  RowOf(db, "permission", [id |-> Entry, token_auth |-> KeyOf(TokenOf(secret)),
                           object_type |-> TypeKey(url), mode |-> mode, fields |-> fields])

\* A permission grants what was asked, and changes no other grant.
LEMMA AddPermissionDoes ==
  ASSUME NEW secret, NEW url, NEW mode, NEW fields, AddPermission(secret, url, mode, fields)
  PROVE  /\ Runs /\ Has("permission", "id")
         /\ fields # Default => Has("permission", "fields") /\ (target[2] < 7 => "lists" \in Upsets)
         /\ Enter(TwoTables(TypeAdded(url),
                    "tokenauth", TypeAdded(url).rows["tokenauth"] \cup {TokenOf(secret)},
                    "permission", TypeAdded(url).rows["permission"] \cup
                                    {PermOf(secret, url, mode, fields)}))
<1>1. /\ Runs /\ Has("permission", "id")
      /\ fields # Default => Has("permission", "fields") /\ (target[2] < 7 => "lists" \in Upsets)
  BY Zenon DEF AddPermission
<1>2. Enter([TypeAdded(url) EXCEPT
               !.rows["tokenauth"] = @ \cup {TokenOf(secret)},
               !.rows["permission"] = @ \cup {PermOf(secret, url, mode, fields)}])
  BY Zenon DEF AddPermission, TokenOf, PermOf
<1> DEFINE e == TypeAdded(url)
           tok == TokenOf(secret)
           per == PermOf(secret, url, mode, fields)
<1>3. [e EXCEPT !.rows["tokenauth"] = @ \cup {tok}, !.rows["permission"] = @ \cup {per}]
        = TwoTables(e, "tokenauth", e.rows["tokenauth"] \cup {tok},
                       "permission", e.rows["permission"] \cup {per})
  <2> HIDE DEF e, tok, per
  <2> QED BY DEF TwoTables
<1> QED BY <1>1, <1>2, <1>3, Zenon

\* So the grants are kept.
LEMMA AddPermissionGrants ==
  ASSUME GrantInv, "lists" \notin Upsets, NEW secret, NEW url, NEW mode, NEW fields,
         AddPermission(secret, url, mode, fields)
  PROVE  GrantInv'
<1> DEFINE e == TypeAdded(url)
           t == applied[2]
           token == TokenOf(secret)
           perm  == PermOf(secret, url, mode, fields)
           new   == TwoTables(e, "tokenauth", e.rows["tokenauth"] \cup {token},
                                 "permission", e.rows["permission"] \cup {perm})
<1>1. /\ Runs /\ Has("permission", "id") /\ Enter(new)
      /\ fields # Default => Has("permission", "fields") /\ (target[2] < 7 => "lists" \in Upsets)
  BY AddPermissionDoes
<1>2. Settled /\ t \in 0..17 \ 11..15 /\ t = target[2]
  BY <1>1, RunsSettled DEF Runs, Settled
<1>3. /\ Stage(db, applied[1], t) /\ TokenStage(db, t) /\ TypeStage(db, applied[1])
      /\ t >= 2 /\ applied[1] >= 26 /\ PermTypes(db) /\ applied[1] \in 0..40
  BY <1>1, <1>2 DEF Settled, Stage, TokenStage, Absent, Has, GrantInv
<1>4. /\ Shaped(db, "tokenauth") /\ Shaped(db, "permission") /\ TypeTable(db)
      /\ HasNames(db, "tokenauth", TokenColumns, IF t >= 12 THEN {"id", "token"} ELSE {"token"})
      /\ HasNames(db, "permission", PermColumns, PermNames(t))
  BY <1>2, <1>3 DEF TokenStage, TypeStage
<1>5. /\ "tokenauth" \in DOMAIN db.rows /\ "permission" \in DOMAIN db.rows
      /\ "objecttype" \in DOMAIN db.rows /\ Has("objecttype", "id")
      /\ Rows("tokenauth") = db.rows["tokenauth"]
  BY <1>4 DEF Shaped, HasNames, Has, Rows, TypeTable, Names
<1>6. /\ GrowsAll(db, e)
      /\ \A T \in DOMAIN db.rows : T # "objecttype" => e.rows[T] = db.rows[T]
      /\ \E type \in e.rows["objecttype"] : type.uuid = url.uuid
  BY <1>2, <1>5, TypeAddedRows, Zenon
<1>7. \E type \in e.rows["objecttype"] : type.id = TypeKey(url)
  BY <1>6 DEF TypeKey
<1> HIDE DEF e
<1>8. token \in db.rows["tokenauth"] \/ DOMAIN token = DOMAIN db.columns["tokenauth"]
  <2>1. CASE \E r \in Rows("tokenauth") : r.token = secret
    BY <1>5, <2>1 DEF TokenOf
  <2>2. CASE ~\E r \in Rows("tokenauth") : r.token = secret
    <3>1. token = RowOf(db, "tokenauth", [id |-> NewId(secret), token |-> secret, identifier |-> secret])
      BY <2>2, Zenon DEF TokenOf
    <3> HIDE DEF token
    <3> QED BY <3>1 DEF RowOf
  <2> QED BY <2>1, <2>2
<1>9. /\ DOMAIN perm = DOMAIN db.columns["permission"]
      /\ perm.object_type = TypeKey(url)
      /\ t \in {5, 6} => perm.fields = Default
  <2>1. "object_type" \in DOMAIN db.columns["permission"]
        /\ (t \in {5, 6} => "fields" \in DOMAIN db.columns["permission"])
    BY <1>4 DEF HasNames, Names, PermNames, Listed
  <2>2. t \in {5, 6} => fields = Default
    BY <1>1, <1>2
  <2> QED BY <2>1, <2>2 DEF PermOf, RowOf
<1> HIDE DEF token, perm, t
<1>10. /\ "columns" \in DOMAIN new /\ "rows" \in DOMAIN new /\ new.columns = db.columns
       /\ DOMAIN new.rows = DOMAIN db.rows
       /\ new.rows["tokenauth"] = db.rows["tokenauth"] \cup {token}
       /\ new.rows["permission"] = db.rows["permission"] \cup {perm}
       /\ \A T \in DOMAIN db.rows \ {"tokenauth", "permission"} : new.rows[T] = e.rows[T]
  <2>1. /\ "columns" \in DOMAIN e /\ "rows" \in DOMAIN e /\ e.columns = db.columns
        /\ DOMAIN e.rows = DOMAIN db.rows
    BY <1>6 DEF GrowsAll, Grows
  <2> QED BY <2>1, <1>5, <1>6, TwoTablesRows
<1>11. Valid(new)
  BY <1>1 DEF Enter
<1> HIDE DEF new
<1>12. GrowsAll(db, new)
  BY <1>5, <1>6, <1>8, <1>9, <1>10 DEF GrowsAll, Grows
<1>13. t \in {5, 6} => \A p \in new.rows["permission"] : p.fields = Default
  BY <1>3, <1>9, <1>10 DEF TokenStage
<1>14. PermTypes(new)
  BY <1>3, <1>5, <1>6, <1>7, <1>9, <1>10 DEF PermTypes, GrowsAll, Grows
<1>15. Stage(new, applied[1], t)
  BY <1>2, <1>3, <1>11, <1>12, <1>13, <1>14, GrownStage
<1> QED BY <1>1, <1>15, EnterGrants DEF t


\* No migration changes what is granted.
LEMMA MigrateGrants == GrantInv /\ Migrate => GrantInv'
<1> SUFFICES ASSUME GrantInv, Migrate
             PROVE  GrantInv'
  OBVIOUS
<1> DEFINE c == applied[1]
           t == applied[2]
<1>0. /\ c \in 0..40 /\ t \in 0..17 /\ Stage(db, c, t) /\ granted = GrantsIn(db, t)
      /\ target \in Releases /\ c <= target[1] /\ t <= target[2]
      /\ target[1] \in 1..40 /\ target[2] \in 0..17 /\ (target[2] >= 2 => target[1] >= 26)
  BY ReleaseAssumption DEF GrantInv
<1>1. CASE MigrateSquash
  <2>1. /\ db' = Migrated(db, Squash) /\ Valid(db') /\ applied' = <<38, t>>
        /\ target' = target /\ granted' = granted /\ c = 0 /\ target = Latest
    BY <1>1 DEF MigrateSquash, Commit, Squashes, Squashed
  <2>2. /\ Stage(Migrated(db, Squash), 38, t)
        /\ GrantsIn(Migrated(db, Squash), t) = GrantsIn(db, t)
    BY <1>0, <2>1, SquashGrants DEF Squashed
  <2>3. target[1] = 40
    BY <2>1 DEF Latest, Core
  <2> HIDE DEF c, t
  <2> QED BY <1>0, <2>1, <2>2, <2>3 DEF GrantInv
<1>2. CASE MigrateCore
  <2> DEFINE k == c + 1
  <2>1. /\ db' = Migrated(db, Core[k]) /\ Valid(db') /\ applied' = <<k, t>>
        /\ target' = target /\ granted' = granted /\ c < target[1]
    BY <1>2 DEF MigrateCore, Commit
  <2>2. k \in 1..40 /\ k - 1 = c /\ k <= target[1]
    BY <1>0, <2>1
  <2>3. /\ Stage(Migrated(db, Core[k]), k, t)
        /\ GrantsIn(Migrated(db, Core[k]), t) = GrantsIn(db, t)
    BY <1>0, <2>1, <2>2, CoreGrants
  <2> HIDE DEF c, t, k
  <2> QED BY <1>0, <2>1, <2>2, <2>3 DEF GrantInv
<1>3. CASE MigrateToken
  <2> DEFINE k == t + 1
  <2>1. /\ db' = Migrated(db, Token[k]) /\ Valid(db') /\ applied' = <<c, k>>
        /\ target' = target /\ granted' = granted /\ c = target[1] /\ t < target[2]
    BY <1>3 DEF MigrateToken, Commit
  <2>2. k \in 1..17 /\ k - 1 = t /\ k <= target[2] /\ (k >= 2 => c >= 26)
    BY <1>0, <2>1
  <2>3. /\ Stage(Migrated(db, Token[k]), c, k)
        /\ GrantsIn(Migrated(db, Token[k]), k) = GrantsIn(db, t)
    BY <1>0, <2>1, <2>2, TokenGrants
  <2> HIDE DEF c, t, k
  <2> QED BY <1>0, <2>1, <2>2, <2>3 DEF GrantInv
<1> QED BY <1>1, <1>2, <1>3 DEF Migrate

\* Before the first migration nothing is granted.
LEMMA InitGrants == Init => GrantInv
<1> SUFFICES ASSUME Init
             PROVE  GrantInv
  OBVIOUS
<1>1. db = NoTables /\ applied = <<0, 0>> /\ target \in Releases /\ granted = <<>>
  BY DEF Init
<1>2. DOMAIN db.columns = {} /\ DOMAIN db.rows = {}
      /\ "columns" \in DOMAIN db /\ "rows" \in DOMAIN db
  BY <1>1 DEF NoTables
<1>3. Stage(db, 0, 0)
  BY <1>2 DEF Stage, TokenStage, TypeStage, Shaped, Absent, Valid
<1>4. granted = GrantsIn(db, 0)
  <2>1. GrantsIn(db, 0) = [secret \in {} |-> {}]
    BY DEF GrantsIn, GrantsFrom
  <2> QED BY <1>1, <2>1
<1>5. target[1] \in 1..40 /\ target[2] \in 0..17
  BY <1>1, ReleaseAssumption
<1>6. applied[1] = 0 /\ applied[2] = 0
  BY <1>1
<1>7. 0 \in 0..40 /\ 0 \in 0..17 /\ 0 <= target[1] /\ 0 <= target[2]
  BY <1>5
<1> QED BY <1>1, <1>3, <1>4, <1>6, <1>7, Zenon DEF GrantInv

\* No step breaks the invariant.
LEMMA NextGrants ==
  ASSUME "lists" \notin Upsets, GrantInv, [Next]_vars
  PROVE  GrantInv'
<1>1. CASE Migrate
  BY <1>1, MigrateGrants
<1>2. ASSUME NEW release \in Releases, Install(release)
      PROVE  GrantInv'
  BY <1>2 DEF Install, GrantInv, Runs
<1>3. ASSUME NEW date \in Dates, NEW url \in Urls, AddObject(url, date)
      PROVE  GrantInv'
  BY <1>3, AddObjectGrants
<1>4. ASSUME NEW date \in Dates, NEW object \in Rows("object"), AddRecord(object, date)
      PROVE  GrantInv'
  BY <1>4, AddRecordGrants
<1>5. ASSUME NEW secret \in Secrets, NEW url \in Urls, NEW mode \in {"read_only", "read_and_write"},
             NEW fields \in {Default, "some"}, AddPermission(secret, url, mode, fields)
      PROVE  GrantInv'
  BY <1>5, AddPermissionGrants
<1>6. CASE UNCHANGED vars
  BY <1>6 DEF vars, GrantInv
<1> QED BY <1>1, <1>2, <1>3, <1>4, <1>5, <1>6 DEF Next

\* Every token that a client has opens behind each release what it opened, with its
\* mode and fields: the migrations of tokens and permissions lose nothing, and give
\* nothing away.  But for fields between token 0005 and 0007, which 0007 drops.
THEOREM GrantsSurvive ==
  ASSUME "lists" \notin Upsets
  PROVE  Spec => []GrantsKept
<1>1. Init => GrantInv
  BY InitGrants
<1>2. GrantInv /\ [Next]_vars => GrantInv'
  BY NextGrants
<1>3. GrantInv => GrantsKept
  <2> SUFFICES ASSUME GrantInv, Runs
               PROVE  Grants = granted
    BY DEF GrantsKept
  <2> QED BY RunsSettled, GrantsTold DEF GrantInv
<1> QED BY <1>1, <1>2, <1>3, PTL DEF Spec

-----------------------------------------------------------------------------
(* Migrations of which one operation matters to a table.                       *)

\* The j-th operation is the one that may change the columns C of T.
OnlyLoud(ops, j, T, C) ==
  IsOps(ops) /\ j \in 1..Len(ops) /\ \A k \in (1..Len(ops)) \ {j} : Quiet(ops[k], T, C)

\* Behind quiet operations, from i on.
LEMMA QuietRange ==
  ASSUME NEW at, NEW ops, NEW m \in Nat, NEW n \in Nat, m <= n, NEW T, NEW C,
         Shaped(at[m], T), "id" \in C,
         \A k \in (m + 1)..n : at[k] = Do(at[k - 1], ops[k]) /\ Quiet(ops[k], T, C)
  PROVE  Unharmed(at[m], at[n], T, C)
<1> DEFINE S == {k \in m..n : Unharmed(at[m], at[k], T, C)}
<1>1. m \in S
  BY KeepsAll DEF Unharmed
<1>2. ASSUME NEW i \in m..n, i # n, i \in S
      PROVE  i + 1 \in S
  <2>1. i + 1 \in (m + 1)..n /\ i + 1 \in m..n /\ (i + 1) - 1 = i
    BY <1>2
  <2>2. at[i + 1] = Do(at[i], ops[i + 1]) /\ Quiet(ops[i + 1], T, C)
    BY <2>1
  <2>3. Shaped(at[i], T) /\ Keeps(at[m], at[i], T, C)
    BY <1>2 DEF Unharmed
  <2>4. Unharmed(at[i], at[i + 1], T, C)
    BY <2>2, <2>3, QuietStep
  <2>5. Unharmed(at[m], at[i + 1], T, C)
    BY <2>3, <2>4, KeepsBoth DEF Unharmed
  <2> QED BY <2>1, <2>5
<1> HIDE DEF S
<1>3. m..n \subseteq S
  BY <1>1, <1>2, Upward
<1>4. n \in S
  BY <1>3
<1> QED BY <1>4 DEF S

\* What happens to C is what that operation does to it, somewhere between quiet ones.
LEMMA OneLoud ==
  ASSUME NEW d, NEW ops, NEW j, NEW T, NEW C, Shaped(d, T), "id" \in C, OnlyLoud(ops, j, T, C),
         \A f : Unharmed(d, f, T, C) => Shaped(Do(f, ops[j]), T)
  PROVE  \E f : Unharmed(d, f, T, C) /\ Unharmed(Do(f, ops[j]), Migrated(d, ops), T, C)
<1> DEFINE n == Len(ops)
<1>0. IsOps(ops) /\ n \in Nat /\ j \in 1..n /\ \A k \in (1..n) \ {j} : Quiet(ops[k], T, C)
  BY DEF OnlyLoud, IsOps
<1>1. PICK at : Walk(at, d, ops)
  BY <1>0, Walks, Zenon
<1>2. at[0] = d /\ at[n] = Migrated(d, ops) /\ \A k \in 1..n : at[k] = Do(at[k - 1], ops[k])
  BY <1>1 DEF Walk
<1> HIDE DEF n
<1>3. Unharmed(d, at[j - 1], T, C)
  <2>1. j - 1 \in Nat /\ 0 \in Nat /\ 0 <= j - 1
        /\ \A k \in (0 + 1)..(j - 1) : k \in (1..n) \ {j}
    BY <1>0
  <2>2. \A k \in (0 + 1)..(j - 1) : at[k] = Do(at[k - 1], ops[k]) /\ Quiet(ops[k], T, C)
    BY <1>0, <1>2, <2>1
  <2>3. Unharmed(at[0], at[j - 1], T, C)
    BY <1>2, <2>1, <2>2, QuietRange
  <2> QED BY <1>2, <2>3
<1>4. at[j] = Do(at[j - 1], ops[j]) /\ Shaped(at[j], T)
  BY <1>0, <1>2, <1>3
<1>5. Unharmed(at[j], at[n], T, C)
  <2>1. j \in Nat /\ j <= n /\ \A k \in (j + 1)..n : k \in (1..n) \ {j}
    BY <1>0
  <2>2. \A k \in (j + 1)..n : at[k] = Do(at[k - 1], ops[k]) /\ Quiet(ops[k], T, C)
    BY <1>0, <1>2, <2>1
  <2> QED BY <1>0, <1>4, <2>1, <2>2, QuietRange
<1> QED BY <1>2, <1>3, <1>4, <1>5

\* A table that one operation creates has the columns it names, and no rows.
LEMMA CreateOnce ==
  ASSUME NEW d, NEW ops, NEW j, NEW T, NEW C, Shaped(d, T), "id" \in C, OnlyLoud(ops, j, T, C),
         ops[j].do = "create", ops[j].table = T, T \notin DOMAIN d.columns,
         "id" \in DOMAIN ops[j].columns => ops[j].columns["id"] = {"unique"}
  PROVE  /\ Shaped(Migrated(d, ops), T)
         /\ HasNames(Migrated(d, ops), T, C, DOMAIN ops[j].columns \cap C)
         /\ Migrated(d, ops).rows[T] = {}
<1> DEFINE op == ops[j]
           e  == Migrated(d, ops)
<1>1. ASSUME NEW f, Unharmed(d, f, T, C)
      PROVE  /\ Shaped(Do(f, op), T) /\ T \in DOMAIN Do(f, op).columns
             /\ Do(f, op).columns[T] = op.columns /\ Do(f, op).rows[T] = {}
  BY <1>1, CreateDoes DEF Unharmed, Keeps
<1> HIDE DEF op
<1>2. PICK f : Unharmed(d, f, T, C) /\ Unharmed(Do(f, op), e, T, C)
  BY <1>1, OneLoud DEF op
<1>3. /\ Shaped(Do(f, op), T) /\ T \in DOMAIN Do(f, op).columns
      /\ Do(f, op).columns[T] = op.columns /\ Do(f, op).rows[T] = {}
  BY <1>1, <1>2
<1> HIDE DEF e
<1> QED BY <1>2, <1>3 DEF Unharmed, Keeps, HasNames, Names, SameRows, op, e

\* One operation adds a column, with its default in each row.
LEMMA AddOnce ==
  ASSUME NEW d, NEW ops, NEW j, NEW T, NEW C, Shaped(d, T), "id" \in C, OnlyLoud(ops, j, T, C),
         ops[j].do = "add", ops[j].table = T, T \in DOMAIN d.columns,
         ops[j].column \in C, ops[j].column \notin Names(d, T, C), ops[j].column # "id"
  PROVE  Added(d, Migrated(d, ops), T, C, ops[j].column, ops[j].value)
<1> DEFINE op == ops[j]
           e  == Migrated(d, ops)
<1>1. ASSUME NEW f, Unharmed(d, f, T, C)
      PROVE  Added(f, Do(f, op), T, C, op.column, op.value)
  <2>1. Shaped(f, T) /\ T \in DOMAIN f.columns /\ Names(f, T, C) = Names(d, T, C)
    BY <1>1 DEF Unharmed, Keeps
  <2>2. op.column \notin DOMAIN f.columns[T]
    BY <2>1 DEF Names
  <2> QED BY <2>1, <2>2, AddDoes
<1>2. PICK f : Unharmed(d, f, T, C) /\ Unharmed(Do(f, op), e, T, C)
  BY <1>1, OneLoud DEF op, Added
<1> DEFINE g == Do(f, op)
           N == Names(d, T, C)
<1>3. /\ Names(g, T, C) = N \cup {op.column} /\ Names(e, T, C) = Names(g, T, C)
      /\ SameRows(d.rows[T], f.rows[T], N) /\ SameRows(f.rows[T], g.rows[T], N)
      /\ SameRows(g.rows[T], e.rows[T], N \cup {op.column})
      /\ \A s \in g.rows[T] : s[op.column] = op.value
      /\ T \in DOMAIN e.columns /\ Shaped(e, T)
  BY <1>1, <1>2 DEF Added, Unharmed, Keeps
<1> HIDE DEF g, e, op, N
<1>4. \A s \in e.rows[T] : s[op.column] = op.value
  BY <1>3 DEF SameRows, Alike
<1>5. SameRows(g.rows[T], e.rows[T], N)
  BY <1>3 DEF SameRows, Alike
<1>6. SameRows(d.rows[T], e.rows[T], N)
  BY <1>3, <1>5, SameThenSame
<1>7. op.column \in C
  BY DEF op
<1> QED BY <1>3, <1>4, <1>6, <1>7 DEF Added, e, op, N

\* One operation removes a column; what the others say stays.
LEMMA RemoveOnce ==
  ASSUME NEW d, NEW ops, NEW j, NEW T, NEW C, Shaped(d, T), "id" \in C, OnlyLoud(ops, j, T, C),
         ops[j].do = "remove", ops[j].table = T, T \in DOMAIN d.columns
  PROVE  Removed(d, Migrated(d, ops), T, C, ops[j].column)
<1> DEFINE op == ops[j]
           e  == Migrated(d, ops)
<1>1. ASSUME NEW f, Unharmed(d, f, T, C)
      PROVE  Removed(f, Do(f, op), T, C, op.column)
  BY <1>1, RemoveDoes DEF Unharmed, Keeps
<1>2. PICK f : Unharmed(d, f, T, C) /\ Unharmed(Do(f, op), e, T, C)
  BY <1>1, OneLoud DEF op, Removed
<1> DEFINE g == Do(f, op)
           N == Names(d, T, C)
           M == N \ {op.column}
<1>3. /\ Names(g, T, C) = M /\ Names(e, T, C) = M
      /\ SameRows(d.rows[T], f.rows[T], N) /\ SameRows(f.rows[T], g.rows[T], M)
      /\ SameRows(g.rows[T], e.rows[T], M)
      /\ T \in DOMAIN e.columns /\ Shaped(e, T)
  BY <1>1, <1>2 DEF Removed, Unharmed, Keeps
<1> HIDE DEF g, e, op, N
<1>4. SameRows(d.rows[T], f.rows[T], M)
  BY <1>3 DEF SameRows, Alike
<1> HIDE DEF M
<1>5. SameRows(d.rows[T], e.rows[T], M)
  BY <1>3, <1>4, SameThenSame
<1> QED BY <1>3, <1>5 DEF Removed, e, op, N, M

\* One operation renames a column; its values come along.
LEMMA RenameOnce ==
  ASSUME NEW d, NEW ops, NEW j, NEW T, NEW C, Shaped(d, T), "id" \in C, OnlyLoud(ops, j, T, C),
         ops[j].do = "rename", ops[j].table = T, T \in DOMAIN d.columns,
         ops[j].column \in Names(d, T, C), ops[j].name \in C, ops[j].name \notin Names(d, T, C),
         ops[j].column # "id", ops[j].name # "id"
  PROVE  Moved(d, Migrated(d, ops), T, C, ops[j].column, ops[j].name)
<1> DEFINE op == ops[j]
           e  == Migrated(d, ops)
<1>1. ASSUME NEW f, Unharmed(d, f, T, C)
      PROVE  Moved(f, Do(f, op), T, C, op.column, op.name)
  <2>1. Shaped(f, T) /\ T \in DOMAIN f.columns /\ Names(f, T, C) = Names(d, T, C)
    BY <1>1 DEF Unharmed, Keeps
  <2> QED BY <2>1, RenameDoes
<1>2. PICK f : Unharmed(d, f, T, C) /\ Unharmed(Do(f, op), e, T, C)
  BY <1>1, OneLoud DEF op, Moved
<1> DEFINE g == Do(f, op)
           N == Names(d, T, C)
           M == N \ {op.column}
<1>3. /\ Names(g, T, C) = M \cup {op.name} /\ Names(e, T, C) = M \cup {op.name}
      /\ SameRows(d.rows[T], f.rows[T], N) /\ MovedRows(f.rows[T], g.rows[T], M, op.column, op.name)
      /\ SameRows(g.rows[T], e.rows[T], M \cup {op.name})
      /\ T \in DOMAIN e.columns /\ Shaped(e, T)
  BY <1>1, <1>2 DEF Moved, Unharmed, Keeps
<1> HIDE DEF g, e, op
<1>4. N = M \cup {op.column}
  BY DEF op
<1> HIDE DEF N, M
<1>5. MovedRows(d.rows[T], g.rows[T], M, op.column, op.name)
  BY <1>3, <1>4, SameThenMoved
<1>6. MovedRows(d.rows[T], e.rows[T], M, op.column, op.name)
  BY <1>3, <1>5, MovedThenSame
<1> QED BY <1>3, <1>6 DEF Moved, e, op, N, M

-----------------------------------------------------------------------------
(* The tables of objects, records and types behind core migration c.           *)

ObjectColumns == {"id", "object_type", "version", "data", "object_type_fk"}
RecordColumns == {"id", "object", "data", "material_date", "start_date", "start_at",
                  "version", "index"}
TypeFields    == {"id", "uuid", "service"}

\* The columns that are tracked of each table behind core migration c.
ObjectNames(c) ==
  {"id"} \cup (IF c # 23 THEN {"object_type"} ELSE {})
  \cup (IF c <= 10 THEN {"version"} ELSE {}) \cup (IF c <= 4 THEN {"data"} ELSE {})
  \cup (IF c \in 21..23 THEN {"object_type_fk"} ELSE {})

\* The column that has the start of a record.
Start(c) == IF c <= 5 THEN "material_date" ELSE IF c <= 15 THEN "start_date" ELSE "start_at"

RecordNames(c) ==
  {"id", "object", "data", Start(c)}
  \cup (IF c >= 9 THEN {"version"} ELSE {}) \cup (IF c >= 18 THEN {"index"} ELSE {})

TypeNames(c) == {"id", "uuid"} \cup (IF c <= 38 THEN {"service"} ELSE {})

\* The three tables behind core migration c: their columns, and where no rows are yet.
ObjectTable(d, c) ==
  /\ Shaped(d, "object")
  /\ IF c = 0 THEN Absent(d, "object") ELSE HasNames(d, "object", ObjectColumns, ObjectNames(c))
  /\ c = 21 => \A o \in d.rows["object"] : o.object_type_fk = Null

RecordTable(d, c) ==
  /\ Shaped(d, "objectrecord")
  /\ IF c <= 2 THEN Absent(d, "objectrecord")
     ELSE HasNames(d, "objectrecord", RecordColumns, RecordNames(c))
  /\ c = 3 => d.rows["objectrecord"] = {}

TypesTable(d, c) ==
  /\ Shaped(d, "objecttype")
  /\ IF c <= 20 THEN Absent(d, "objecttype") ELSE HasNames(d, "objecttype", TypeFields, TypeNames(c))
  /\ c = 21 => d.rows["objecttype"] = {}

\* What they say.
Link(c, o) == IF c \in 22..23 THEN o.object_type_fk ELSE o.object_type
Obj(c, o)  == [id |-> o.id, link |-> Link(c, o),
               version |-> IF c <= 9 THEN o.version ELSE Null,
               data |-> IF c <= 3 THEN o.data ELSE Null]
Rec(c, r)  == [id |-> r.id, object |-> r.object, data |-> r.data,
               at |-> IF c <= 18 THEN r[Start(c)] ELSE r.index,
               version |-> IF c >= 10 THEN r.version ELSE Null]
Typ(c, t)  == [id |-> t.id, uuid |-> t.uuid, service |-> IF c <= 38 THEN t.service ELSE Null]

Objs(d, c) == IF c = 0 THEN {} ELSE {Obj(c, o) : o \in d.rows["object"]}
Recs(d, c) == IF c <= 3 THEN {} ELSE {Rec(c, r) : r \in d.rows["objectrecord"]}
Typs(d, c) == IF c <= 20 THEN {} ELSE {Typ(c, t) : t \in d.rows["objecttype"]}

\* What a migration makes of it.
LinkOf(url) == IF HasType(url) THEN TypeId(url) ELSE Null
ObjAfter(k, o) ==
  IF k = 4 THEN [o EXCEPT !.data = Null]
  ELSE IF k = 10 THEN [o EXCEPT !.version = Null]
  ELSE IF k = 22 THEN [o EXCEPT !.link = LinkOf(o.link)]
  ELSE o
ObjsAfter(k, O) == IF k = 25 THEN {o \in O : o.link # Null} ELSE {ObjAfter(k, o) : o \in O}

-----------------------------------------------------------------------------
(* Which migrations leave which tables alone.                                  *)

QuietObjects(ops) == IsOps(ops) /\ QuietOps(ops, "object", ObjectColumns)
QuietRecords(ops) == IsOps(ops) /\ QuietOps(ops, "objectrecord", RecordColumns)
QuietFields(ops)  == IsOps(ops) /\ QuietOps(ops, "objecttype", TypeFields)

\* Text columns of object types are not tracked.
LEMMA TextsQuiet ==
  ASSUME NEW columns \in Seq(Texts)
  PROVE  LET a == Each(columns, LAMBDA c : AddField("objecttype", c, Required))
         IN /\ IsSeq(a) /\ QuietObjects(a) /\ QuietRecords(a) /\ QuietFields(a)
<1> DEFINE a == [i \in DOMAIN columns |-> AddField("objecttype", columns[i], Required)]
<1>1. Each(columns, LAMBDA c : AddField("objecttype", c, Required)) = a
  BY DEF Each
<1>2. Len(columns) \in Nat /\ DOMAIN columns = 1..Len(columns)
      /\ \A i \in 1..Len(columns) : columns[i] \in Texts
  OBVIOUS
<1>3. Len(a) = Len(columns) /\ IsSeq(a)
  BY <1>2 DEF IsSeq, IsOps
<1>4. ASSUME NEW k \in 1..Len(columns)
      PROVE  a[k].do = "add" /\ a[k].table = "objecttype" /\ a[k].column \in Texts
  <2>1. a[k] = AddField("objecttype", columns[k], Required) /\ columns[k] \in Texts
    BY <1>2
  <2> HIDE DEF a
  <2> QED BY <2>1 DEF AddField, AddFieldAs
<1> HIDE DEF a
<1>5. QuietObjects(a) /\ QuietRecords(a) /\ QuietFields(a)
  BY <1>3, <1>4 DEF QuietObjects, QuietRecords, QuietFields, QuietOps, Quiet, IsSeq, Texts, TypeFields
<1> QED BY <1>1, <1>3, <1>5

\* Quiet sequences that are joined.
LEMMA QuietJoined ==
  ASSUME NEW a, NEW b, NEW T, NEW C, IsSeq(a), IsSeq(b), QuietOps(a, T, C), QuietOps(b, T, C)
  PROVE  IsSeq(a \o b) /\ QuietOps(a \o b, T, C)
<1> DEFINE c == a \o b
<1>1. /\ \A k \in 1..Len(a) : c[k] = a[k]
      /\ \A k \in 1..Len(b) : c[Len(a) + k] = b[k]
      /\ \A k \in 1..Len(c) : k \in 1..Len(a) \/ k - Len(a) \in 1..Len(b)
      /\ Len(a) \in Nat /\ IsSeq(c)
  BY Joined DEF IsSeq, IsOps
<1> HIDE DEF c
<1>2. ASSUME NEW k \in 1..Len(c)
      PROVE  Quiet(c[k], T, C)
  <2>1. CASE k \in 1..Len(a)
    BY <1>1, <2>1 DEF QuietOps
  <2>2. CASE k - Len(a) \in 1..Len(b)
    <3>1. c[Len(a) + (k - Len(a))] = b[k - Len(a)] /\ Len(a) + (k - Len(a)) = k
      BY <1>1, <2>2
    <3> QED BY <2>2, <3>1 DEF QuietOps
  <2> QED BY <1>1, <2>1, <2>2
<1>3. IsSeq(c) /\ QuietOps(c, T, C)
  BY <1>1, <1>2 DEF QuietOps
<1> QED BY <1>3 DEF c

\* Nor are those of core 0035.
LEMMA Core35Quiet == QuietObjects(Core35) /\ QuietRecords(Core35) /\ QuietFields(Core35)
<1> DEFINE a == Each(TypeTexts, LAMBDA c : AddField("objecttype", c, Required))
           b == <<AddField("objecttype", "created_at", Optional),
                  AddField("objecttype", "modified_at", Optional),
                  CreateModel("objecttypeversion", VersionColumns),
                  AlterUniqueTogether("objecttypeversion", {{"object_type", "version"}})>>
<1>1. IsSeq(a) /\ QuietObjects(a) /\ QuietRecords(a) /\ QuietFields(a)
  BY TextsOf, TextsQuiet
<1>2. IsSeq(b) /\ QuietObjects(b) /\ QuietRecords(b) /\ QuietFields(b)
  BY DEF IsSeq, IsOps, QuietObjects, QuietRecords, QuietFields, QuietOps, Quiet, TypeFields,
         CreateModel, AddField, AddFieldAs, AlterUniqueTogether
<1>3. Core35 = a \o b
  BY DEF Core35
<1> HIDE DEF a, b
<1> QED BY <1>1, <1>2, <1>3, QuietJoined DEF QuietObjects, QuietRecords, QuietFields, IsSeq

\* All but eight core migrations leave objects alone.
LEMMA ObjectsAlone ==
  ASSUME NEW k \in 1..40 \ {1, 5, 11, 21, 22, 23, 24, 25}
  PROVE  QuietObjects(Core[k])
<1> USE DEF QuietObjects, IsOps, QuietOps, Quiet, QuietCode, ObjectColumns, CreateModel, AddField,
        AddFieldAs, AlterField, AlterFieldAs, RemoveField, RenameField, AlterUniqueTogether,
        AddIndex, RunPython
<1>2. QuietObjects(Core02)
  BY DEF Core02
<1>3. QuietObjects(Core03)
  BY DEF Core03
<1>4. QuietObjects(Core04)
  BY DEF Core04
<1>6. QuietObjects(Core06)
  BY DEF Core06
<1>7. QuietObjects(Core07)
  BY DEF Core07
<1>8. QuietObjects(Core08)
  BY DEF Core08
<1>9. QuietObjects(Core09)
  BY DEF Core09
<1>10. QuietObjects(Core10)
  BY DEF Core10
<1>12. QuietObjects(Core12)
  BY DEF Core12
<1>13. QuietObjects(Core13)
  BY DEF Core13
<1>14. QuietObjects(Core14)
  BY DEF Core14
<1>15. QuietObjects(Core15)
  BY DEF Core15
<1>16. QuietObjects(Core16)
  BY DEF Core16
<1>17. QuietObjects(Core17)
  BY DEF Core17
<1>18. QuietObjects(Core18)
  BY DEF Core18
<1>19. QuietObjects(Core19)
  BY DEF Core19
<1>20. QuietObjects(Core20)
  BY DEF Core20
<1>26. QuietObjects(Core26)
  BY DEF Core26
<1>27. QuietObjects(Core27)
  BY DEF Core27
<1>28. QuietObjects(Core28)
  BY DEF Core28
<1>29. QuietObjects(Core29)
  BY DEF Core29
<1>30. QuietObjects(Core30)
  BY DEF Core30
<1>31. QuietObjects(Core31)
  BY DEF Core31
<1>32. QuietObjects(Core32)
  BY DEF Core32
<1>33. QuietObjects(Core33)
  BY DEF Core33
<1>34. QuietObjects(Core34)
  BY DEF Core34
<1>36. QuietObjects(Core36)
  BY DEF Core36
<1>37. QuietObjects(Core37)
  BY DEF Core37
<1>38. QuietObjects(Core38)
  BY DEF Core38
<1>39. QuietObjects(Core39)
  BY DEF Core39
<1>40. QuietObjects(Core40)
  BY DEF Core40
<1>35. QuietObjects(Core35)
  BY Core35Quiet
<1> HIDE DEF QuietObjects
<1> QED
  BY <1>2, <1>3, <1>4, <1>6, <1>7, <1>8, <1>9, <1>10, <1>12, <1>13, <1>14, <1>15,
     <1>16, <1>17, <1>18, <1>19, <1>20, <1>26, <1>27, <1>28, <1>29, <1>30, <1>31, <1>32,
     <1>33, <1>34, <1>35, <1>36, <1>37, <1>38, <1>39, <1>40 DEF Core

\* All but nine leave records alone.
LEMMA RecordsAlone ==
  ASSUME NEW k \in 1..40 \ {3, 4, 6, 9, 10, 16, 18, 19, 25}
  PROVE  QuietRecords(Core[k])
<1> USE DEF QuietRecords, IsOps, QuietOps, Quiet, QuietCode, RecordColumns, CreateModel, AddField,
        AddFieldAs, AlterField, AlterFieldAs, RemoveField, RenameField, AlterUniqueTogether,
        AddIndex, RunPython
<1>1. QuietRecords(Core01)
  BY DEF Core01
<1>2. QuietRecords(Core02)
  BY DEF Core02
<1>5. QuietRecords(Core05)
  BY DEF Core05
<1>7. QuietRecords(Core07)
  BY DEF Core07
<1>8. QuietRecords(Core08)
  BY DEF Core08
<1>11. QuietRecords(Core11)
  BY DEF Core11
<1>12. QuietRecords(Core12)
  BY DEF Core12
<1>13. QuietRecords(Core13)
  BY DEF Core13
<1>14. QuietRecords(Core14)
  BY DEF Core14
<1>15. QuietRecords(Core15)
  BY DEF Core15
<1>17. QuietRecords(Core17)
  BY DEF Core17
<1>20. QuietRecords(Core20)
  BY DEF Core20
<1>21. QuietRecords(Core21)
  BY DEF Core21
<1>22. QuietRecords(Core22)
  BY DEF Core22
<1>23. QuietRecords(Core23)
  BY DEF Core23
<1>24. QuietRecords(Core24)
  BY DEF Core24
<1>26. QuietRecords(Core26)
  BY DEF Core26
<1>27. QuietRecords(Core27)
  BY DEF Core27
<1>28. QuietRecords(Core28)
  BY DEF Core28
<1>29. QuietRecords(Core29)
  BY DEF Core29
<1>30. QuietRecords(Core30)
  BY DEF Core30
<1>31. QuietRecords(Core31)
  BY DEF Core31
<1>32. QuietRecords(Core32)
  BY DEF Core32
<1>33. QuietRecords(Core33)
  BY DEF Core33
<1>34. QuietRecords(Core34)
  BY DEF Core34
<1>36. QuietRecords(Core36)
  BY DEF Core36
<1>37. QuietRecords(Core37)
  BY DEF Core37
<1>38. QuietRecords(Core38)
  BY DEF Core38
<1>39. QuietRecords(Core39)
  BY DEF Core39
<1>40. QuietRecords(Core40)
  BY DEF Core40
<1>35. QuietRecords(Core35)
  BY Core35Quiet
<1> HIDE DEF QuietRecords
<1> QED
  BY <1>1, <1>2, <1>5, <1>7, <1>8, <1>11, <1>12, <1>13, <1>14, <1>15, <1>17, <1>20,
     <1>21, <1>22, <1>23, <1>24, <1>26, <1>27, <1>28, <1>29, <1>30, <1>31, <1>32, <1>33,
     <1>34, <1>35, <1>36, <1>37, <1>38, <1>39, <1>40 DEF Core

\* All but three leave the id, uuid and service of object types alone.
LEMMA FieldsAlone ==
  ASSUME NEW k \in 1..40 \ {21, 22, 39}
  PROVE  QuietFields(Core[k])
<1> USE DEF QuietFields, IsOps, QuietOps, Quiet, QuietCode, TypeFields, CreateModel, AddField,
        AddFieldAs, AlterField, AlterFieldAs, RemoveField, RenameField, AlterUniqueTogether,
        AddIndex, RunPython
<1>1. QuietFields(Core01)
  BY DEF Core01
<1>2. QuietFields(Core02)
  BY DEF Core02
<1>3. QuietFields(Core03)
  BY DEF Core03
<1>4. QuietFields(Core04)
  BY DEF Core04
<1>5. QuietFields(Core05)
  BY DEF Core05
<1>6. QuietFields(Core06)
  BY DEF Core06
<1>7. QuietFields(Core07)
  BY DEF Core07
<1>8. QuietFields(Core08)
  BY DEF Core08
<1>9. QuietFields(Core09)
  BY DEF Core09
<1>10. QuietFields(Core10)
  BY DEF Core10
<1>11. QuietFields(Core11)
  BY DEF Core11
<1>12. QuietFields(Core12)
  BY DEF Core12
<1>13. QuietFields(Core13)
  BY DEF Core13
<1>14. QuietFields(Core14)
  BY DEF Core14
<1>15. QuietFields(Core15)
  BY DEF Core15
<1>16. QuietFields(Core16)
  BY DEF Core16
<1>17. QuietFields(Core17)
  BY DEF Core17
<1>18. QuietFields(Core18)
  BY DEF Core18
<1>19. QuietFields(Core19)
  BY DEF Core19
<1>20. QuietFields(Core20)
  BY DEF Core20
<1>23. QuietFields(Core23)
  BY DEF Core23
<1>24. QuietFields(Core24)
  BY DEF Core24
<1>25. QuietFields(Core25)
  BY DEF Core25
<1>26. QuietFields(Core26)
  BY DEF Core26
<1>27. QuietFields(Core27)
  BY DEF Core27
<1>28. QuietFields(Core28)
  BY DEF Core28
<1>29. QuietFields(Core29)
  BY DEF Core29
<1>30. QuietFields(Core30)
  BY DEF Core30
<1>31. QuietFields(Core31)
  BY DEF Core31
<1>32. QuietFields(Core32)
  BY DEF Core32
<1>33. QuietFields(Core33)
  BY DEF Core33
<1>34. QuietFields(Core34)
  BY DEF Core34
<1>36. QuietFields(Core36)
  BY DEF Core36
<1>37. QuietFields(Core37)
  BY DEF Core37
<1>38. QuietFields(Core38)
  BY DEF Core38
<1>40. QuietFields(Core40)
  BY DEF Core40
<1>35. QuietFields(Core35)
  BY Core35Quiet
<1> HIDE DEF QuietFields
<1> QED
  BY <1>1, <1>2, <1>3, <1>4, <1>5, <1>6, <1>7, <1>8, <1>9, <1>10, <1>11, <1>12,
     <1>13, <1>14, <1>15, <1>16, <1>17, <1>18, <1>19, <1>20, <1>23, <1>24, <1>25, <1>26,
     <1>27, <1>28, <1>29, <1>30, <1>31, <1>32, <1>33, <1>34, <1>35, <1>36, <1>37, <1>38,
     <1>40 DEF Core

-----------------------------------------------------------------------------
(* The table of objects, migration by migration.                               *)

\* What migration k makes of objects: the table is as behind k, and says what ObjsAfter says.
ObjectsStep(d, e, k) == ObjectTable(e, k) /\ Objs(e, k) = ObjsAfter(k, Objs(d, k - 1))

\* What rows that correspond to each other say.
LEMMA ObjectsSame ==
  ASSUME NEW d, NEW e, NEW k \in 2..40, k # 25,
         NEW N, SameRows(d.rows["object"], e.rows["object"], N),
         \A r, s : Alike(r, s, N) => Obj(k, s) = ObjAfter(k, Obj(k - 1, r))
  PROVE  Objs(e, k) = ObjsAfter(k, Objs(d, k - 1))
<1> DEFINE R == d.rows["object"]
           S == e.rows["object"]
<1>1. Objs(e, k) = {Obj(k, s) : s \in S} /\ Objs(d, k - 1) = {Obj(k - 1, r) : r \in R}
  BY DEF Objs
<1>2. ObjsAfter(k, Objs(d, k - 1)) = {ObjAfter(k, Obj(k - 1, r)) : r \in R}
  BY <1>1 DEF ObjsAfter
<1>3. {Obj(k, s) : s \in S} = {ObjAfter(k, Obj(k - 1, r)) : r \in R}
  BY DEF SameRows
<1> QED BY <1>1, <1>2, <1>3

\* Rows that are alike say the same, but for the data after 0004 and the version after 0010.
LEMMA AlikeObjects ==
  ASSUME NEW k \in 2..40, k \notin {21, 22, 23, 24, 25}, NEW r, NEW s,
         NEW N, Alike(r, s, N), {"id", "object_type"} \subseteq N,
         k <= 10 => "version" \in N, k <= 4 => "data" \in N
  PROVE  Obj(k, s) = ObjAfter(k, Obj(k - 1, r))
<1>1. s.id = r.id /\ s.object_type = r.object_type /\ (k <= 10 => s.version = r.version)
      /\ (k <= 4 => s.data = r.data)
  BY DEF Alike
<1> QED BY <1>1 DEF Obj, ObjAfter, Link

\* The migrations that leave objects alone.
LEMMA ObjectsQuiet ==
  ASSUME NEW d, NEW k \in 1..40 \ {1, 5, 11, 21, 22, 23, 24, 25}, ObjectTable(d, k - 1)
  PROVE  ObjectsStep(d, Migrated(d, Core[k]), k)
<1> DEFINE e == Migrated(d, Core[k])
           N == ObjectNames(k)
<1>1. Unharmed(d, e, "object", ObjectColumns)
  BY ObjectsAlone, QuietMigration DEF QuietObjects, ObjectTable, ObjectColumns
<1> HIDE DEF e
<1>2. HasNames(d, "object", ObjectColumns, ObjectNames(k - 1)) /\ ObjectNames(k - 1) = N
      /\ {"id", "object_type"} \subseteq N /\ (k <= 10 => "version" \in N) /\ (k <= 4 => "data" \in N)
  BY DEF ObjectTable, ObjectNames
<1>3. ObjectTable(e, k) /\ SameRows(d.rows["object"], e.rows["object"], N)
  BY <1>1, <1>2 DEF Unharmed, Keeps, HasNames, ObjectTable
<1> HIDE DEF N
<1>4. ASSUME NEW r, NEW s, Alike(r, s, N)
      PROVE  Obj(k, s) = ObjAfter(k, Obj(k - 1, r))
  BY <1>2, <1>4, AlikeObjects
<1>5. Objs(e, k) = ObjsAfter(k, Objs(d, k - 1))
  <2>1. k \in 2..40 /\ k # 25
    OBVIOUS
  <2> QED BY <1>3, <1>4, <2>1, ObjectsSame, Zenon
<1> QED BY <1>3, <1>5 DEF ObjectsStep, e

\* 0001 creates the table, empty.
LEMMA Core01Objects ==
  ASSUME NEW d, ObjectTable(d, 0)
  PROVE  ObjectsStep(d, Migrated(d, Core01), 1) /\ Migrated(d, Core01).rows["object"] = {}
<1> DEFINE e == Migrated(d, Core01)
<1>1. OnlyLoud(Core01, 1, "object", ObjectColumns) /\ "id" \in ObjectColumns
  BY DEF Core01, OnlyLoud, IsOps, ObjectColumns
<1>2. /\ Core01[1].do = "create" /\ Core01[1].table = "object"
      /\ Core01[1].columns = Columns({"object_type", "version", "data"}, {}, {"uuid"})
  BY DEF Core01, CreateModel
<1>3. /\ Core01[1].columns["id"] = {"unique"}
      /\ DOMAIN Core01[1].columns \cap ObjectColumns = ObjectNames(1)
  BY <1>2 DEF Columns, Fields, ObjectColumns, ObjectNames
<1>4. Shaped(e, "object") /\ HasNames(e, "object", ObjectColumns, ObjectNames(1)) /\ e.rows["object"] = {}
  <2>1. Shaped(d, "object") /\ "object" \notin DOMAIN d.columns
    BY DEF ObjectTable, Absent
  <2> HIDE DEF e
  <2>2. /\ Shaped(e, "object")
        /\ HasNames(e, "object", ObjectColumns, DOMAIN Core01[1].columns \cap ObjectColumns)
        /\ e.rows["object"] = {}
    BY <1>1, <1>2, <1>3, <2>1, CreateOnce, Zenon DEF e
  <2> QED BY <1>3, <2>2
<1> HIDE DEF e
<1>5. ObjectTable(e, 1)
  BY <1>4 DEF ObjectTable
<1>6. Objs(e, 1) = ObjsAfter(1, Objs(d, 0))
  BY <1>4 DEF Objs, ObjsAfter
<1> QED BY <1>4, <1>5, <1>6 DEF ObjectsStep, e

\* 0005 and 0011 remove the data and the version, which records have by then.
LEMMA Core05Objects ==
  ASSUME NEW d, NEW k \in {5, 11}, ObjectTable(d, k - 1)
  PROVE  ObjectsStep(d, Migrated(d, Core[k]), k)
<1> DEFINE e == Migrated(d, Core[k])
           N == ObjectNames(k)
           column == IF k = 5 THEN "data" ELSE "version"
<1>1. Core[k] = <<RemoveField("object", column)>>
  BY DEF Core, Core05, Core11
<1>2. OnlyLoud(Core[k], 1, "object", ObjectColumns) /\ "id" \in ObjectColumns
  BY <1>1 DEF OnlyLoud, IsOps, ObjectColumns
<1>3. Core[k][1].do = "remove" /\ Core[k][1].table = "object" /\ Core[k][1].column = column
  BY <1>1 DEF RemoveField
<1>4. /\ HasNames(d, "object", ObjectColumns, ObjectNames(k - 1)) /\ Shaped(d, "object")
      /\ ObjectNames(k - 1) \ {column} = N
      /\ {"id", "object_type"} \subseteq N /\ (k <= 10 => "version" \in N)
  BY DEF ObjectTable, ObjectNames
<1>5. Removed(d, e, "object", ObjectColumns, column)
  BY <1>2, <1>3, <1>4, RemoveOnce DEF HasNames
<1> HIDE DEF e, column
<1>6. ObjectTable(e, k) /\ SameRows(d.rows["object"], e.rows["object"], N)
  BY <1>4, <1>5 DEF Removed, HasNames, ObjectTable
<1> HIDE DEF N
<1>7. ASSUME NEW r, NEW s, Alike(r, s, N)
      PROVE  Obj(k, s) = ObjAfter(k, Obj(k - 1, r))
  BY <1>4, <1>7, AlikeObjects
<1>8. Objs(e, k) = ObjsAfter(k, Objs(d, k - 1))
  <2>1. k \in 2..40 /\ k # 25
    OBVIOUS
  <2> QED BY <1>6, <1>7, <2>1, ObjectsSame, Zenon
<1> QED BY <1>6, <1>8 DEF ObjectsStep, e

\* 0021 adds the link to a type, null.
LEMMA Core21Objects ==
  ASSUME NEW d, ObjectTable(d, 20)
  PROVE  ObjectsStep(d, Migrated(d, Core21), 21)
<1> DEFINE e == Migrated(d, Core21)
           N == ObjectNames(20)
<1>1. OnlyLoud(Core21, 4, "object", ObjectColumns) /\ "id" \in ObjectColumns
  BY DEF Core21, OnlyLoud, IsOps, ObjectColumns, Quiet, AlterField, AlterFieldAs, CreateModel,
         AlterUniqueTogether
<1>2. /\ Core21[4].do = "add" /\ Core21[4].table = "object"
      /\ Core21[4].column = "object_type_fk" /\ Core21[4].value = Null
  BY DEF Core21, AddField, AddFieldAs, Optional
<1>3. /\ HasNames(d, "object", ObjectColumns, N) /\ Shaped(d, "object")
      /\ N = {"id", "object_type"}
      /\ ObjectNames(21) = {"id", "object_type", "object_type_fk"}
  BY DEF ObjectTable, ObjectNames
<1>4. Added(d, e, "object", ObjectColumns, "object_type_fk", Null)
  <2>1. "object_type_fk" \in ObjectColumns /\ "object_type_fk" \notin Names(d, "object", ObjectColumns)
    BY <1>3 DEF HasNames, ObjectColumns
  <2>2. "object" \in DOMAIN d.columns /\ 4 \in Nat /\ "object_type_fk" # "id"
    BY <1>3 DEF HasNames
  <2> HIDE DEF e, N
  <2> QED BY <1>1, <1>2, <1>3, <2>1, <2>2, AddOnce DEF e
<1> HIDE DEF e
<1>5. ObjectTable(e, 21) /\ SameRows(d.rows["object"], e.rows["object"], {"id", "object_type"})
  BY <1>3, <1>4 DEF Added, HasNames, ObjectTable, ObjectColumns
<1>6. ASSUME NEW r, NEW s, Alike(r, s, {"id", "object_type"})
      PROVE  Obj(21, s) = ObjAfter(21, Obj(21 - 1, r))
  BY <1>6 DEF Alike, Obj, ObjAfter, Link
<1>7. Objs(e, 21) = ObjsAfter(21, Objs(d, 21 - 1))
  <2>1. 21 \in 2..40 /\ 21 # 25
    OBVIOUS
  <2> QED BY <1>5, <1>6, <2>1, ObjectsSame, Zenon
<1> QED BY <1>5, <1>7 DEF ObjectsStep, e

\* 0022 makes a type for each URL that has one, and links each object to its own.
LEMMA Core22Does ==
  ASSUME NEW d, ObjectTable(d, 21), TypesTable(d, 21)
  PROVE  LET e == Migrated(d, Core22)
         IN /\ "columns" \in DOMAIN e /\ "rows" \in DOMAIN e /\ e.columns = d.columns
            /\ DOMAIN e.rows = DOMAIN d.rows
            /\ e.rows["objecttype"] = {TypeRow(d, id) : id \in TypeIds(d)}
            /\ e.rows["object"] = {Typed(object) : object \in d.rows["object"]}
            /\ \A T \in DOMAIN d.rows \ {"object", "objecttype"} : e.rows[T] = d.rows[T]
<1> DEFINE op == RunPython("move_objecttypes_to_model")
           e == MoveTypes(d)
           X == d.rows["objecttype"] \cup {TypeRow(d, id) : id \in TypeIds(d)}
           Y == {Typed(object) : object \in d.rows["object"]}
<1>1. Migrated(d, Core22) = e
  <2>1. Migrated(d, Core22) = Do(d, op)
    BY Unrolled DEF Core22
  <2>2. Do(d, op) = Python("move_objecttypes_to_model", d)
    BY DEF Do, RunPython
  <2> QED BY <2>1, <2>2 DEF Python
<1>2. /\ "columns" \in DOMAIN d /\ "rows" \in DOMAIN d /\ "objecttype" \in DOMAIN d.rows
      /\ "object" \in DOMAIN d.rows /\ d.rows["objecttype"] = {}
  BY DEF TypesTable, ObjectTable, Shaped, HasNames
<1>3. e = TwoTables(d, "objecttype", X, "object", Y)
  BY MoveTypesRows, Zenon
<1>4. X = {TypeRow(d, id) : id \in TypeIds(d)}
  BY <1>2
<1> HIDE DEF e, X, Y
<1>5. /\ "columns" \in DOMAIN e /\ "rows" \in DOMAIN e /\ e.columns = d.columns
      /\ DOMAIN e.rows = DOMAIN d.rows /\ e.rows["objecttype"] = X /\ e.rows["object"] = Y
      /\ \A T \in DOMAIN d.rows \ {"objecttype", "object"} : e.rows[T] = d.rows[T]
  BY <1>2, <1>3, TwoTablesRows
<1> QED BY <1>1, <1>4, <1>5 DEF Y

\* So an object has its link, or null where the URL has no service or uuid.
LEMMA Core22Objects ==
  ASSUME NEW d, ObjectTable(d, 21), TypesTable(d, 21)
  PROVE  ObjectsStep(d, Migrated(d, Core22), 22)
<1> DEFINE e == Migrated(d, Core22)
           R == d.rows["object"]
<1>1. /\ "columns" \in DOMAIN e /\ "rows" \in DOMAIN e /\ e.columns = d.columns
      /\ DOMAIN e.rows = DOMAIN d.rows /\ e.rows["object"] = {Typed(object) : object \in R}
  BY Core22Does
<1> HIDE DEF e
<1>2. /\ HasNames(d, "object", ObjectColumns, ObjectNames(21)) /\ Shaped(d, "object")
      /\ ObjectNames(21) = ObjectNames(22)
      /\ ObjectNames(21) = {"id", "object_type", "object_type_fk"}
  BY DEF ObjectTable, ObjectNames
<1>3. ASSUME NEW r \in R
      PROVE  DOMAIN Typed(r) = DOMAIN r /\ Obj(22, Typed(r)) = ObjAfter(22, Obj(21, r))
  <2>1. "object_type_fk" \in DOMAIN r /\ r.object_type_fk = Null
    BY <1>2 DEF ObjectTable, HasNames, Names, Shaped
  <2>2. CASE HasType(r.object_type)
    <3>1. Typed(r) = [r EXCEPT !.object_type_fk = TypeId(r.object_type)]
      BY <2>2 DEF Typed
    <3> QED BY <2>1, <2>2, <3>1 DEF Obj, ObjAfter, Link, LinkOf
  <2>3. CASE ~HasType(r.object_type)
    <3>1. Typed(r) = r
      BY <2>3 DEF Typed
    <3> QED BY <2>1, <2>3, <3>1 DEF Obj, ObjAfter, Link, LinkOf
  <2> QED BY <2>2, <2>3
<1>4. Shaped(e, "object") /\ HasNames(e, "object", ObjectColumns, ObjectNames(22))
  BY <1>1, <1>2, <1>3 DEF Shaped, HasNames, Names
<1>5. ObjectTable(e, 22)
  BY <1>4 DEF ObjectTable
<1>6. Objs(e, 22) = {Obj(22, Typed(r)) : r \in R}
  BY <1>1 DEF Objs
<1>7. ObjsAfter(22, Objs(d, 21)) = {ObjAfter(22, Obj(21, r)) : r \in R}
  BY DEF Objs, ObjsAfter
<1>8. {Obj(22, Typed(r)) : r \in R} = {ObjAfter(22, Obj(21, r)) : r \in R}
  BY <1>3, Zenon
<1>9. 22 - 1 = 21
  OBVIOUS
<1>10. Objs(e, 22) = ObjsAfter(22, Objs(d, 22 - 1))
  BY <1>6, <1>7, <1>8, <1>9, Zenon
<1> QED BY <1>5, <1>10 DEF ObjectsStep, e

\* 0023 removes the URL.
LEMMA Core23Objects ==
  ASSUME NEW d, ObjectTable(d, 22)
  PROVE  ObjectsStep(d, Migrated(d, Core23), 23)
<1> DEFINE e == Migrated(d, Core23)
           N == {"id", "object_type_fk"}
<1>1. OnlyLoud(Core23, 1, "object", ObjectColumns) /\ "id" \in ObjectColumns
  BY DEF Core23, OnlyLoud, IsOps, ObjectColumns
<1>2. Core23[1].do = "remove" /\ Core23[1].table = "object" /\ Core23[1].column = "object_type"
  BY DEF Core23, RemoveField
<1>3. /\ HasNames(d, "object", ObjectColumns, ObjectNames(22)) /\ Shaped(d, "object")
      /\ ObjectNames(22) \ {"object_type"} = N /\ ObjectNames(23) = N
  BY DEF ObjectTable, ObjectNames
<1>4. Removed(d, e, "object", ObjectColumns, "object_type")
  <2>1. "object" \in DOMAIN d.columns
    BY <1>3 DEF HasNames
  <2> HIDE DEF e
  <2> QED BY <1>1, <1>2, <1>3, <2>1, RemoveOnce DEF e
<1> HIDE DEF e
<1>5. ObjectTable(e, 23) /\ SameRows(d.rows["object"], e.rows["object"], N)
  BY <1>3, <1>4 DEF Removed, HasNames, ObjectTable
<1>6. ASSUME NEW r, NEW s, Alike(r, s, N)
      PROVE  Obj(23, s) = ObjAfter(23, Obj(23 - 1, r))
  BY <1>6 DEF Alike, Obj, ObjAfter, Link
<1>7. Objs(e, 23) = ObjsAfter(23, Objs(d, 23 - 1))
  <2>1. 23 \in 2..40 /\ 23 # 25
    OBVIOUS
  <2> QED BY <1>5, <1>6, <2>1, ObjectsSame, Zenon
<1> QED BY <1>5, <1>7 DEF ObjectsStep, e

\* 0024 gives the link the name of the URL.
LEMMA Core24Objects ==
  ASSUME NEW d, ObjectTable(d, 23)
  PROVE  ObjectsStep(d, Migrated(d, Core24), 24)
<1> DEFINE e == Migrated(d, Core24)
           R == d.rows["object"]
           S == e.rows["object"]
<1>1. OnlyLoud(Core24, 1, "object", ObjectColumns) /\ "id" \in ObjectColumns
  BY DEF Core24, OnlyLoud, IsOps, ObjectColumns
<1>2. /\ Core24[1].do = "rename" /\ Core24[1].table = "object"
      /\ Core24[1].column = "object_type_fk" /\ Core24[1].name = "object_type"
  BY DEF Core24, RenameField
<1>3. /\ HasNames(d, "object", ObjectColumns, ObjectNames(23)) /\ Shaped(d, "object")
      /\ ObjectNames(23) = {"id", "object_type_fk"} /\ ObjectNames(24) = {"id", "object_type"}
  BY DEF ObjectTable, ObjectNames
<1>4. Moved(d, e, "object", ObjectColumns, "object_type_fk", "object_type")
  <2>1. /\ "object" \in DOMAIN d.columns /\ "object_type" \in ObjectColumns
        /\ "object_type_fk" \in Names(d, "object", ObjectColumns)
        /\ "object_type" \notin Names(d, "object", ObjectColumns)
        /\ "object_type_fk" # "id" /\ "object_type" # "id"
    BY <1>3 DEF HasNames, ObjectColumns
  <2>2. /\ Core24[1].column \in Names(d, "object", ObjectColumns)
        /\ Core24[1].name \in ObjectColumns
        /\ Core24[1].name \notin Names(d, "object", ObjectColumns)
        /\ Core24[1].column # "id" /\ Core24[1].name # "id"
    BY <1>2, <2>1
  <2>3. Moved(d, e, "object", ObjectColumns, Core24[1].column, Core24[1].name)
    BY <1>1, <1>2, <1>3, <2>1, <2>2, RenameOnce, Zenon
  <2> QED BY <1>2, <2>3
<1> HIDE DEF e
<1>5. ObjectTable(e, 24) /\ MovedRows(R, S, {"id"}, "object_type_fk", "object_type")
  BY <1>3, <1>4 DEF Moved, HasNames, ObjectTable
<1>6. ASSUME NEW r, NEW s, Alike(r, s, {"id"}), s.object_type = r.object_type_fk
      PROVE  Obj(24, s) = ObjAfter(24, Obj(23, r))
  BY <1>6 DEF Alike, Obj, ObjAfter, Link
<1>7. Objs(e, 24) = {Obj(24, s) : s \in S} /\ ObjsAfter(24, Objs(d, 23)) = {ObjAfter(24, Obj(23, r)) : r \in R}
  BY DEF Objs, ObjsAfter
<1>8. {Obj(24, s) : s \in S} = {ObjAfter(24, Obj(23, r)) : r \in R}
  BY <1>5, <1>6 DEF MovedRows
<1>9. Objs(e, 24) = ObjsAfter(24, Objs(d, 24 - 1))
  BY <1>7, <1>8
<1> QED BY <1>5, <1>9 DEF ObjectsStep, e

\* 0025 deletes the objects that have no link, and their records.
LEMMA Core25Does ==
  ASSUME NEW d, ObjectTable(d, 24), RecordTable(d, 24)
  PROVE  LET e == Migrated(d, Core25)
         IN /\ "columns" \in DOMAIN e /\ "rows" \in DOMAIN e /\ e.columns = d.columns
            /\ DOMAIN e.rows = DOMAIN d.rows
            /\ e.rows["object"] = Kept(d)
            /\ e.rows["objectrecord"] = {record \in d.rows["objectrecord"] :
                                           \E object \in Kept(d) : object.id = record.object}
            /\ \A T \in DOMAIN d.rows \ {"object", "objectrecord"} : e.rows[T] = d.rows[T]
<1> DEFINE op == RunPython("remove_objects_with_empty_object_type")
           e == RemoveUntyped(d)
           X == Kept(d)
           Y == {record \in d.rows["objectrecord"] : \E object \in Kept(d) : object.id = record.object}
<1>1. Migrated(d, Core25) = e
  <2>1. Migrated(d, Core25) = Do(d, op)
    BY Unrolled DEF Core25
  <2>2. Do(d, op) = Python("remove_objects_with_empty_object_type", d)
    BY DEF Do, RunPython
  <2> QED BY <2>1, <2>2 DEF Python
<1>2. /\ "columns" \in DOMAIN d /\ "rows" \in DOMAIN d /\ "objectrecord" \in DOMAIN d.rows
      /\ "object" \in DOMAIN d.rows
  BY DEF RecordTable, ObjectTable, Shaped, HasNames
<1>3. e = TwoTables(d, "object", X, "objectrecord", Y)
  BY RemoveUntypedRows, Zenon
<1> HIDE DEF e, X, Y
<1>4. /\ "columns" \in DOMAIN e /\ "rows" \in DOMAIN e /\ e.columns = d.columns
      /\ DOMAIN e.rows = DOMAIN d.rows /\ e.rows["object"] = X /\ e.rows["objectrecord"] = Y
      /\ \A T \in DOMAIN d.rows \ {"object", "objectrecord"} : e.rows[T] = d.rows[T]
  BY <1>2, <1>3, TwoTablesRows
<1> QED BY <1>1, <1>4 DEF X, Y

\* The other objects stay as they were.
LEMMA Core25Objects ==
  ASSUME NEW d, ObjectTable(d, 24), RecordTable(d, 24)
  PROVE  ObjectsStep(d, Migrated(d, Core25), 25)
<1> DEFINE e == Migrated(d, Core25)
           R == d.rows["object"]
<1>1. /\ "columns" \in DOMAIN e /\ "rows" \in DOMAIN e /\ e.columns = d.columns
      /\ DOMAIN e.rows = DOMAIN d.rows /\ e.rows["object"] = {r \in R : r.object_type # Null}
  BY Core25Does DEF Kept
<1> HIDE DEF e
<1>2. /\ HasNames(d, "object", ObjectColumns, ObjectNames(24)) /\ Shaped(d, "object")
      /\ ObjectNames(24) = ObjectNames(25)
  BY DEF ObjectTable, ObjectNames
<1>3. ObjectTable(e, 25)
  BY <1>1, <1>2 DEF ObjectTable, Shaped, HasNames, Names
<1>4. \A r : Obj(25, r) = Obj(24, r) /\ Obj(24, r).link = r.object_type
  BY DEF Obj, Link
<1>5. /\ Objs(e, 25) = {Obj(25, r) : r \in {s \in R : s.object_type # Null}}
      /\ Objs(d, 24) = {Obj(24, r) : r \in R}
      /\ ObjsAfter(25, Objs(d, 24)) = {o \in Objs(d, 24) : o.link # Null}
  BY <1>1 DEF Objs, ObjsAfter
<1>6. Objs(e, 25) = ObjsAfter(25, Objs(d, 25 - 1))
  BY <1>4, <1>5
<1> QED BY <1>3, <1>6 DEF ObjectsStep, e

\* Every core migration does to objects what ObjsAfter says.
LEMMA CoreObjects ==
  ASSUME NEW d, NEW k \in 1..40,
         ObjectTable(d, k - 1), RecordTable(d, k - 1), TypesTable(d, k - 1)
  PROVE  ObjectsStep(d, Migrated(d, Core[k]), k)
<1>1. CASE k \notin {1, 5, 11, 21, 22, 23, 24, 25}
  BY <1>1, ObjectsQuiet
<1>2. CASE k = 1
  BY <1>2, Core01Objects DEF Core
<1>3. CASE k \in {5, 11}
  BY <1>3, Core05Objects
<1>4. CASE k = 21
  BY <1>4, Core21Objects DEF Core
<1>5. CASE k = 22
  BY <1>5, Core22Objects DEF Core
<1>6. CASE k = 23
  BY <1>6, Core23Objects DEF Core
<1>7. CASE k = 24
  BY <1>7, Core24Objects DEF Core
<1>8. CASE k = 25
  BY <1>8, Core25Objects DEF Core
<1> QED BY <1>1, <1>2, <1>3, <1>4, <1>5, <1>6, <1>7, <1>8

-----------------------------------------------------------------------------
(* The table of object types.                                                  *)

\* What migration k makes of types: of the URLs of the objects O in 0022; 0039 drops the service.
TypsAfter(k, Y, O) ==
  IF k = 22 THEN {[id |-> i, uuid |-> i[2], service |-> i[1]] :
                    i \in {TypeId(o.link) : o \in {p \in O : HasType(p.link)}}}
  ELSE IF k = 39 THEN {[y EXCEPT !.service = Null] : y \in Y}
  ELSE Y

TypesStep(d, e, k) == TypesTable(e, k) /\ Typs(e, k) = TypsAfter(k, Typs(d, k - 1), Objs(d, k - 1))

\* Rows that are alike say the same type.
LEMMA TypesSame ==
  ASSUME NEW d, NEW e, NEW k \in 22..40 \ {22, 39}, NEW N, {"id", "uuid"} \subseteq N,
         k <= 38 => "service" \in N, SameRows(d.rows["objecttype"], e.rows["objecttype"], N)
  PROVE  Typs(e, k) = Typs(d, k - 1)
<1> DEFINE R == d.rows["objecttype"]
           S == e.rows["objecttype"]
<1>1. Typs(e, k) = {Typ(k, s) : s \in S} /\ Typs(d, k - 1) = {Typ(k - 1, r) : r \in R}
  BY DEF Typs
<1>2. ASSUME NEW r \in R, NEW s \in S, Alike(r, s, N)
      PROVE  Typ(k, s) = Typ(k - 1, r)
  <2>1. s.id = r.id /\ s.uuid = r.uuid /\ (k <= 38 => s.service = r.service)
    BY <1>2 DEF Alike
  <2> QED BY <2>1 DEF Typ
<1>3. {Typ(k, s) : s \in S} = {Typ(k - 1, r) : r \in R}
  BY <1>2 DEF SameRows
<1> QED BY <1>1, <1>3

\* The migrations that leave types alone.
LEMMA TypesQuietStep ==
  ASSUME NEW d, NEW k \in 1..40 \ {21, 22, 39}, TypesTable(d, k - 1)
  PROVE  TypesStep(d, Migrated(d, Core[k]), k)
<1> DEFINE e == Migrated(d, Core[k])
           N == TypeNames(k)
<1>1. Unharmed(d, e, "objecttype", TypeFields)
  BY FieldsAlone, QuietMigration DEF QuietFields, TypesTable, TypeFields
<1> HIDE DEF e
<1>2. CASE k <= 20
  <2>1. TypesTable(e, k)
    BY <1>1, <1>2 DEF Unharmed, Keeps, TypesTable, Absent
  <2>2. Typs(e, k) = {} /\ Typs(d, k - 1) = {}
    BY <1>2 DEF Typs
  <2> QED BY <1>2, <2>1, <2>2 DEF TypesStep, TypsAfter, e
<1>3. CASE k >= 23
  <2>1. /\ HasNames(d, "objecttype", TypeFields, N) /\ {"id", "uuid"} \subseteq N
        /\ k <= 38 => "service" \in N
    BY <1>3 DEF TypesTable, TypeNames
  <2>2. TypesTable(e, k) /\ SameRows(d.rows["objecttype"], e.rows["objecttype"], N)
    BY <1>1, <1>3, <2>1 DEF Unharmed, Keeps, HasNames, TypesTable
  <2>3. k \in 22..40 \ {22, 39}
    BY <1>3
  <2>4. Typs(e, k) = Typs(d, k - 1)
    BY <2>1, <2>2, <2>3, TypesSame
  <2> QED BY <1>3, <2>2, <2>4 DEF TypesStep, TypsAfter, e
<1> QED BY <1>2, <1>3

\* 0021 creates the table, empty.
LEMMA Core21Fields ==
  ASSUME NEW d, TypesTable(d, 20)
  PROVE  TypesStep(d, Migrated(d, Core21), 21)
<1> DEFINE e == Migrated(d, Core21)
<1>1. OnlyLoud(Core21, 2, "objecttype", TypeFields) /\ "id" \in TypeFields
  BY DEF Core21, OnlyLoud, IsOps, TypeFields, Quiet, AlterField, AlterFieldAs, AddField, AddFieldAs,
         AlterUniqueTogether
<1>2. /\ Core21[2].do = "create" /\ Core21[2].table = "objecttype"
      /\ Core21[2].columns = Columns({"uuid", "_name", "service"}, {}, {})
  BY DEF Core21, CreateModel
<1>3. /\ Core21[2].columns["id"] = {"unique"}
      /\ DOMAIN Core21[2].columns \cap TypeFields = TypeNames(21)
  BY <1>2 DEF Columns, Fields, TypeFields, TypeNames
<1>4. Shaped(d, "objecttype") /\ "objecttype" \notin DOMAIN d.columns
  BY DEF TypesTable, Absent
<1>5. /\ Shaped(e, "objecttype")
      /\ HasNames(e, "objecttype", TypeFields, DOMAIN Core21[2].columns \cap TypeFields)
      /\ e.rows["objecttype"] = {}
  BY <1>1, <1>2, <1>3, <1>4, CreateOnce, Zenon
<1> HIDE DEF e
<1>6. TypesTable(e, 21)
  BY <1>3, <1>5 DEF TypesTable
<1>7. Typs(e, 21) = {} /\ Typs(d, 20) = {}
  BY <1>5 DEF Typs
<1> QED BY <1>6, <1>7 DEF TypesStep, TypsAfter, e

\* 0022 fills it.
LEMMA Core22Fields ==
  ASSUME NEW d, ObjectTable(d, 21), TypesTable(d, 21)
  PROVE  TypesStep(d, Migrated(d, Core22), 22)
<1> DEFINE e == Migrated(d, Core22)
           R == d.rows["object"]
           I == TypeIds(d)
<1>1. /\ "columns" \in DOMAIN e /\ "rows" \in DOMAIN e /\ e.columns = d.columns
      /\ DOMAIN e.rows = DOMAIN d.rows
      /\ e.rows["objecttype"] = {TypeRow(d, id) : id \in I}
  BY Core22Does
<1> HIDE DEF e
<1>2. /\ HasNames(d, "objecttype", TypeFields, TypeNames(21)) /\ Shaped(d, "objecttype")
      /\ TypeNames(21) = TypeNames(22) /\ TypeNames(21) = {"id", "uuid", "service"}
  BY DEF TypesTable, TypeNames
<1>3. ASSUME NEW i
      PROVE  /\ DOMAIN TypeRow(d, i) = DOMAIN d.columns["objecttype"]
             /\ Typ(22, TypeRow(d, i)) = [id |-> i, uuid |-> i[2], service |-> i[1]]
  <2>1. {"id", "uuid", "service"} \subseteq DOMAIN d.columns["objecttype"]
    BY <1>2 DEF HasNames, Names
  <2> QED BY <2>1 DEF TypeRow, RowOf, Typ
<1>4. Shaped(e, "objecttype") /\ HasNames(e, "objecttype", TypeFields, TypeNames(22))
  BY <1>1, <1>2, <1>3 DEF Shaped, HasNames, Names
<1>5. TypesTable(e, 22)
  BY <1>4 DEF TypesTable
<1>6. I = {TypeId(o.link) : o \in {p \in Objs(d, 21) : HasType(p.link)}}
  <2>1. Objs(d, 21) = {Obj(21, r) : r \in R} /\ \A r : Obj(21, r).link = r.object_type
    BY DEF Objs, Obj, Link
  <2> DEFINE J == {TypeId(o.link) : o \in {p \in Objs(d, 21) : HasType(p.link)}}
  <2>2. ASSUME NEW x
        PROVE  x \in I <=> \E r \in R : HasType(r.object_type) /\ x = TypeId(r.object_type)
    BY DEF TypeIds
  <2>3. ASSUME NEW x
        PROVE  x \in J <=> \E r \in R : HasType(r.object_type) /\ x = TypeId(r.object_type)
    BY <2>1
  <2> HIDE DEF I, J
  <2>4. I = J
    BY <2>2, <2>3
  <2> QED BY <2>4 DEF J
<1>7. Typs(e, 22) = {[id |-> i, uuid |-> i[2], service |-> i[1]] : i \in I}
  <2>1. Typs(e, 22) = {Typ(22, TypeRow(d, i)) : i \in I}
    BY <1>1 DEF Typs
  <2> QED BY <1>3, <2>1, Zenon
<1>8. Typs(e, 22) = TypsAfter(22, Typs(d, 22 - 1), Objs(d, 22 - 1))
  <2>1. 22 - 1 = 21
    OBVIOUS
  <2> QED BY <1>6, <1>7, <2>1, Zenon DEF TypsAfter
<1> QED BY <1>5, <1>8, Zenon DEF TypesStep, e

\* 0039 removes the service.
LEMMA Core39Fields ==
  ASSUME NEW d, TypesTable(d, 38)
  PROVE  TypesStep(d, Migrated(d, Core39), 39)
<1> DEFINE e == Migrated(d, Core39)
           R == d.rows["objecttype"]
           S == e.rows["objecttype"]
<1>1. OnlyLoud(Core39, 12, "objecttype", TypeFields) /\ "id" \in TypeFields
  BY DEF Core39, OnlyLoud, IsOps, TypeFields, Quiet, AlterField, AlterFieldAs, RemoveField,
         AlterUniqueTogether
<1>2. Core39[12].do = "remove" /\ Core39[12].table = "objecttype" /\ Core39[12].column = "service"
  BY DEF Core39, RemoveField
<1>3. /\ HasNames(d, "objecttype", TypeFields, TypeNames(38)) /\ Shaped(d, "objecttype")
      /\ TypeNames(38) \ {"service"} = {"id", "uuid"} /\ TypeNames(39) = {"id", "uuid"}
  BY DEF TypesTable, TypeNames
<1>4. Removed(d, e, "objecttype", TypeFields, "service")
  <2>1. "objecttype" \in DOMAIN d.columns
    BY <1>3 DEF HasNames
  <2>2. Removed(d, e, "objecttype", TypeFields, Core39[12].column)
    BY <1>1, <1>2, <1>3, <2>1, RemoveOnce, Zenon
  <2> QED BY <1>2, <2>2
<1> HIDE DEF e
<1>5. TypesTable(e, 39) /\ SameRows(R, S, {"id", "uuid"})
  BY <1>3, <1>4 DEF Removed, HasNames, TypesTable
<1>6. ASSUME NEW r, NEW s, Alike(r, s, {"id", "uuid"})
      PROVE  Typ(39, s) = [Typ(38, r) EXCEPT !.service = Null]
  BY <1>6 DEF Alike, Typ
<1>7. /\ Typs(e, 39) = {Typ(39, s) : s \in S}
      /\ TypsAfter(39, Typs(d, 38), Objs(d, 38)) = {[Typ(38, r) EXCEPT !.service = Null] : r \in R}
  BY DEF Typs, TypsAfter
<1>8. {Typ(39, s) : s \in S} = {[Typ(38, r) EXCEPT !.service = Null] : r \in R}
  BY <1>5, <1>6 DEF SameRows
<1>9. 39 - 1 = 38
  OBVIOUS
<1> QED BY <1>5, <1>7, <1>8, <1>9 DEF TypesStep, e

\* Every core migration does to types what TypsAfter says.
LEMMA CoreFields ==
  ASSUME NEW d, NEW k \in 1..40, ObjectTable(d, k - 1), TypesTable(d, k - 1)
  PROVE  TypesStep(d, Migrated(d, Core[k]), k)
<1>1. CASE k \notin {21, 22, 39}
  BY <1>1, TypesQuietStep
<1>2. CASE k = 21
  BY <1>2, Core21Fields DEF Core
<1>3. CASE k = 22
  BY <1>3, Core22Fields DEF Core
<1>4. CASE k = 39
  BY <1>4, Core39Fields DEF Core
<1> QED BY <1>1, <1>2, <1>3, <1>4

-----------------------------------------------------------------------------
(* The table of records.                                                       *)

\* The object with an id.
ObjOf(O, id) == CHOOSE o \in O : o.id = id

\* Of the records that are told, those of the object of v up to v.
UpToOf(Re, v) ==
  {q \in Re : q.object = v.object /\ (q.at < v.at \/ (q.at = v.at /\ q.id <= v.id))}
Rank(Re, v) == Cardinality({q.id : q \in UpToOf(Re, v)})

\* The record that 0004 makes of an object.
FirstRec(o) == [id |-> o.id, object |-> o.id, data |-> o.data, at |-> Today, version |-> Null]

\* What migration k makes of records: 0004 makes them, 0010 gives them the version of their
\* object, 0019 numbers them, 0025 deletes those of an object without a link.
RecsAfter(k, Re, O) ==
  IF k = 4 THEN {FirstRec(o) : o \in O}
  ELSE IF k = 10 THEN {[v EXCEPT !.version = ObjOf(O, v.object).version] : v \in Re}
  ELSE IF k = 19 THEN {[v EXCEPT !.at = Rank(Re, v)] : v \in Re}
  ELSE IF k = 25 THEN {v \in Re : \E o \in O : o.link # Null /\ o.id = v.object}
  ELSE Re

RecordsStep(d, e, k) ==
  RecordTable(e, k) /\ Recs(e, k) = RecsAfter(k, Recs(d, k - 1), Objs(d, k - 1))

\* Rows that are alike say the same record.
LEMMA RecordsSame ==
  ASSUME NEW d, NEW e, NEW k \in 5..40,
         NEW N, SameRows(d.rows["objectrecord"], e.rows["objectrecord"], N),
         \A r, s : Alike(r, s, N) => Rec(k, s) = Rec(k - 1, r)
  PROVE  Recs(e, k) = Recs(d, k - 1)
<1> DEFINE R == d.rows["objectrecord"]
           S == e.rows["objectrecord"]
<1>1. Recs(e, k) = {Rec(k, s) : s \in S} /\ Recs(d, k - 1) = {Rec(k - 1, r) : r \in R}
  BY DEF Recs
<1>2. {Rec(k, s) : s \in S} = {Rec(k - 1, r) : r \in R}
  BY DEF SameRows
<1> QED BY <1>1, <1>2

\* So do rows of which the tracked columns are alike.
LEMMA AlikeRecords ==
  ASSUME NEW k \in 5..40, k \notin {6, 10, 16, 19}, NEW r, NEW s, NEW N, Alike(r, s, N),
         {"id", "object", "data"} \subseteq N, k <= 18 => Start(k) \in N,
         k >= 10 => "version" \in N, k >= 19 => "index" \in N
  PROVE  Rec(k, s) = Rec(k - 1, r)
<1>1. s.id = r.id /\ s.object = r.object /\ s.data = r.data
      /\ (k >= 10 => s.version = r.version) /\ (k >= 19 => s.index = r.index)
      /\ (k <= 18 => s[Start(k)] = r[Start(k)])
  BY DEF Alike
<1>2. Start(k) = Start(k - 1)
  BY DEF Start
<1> QED BY <1>1, <1>2 DEF Rec

\* The migrations that leave records alone.
LEMMA RecordsQuiet ==
  ASSUME NEW d, NEW k \in 1..40 \ {3, 4, 6, 9, 10, 16, 18, 19, 25}, RecordTable(d, k - 1)
  PROVE  RecordsStep(d, Migrated(d, Core[k]), k)
<1> DEFINE e == Migrated(d, Core[k])
           N == RecordNames(k)
<1>1. Unharmed(d, e, "objectrecord", RecordColumns)
  BY RecordsAlone, QuietMigration DEF QuietRecords, RecordTable, RecordColumns
<1> HIDE DEF e
<1>2. CASE k <= 2
  <2>1. RecordTable(e, k)
    BY <1>1, <1>2 DEF Unharmed, Keeps, RecordTable, Absent
  <2>2. Recs(e, k) = {} /\ Recs(d, k - 1) = {}
    BY <1>2 DEF Recs
  <2> QED BY <1>2, <2>1, <2>2 DEF RecordsStep, RecsAfter, e
<1>3. CASE k >= 5
  <2>1. /\ HasNames(d, "objectrecord", RecordColumns, RecordNames(k - 1))
        /\ RecordNames(k - 1) = N /\ {"id", "object", "data"} \subseteq N /\ Start(k) \in N
        /\ (k >= 10 => "version" \in N) /\ (k >= 19 => "index" \in N)
    BY <1>3 DEF RecordTable, RecordNames, Start
  <2>2. RecordTable(e, k) /\ SameRows(d.rows["objectrecord"], e.rows["objectrecord"], N)
    BY <1>1, <1>3, <2>1 DEF Unharmed, Keeps, HasNames, RecordTable
  <2> HIDE DEF N
  <2>3. k \in 5..40 /\ k \notin {6, 10, 16, 19}
    BY <1>3
  <2>4. ASSUME NEW r, NEW s, Alike(r, s, N)
        PROVE  Rec(k, s) = Rec(k - 1, r)
    BY <2>1, <2>3, <2>4, AlikeRecords
  <2>5. Recs(e, k) = Recs(d, k - 1)
    BY <2>2, <2>3, <2>4, RecordsSame, Zenon
  <2> QED BY <1>3, <2>2, <2>5 DEF RecordsStep, RecsAfter, e
<1> QED BY <1>2, <1>3

\* 0003 creates the table, empty.
LEMMA Core03Records ==
  ASSUME NEW d, RecordTable(d, 2)
  PROVE  RecordsStep(d, Migrated(d, Core03), 3)
<1> DEFINE e == Migrated(d, Core03)
<1>1. OnlyLoud(Core03, 1, "objectrecord", RecordColumns) /\ "id" \in RecordColumns
  BY DEF Core03, OnlyLoud, IsOps, RecordColumns
<1>2. /\ Core03[1].do = "create" /\ Core03[1].table = "objectrecord"
      /\ Core03[1].columns = Columns({"data", "record_type", "material_date", "registration_date",
                                      "object"}, {}, {})
  BY DEF Core03, CreateModel
<1>3. /\ Core03[1].columns["id"] = {"unique"}
      /\ DOMAIN Core03[1].columns \cap RecordColumns = RecordNames(3)
  BY <1>2 DEF Columns, Fields, RecordColumns, RecordNames, Start
<1>4. Shaped(d, "objectrecord") /\ "objectrecord" \notin DOMAIN d.columns
  BY DEF RecordTable, Absent
<1>5. /\ Shaped(e, "objectrecord")
      /\ HasNames(e, "objectrecord", RecordColumns, DOMAIN Core03[1].columns \cap RecordColumns)
      /\ e.rows["objectrecord"] = {}
  BY <1>1, <1>2, <1>3, <1>4, CreateOnce, Zenon
<1> HIDE DEF e
<1>6. RecordTable(e, 3)
  BY <1>3, <1>5 DEF RecordTable
<1>7. Recs(e, 3) = {} /\ Recs(d, 2) = {}
  BY DEF Recs
<1> QED BY <1>6, <1>7 DEF RecordsStep, RecsAfter, e

\* 0004 makes a record of each object, that starts today.
LEMMA Core04Records ==
  ASSUME NEW d, RecordTable(d, 3), ObjectTable(d, 3)
  PROVE  RecordsStep(d, Migrated(d, Core04), 4)
<1> DEFINE op == RunPython("move_data_to_record")
           e == MoveData(d)
           R == d.rows["object"]
           Row(o) == RowOf(d, "objectrecord", [id |-> o.id, object |-> o.id, data |-> o.data,
                                               material_date |-> Today])
<1>1. Migrated(d, Core04) = e
  <2>1. Migrated(d, Core04) = Do(d, op)
    BY Unrolled DEF Core04
  <2>2. Do(d, op) = Python("move_data_to_record", d)
    BY DEF Do, RunPython
  <2> QED BY <2>1, <2>2 DEF Python
<1>2. /\ Shaped(d, "objectrecord") /\ d.rows["objectrecord"] = {}
      /\ HasNames(d, "objectrecord", RecordColumns, RecordNames(3))
      /\ RecordNames(3) = {"id", "object", "data", "material_date"} /\ RecordNames(3) = RecordNames(4)
      /\ Start(4) = "material_date"
  BY DEF RecordTable, RecordNames, Start
<1>3. /\ "columns" \in DOMAIN d /\ "rows" \in DOMAIN d /\ "objectrecord" \in DOMAIN d.rows
      /\ {"id", "object", "data", "material_date"} \subseteq DOMAIN d.columns["objectrecord"]
  BY <1>2 DEF Shaped, HasNames, Names
<1>4. /\ "columns" \in DOMAIN e /\ "rows" \in DOMAIN e /\ e.columns = d.columns
      /\ DOMAIN e.rows = DOMAIN d.rows
      /\ e.rows["objectrecord"] = d.rows["objectrecord"] \cup {Row(o) : o \in R}
  BY <1>3 DEF MoveData
<1>5. ASSUME NEW o
      PROVE  /\ DOMAIN Row(o) = DOMAIN d.columns["objectrecord"]
             /\ Rec(4, Row(o)) = FirstRec(Obj(3, o))
  BY <1>2, <1>3 DEF RowOf, Rec, FirstRec, Obj
<1> HIDE DEF e, Row
<1>6. e.rows["objectrecord"] = {Row(o) : o \in R}
  BY <1>2, <1>4
<1>7. RecordTable(e, 4)
  <2>1. Shaped(e, "objectrecord")
    BY <1>2, <1>4, <1>5, <1>6 DEF Shaped
  <2> QED BY <1>2, <1>4, <2>1 DEF RecordTable, HasNames, Names
<1>8. Recs(e, 4) = {Rec(4, Row(o)) : o \in R} /\ Objs(d, 3) = {Obj(3, o) : o \in R}
  BY <1>6 DEF Recs, Objs
<1>9. RecsAfter(4, Recs(d, 3), Objs(d, 3)) = {FirstRec(Obj(3, o)) : o \in R}
  BY <1>8 DEF RecsAfter
<1>10. {Rec(4, Row(o)) : o \in R} = {FirstRec(Obj(3, o)) : o \in R}
  BY <1>5, Zenon
<1>11. 4 - 1 = 3
  OBVIOUS
<1> QED BY <1>1, <1>7, <1>8, <1>9, <1>10, <1>11, Zenon DEF RecordsStep

\* The column of the date has another name.
LEMMA Core06Records ==
  ASSUME NEW d, NEW k \in {6, 16}, RecordTable(d, k - 1)
  PROVE  RecordsStep(d, Migrated(d, Core[k]), k)
<1> DEFINE e == Migrated(d, Core[k])
           R == d.rows["objectrecord"]
           S == e.rows["objectrecord"]
           j == IF k = 6 THEN 1 ELSE 3
           old == Start(k - 1)
           new == Start(k)
           N == RecordNames(k) \ {new}
<1>1. OnlyLoud(Core[k], j, "objectrecord", RecordColumns) /\ "id" \in RecordColumns
  <2>1. CASE k = 6
    <3>1. OnlyLoud(Core06, 1, "objectrecord", RecordColumns)
      BY DEF Core06, OnlyLoud, IsOps, RecordColumns, Quiet, RenameField, RemoveField, AddField,
             AddFieldAs, AlterField, AlterFieldAs
    <3> QED BY <2>1, <3>1 DEF Core, RecordColumns
  <2>2. CASE k = 16
    <3>1. OnlyLoud(Core16, 3, "objectrecord", RecordColumns)
      BY DEF Core16, OnlyLoud, IsOps, RecordColumns, Quiet, RenameField
    <3> QED BY <2>2, <3>1 DEF Core, RecordColumns
  <2> QED BY <2>1, <2>2
<1>2. /\ Core[k][j].do = "rename" /\ Core[k][j].table = "objectrecord"
      /\ Core[k][j].column = old /\ Core[k][j].name = new
  <2>1. CASE k = 6
    BY <2>1 DEF Core, Core06, RenameField, Start
  <2>2. CASE k = 16
    BY <2>2 DEF Core, Core16, RenameField, Start
  <2> QED BY <2>1, <2>2
<1>3. /\ HasNames(d, "objectrecord", RecordColumns, RecordNames(k - 1)) /\ Shaped(d, "objectrecord")
      /\ RecordNames(k - 1) = N \cup {old} /\ RecordNames(k) = N \cup {new}
      /\ old \notin N /\ new \notin N /\ old # new /\ old # "id" /\ new # "id"
      /\ new \in RecordColumns /\ {"id", "object", "data"} \subseteq N
      /\ (k >= 9 => "version" \in N)
  BY DEF RecordTable, RecordNames, Start, RecordColumns
<1> HIDE DEF j, old, new, N
<1>4. Moved(d, e, "objectrecord", RecordColumns, old, new)
  <2>1. /\ "objectrecord" \in DOMAIN d.columns
        /\ Core[k][j].column \in Names(d, "objectrecord", RecordColumns)
        /\ Core[k][j].name \in RecordColumns
        /\ Core[k][j].name \notin Names(d, "objectrecord", RecordColumns)
        /\ Core[k][j].column # "id" /\ Core[k][j].name # "id"
    BY <1>2, <1>3 DEF HasNames
  <2>2. Moved(d, e, "objectrecord", RecordColumns, Core[k][j].column, Core[k][j].name)
    BY <1>1, <1>2, <1>3, <2>1, RenameOnce, Zenon
  <2> QED BY <1>2, <2>2
<1> HIDE DEF e
<1>5. RecordTable(e, k) /\ MovedRows(R, S, N, old, new)
  <2>1. Names(d, "objectrecord", RecordColumns) \ {old} = N
    BY <1>3 DEF HasNames
  <2>2. HasNames(e, "objectrecord", RecordColumns, RecordNames(k)) /\ Shaped(e, "objectrecord")
    BY <1>3, <1>4, <2>1 DEF Moved, HasNames
  <2>3. k > 3
    OBVIOUS
  <2> QED BY <1>4, <2>1, <2>2, <2>3 DEF Moved, RecordTable
<1>6. ASSUME NEW r, NEW s, Alike(r, s, N), s[new] = r[old]
      PROVE  Rec(k, s) = Rec(k - 1, r)
  <2>1. s.id = r.id /\ s.object = r.object /\ s.data = r.data /\ (k >= 9 => s.version = r.version)
    BY <1>3, <1>6 DEF Alike
  <2>2. s[Start(k)] = r[Start(k - 1)]
    BY <1>6 DEF old, new
  <2>3. (k >= 10 => s.version = r.version) /\ (k <= 18) /\ (k - 1 <= 18) /\ (k >= 10 <=> k - 1 >= 10)
    BY <2>1
  <2> QED BY <2>1, <2>2, <2>3 DEF Rec
<1>7. Recs(e, k) = {Rec(k, s) : s \in S} /\ Recs(d, k - 1) = {Rec(k - 1, r) : r \in R}
  BY DEF Recs
<1>8. {Rec(k, s) : s \in S} = {Rec(k - 1, r) : r \in R}
  BY <1>5, <1>6 DEF MovedRows
<1> QED BY <1>5, <1>7, <1>8 DEF RecordsStep, RecsAfter, e

\* A column more, that is not told yet.
LEMMA Core09Records ==
  ASSUME NEW d, NEW k \in {9, 18}, RecordTable(d, k - 1)
  PROVE  RecordsStep(d, Migrated(d, Core[k]), k)
<1> DEFINE e == Migrated(d, Core[k])
           j == IF k = 9 THEN 1 ELSE 2
           column == IF k = 9 THEN "version" ELSE "index"
           N == RecordNames(k - 1)
<1>1. OnlyLoud(Core[k], j, "objectrecord", RecordColumns) /\ "id" \in RecordColumns
  <2>1. CASE k = 9
    <3>1. OnlyLoud(Core09, 1, "objectrecord", RecordColumns)
      BY DEF Core09, OnlyLoud, IsOps, RecordColumns
    <3> QED BY <2>1, <3>1 DEF Core, RecordColumns
  <2>2. CASE k = 18
    <3>1. OnlyLoud(Core18, 2, "objectrecord", RecordColumns)
      BY DEF Core18, OnlyLoud, IsOps, RecordColumns, Quiet, RemoveField
    <3> QED BY <2>2, <3>1 DEF Core, RecordColumns
  <2> QED BY <2>1, <2>2
<1>2. /\ Core[k][j].do = "add" /\ Core[k][j].table = "objectrecord" /\ Core[k][j].column = column
  <2>1. CASE k = 9
    BY <2>1 DEF Core, Core09, AddFieldAs
  <2>2. CASE k = 18
    BY <2>2 DEF Core, Core18, AddFieldAs
  <2> QED BY <2>1, <2>2
<1>3. /\ HasNames(d, "objectrecord", RecordColumns, N) /\ Shaped(d, "objectrecord")
      /\ RecordNames(k) = N \cup {column} /\ column \notin N /\ column # "id"
      /\ column \in RecordColumns /\ {"id", "object", "data", Start(k)} \subseteq N
      /\ (k >= 10 => "version" \in N) /\ Start(k) = Start(k - 1)
  BY DEF RecordTable, RecordNames, Start, RecordColumns
<1> HIDE DEF j, column, N
<1>4. Added(d, e, "objectrecord", RecordColumns, column, Core[k][j].value)
  <2>1. /\ "objectrecord" \in DOMAIN d.columns /\ Core[k][j].column \in RecordColumns
        /\ Core[k][j].column \notin Names(d, "objectrecord", RecordColumns)
        /\ Core[k][j].column # "id"
    BY <1>2, <1>3 DEF HasNames
  <2>2. Added(d, e, "objectrecord", RecordColumns, Core[k][j].column, Core[k][j].value)
    BY <1>1, <1>2, <1>3, <2>1, AddOnce, Zenon
  <2> QED BY <1>2, <2>2
<1> HIDE DEF e
<1>5. RecordTable(e, k) /\ SameRows(d.rows["objectrecord"], e.rows["objectrecord"], N)
  <2>1. HasNames(e, "objectrecord", RecordColumns, RecordNames(k)) /\ Shaped(e, "objectrecord")
    BY <1>3, <1>4 DEF Added, HasNames
  <2>2. k > 3
    OBVIOUS
  <2> QED BY <1>3, <1>4, <2>1, <2>2 DEF Added, RecordTable, HasNames
<1>6. ASSUME NEW r, NEW s, Alike(r, s, N)
      PROVE  Rec(k, s) = Rec(k - 1, r)
  <2>1. k \in 5..40 /\ k \notin {6, 10, 16, 19} /\ (k <= 18 => Start(k) \in N) /\ ~(k >= 19)
    BY <1>3
  <2> QED BY <1>3, <1>6, <2>1, AlikeRecords
<1>7. Recs(e, k) = Recs(d, k - 1)
  <2>1. k \in 5..40
    OBVIOUS
  <2> QED BY <1>5, <1>6, <2>1, RecordsSame, Zenon
<1> QED BY <1>5, <1>7 DEF RecordsStep, RecsAfter, e

\* 0025 deletes the records of the objects it deletes.
LEMMA Core25Records ==
  ASSUME NEW d, ObjectTable(d, 24), RecordTable(d, 24)
  PROVE  RecordsStep(d, Migrated(d, Core25), 25)
<1> DEFINE e == Migrated(d, Core25)
           R == d.rows["objectrecord"]
           O == d.rows["object"]
<1>1. /\ "columns" \in DOMAIN e /\ "rows" \in DOMAIN e /\ e.columns = d.columns
      /\ DOMAIN e.rows = DOMAIN d.rows
      /\ e.rows["objectrecord"] = {r \in R : \E o \in O : o.object_type # Null /\ o.id = r.object}
  <2>1. \A r : (\E o \in Kept(d) : o.id = r.object)
               <=> \E o \in O : o.object_type # Null /\ o.id = r.object
    BY DEF Kept
  <2> HIDE DEF e
  <2> QED BY <2>1, Core25Does DEF e
<1> HIDE DEF e
<1>2. /\ HasNames(d, "objectrecord", RecordColumns, RecordNames(24)) /\ Shaped(d, "objectrecord")
      /\ RecordNames(24) = RecordNames(25)
  BY DEF RecordTable, RecordNames, Start
<1>3. RecordTable(e, 25)
  BY <1>1, <1>2 DEF RecordTable, Shaped, HasNames, Names
<1>4. \A r : Rec(25, r) = Rec(24, r) /\ Rec(24, r).object = r.object
  BY DEF Rec
<1>5. \A o : Obj(24, o).link = o.object_type /\ Obj(24, o).id = o.id
  BY DEF Obj, Link
<1>6. /\ Recs(e, 25) = {Rec(25, r) : r \in {s \in R : \E o \in O : o.object_type # Null /\ o.id = s.object}}
      /\ Recs(d, 24) = {Rec(24, r) : r \in R} /\ Objs(d, 24) = {Obj(24, o) : o \in O}
  BY <1>1 DEF Recs, Objs
<1>7. \A v : (\E p \in Objs(d, 24) : p.link # Null /\ p.id = v.object)
             <=> \E o \in O : o.object_type # Null /\ o.id = v.object
  BY <1>5, <1>6
<1>8. RecsAfter(25, Recs(d, 24), Objs(d, 24))
        = {v \in Recs(d, 24) : \E p \in Objs(d, 24) : p.link # Null /\ p.id = v.object}
  BY DEF RecsAfter
<1>9. Recs(e, 25) = RecsAfter(25, Recs(d, 25 - 1), Objs(d, 25 - 1))
  <2>1. 25 - 1 = 24
    OBVIOUS
  <2>2. ASSUME NEW v
        PROVE  v \in Recs(e, 25) <=> v \in RecsAfter(25, Recs(d, 24), Objs(d, 24))
    BY <1>4, <1>6, <1>7, <1>8
  <2> QED BY <2>1, <2>2
<1> QED BY <1>3, <1>9 DEF RecordsStep, e

\* There are as many rows as keys.
LEMMA IdCount ==
  ASSUME NEW S, NEW n \in Nat, \A r \in S : r.id \in 1..n,
         \A r \in S, s \in S : r.id = s.id => r = s
  PROVE  IsFiniteSet(S) /\ Cardinality(S) = Cardinality({r.id : r \in S})
<1> DEFINE I == {r.id : r \in S}
           f == [r \in S |-> r.id]
<1>1. IsFiniteSet(I)
  <2>1. IsFiniteSet(1..n) /\ I \in SUBSET (1..n)
    BY FS_Interval
  <2> QED BY <2>1, FS_Subset
<1>2. f \in Injection(S, I) /\ f \in Surjection(S, I)
  BY DEF Injection, Surjection, IsInjective
<1> HIDE DEF f, I
<1>3. IsFiniteSet(S) /\ Cardinality(S) = Cardinality(I)
  BY <1>1, <1>2, FS_Injection
<1> QED BY <1>3 DEF I

\* The object of a row is found by its key.
LEMMA ObjOfRow ==
  ASSUME NEW d, NEW c \in 1..40, UniqueIds(d, "object"), NEW o \in d.rows["object"]
  PROVE  ObjOf(Objs(d, c), o.id) = Obj(c, o)
<1>1. Objs(d, c) = {Obj(c, p) : p \in d.rows["object"]} /\ \A p : Obj(c, p).id = p.id
  BY DEF Objs, Obj
<1>2. Obj(c, o) \in Objs(d, c) /\ \A q \in Objs(d, c) : q.id = o.id => q = Obj(c, o)
  BY <1>1 DEF UniqueIds
<1> QED BY <1>1, <1>2 DEF ObjOf

\* Each record is of an object.
Linked(Re, O) == \A v \in Re : \E o \in O : o.id = v.object

\* 0010 gives each record the version of its object.
LEMMA Core10Records ==
  ASSUME NEW d, RecordTable(d, 9), ObjectTable(d, 9), UniqueIds(d, "object"),
         Linked(Recs(d, 9), Objs(d, 9))
  PROVE  RecordsStep(d, Migrated(d, Core10), 10)
<1> DEFINE op == RunPython("move_version_to_record")
           e == MoveVersion(d)
           R == d.rows["objectrecord"]
           Row(r) == [r EXCEPT !.version = RowWith(d, "object", r.object).version]
           After(v) == [v EXCEPT !.version = ObjOf(Objs(d, 9), v.object).version]
<1>1. Migrated(d, Core10) = e
  <2>1. Migrated(d, Core10) = Do(d, op)
    BY Unrolled DEF Core10
  <2>2. Do(d, op) = Python("move_version_to_record", d)
    BY DEF Do, RunPython
  <2> QED BY <2>1, <2>2 DEF Python
<1>2. /\ HasNames(d, "objectrecord", RecordColumns, RecordNames(9)) /\ Shaped(d, "objectrecord")
      /\ RecordNames(9) = RecordNames(10) /\ RecordNames(9) = {"id", "object", "data", "start_date", "version"}
      /\ Start(9) = "start_date" /\ Start(10) = "start_date"
  BY DEF RecordTable, RecordNames, Start
<1>3. /\ "columns" \in DOMAIN d /\ "rows" \in DOMAIN d /\ "objectrecord" \in DOMAIN d.rows
      /\ \A r \in R : DOMAIN r = DOMAIN d.columns["objectrecord"]
                      /\ {"id", "object", "data", "start_date", "version"} \subseteq DOMAIN r
  BY <1>2 DEF Shaped, HasNames, Names
<1>4. /\ "columns" \in DOMAIN e /\ "rows" \in DOMAIN e /\ e.columns = d.columns
      /\ DOMAIN e.rows = DOMAIN d.rows
      /\ e.rows["objectrecord"] = {Row(r) : r \in R}
  BY <1>3 DEF MoveVersion
<1> HIDE DEF e
<1>5. ASSUME NEW r \in R
      PROVE  DOMAIN Row(r) = DOMAIN r /\ Rec(10, Row(r)) = After(Rec(9, r))
  <2>1. Rec(9, r) \in Recs(d, 9) /\ Rec(9, r).object = r.object
    BY DEF Recs, Rec
  <2>2. PICK q \in Objs(d, 9) : q.id = r.object
    BY <2>1 DEF Linked
  <2>3. PICK o \in d.rows["object"] : q = Obj(9, o)
    BY <2>2 DEF Objs
  <2>4. o.id = r.object
    BY <2>2, <2>3 DEF Obj
  <2>5. RowWith(d, "object", r.object) = o
    BY <2>4, RowWithId
  <2>6. ObjOf(Objs(d, 9), r.object) = Obj(9, o)
    BY <2>4, ObjOfRow
  <2>7. Obj(9, o).version = o.version
    BY DEF Obj
  <2>8. After(Rec(9, r)) = [Rec(9, r) EXCEPT !.version = o.version]
    BY <2>1, <2>6, <2>7
  <2>9. Row(r) = [r EXCEPT !.version = o.version]
    BY <2>5
  <2> HIDE DEF Row, After
  <2>10. DOMAIN r = DOMAIN r /\ {"id", "object", "data", "start_date", "version"} \subseteq DOMAIN r
    BY <1>3
  <2> QED BY <1>2, <2>8, <2>9, <2>10 DEF Rec
<1> HIDE DEF Row, After
<1>6. RecordTable(e, 10)
  <2>1. Shaped(e, "objectrecord")
    BY <1>2, <1>3, <1>4, <1>5 DEF Shaped
  <2> QED BY <1>2, <1>4, <2>1 DEF RecordTable, HasNames, Names
<1>7. Recs(e, 10) = {Rec(10, Row(r)) : r \in R} /\ Recs(d, 9) = {Rec(9, r) : r \in R}
  BY <1>4 DEF Recs
<1>8. RecsAfter(10, Recs(d, 9), Objs(d, 9)) = {After(v) : v \in Recs(d, 9)}
  BY DEF RecsAfter, After
<1>9. {Rec(10, Row(r)) : r \in R} = {After(v) : v \in Recs(d, 9)}
  <2>1. \A r \in R : Rec(10, Row(r)) = After(Rec(9, r))
    BY <1>5
  <2>2. {After(v) : v \in Recs(d, 9)} = {After(Rec(9, r)) : r \in R}
    BY <1>7
  <2> QED BY <2>1, <2>2
<1>10. 10 - 1 = 9
  OBVIOUS
<1> QED BY <1>1, <1>6, <1>7, <1>8, <1>9, <1>10, Zenon DEF RecordsStep

\* The records of which an object is that of a row, up to it, have the same keys.
LEMMA Core19Records ==
  ASSUME NEW d, RecordTable(d, 18), UniqueIds(d, "objectrecord"), NEW n \in Nat,
         \A v \in Recs(d, 18) : v.id \in 1..n
  PROVE  RecordsStep(d, Migrated(d, Core19), 19)
<1> DEFINE op == RunPython("fill_record_index")
           e == FillIndex(d)
           R == d.rows["objectrecord"]
           Row(r) == [r EXCEPT !.index = Cardinality(UpTo(d, r))]
           After(v) == [v EXCEPT !.at = Rank(Recs(d, 18), v)]
<1>1. Migrated(d, Core19) = e
  <2>1. Migrated(d, Core19) = Do(d, op)
    BY Unrolled DEF Core19
  <2>2. Do(d, op) = Python("fill_record_index", d)
    BY DEF Do, RunPython
  <2> QED BY <2>1, <2>2 DEF Python
<1>2. /\ HasNames(d, "objectrecord", RecordColumns, RecordNames(18)) /\ Shaped(d, "objectrecord")
      /\ RecordNames(18) = RecordNames(19)
      /\ RecordNames(18) = {"id", "object", "data", "start_at", "version", "index"}
      /\ Start(18) = "start_at"
  BY DEF RecordTable, RecordNames, Start
<1>3. /\ "columns" \in DOMAIN d /\ "rows" \in DOMAIN d /\ "objectrecord" \in DOMAIN d.rows
      /\ \A r \in R : DOMAIN r = DOMAIN d.columns["objectrecord"]
                      /\ {"id", "object", "data", "start_at", "version", "index"} \subseteq DOMAIN r
  BY <1>2 DEF Shaped, HasNames, Names
<1>4. /\ "columns" \in DOMAIN e /\ "rows" \in DOMAIN e /\ e.columns = d.columns
      /\ DOMAIN e.rows = DOMAIN d.rows
      /\ e.rows["objectrecord"] = {Row(r) : r \in R}
  BY <1>3 DEF FillIndex
<1> HIDE DEF e
<1>5. \A r : /\ Rec(18, r).id = r.id /\ Rec(18, r).object = r.object /\ Rec(18, r).at = r.start_at
             /\ (r \in R => Rec(18, r) \in Recs(d, 18) /\ r.id \in 1..n)
  <2>1. \A r : Rec(18, r).id = r.id /\ Rec(18, r).object = r.object /\ Rec(18, r).at = r.start_at
    BY <1>2 DEF Rec
  <2>2. \A r \in R : Rec(18, r) \in Recs(d, 18)
    BY DEF Recs
  <2> QED BY <2>1, <2>2
<1>6. Recs(d, 18) = {Rec(18, r) : r \in R}
  BY DEF Recs
<1>7. ASSUME NEW r \in R
      PROVE  Cardinality(UpTo(d, r)) = Rank(Recs(d, 18), Rec(18, r))
  <2> DEFINE S == UpTo(d, r)
             V == UpToOf(Recs(d, 18), Rec(18, r))
             I == {q.id : q \in S}
             J == {q.id : q \in V}
  <2>1. \A q \in S : q.id \in 1..n /\ \A s \in S : q.id = s.id => q = s
    BY <1>5 DEF UpTo, UniqueIds
  <2>2. Cardinality(S) = Cardinality(I)
    <3> HIDE DEF S
    <3> QED BY <2>1, IdCount
  <2>3. ASSUME NEW q \in R
        PROVE  q \in S <=> Rec(18, q) \in V
    BY <1>5 DEF UpTo, UpToOf
  <2>4. S \subseteq R /\ V \subseteq Recs(d, 18)
    BY DEF UpTo, UpToOf
  <2> HIDE DEF S, V
  <2>5. I = J
    <3>1. ASSUME NEW q \in S
          PROVE  \E v \in V : v.id = q.id
      BY <1>5, <2>3, <2>4
    <3>2. ASSUME NEW v \in V
          PROVE  \E q \in S : v.id = q.id
      <4>1. PICK q \in R : v = Rec(18, q)
        BY <1>6, <2>4
      <4> QED BY <1>5, <2>3, <4>1
    <3> QED BY <3>1, <3>2
  <2>6. Rank(Recs(d, 18), Rec(18, r)) = Cardinality(J)
    BY DEF Rank, V
  <2> QED BY <2>2, <2>5, <2>6 DEF S
<1>8. ASSUME NEW r \in R
      PROVE  DOMAIN Row(r) = DOMAIN r /\ Rec(19, Row(r)) = After(Rec(18, r))
  <2> DEFINE i == Cardinality(UpTo(d, r))
  <2>1. After(Rec(18, r)) = [Rec(18, r) EXCEPT !.at = i]
    BY <1>7
  <2>2. Row(r) = [r EXCEPT !.index = i]
    OBVIOUS
  <2> HIDE DEF Row, After, i
  <2>3. DOMAIN r = DOMAIN r /\ {"id", "object", "data", "start_at", "version", "index"} \subseteq DOMAIN r
    BY <1>3
  <2> QED BY <1>2, <2>1, <2>2, <2>3 DEF Rec
<1> HIDE DEF Row, After
<1>9. RecordTable(e, 19)
  <2>1. Shaped(e, "objectrecord")
    BY <1>2, <1>3, <1>4, <1>8 DEF Shaped
  <2> QED BY <1>2, <1>4, <2>1 DEF RecordTable, HasNames, Names
<1>10. Recs(e, 19) = {Rec(19, Row(r)) : r \in R}
  BY <1>4 DEF Recs
<1>11. RecsAfter(19, Recs(d, 18), Objs(d, 18)) = {After(v) : v \in Recs(d, 18)}
  BY DEF RecsAfter, After
<1>12. {Rec(19, Row(r)) : r \in R} = {After(v) : v \in Recs(d, 18)}
  <2>1. \A r \in R : Rec(19, Row(r)) = After(Rec(18, r))
    BY <1>8
  <2>2. {After(v) : v \in Recs(d, 18)} = {After(Rec(18, r)) : r \in R}
    BY <1>6
  <2> QED BY <2>1, <2>2
<1>13. 19 - 1 = 18
  OBVIOUS
<1> QED BY <1>1, <1>9, <1>10, <1>11, <1>12, <1>13, Zenon DEF RecordsStep

\* Every core migration does to records what RecsAfter says.
LEMMA CoreRecords ==
  ASSUME NEW d, NEW k \in 1..40, ObjectTable(d, k - 1), RecordTable(d, k - 1), Valid(d),
         k = 10 => Linked(Recs(d, 9), Objs(d, 9)),
         NEW n \in Nat, k = 19 => \A v \in Recs(d, 18) : v.id \in 1..n
  PROVE  RecordsStep(d, Migrated(d, Core[k]), k)
<1>1. CASE k \notin {3, 4, 6, 9, 10, 16, 18, 19, 25}
  BY <1>1, RecordsQuiet
<1>2. CASE k = 3
  BY <1>2, Core03Records DEF Core
<1>3. CASE k = 4
  BY <1>3, Core04Records DEF Core
<1>4. CASE k \in {6, 16}
  BY <1>4, Core06Records
<1>5. CASE k \in {9, 18}
  BY <1>5, Core09Records
<1>6. CASE k = 10
  <2>1. HasNames(d, "object", ObjectColumns, ObjectNames(9)) /\ Shaped(d, "object")
    BY <1>6 DEF ObjectTable
  <2>2. UniqueIds(d, "object")
    BY <2>1, ValidIds DEF HasNames, Names, ObjectNames
  <2> QED BY <1>6, <2>2, Core10Records DEF Core
<1>7. CASE k = 19
  <2>1. HasNames(d, "objectrecord", RecordColumns, RecordNames(18)) /\ Shaped(d, "objectrecord")
    BY <1>7 DEF RecordTable
  <2>2. UniqueIds(d, "objectrecord")
    BY <2>1, ValidIds DEF HasNames, Names, RecordNames
  <2> QED BY <1>7, <2>2, Core19Records DEF Core
<1>8. CASE k = 25
  BY <1>8, Core25Records DEF Core
<1> QED BY <1>1, <1>2, <1>3, <1>4, <1>5, <1>6, <1>7, <1>8

-----------------------------------------------------------------------------
(* The records that the app tells, and in which order.                         *)

Keyed(V)       == \A v \in V, w \in V : v.id # Null /\ (v.id = w.id => v = w)
\* Keys are among the n that were given, starts and indexes are numbers.
Numbered(V, n) == \A v \in V : v.id \in 1..n /\ v.at \in Nat

\* Objects, records and types have these fields, and no other.
IsObj(o) == o = [id |-> o.id, link |-> o.link, version |-> o.version, data |-> o.data]
IsRec(v) == v = [id |-> v.id, object |-> v.object, data |-> v.data, at |-> v.at,
                 version |-> v.version]
IsTyp(y) == y = [id |-> y.id, uuid |-> y.uuid, service |-> y.service]

\* An object has its data until there are records, and its version until those have one.
FromObj(o)    == [id |-> o.id, object |-> o.id, data |-> o.data, at |-> Today,
                  version |-> o.version]
FromRec(O, v) == [v EXCEPT !.version = ObjOf(O, v.object).version]
\* The records that the app tells behind core migration c: until 0004 each object is its own,
\* until 0010 a record has the version of its object.
Seen(O, Re, c) ==
  IF c <= 3 THEN {FromObj(o) : o \in O}
  ELSE IF c <= 9 THEN {FromRec(O, v) : v \in Re}
  ELSE Re

\* The order in which the app tells them: by start and key, then by index.
NotAfter(c, q, v) ==
  IF c <= 18 THEN q.at < v.at \/ (q.at = v.at /\ q.id <= v.id) ELSE q.at <= v.at
UpToIn(V, c, v)   == {q \in V : q.object = v.object /\ NotAfter(c, q, v)}
PlaceIn(V, c, v)  == Cardinality({q.id : q \in UpToIn(V, c, v)})
ToldOf(v)         == [data |-> v.data, version |-> v.version]
HistoryOf(V, c, id) == {<<PlaceIn(V, c, v), ToldOf(v)>> : v \in {w \in V : w.object = id}}

\* What a migration makes of the records that are told.
SeenAfter(k, V, O) ==
  IF k = 19 THEN {[v EXCEPT !.at = Rank(V, v)] : v \in V}
  ELSE IF k = 25 THEN {v \in V : \E o \in O : o.link # Null /\ o.id = v.object}
  ELSE V

\* A key finds its object.
LEMMA ObjOfKeyed ==
  ASSUME NEW O, Keyed(O), NEW o \in O
  PROVE  ObjOf(O, o.id) = o
BY DEF Keyed, ObjOf

\* An object changes its data in 0004, its version in 0010 and its link in 0022 only.
LEMMA AfterObj ==
  ASSUME NEW k, NEW o, IsObj(o)
  PROVE  /\ IsObj(ObjAfter(k, o)) /\ ObjAfter(k, o).id = o.id
         /\ k # 22 => ObjAfter(k, o).link = o.link
         /\ k # 10 => ObjAfter(k, o).version = o.version
         /\ k \notin {4, 10, 22} => ObjAfter(k, o) = o
BY DEF IsObj, ObjAfter

\* Objects come from objects, and only 0025 drops any.
LEMMA AfterObjs ==
  ASSUME NEW k \in 1..40, NEW O, \A o \in O : IsObj(o)
  PROVE  /\ \A p \in ObjsAfter(k, O) : IsObj(p) /\ \E o \in O : o.id = p.id
         /\ k \notin {4, 10, 22, 25} => ObjsAfter(k, O) = O
         /\ k # 25 => \A o \in O : \E p \in ObjsAfter(k, O) : p.id = o.id
<1>1. CASE k = 25
  BY <1>1 DEF ObjsAfter
<1>2. CASE k # 25
  <2>1. ObjsAfter(k, O) = {ObjAfter(k, o) : o \in O}
    BY <1>2 DEF ObjsAfter
  <2> QED BY <1>2, <2>1, AfterObj
<1> QED BY <1>1, <1>2

\* The records that are told change in 0019 and 0025 only, wherever they are kept: what 0004
\* and 0010 move was told before.
LEMMA SeenStep ==
  ASSUME NEW k \in 1..40, NEW O, NEW Re, Keyed(O), \A o \in O : IsObj(o), \A v \in Re : IsRec(v)
  PROVE  Seen(ObjsAfter(k, O), RecsAfter(k, Re, O), k) = SeenAfter(k, Seen(O, Re, k - 1), O)
<1> DEFINE P == ObjsAfter(k, O)
           Q == RecsAfter(k, Re, O)
<1>1. CASE k <= 3
  <2>1. P = O
    BY <1>1, AfterObjs
  <2> QED BY <1>1, <2>1 DEF Seen, SeenAfter
<1>2. CASE k = 4
  <2>1. P = {ObjAfter(4, o) : o \in O} /\ Q = {FirstRec(o) : o \in O}
    BY <1>2 DEF ObjsAfter, RecsAfter
  <2>2. ASSUME NEW o \in O
        PROVE  FromRec(P, FirstRec(o)) = FromObj(o)
    <3>1. ObjAfter(4, o) \in P /\ ObjAfter(4, o).id = o.id /\ ObjAfter(4, o).version = o.version
      BY <2>1, AfterObj
    <3>2. \A p \in P : p.id = o.id => p = ObjAfter(4, o)
      BY <2>1, AfterObj DEF Keyed
    <3>3. ObjOf(P, o.id) = ObjAfter(4, o)
      BY <3>1, <3>2 DEF ObjOf
    <3> HIDE DEF P
    <3> QED BY <3>1, <3>3 DEF FromRec, FirstRec, FromObj
  <2>3. Seen(P, Q, 4) = {FromRec(P, v) : v \in Q} /\ Seen(O, Re, 3) = {FromObj(o) : o \in O}
    BY DEF Seen
  <2> HIDE DEF P, Q
  <2>4. {FromRec(P, v) : v \in Q} = {FromObj(o) : o \in O}
    <3>1. {FromRec(P, v) : v \in Q} = {FromRec(P, FirstRec(o)) : o \in O}
      BY <2>1
    <3> QED BY <2>2, <3>1
  <2> QED BY <1>2, <2>3, <2>4 DEF SeenAfter, P, Q
<1>3. CASE k \in 5..9
  <2>1. P = O /\ Q = Re
    BY <1>3, AfterObjs DEF RecsAfter
  <2> QED BY <1>3, <2>1 DEF Seen, SeenAfter
<1>4. CASE k = 10
  BY <1>4 DEF Seen, SeenAfter, RecsAfter, FromRec
<1>5. CASE k >= 11
  <2>1. Seen(P, Q, k) = Q /\ Seen(O, Re, k - 1) = Re
    BY <1>5 DEF Seen
  <2>2. Q = SeenAfter(k, Re, O)
    BY <1>5 DEF SeenAfter, RecsAfter
  <2> QED BY <2>1, <2>2
<1> QED BY <1>1, <1>2, <1>3, <1>4, <1>5

\* Sets of told records are finite.
LEMMA FiniteIds ==
  ASSUME NEW n \in Nat, NEW V, Numbered(V, n), NEW W \in SUBSET V
  PROVE  IsFiniteSet({q.id : q \in W}) /\ Cardinality({q.id : q \in W}) \in Nat
<1>1. IsFiniteSet(1..n) /\ {q.id : q \in W} \in SUBSET (1..n)
  BY FS_Interval DEF Numbered
<1> QED BY <1>1, FS_Subset, FS_CardinalityType

\* The number of a record tells where it is.
LEMMA RankOrder ==
  ASSUME NEW n \in Nat, NEW V, Numbered(V, n), Keyed(V), NEW q \in V, NEW v \in V,
         q.object = v.object
  PROVE  NotAfter(18, q, v) <=> Rank(V, q) <= Rank(V, v)
<1> DEFINE I(w) == {x.id : x \in UpToOf(V, w)}
<1>1. ASSUME NEW w \in V
      PROVE  IsFiniteSet(I(w)) /\ Cardinality(I(w)) \in Nat /\ Rank(V, w) = Cardinality(I(w))
  <2>1. UpToOf(V, w) \in SUBSET V
    BY DEF UpToOf
  <2> QED BY <2>1, FiniteIds DEF Rank
<1>2. ASSUME NEW w \in V, NEW x \in V, w.object = x.object, NotAfter(18, w, x)
      PROVE  I(w) \subseteq I(x)
  <2>1. ASSUME NEW y \in UpToOf(V, w)
        PROVE  y \in UpToOf(V, x)
    <3>1. w.at \in Nat /\ x.at \in Nat /\ y.at \in Nat /\ w.id \in Nat /\ x.id \in Nat /\ y.id \in Nat
      BY DEF Numbered, UpToOf
    <3> QED BY <1>2, <3>1 DEF UpToOf, NotAfter
  <2> QED BY <2>1
<1>3. ASSUME NotAfter(18, q, v)
      PROVE  Rank(V, q) <= Rank(V, v)
  <2>1. I(q) \in SUBSET I(v)
    BY <1>2, <1>3
  <2> HIDE DEF I
  <2> QED BY <1>1, <2>1, FS_Subset
<1>4. ASSUME ~NotAfter(18, q, v)
      PROVE  ~(Rank(V, q) <= Rank(V, v))
  <2>1. q.at \in Nat /\ v.at \in Nat /\ q.id \in Nat /\ v.id \in Nat
    BY DEF Numbered
  <2>2. NotAfter(18, v, q)
    BY <1>4, <2>1 DEF NotAfter
  <2>3. I(v) \in SUBSET I(q)
    BY <1>2, <2>2
  <2>4. q.id \in I(q)
    <3>1. q \in UpToOf(V, q)
      BY <2>1 DEF UpToOf
    <3> QED BY <3>1
  <2>5. q.id \notin I(v)
    <3> SUFFICES ASSUME NEW x \in UpToOf(V, v), x.id = q.id
                 PROVE  FALSE
      OBVIOUS
    <3>1. x = q
      BY DEF UpToOf, Keyed
    <3> QED BY <1>4, <3>1 DEF UpToOf, NotAfter
  <2> HIDE DEF I
  <2>6. Cardinality(I(v)) <= Cardinality(I(q)) /\ Cardinality(I(v)) # Cardinality(I(q))
    BY <1>1, <2>3, <2>4, <2>5, FS_Subset
  <2> QED BY <1>1, <2>6
<1> QED BY <1>3, <1>4

\* Sets of records that correspond, in the same order, tell the same history.
LEMMA SameHistory ==
  ASSUME NEW V, NEW W, NEW c, NEW k, NEW id, NEW a,
         \A w : w \in W /\ w.object = id <=> \E v \in V : v.object = id /\ w = a[v],
         \A v \in V : v.object = id =>
           a[v].object = id /\ a[v].id = v.id /\ a[v].data = v.data /\ a[v].version = v.version,
         \A q \in V, v \in V : q.object = id /\ v.object = id =>
           (NotAfter(k, a[q], a[v]) <=> NotAfter(c, q, v))
  PROVE  HistoryOf(W, k, id) = HistoryOf(V, c, id)
<1>1. ASSUME NEW v \in V, v.object = id
      PROVE  PlaceIn(W, k, a[v]) = PlaceIn(V, c, v)
  <2> DEFINE I == {q.id : q \in UpToIn(V, c, v)}
             J == {q.id : q \in UpToIn(W, k, a[v])}
  <2>1. ASSUME NEW q \in UpToIn(V, c, v)
        PROVE  \E x \in UpToIn(W, k, a[v]) : x.id = q.id
    <3>1. q \in V /\ q.object = id /\ NotAfter(c, q, v)
      BY <1>1 DEF UpToIn
    <3>2. a[q] \in W /\ a[q].object = id /\ a[q].id = q.id /\ NotAfter(k, a[q], a[v])
      BY <1>1, <3>1
    <3>3. a[v].object = id
      BY <1>1
    <3> QED BY <3>2, <3>3 DEF UpToIn
  <2>2. ASSUME NEW x \in UpToIn(W, k, a[v])
        PROVE  \E q \in UpToIn(V, c, v) : x.id = q.id
    <3>1. x \in W /\ x.object = id /\ NotAfter(k, x, a[v])
      BY <1>1 DEF UpToIn
    <3>2. PICK q \in V : q.object = id /\ x = a[q]
      BY <3>1
    <3>3. NotAfter(c, q, v) /\ x.id = q.id
      BY <1>1, <3>1, <3>2
    <3> QED BY <1>1, <3>2, <3>3 DEF UpToIn
  <2>3. I = J
    BY <2>1, <2>2
  <2> QED BY <2>3 DEF PlaceIn
<1>2. ASSUME NEW v \in V, v.object = id
      PROVE  /\ a[v] \in W /\ a[v].object = id
             /\ <<PlaceIn(W, k, a[v]), ToldOf(a[v])>> = <<PlaceIn(V, c, v), ToldOf(v)>>
  BY <1>1, <1>2 DEF ToldOf
<1>3. ASSUME NEW x
      PROVE  x \in HistoryOf(W, k, id)
             <=> \E v \in V : v.object = id /\ x = <<PlaceIn(W, k, a[v]), ToldOf(a[v])>>
  BY DEF HistoryOf
<1>4. ASSUME NEW x
      PROVE  x \in HistoryOf(V, c, id) <=> \E v \in V : v.object = id /\ x = <<PlaceIn(V, c, v), ToldOf(v)>>
  BY DEF HistoryOf
<1>5. ASSUME NEW x
      PROVE  x \in HistoryOf(W, k, id) <=> x \in HistoryOf(V, c, id)
  BY <1>2, <1>3, <1>4
<1> QED BY <1>5

\* A number changes nothing else of a record.
LEMMA RankedRecord ==
  ASSUME NEW V, NEW v, IsRec(v)
  PROVE  LET w == [v EXCEPT !.at = Rank(V, v)]
         IN /\ IsRec(w) /\ w.id = v.id /\ w.object = v.object /\ w.data = v.data
            /\ w.version = v.version /\ w.at = Rank(V, v)
<1> DEFINE i == Rank(V, v)
           w == [v EXCEPT !.at = i]
<1> HIDE DEF i
<1>1. /\ IsRec(w) /\ w.id = v.id /\ w.object = v.object /\ w.data = v.data
      /\ w.version = v.version /\ w.at = i
  BY DEF IsRec
<1> QED BY <1>1 DEF i

\* No migration changes what is told of an object that stays.
LEMMA HistoryStep ==
  ASSUME NEW k \in 1..40, NEW V, NEW O, NEW n \in Nat, Numbered(V, n), Keyed(V),
         \A v \in V : IsRec(v)
  PROVE  LET W == SeenAfter(k, V, O)
         IN /\ Numbered(W, n) /\ Keyed(W)
            /\ \A w \in W : IsRec(w) /\ \E v \in V : v.object = w.object
            /\ \A id : (k = 25 => \E o \in O : o.link # Null /\ o.id = id)
                         => HistoryOf(W, k, id) = HistoryOf(V, k - 1, id)
<1> DEFINE W == SeenAfter(k, V, O)
<1>1. CASE k = 19
  <2> DEFINE a == [v \in V |-> [v EXCEPT !.at = Rank(V, v)]]
  <2>1. ASSUME NEW v \in V
        PROVE  /\ IsRec(a[v]) /\ a[v].id = v.id /\ a[v].object = v.object /\ a[v].data = v.data
               /\ a[v].version = v.version /\ a[v].at = Rank(V, v) /\ Rank(V, v) \in Nat
    <3>1. a[v] = [v EXCEPT !.at = Rank(V, v)]
      OBVIOUS
    <3>2. Rank(V, v) \in Nat
      <4>1. UpToOf(V, v) \in SUBSET V
        BY DEF UpToOf
      <4> QED BY <4>1, FiniteIds DEF Rank
    <3> HIDE DEF a
    <3> QED BY <3>1, <3>2, RankedRecord
  <2>2. W = {a[v] : v \in V}
    BY <1>1 DEF SeenAfter
  <2> HIDE DEF a, W
  <2>3. Numbered(W, n) /\ Keyed(W) /\ \A w \in W : IsRec(w) /\ \E v \in V : v.object = w.object
    BY <2>1, <2>2 DEF Numbered, Keyed
  <2>4. ASSUME NEW id
        PROVE  HistoryOf(W, 19, id) = HistoryOf(V, 18, id)
    <3>1. \A w : w \in W /\ w.object = id <=> \E v \in V : v.object = id /\ w = a[v]
      BY <2>1, <2>2
    <3>2. \A v \in V : v.object = id =>
            a[v].object = id /\ a[v].id = v.id /\ a[v].data = v.data /\ a[v].version = v.version
      BY <2>1
    <3>3. ASSUME NEW q \in V, NEW v \in V, q.object = id, v.object = id
          PROVE  NotAfter(19, a[q], a[v]) <=> NotAfter(18, q, v)
      <4>1. NotAfter(18, q, v) <=> Rank(V, q) <= Rank(V, v)
        BY <3>3, RankOrder
      <4>2. NotAfter(19, a[q], a[v]) <=> Rank(V, q) <= Rank(V, v)
        BY <2>1 DEF NotAfter
      <4> QED BY <4>1, <4>2
    <3> QED BY <3>1, <3>2, <3>3, SameHistory
  <2>5. k - 1 = 18
    BY <1>1
  <2> QED BY <1>1, <2>3, <2>4, <2>5 DEF W
<1>2. CASE k # 19
  <2>1. W \subseteq V
    BY <1>2 DEF SeenAfter
  <2>2. Numbered(W, n) /\ Keyed(W) /\ \A w \in W : IsRec(w) /\ \E v \in V : v.object = w.object
    BY <2>1 DEF Numbered, Keyed
  <2>3. ASSUME NEW id, k = 25 => \E o \in O : o.link # Null /\ o.id = id
        PROVE  HistoryOf(W, k, id) = HistoryOf(V, k - 1, id)
    <3> DEFINE a == [v \in V |-> v]
    <3>1. \A w : w \in W /\ w.object = id <=> w \in V /\ w.object = id
      BY <1>2, <2>3 DEF SeenAfter
    <3>2. \A q, v : NotAfter(k, q, v) <=> NotAfter(k - 1, q, v)
      BY <1>2 DEF NotAfter
    <3>3. \A v \in V : a[v] = v
      OBVIOUS
    <3> HIDE DEF a, W
    <3>4. /\ \A w : w \in W /\ w.object = id <=> \E v \in V : v.object = id /\ w = a[v]
          /\ \A v \in V : v.object = id =>
               a[v].object = id /\ a[v].id = v.id /\ a[v].data = v.data /\ a[v].version = v.version
          /\ \A q \in V, v \in V : q.object = id /\ v.object = id =>
               (NotAfter(k, a[q], a[v]) <=> NotAfter(k - 1, q, v))
      BY <3>1, <3>2, <3>3
    <3> QED BY <3>4, SameHistory
  <2> QED BY <2>2, <2>3
<1> QED BY <1>1, <1>2

-----------------------------------------------------------------------------
(* The object types of objects.                                                *)

\* A URL that was entered.
IsUrl(url) == url.path \in Seq(STRING) /\ url.path # Null

\* The longest api_root of a URL is one, and the URL's own path when that is one.
LEMMA LongestRoot ==
  ASSUME NEW url, url.path \in Seq(STRING), RootsOf(url) # {}
  PROVE  /\ Root(url) \in Roots
         /\ url.path \in Roots => Root(url) = url.path
<1> DEFINE S == {Len(r) : r \in RootsOf(url)}
           n == Len(url.path)
<1>1. \A r \in RootsOf(url) :
        /\ r \in Roots /\ r \in Seq(STRING) /\ Len(r) \in 0..n
        /\ SubSeq(r, 1, Len(r)) = SubSeq(url.path, 1, Len(r))
  BY RootAssumption DEF RootsOf, IsPrefix
<1>2. n \in Nat /\ S \in SUBSET (0..n) /\ S # {}
  BY <1>1
<1> HIDE DEF S, n
<1>3. PICK i \in S : \A j \in S : j <= i
  BY <1>2, GreatestNat
<1>4. \E root \in RootsOf(url) : \A r \in RootsOf(url) : Len(r) <= Len(root)
  BY <1>3 DEF S
<1>5. Root(url) \in RootsOf(url) /\ \A r \in RootsOf(url) : Len(r) <= Len(Root(url))
  BY <1>4 DEF Root
<1> DEFINE root == Root(url)
<1> HIDE DEF root
<1>6. ASSUME url.path \in Roots
      PROVE  root = url.path
  <2>1. url.path \in RootsOf(url)
    BY <1>6 DEF RootsOf, IsPrefix
  <2>2. Len(root) = n /\ root \in Seq(STRING) /\ SubSeq(root, 1, Len(root)) = SubSeq(url.path, 1, Len(root))
    BY <1>1, <1>2, <1>5, <2>1 DEF root, n
  <2>3. SubSeq(root, 1, Len(root)) = root /\ SubSeq(url.path, 1, Len(url.path)) = url.path
    BY <2>2
  <2> QED BY <2>2, <2>3 DEF n
<1> QED BY <1>1, <1>5, <1>6 DEF root

\* A link points to the type of a URL, which has the URL of its service as long as that is kept.
TypedAs(c, link, url, Y) ==
  \E y \in Y : /\ y.id = link /\ y.uuid = url.uuid
               /\ c <= 38 /\ url.path \in Roots => y.service = url.path

\* The link of an object is its URL until 0021, and then points to the URL's type, if it has one.
LinkFits(c, link, url, Y) ==
  IF c <= 21 THEN link = url
  ELSE IF c <= 24 THEN IF HasType(url) THEN TypedAs(c, link, url, Y) ELSE link = Null
  ELSE TypedAs(c, link, url, Y)

\* Which objects are there: from 0025 those with a type.
StaysAt(c, url) == c >= 25 => Survives(url)

\* What is there is as the app and the migrations leave it; n is what was entered.
Sound(O, V, Y, c, n) ==
  /\ Numbered(V, n) /\ \A v \in V : \E o \in O : o.id = v.object
  /\ c <= 21 => \A o \in O : IsUrl(o.link)
  /\ c >= 25 => \A o \in O : \E y \in Y : y.id = o.link
  /\ c <= 20 => Y = {}
  /\ c <= 38 => \A y \in Y : y.service \in Roots /\ y.uuid # Null

\* What was told is told still.
ToldStill(O, V, Y, c, s) ==
  /\ {o.id : o \in O} = {i \in DOMAIN s : StaysAt(c, s[i].url)}
  /\ \A o \in O : HistoryOf(V, c, o.id) = s[o.id].history /\ LinkFits(c, o.link, s[o.id].url, Y)
  /\ c <= 24 => \A i \in DOMAIN s : IsUrl(s[i].url)

\* The tables of core migration c, as the app tells them.
View(d, c) == Seen(Objs(d, c), Recs(d, c), c)

\* Behind 0024 an object has a link when its URL has a type, so 0025 deletes only the others.
LEMMA KeptLinks ==
  ASSUME NEW O, NEW V, NEW Y, NEW s, ToldStill(O, V, Y, 24, s), Keyed(Y), NEW o \in O
  PROVE  /\ o.link # Null <=> Survives(s[o.id].url)
         /\ o.link # Null => TypedAs(24, o.link, s[o.id].url, Y)
<1> DEFINE url == s[o.id].url
<1>1. LinkFits(24, o.link, url, Y) /\ IsUrl(url)
  <2>1. o.id \in DOMAIN s
    BY DEF ToldStill
  <2> QED BY <2>1 DEF ToldStill
<1> HIDE DEF url
<1>2. IF HasType(url) THEN TypedAs(24, o.link, url, Y) ELSE o.link = Null
  BY <1>1 DEF LinkFits
<1>3. TypedAs(24, o.link, url, Y) => o.link # Null
  BY DEF TypedAs, Keyed
<1>4. Survives(url) <=> HasType(url)
  BY <1>1 DEF Survives, HasType, IsUrl
<1> QED BY <1>2, <1>3, <1>4 DEF url

\* 0022 makes the type of a URL that has one.
LEMMA TypesOfLinks ==
  ASSUME NEW link, NEW O, NEW o \in O, o.link = link, HasType(link), IsUrl(link), NEW Y
  PROVE  \E y \in TypsAfter(22, Y, O) :
           /\ y.id = LinkOf(link) /\ y.uuid = link.uuid
           /\ link.path \in Roots => y.service = link.path
<1> DEFINE i == TypeId(link)
           y == [id |-> i, uuid |-> i[2], service |-> i[1]]
<1>1. i \in {TypeId(p.link) : p \in {q \in O : HasType(q.link)}}
  OBVIOUS
<1>2. i = <<Root(link), link.uuid>> /\ LinkOf(link) = i
  BY DEF TypeId, LinkOf
<1> HIDE DEF i
<1>3. y \in TypsAfter(22, Y, O)
  BY <1>1 DEF TypsAfter, i
<1>4. link.path \in Roots => Root(link) = link.path
  BY LongestRoot DEF HasType, IsUrl
<1> QED BY <1>2, <1>3, <1>4

\* Every core migration keeps what is there sound.
LEMMA SoundStep ==
  ASSUME NEW k \in 1..40, NEW O, NEW V, NEW Y, NEW n \in Nat, NEW s,
         \A o \in O : IsObj(o), \A v \in V : IsRec(v), \A y \in Y : IsTyp(y), Keyed(V), Keyed(Y),
         Sound(O, V, Y, k - 1, n), ToldStill(O, V, Y, k - 1, s)
  PROVE  Sound(ObjsAfter(k, O), SeenAfter(k, V, O), TypsAfter(k, Y, O), k, n)
<1> DEFINE P == ObjsAfter(k, O)
           W == SeenAfter(k, V, O)
           Z == TypsAfter(k, Y, O)
<1>1. Numbered(W, n) /\ \A w \in W : \E v \in V : v.object = w.object
  BY HistoryStep DEF Sound
<1>2. \A w \in W : \E p \in P : p.id = w.object
  <2>1. CASE k = 25
    BY <2>1 DEF SeenAfter, ObjsAfter
  <2>2. CASE k # 25
    <3>1. \A o \in O : \E p \in P : p.id = o.id
      BY <2>2, AfterObjs
    <3> QED BY <1>1, <3>1 DEF Sound
  <2> QED BY <2>1, <2>2
<1>3. k <= 21 => \A p \in P : IsUrl(p.link)
  <2> SUFFICES ASSUME k <= 21, NEW p \in P
               PROVE  IsUrl(p.link)
    OBVIOUS
  <2>1. PICK o \in O : p = ObjAfter(k, o)
    BY DEF ObjsAfter
  <2> HIDE DEF P
  <2>2. p.link = o.link
    BY <2>1, AfterObj
  <2> QED BY <2>2 DEF Sound
<1>4. k >= 25 => \A p \in P : \E z \in Z : z.id = p.link
  <2>1. CASE k = 25
    <3>1. P = {o \in O : o.link # Null} /\ Z = Y /\ k - 1 = 24
      BY <2>1 DEF ObjsAfter, TypsAfter
    <3> HIDE DEF P, Z
    <3>2. \A o \in O : o.link # Null => TypedAs(24, o.link, s[o.id].url, Y)
      BY <3>1, KeptLinks
    <3> QED BY <3>1, <3>2 DEF TypedAs
  <2>2. CASE k >= 26
    <3>1. P = O
      BY <2>2, AfterObjs
    <3>2. \A o \in O : \E y \in Y : y.id = o.link
      BY <2>2 DEF Sound
    <3>3. ASSUME NEW y \in Y
          PROVE  \E z \in Z : z.id = y.id
      <4>1. CASE k # 39
        BY <2>2, <4>1 DEF TypsAfter
      <4>2. CASE k = 39
        <5>1. [y EXCEPT !.service = Null] \in Z /\ [y EXCEPT !.service = Null].id = y.id
          BY <4>2 DEF TypsAfter, IsTyp
        <5> QED BY <5>1
      <4> QED BY <4>1, <4>2
    <3> HIDE DEF P, Z
    <3> QED BY <3>1, <3>2, <3>3
  <2> QED BY <2>1, <2>2
<1>5. k <= 20 => Z = {}
  BY DEF Sound, TypsAfter
<1>6. k <= 38 => \A z \in Z : z.service \in Roots /\ z.uuid # Null
  <2>1. CASE k = 22
    <3> SUFFICES ASSUME NEW z \in Z
                 PROVE  z.service \in Roots /\ z.uuid # Null
      OBVIOUS
    <3>1. PICK o \in O : /\ HasType(o.link)
                         /\ z = [id |-> TypeId(o.link), uuid |-> TypeId(o.link)[2], service |-> TypeId(o.link)[1]]
      BY <2>1 DEF TypsAfter
    <3>2. TypeId(o.link) = <<Root(o.link), o.link.uuid>>
      BY DEF TypeId
    <3>3. IsUrl(o.link)
      BY <2>1 DEF Sound
    <3> QED BY <3>1, <3>2, <3>3, LongestRoot DEF HasType, IsUrl
  <2>2. CASE k # 22
    BY <2>2 DEF Sound, TypsAfter
  <2> QED BY <2>1, <2>2
<1> HIDE DEF P, W, Z
<1>7. Sound(P, W, Z, k, n)
  BY <1>1, <1>2, <1>3, <1>4, <1>5, <1>6 DEF Sound
<1> QED BY <1>7 DEF P, W, Z

\* From 0026 on no migration moves a link from its type.
LEMMA TypedStays ==
  ASSUME NEW k \in 26..40, NEW O, NEW Y, \A y \in Y : IsTyp(y), NEW link, NEW url,
         TypedAs(k - 1, link, url, Y)
  PROVE  TypedAs(k, link, url, TypsAfter(k, Y, O))
<1>1. PICK y \in Y : /\ y.id = link /\ y.uuid = url.uuid
                     /\ k - 1 <= 38 /\ url.path \in Roots => y.service = url.path
  BY DEF TypedAs
<1>2. CASE k = 39
  <2> DEFINE z == [y EXCEPT !.service = Null]
  <2>1. z \in TypsAfter(k, Y, O) /\ z.id = link /\ z.uuid = url.uuid
    BY <1>1, <1>2 DEF TypsAfter, IsTyp
  <2> HIDE DEF z
  <2>2. ~(k <= 38)
    BY <1>2
  <2> QED BY <2>1, <2>2 DEF TypedAs
<1>3. CASE k # 39
  <2>1. y \in TypsAfter(k, Y, O) /\ (k <= 38 => k - 1 <= 38)
    BY <1>3 DEF TypsAfter
  <2> QED BY <1>1, <2>1 DEF TypedAs
<1> QED BY <1>2, <1>3

\* Every core migration leaves told what was told.
LEMMA ToldStep ==
  ASSUME NEW k \in 1..40, NEW O, NEW V, NEW Y, NEW n \in Nat, NEW s,
         \A o \in O : IsObj(o), \A v \in V : IsRec(v), \A y \in Y : IsTyp(y), Keyed(V), Keyed(Y),
         Sound(O, V, Y, k - 1, n), ToldStill(O, V, Y, k - 1, s)
  PROVE  ToldStill(ObjsAfter(k, O), SeenAfter(k, V, O), TypsAfter(k, Y, O), k, s)
<1> DEFINE P == ObjsAfter(k, O)
           W == SeenAfter(k, V, O)
           Z == TypsAfter(k, Y, O)
<1>1. {p.id : p \in P} = {i \in DOMAIN s : StaysAt(k, s[i].url)}
  <2>1. CASE k = 25
    <3>1. P = {o \in O : o.link # Null} /\ k - 1 = 24
      BY <2>1 DEF ObjsAfter
    <3>2. {o.id : o \in O} = DOMAIN s
      <4>1. {o.id : o \in O} = {i \in DOMAIN s : StaysAt(24, s[i].url)}
        BY <3>1 DEF ToldStill
      <4>2. \A i : StaysAt(24, s[i].url)
        BY DEF StaysAt
      <4> QED BY <4>1, <4>2
    <3>3. \A o \in O : o.link # Null <=> Survives(s[o.id].url)
      BY <3>1, KeptLinks
    <3>4. \A i : StaysAt(k, s[i].url) <=> Survives(s[i].url)
      BY <2>1 DEF StaysAt
    <3> HIDE DEF P
    <3> QED BY <3>1, <3>2, <3>3, <3>4
  <2>2. CASE k # 25
    <3>1. {p.id : p \in P} = {o.id : o \in O}
      BY <2>2, AfterObjs
    <3>2. \A i : StaysAt(k, s[i].url) <=> StaysAt(k - 1, s[i].url)
      BY <2>2 DEF StaysAt
    <3> HIDE DEF P
    <3>3. {o.id : o \in O} = {i \in DOMAIN s : StaysAt(k - 1, s[i].url)}
      BY DEF ToldStill
    <3> QED BY <3>1, <3>2, <3>3
  <2> QED BY <2>1, <2>2
<1>2. ASSUME NEW p \in P
      PROVE  HistoryOf(W, k, p.id) = s[p.id].history
  <2>1. PICK o \in O : o.id = p.id
    BY AfterObjs
  <2>2. k = 25 => \E q \in O : q.link # Null /\ q.id = p.id
    BY DEF ObjsAfter
  <2>3. HistoryOf(W, k, p.id) = HistoryOf(V, k - 1, p.id)
    <3>1. Numbered(V, n)
      BY DEF Sound
    <3> HIDE DEF P
    <3> QED BY <2>2, <3>1, HistoryStep
  <2> QED BY <2>1, <2>3 DEF ToldStill
<1>3. ASSUME NEW p \in P
      PROVE  LinkFits(k, p.link, s[p.id].url, Z)
  <2> DEFINE url == s[p.id].url
  <2>1. CASE k <= 21
    <3>1. PICK o \in O : p = ObjAfter(k, o)
      BY <2>1 DEF ObjsAfter
    <3>2. p.id = o.id /\ p.link = o.link
      BY <2>1, <3>1, AfterObj
    <3>3. LinkFits(k - 1, o.link, url, Y)
      BY <3>2 DEF ToldStill
    <3> QED BY <2>1, <3>2, <3>3 DEF LinkFits
  <2>2. CASE k = 22
    <3>1. PICK o \in O : p = ObjAfter(22, o)
      BY <2>2 DEF ObjsAfter
    <3>2. p.id = o.id /\ p.link = LinkOf(o.link)
      BY <3>1, AfterObj DEF ObjAfter, IsObj
    <3>3. LinkFits(21, o.link, url, Y) /\ IsUrl(o.link)
      BY <2>2, <3>2 DEF ToldStill, Sound
    <3>4. o.link = url
      BY <3>3 DEF LinkFits
    <3> HIDE DEF P, url
    <3>5. CASE HasType(url)
      <4>1. TypedAs(22, p.link, url, TypsAfter(22, Y, O))
        BY <3>2, <3>3, <3>4, <3>5, TypesOfLinks DEF TypedAs
      <4> QED BY <2>2, <3>5, <4>1 DEF LinkFits, url
    <3>6. CASE ~HasType(url)
      BY <2>2, <3>2, <3>4, <3>6 DEF LinkFits, LinkOf, url
    <3> QED BY <3>5, <3>6
  <2>3. CASE k \in {23, 24}
    <3>1. P = O /\ Z = Y
      <4>1. P = O
        BY <2>3, AfterObjs
      <4>2. Z = Y
        BY <2>3 DEF TypsAfter
      <4> QED BY <4>1, <4>2
    <3>2. LinkFits(k - 1, p.link, url, Y)
      BY <3>1 DEF ToldStill
    <3>3. (k - 1 <= 38) /\ k <= 38 /\ k - 1 > 21 /\ k - 1 <= 24 /\ k > 21 /\ k <= 24
      BY <2>3
    <3>4. LinkFits(k, p.link, url, Y)
      BY <3>2, <3>3 DEF LinkFits, TypedAs
    <3> QED BY <3>1, <3>4
  <2>4. CASE k = 25
    <3>1. p \in O /\ p.link # Null /\ Z = Y /\ k - 1 = 24
      BY <2>4 DEF ObjsAfter, TypsAfter
    <3>2. TypedAs(24, p.link, url, Y)
      BY <3>1, KeptLinks
    <3> QED BY <2>4, <3>1, <3>2 DEF LinkFits, TypedAs
  <2>5. CASE k >= 26
    <3>1. P = O /\ k \in 26..40
      BY <2>5, AfterObjs
    <3>2. LinkFits(k - 1, p.link, url, Y)
      BY <3>1 DEF ToldStill
    <3>3. TypedAs(k - 1, p.link, url, Y)
      BY <2>5, <3>2 DEF LinkFits
    <3>4. TypedAs(k, p.link, url, Z)
      BY <3>1, <3>3, TypedStays
    <3> HIDE DEF Z
    <3> QED BY <2>5, <3>4 DEF LinkFits
  <2> QED BY <2>1, <2>2, <2>3, <2>4, <2>5
<1>4. k <= 24 => \A i \in DOMAIN s : IsUrl(s[i].url)
  BY DEF ToldStill
<1> HIDE DEF P, W, Z
<1>5. ToldStill(P, W, Z, k, s)
  BY <1>1, <1>2, <1>3, <1>4 DEF ToldStill
<1> QED BY <1>5 DEF P, W, Z

-----------------------------------------------------------------------------
(* The tables behind a core migration, with what was told of them.             *)

\* The three tables behind core migration c, with unique keys.
HistoryTables(d, c) ==
  ObjectTable(d, c) /\ RecordTable(d, c) /\ TypesTable(d, c) /\ Valid(d)

\* What holds of a database behind core migration c, of which s was told and n entered.
HistoryStage(d, c, n, s) ==
  /\ HistoryTables(d, c)
  /\ Sound(Objs(d, c), View(d, c), Typs(d, c), c, n)
  /\ ToldStill(Objs(d, c), View(d, c), Typs(d, c), c, s)

\* Their keys are unique.
LEMMA TablesUnique ==
  ASSUME NEW d, NEW c \in 0..40, HistoryTables(d, c)
  PROVE  /\ c >= 1 => UniqueIds(d, "object")
         /\ c >= 3 => UniqueIds(d, "objectrecord")
         /\ c >= 21 => UniqueIds(d, "objecttype")
<1>1. c >= 1 => UniqueIds(d, "object")
  <2> SUFFICES ASSUME c >= 1
               PROVE  UniqueIds(d, "object")
    OBVIOUS
  <2>1. Shaped(d, "object") /\ HasNames(d, "object", ObjectColumns, ObjectNames(c))
    BY DEF HistoryTables, ObjectTable
  <2> QED BY <2>1, ValidIds DEF HistoryTables, HasNames, Names, ObjectNames
<1>2. c >= 3 => UniqueIds(d, "objectrecord")
  <2> SUFFICES ASSUME c >= 3
               PROVE  UniqueIds(d, "objectrecord")
    OBVIOUS
  <2>1. Shaped(d, "objectrecord") /\ HasNames(d, "objectrecord", RecordColumns, RecordNames(c))
    BY DEF HistoryTables, RecordTable
  <2> QED BY <2>1, ValidIds DEF HistoryTables, HasNames, Names, RecordNames
<1>3. c >= 21 => UniqueIds(d, "objecttype")
  <2> SUFFICES ASSUME c >= 21
               PROVE  UniqueIds(d, "objecttype")
    OBVIOUS
  <2>1. Shaped(d, "objecttype") /\ HasNames(d, "objecttype", TypeFields, TypeNames(c))
    BY DEF HistoryTables, TypesTable
  <2> QED BY <2>1, ValidIds DEF HistoryTables, HasNames, Names, TypeNames
<1> QED BY <1>1, <1>2, <1>3

\* So is what they say.
LEMMA TablesKeyed ==
  ASSUME NEW d, NEW c \in 0..40, HistoryTables(d, c)
  PROVE  /\ Keyed(Objs(d, c)) /\ \A o \in Objs(d, c) : IsObj(o)
         /\ Keyed(Recs(d, c)) /\ \A v \in Recs(d, c) : IsRec(v)
         /\ Keyed(Typs(d, c)) /\ \A y \in Typs(d, c) : IsTyp(y)
<1>1. \A o : IsObj(Obj(c, o)) /\ Obj(c, o).id = o.id
  BY DEF IsObj, Obj
<1>2. \A r : IsRec(Rec(c, r)) /\ Rec(c, r).id = r.id
  BY DEF IsRec, Rec
<1>3. \A t : IsTyp(Typ(c, t)) /\ Typ(c, t).id = t.id
  BY DEF IsTyp, Typ
<1>4. Keyed(Objs(d, c)) /\ \A o \in Objs(d, c) : IsObj(o)
  <2>1. CASE c = 0
    BY <2>1 DEF Objs, Keyed
  <2>2. CASE c >= 1
    <3>1. Objs(d, c) = {Obj(c, o) : o \in d.rows["object"]} /\ UniqueIds(d, "object")
      BY <2>2, TablesUnique DEF Objs
    <3> QED BY <1>1, <3>1 DEF Keyed, UniqueIds
  <2> QED BY <2>1, <2>2
<1>5. Keyed(Recs(d, c)) /\ \A v \in Recs(d, c) : IsRec(v)
  <2>1. CASE c <= 3
    BY <2>1 DEF Recs, Keyed
  <2>2. CASE c >= 4
    <3>1. Recs(d, c) = {Rec(c, r) : r \in d.rows["objectrecord"]} /\ UniqueIds(d, "objectrecord")
      BY <2>2, TablesUnique DEF Recs
    <3> QED BY <1>2, <3>1 DEF Keyed, UniqueIds
  <2> QED BY <2>1, <2>2
<1>6. Keyed(Typs(d, c)) /\ \A y \in Typs(d, c) : IsTyp(y)
  <2>1. CASE c <= 20
    BY <2>1 DEF Typs, Keyed
  <2>2. CASE c >= 21
    <3>1. Typs(d, c) = {Typ(c, t) : t \in d.rows["objecttype"]} /\ UniqueIds(d, "objecttype")
      BY <2>2, TablesUnique DEF Typs
    <3> QED BY <1>3, <3>1 DEF Keyed, UniqueIds
  <2> QED BY <2>1, <2>2
<1> QED BY <1>4, <1>5, <1>6

\* And so is what is told.
LEMMA SeenKeyed ==
  ASSUME NEW O, NEW Re, NEW c, Keyed(O), Keyed(Re), \A v \in Re : IsRec(v)
  PROVE  Keyed(Seen(O, Re, c)) /\ \A v \in Seen(O, Re, c) : IsRec(v)
<1>1. \A o : IsRec(FromObj(o)) /\ FromObj(o).id = o.id
  BY DEF IsRec, FromObj
<1>2. ASSUME NEW v \in Re
      PROVE  IsRec(FromRec(O, v)) /\ FromRec(O, v).id = v.id
  BY DEF IsRec, FromRec
<1> QED BY <1>1, <1>2 DEF Seen, Keyed

\* Every core migration keeps this.
LEMMA CoreHistory ==
  ASSUME NEW d, NEW k \in 1..40, NEW n \in Nat, NEW s, HistoryStage(d, k - 1, n, s),
         Valid(Migrated(d, Core[k]))
  PROVE  HistoryStage(Migrated(d, Core[k]), k, n, s)
<1> DEFINE e == Migrated(d, Core[k])
           O == Objs(d, k - 1)
           Re == Recs(d, k - 1)
           Y == Typs(d, k - 1)
           V == View(d, k - 1)
<1>1. HistoryTables(d, k - 1) /\ Sound(O, V, Y, k - 1, n) /\ ToldStill(O, V, Y, k - 1, s)
  BY DEF HistoryStage
<1>2. /\ ObjectTable(d, k - 1) /\ RecordTable(d, k - 1) /\ TypesTable(d, k - 1) /\ Valid(d)
      /\ k - 1 \in 0..40
  BY <1>1 DEF HistoryTables
<1>3. /\ Keyed(O) /\ \A o \in O : IsObj(o)
      /\ Keyed(Re) /\ \A v \in Re : IsRec(v)
      /\ Keyed(Y) /\ \A y \in Y : IsTyp(y)
  BY <1>1, <1>2, TablesKeyed
<1>4. V = Seen(O, Re, k - 1)
  BY DEF View
<1> HIDE DEF e, O, Re, Y, V
<1>5. Keyed(V) /\ \A v \in V : IsRec(v)
  BY <1>3, <1>4, SeenKeyed
<1>6. k = 10 => Linked(Recs(d, 9), Objs(d, 9))
  <2> SUFFICES ASSUME k = 10, NEW v \in Re
               PROVE  \E o \in O : o.id = v.object
    <3>1. k = 10 => k - 1 = 9
      OBVIOUS
    <3> QED BY <3>1 DEF Linked, O, Re
  <2>1. FromRec(O, v) \in V
    BY <1>4 DEF Seen
  <2>2. FromRec(O, v).object = v.object
    BY <1>3 DEF IsRec, FromRec
  <2> QED BY <1>1, <2>1, <2>2 DEF Sound
<1>7. k = 19 => \A v \in Recs(d, 18) : v.id \in 1..n
  <2> SUFFICES ASSUME k = 19
               PROVE  \A v \in Recs(d, 18) : v.id \in 1..n
    OBVIOUS
  <2>1. k - 1 = 18 /\ V = Re
    BY <1>4 DEF Seen
  <2>2. \A v \in Re : v.id \in 1..n
    BY <1>1, <2>1 DEF Sound, Numbered
  <2> QED BY <2>1, <2>2 DEF Re
<1>8. ObjectTable(e, k) /\ Objs(e, k) = ObjsAfter(k, O)
  BY <1>2, CoreObjects DEF ObjectsStep, O, e
<1>9. RecordTable(e, k) /\ Recs(e, k) = RecsAfter(k, Re, O)
  BY <1>2, <1>6, <1>7, CoreRecords DEF RecordsStep, O, Re, e
<1>10. TypesTable(e, k) /\ Typs(e, k) = TypsAfter(k, Y, O)
  BY <1>2, CoreFields DEF TypesStep, O, Y, e
<1>11. View(e, k) = SeenAfter(k, V, O)
  BY <1>3, <1>4, <1>8, <1>9, SeenStep DEF View
<1>12. Sound(Objs(e, k), View(e, k), Typs(e, k), k, n)
  BY <1>1, <1>3, <1>5, <1>8, <1>10, <1>11, SoundStep
<1>13. ToldStill(Objs(e, k), View(e, k), Typs(e, k), k, s)
  BY <1>1, <1>3, <1>5, <1>8, <1>10, <1>11, ToldStep
<1>14. Valid(e)
  BY DEF e
<1> QED BY <1>8, <1>9, <1>10, <1>12, <1>13, <1>14 DEF HistoryStage, HistoryTables, e

-----------------------------------------------------------------------------
(* The squash: of the tables that it makes, the columns N, and no rows.        *)

\* A table is not there, or has columns N and no rows.
Bare(d, T, C, N) ==
  Shaped(d, T) /\ IF N = {} THEN Absent(d, T) ELSE HasNames(d, T, C, N) /\ d.rows[T] = {}

\* Operations turn columns N into M, in tables without rows.
Turns(ops, T, C, N, M) ==
  IsSeq(ops) /\ \A d : Bare(d, T, C, N) => Bare(Migrated(d, ops), T, C, M)

\* One after another.
LEMMA TurnsJoined ==
  ASSUME NEW a, NEW b, NEW T, NEW C, NEW N, NEW M, NEW K, Turns(a, T, C, N, M), Turns(b, T, C, M, K)
  PROVE  Turns(a \o b, T, C, N, K)
<1>1. IsSeq(a \o b)
  BY Joined DEF Turns
<1>2. ASSUME NEW d, Bare(d, T, C, N)
      PROVE  Bare(Migrated(d, a \o b), T, C, K)
  <2>1. Migrated(d, a \o b) = Migrated(Migrated(d, a), b)
    BY MigratedJoined DEF Turns
  <2> QED BY <1>2, <2>1 DEF Turns
<1> QED BY <1>1, <1>2 DEF Turns

\* Quiet operations change none.
LEMMA TurnsQuiet ==
  ASSUME NEW ops, NEW T, NEW C, NEW N, IsSeq(ops), QuietOps(ops, T, C), "id" \in C
  PROVE  Turns(ops, T, C, N, N)
<1>1. ASSUME NEW d, Bare(d, T, C, N)
      PROVE  Bare(Migrated(d, ops), T, C, N)
  <2>1. Unharmed(d, Migrated(d, ops), T, C)
    BY <1>1, QuietMigration DEF Bare, IsSeq
  <2> QED BY <1>1, <2>1 DEF Bare, Unharmed, Keeps, HasNames, Absent, SameRows
<1> QED BY <1>1 DEF Turns

\* A table is created.
LEMMA TurnsCreate ==
  ASSUME NEW ops, NEW T, NEW C, NEW j, IsSeq(ops), OnlyLoud(ops, j, T, C), "id" \in C,
         ops[j].do = "create", ops[j].table = T,
         "id" \in DOMAIN ops[j].columns, ops[j].columns["id"] = {"unique"}
  PROVE  Turns(ops, T, C, {}, DOMAIN ops[j].columns \cap C)
<1>1. ASSUME NEW d, Bare(d, T, C, {})
      PROVE  Bare(Migrated(d, ops), T, C, DOMAIN ops[j].columns \cap C)
  <2>1. Shaped(d, T) /\ T \notin DOMAIN d.columns
    BY <1>1 DEF Bare, Absent
  <2>2. /\ Shaped(Migrated(d, ops), T)
        /\ HasNames(Migrated(d, ops), T, C, DOMAIN ops[j].columns \cap C)
        /\ Migrated(d, ops).rows[T] = {}
    <3>1. /\ Shaped(d, T) /\ "id" \in C /\ OnlyLoud(ops, j, T, C) /\ ops[j].do = "create"
          /\ ops[j].table = T /\ T \notin DOMAIN d.columns
          /\ "id" \in DOMAIN ops[j].columns => ops[j].columns["id"] = {"unique"}
      BY <2>1
    <3> QED BY <3>1, CreateOnce, ZenonT(60)
  <2>3. DOMAIN ops[j].columns \cap C # {}
    OBVIOUS
  <2> QED BY <2>2, <2>3 DEF Bare
<1> QED BY <1>1 DEF Turns

\* A column is added.
LEMMA TurnsAdd ==
  ASSUME NEW ops, NEW T, NEW C, NEW N, NEW j, IsSeq(ops), OnlyLoud(ops, j, T, C), "id" \in C,
         N # {}, NEW column, ops[j].do = "add", ops[j].table = T, ops[j].column = column,
         column \in C, column \notin N, column # "id"
  PROVE  Turns(ops, T, C, N, N \cup {column})
<1>1. ASSUME NEW d, Bare(d, T, C, N)
      PROVE  Bare(Migrated(d, ops), T, C, N \cup {column})
  <2>1. /\ Shaped(d, T) /\ T \in DOMAIN d.columns /\ Names(d, T, C) = N /\ d.rows[T] = {}
        /\ ops[j].column \in C /\ ops[j].column \notin Names(d, T, C) /\ ops[j].column # "id"
    BY <1>1 DEF Bare, HasNames
  <2>2. Added(d, Migrated(d, ops), T, C, ops[j].column, ops[j].value)
    BY <2>1, AddOnce, Zenon
  <2> QED BY <2>1, <2>2 DEF Bare, Added, HasNames, SameRows
<1> QED BY <1>1 DEF Turns

\* A column is removed.
LEMMA TurnsRemove ==
  ASSUME NEW ops, NEW T, NEW C, NEW N, NEW j, IsSeq(ops), OnlyLoud(ops, j, T, C), "id" \in C,
         NEW column, N \ {column} # {}, ops[j].do = "remove", ops[j].table = T, ops[j].column = column
  PROVE  Turns(ops, T, C, N, N \ {column})
<1>1. ASSUME NEW d, Bare(d, T, C, N)
      PROVE  Bare(Migrated(d, ops), T, C, N \ {column})
  <2>1. Shaped(d, T) /\ T \in DOMAIN d.columns /\ Names(d, T, C) = N /\ d.rows[T] = {}
    BY <1>1 DEF Bare, HasNames
  <2>2. Removed(d, Migrated(d, ops), T, C, ops[j].column)
    BY <2>1, RemoveOnce, Zenon
  <2> QED BY <2>1, <2>2 DEF Bare, Removed, HasNames, SameRows
<1> QED BY <1>1 DEF Turns

\* A column is renamed.
LEMMA TurnsRename ==
  ASSUME NEW ops, NEW T, NEW C, NEW N, NEW j, IsSeq(ops), OnlyLoud(ops, j, T, C), "id" \in C,
         NEW old, NEW new, ops[j].do = "rename", ops[j].table = T, ops[j].column = old,
         ops[j].name = new, old \in N, new \in C, new \notin N, old # "id", new # "id"
  PROVE  Turns(ops, T, C, N, (N \ {old}) \cup {new})
<1>1. ASSUME NEW d, Bare(d, T, C, N)
      PROVE  Bare(Migrated(d, ops), T, C, (N \ {old}) \cup {new})
  <2>1. /\ Shaped(d, T) /\ T \in DOMAIN d.columns /\ Names(d, T, C) = N /\ d.rows[T] = {}
        /\ ops[j].column \in Names(d, T, C) /\ ops[j].name \in C
        /\ ops[j].name \notin Names(d, T, C) /\ ops[j].column # "id" /\ ops[j].name # "id"
    BY <1>1 DEF Bare, HasNames
  <2>2. Moved(d, Migrated(d, ops), T, C, ops[j].column, ops[j].name)
    BY <2>1, RenameOnce, Zenon
  <2> QED BY <2>1, <2>2 DEF Bare, Moved, HasNames, MovedRows
<1> QED BY <1>1 DEF Turns

\* The parts of the squash.
SquashDates ==
  <<RenameField("objectrecord", "material_date", "start_date"),
    RemoveField("objectrecord", "record_type"),
    AddField("objectrecord", "end_date", Optional),
    AlterField("objectrecord", "registration_date", Required),
    AlterField("objectrecord", "start_date", Required)>>
SquashUuid == <<RemoveField("objectrecord", "uuid")>>
SquashIndex ==
  <<AddField("objectrecord", "index", Required),
    AlterUniqueTogether("objectrecord", {{"object", "index"}})>>
SquashUrl  == <<RemoveField("object", "object_type")>>
SquashLink == <<RenameField("object", "object_type_fk", "object_type")>>
SquashLinked ==
  <<AlterField("objectrecord", "geometry", Optional),
    AlterField("objectrecord", "data", Required),
    AlterField("object", "object_type", Required)>>
SquashLast ==
  <<AlterField("objectrecord", "_object_type", Required),
    AddIndex("objectrecord", "idx_objectrecord_type_index"),
    AddIndex("objectrecord", "idx_objectrecord_type_id"),
    AddIndex("objectrecord", "idx_type_start_end_object_idx")>>
SquashTexts == Each(FirstTexts \o LastTexts, LAMBDA c : AddField("objecttype", c, Required))
SquashTimes ==
  <<AddField("objecttype", "created_at", Optional), AddField("objecttype", "modified_at", Optional)>>

\* The squash is made of these.
LEMMA SquashParts ==
  /\ SquashRecords = ((Core01 \o Core03) \o Core05) \o SquashDates
  /\ SquashIndexes = (((((((Core08 \o Core09) \o Core11) \o Core12) \o SquashUuid) \o Core15)
                       \o Core16) \o Core17) \o SquashIndex
  /\ SquashTypes = Core21 \o ((SquashUrl \o SquashLink) \o SquashLinked)
  /\ SquashLookups = ((Core30 \o Core31) \o Core32) \o SquashLast
  /\ SquashTypeTexts = SquashTexts \o SquashTimes
  /\ Squash = ((((SquashRecords \o SquashIndexes) \o SquashTypes) \o SquashLookups)
               \o SquashTypeTexts) \o SquashTables
<1>1. /\ SquashRecords = ((Core01 \o Core03) \o Core05) \o SquashDates
      /\ SquashIndexes = (((((((Core08 \o Core09) \o Core11) \o Core12) \o SquashUuid) \o Core15)
                           \o Core16) \o Core17) \o SquashIndex
  BY DEF SquashRecords, SquashIndexes, SquashDates, SquashUuid, SquashIndex
<1>2. SquashTypes = Core21 \o ((SquashUrl \o SquashLink) \o SquashLinked)
  <2>1. ASSUME NEW u, NEW v, NEW x, NEW y, NEW z
        PROVE  (<<u>> \o <<v>>) \o <<x, y, z>> = <<u, v, x, y, z>>
    <3>1. IsSeq(<<u>>) /\ IsSeq(<<v>>) /\ IsSeq(<<x, y, z>>) /\ IsSeq(<<u, v, x, y, z>>)
      BY DEF IsSeq, IsOps
    <3>2. PICK p : p = <<u>> \o <<v>>
      OBVIOUS
    <3>3. IsSeq(p) /\ Len(p) = 2 /\ p[1] = u /\ p[2] = v
      BY <3>1, <3>2, Joined
    <3>4. PICK q : q = <<x, y, z>>
      OBVIOUS
    <3>5. IsSeq(q) /\ Len(q) = 3 /\ q[1] = x /\ q[2] = y /\ q[3] = z
      BY <3>1, <3>4
    <3>6. PICK r : r = p \o q
      OBVIOUS
    <3>7. /\ IsSeq(r) /\ Len(r) = Len(p) + Len(q)
          /\ \A k \in 1..Len(p) : r[k] = p[k]
          /\ \A k \in 1..Len(q) : r[Len(p) + k] = q[k]
      <4>1. /\ IsSeq(p \o q) /\ Len(p \o q) = Len(p) + Len(q)
            /\ \A k \in 1..Len(p) : (p \o q)[k] = p[k]
            /\ \A k \in 1..Len(q) : (p \o q)[Len(p) + k] = q[k]
        <5>0. IsSeq(p) /\ IsSeq(q)
          BY <3>3, <3>5
        <5>1. IsSeq(p \o q)
          BY <5>0, Joined
        <5>2. Len(p \o q) = Len(p) + Len(q)
          BY <5>0, Joined
        <5>3. \A k \in 1..Len(p) : (p \o q)[k] = p[k]
          BY <5>0, Joined
        <5>4. \A k \in 1..Len(q) : (p \o q)[Len(p) + k] = q[k]
          BY <5>0, Joined
        <5> QED BY <5>1, <5>2, <5>3, <5>4
      <4> QED BY <3>6, <4>1
    <3>8. Len(r) = 5 /\ r[1] = u /\ r[2] = v /\ r[3] = x /\ r[4] = y /\ r[5] = z
      <4>1. 1 \in 1..Len(p) /\ 2 \in 1..Len(p)
            /\ 1 \in 1..Len(q) /\ 2 \in 1..Len(q) /\ 3 \in 1..Len(q)
        BY <3>3, <3>5
      <4>2. r[1] = p[1] /\ r[2] = p[2] /\ r[Len(p) + 1] = q[1] /\ r[Len(p) + 2] = q[2]
            /\ r[Len(p) + 3] = q[3]
        BY <3>7, <4>1
      <4>3. Len(p) + 1 = 3 /\ Len(p) + 2 = 4 /\ Len(p) + 3 = 5 /\ Len(r) = 5
        BY <3>3, <3>5, <3>7
      <4> QED BY <3>3, <3>5, <4>2, <4>3
    <3>9. r = <<u, v, x, y, z>>
      <4>1. PICK s : s = <<u, v, x, y, z>>
        OBVIOUS
      <4>2. /\ IsSeq(s) /\ Len(s) = 5 /\ s[1] = u /\ s[2] = v /\ s[3] = x /\ s[4] = y
            /\ s[5] = z
        BY <3>1, <4>1
      <4>3. \A k \in 1..5 : r[k] = s[k]
        BY <3>8, <4>2
      <4>4. r = s
        BY <3>7, <3>8, <4>2, <4>3 DEF IsSeq
      <4> QED BY <4>1, <4>4
    <3> QED BY <3>2, <3>4, <3>6, <3>9
  <2>2. (SquashUrl \o SquashLink) \o SquashLinked =
          <<RemoveField("object", "object_type"),
            RenameField("object", "object_type_fk", "object_type"),
            AlterField("objectrecord", "geometry", Optional),
            AlterField("objectrecord", "data", Required),
            AlterField("object", "object_type", Required)>>
    BY <2>1, Zenon DEF SquashUrl, SquashLink, SquashLinked
  <2> QED BY <2>2, Zenon DEF SquashTypes
<1>3. /\ SquashLookups = ((Core30 \o Core31) \o Core32) \o SquashLast
      /\ SquashTypeTexts = SquashTexts \o SquashTimes
  BY DEF SquashLookups, SquashTypeTexts, SquashLast, SquashTexts, SquashTimes
<1>4. Squash = ((((SquashRecords \o SquashIndexes) \o SquashTypes) \o SquashLookups)
                \o SquashTypeTexts) \o SquashTables
  BY DEF Squash
<1> QED BY <1>1, <1>2, <1>3, <1>4

\* Its parts that leave a table alone.
LEMMA SquashAlone ==
  /\ IsSeq(SquashDates) /\ IsSeq(SquashUuid) /\ IsSeq(SquashIndex) /\ IsSeq(SquashUrl)
  /\ IsSeq(SquashLink) /\ IsSeq(SquashLinked) /\ IsSeq(SquashLast) /\ IsSeq(SquashTexts)
  /\ IsSeq(SquashTimes) /\ IsSeq(SquashTables)
  /\ QuietObjects(SquashDates) /\ QuietFields(SquashDates)
  /\ QuietObjects(SquashUuid) /\ QuietRecords(SquashUuid) /\ QuietFields(SquashUuid)
  /\ QuietObjects(SquashIndex) /\ QuietFields(SquashIndex)
  /\ QuietRecords(SquashUrl) /\ QuietFields(SquashUrl)
  /\ QuietRecords(SquashLink) /\ QuietFields(SquashLink)
  /\ QuietObjects(SquashLinked) /\ QuietRecords(SquashLinked) /\ QuietFields(SquashLinked)
  /\ QuietObjects(SquashLast) /\ QuietRecords(SquashLast) /\ QuietFields(SquashLast)
  /\ QuietObjects(SquashTexts) /\ QuietRecords(SquashTexts) /\ QuietFields(SquashTexts)
  /\ QuietObjects(SquashTimes) /\ QuietRecords(SquashTimes) /\ QuietFields(SquashTimes)
  /\ QuietObjects(SquashTables) /\ QuietRecords(SquashTables) /\ QuietFields(SquashTables)
<1>1. IsSeq(SquashTexts) /\ QuietObjects(SquashTexts) /\ QuietRecords(SquashTexts) /\ QuietFields(SquashTexts)
  <2>1. FirstTexts \o LastTexts \in Seq(Texts)
    BY TextsOf
  <2> QED BY <2>1, TextsQuiet DEF SquashTexts
<1>2. /\ IsSeq(SquashDates) /\ IsSeq(SquashUuid) /\ IsSeq(SquashIndex) /\ IsSeq(SquashUrl)
      /\ IsSeq(SquashLink) /\ IsSeq(SquashLinked) /\ IsSeq(SquashLast) /\ IsSeq(SquashTimes)
      /\ IsSeq(SquashTables)
  BY DEF IsSeq, IsOps, SquashDates, SquashUuid, SquashIndex, SquashUrl, SquashLink, SquashLinked,
         SquashLast, SquashTimes, SquashTables
<1> USE DEF QuietObjects, QuietRecords, QuietFields, IsOps, QuietOps, Quiet, QuietCode, ObjectColumns,
        RecordColumns, TypeFields, CreateModel, AddField, AddFieldAs, AlterField, AlterFieldAs,
        RemoveField, RenameField, AlterUniqueTogether, AddIndex
<1>3. QuietObjects(SquashDates) /\ QuietFields(SquashDates)
  BY DEF SquashDates
<1>4. QuietObjects(SquashUuid) /\ QuietRecords(SquashUuid) /\ QuietFields(SquashUuid)
  BY DEF SquashUuid
<1>5. QuietObjects(SquashIndex) /\ QuietFields(SquashIndex)
  BY DEF SquashIndex
<1>6. QuietRecords(SquashUrl) /\ QuietFields(SquashUrl)
  BY DEF SquashUrl
<1>7. QuietRecords(SquashLink) /\ QuietFields(SquashLink)
  BY DEF SquashLink
<1>8. QuietObjects(SquashLinked) /\ QuietRecords(SquashLinked) /\ QuietFields(SquashLinked)
  BY DEF SquashLinked
<1>9. QuietObjects(SquashLast) /\ QuietRecords(SquashLast) /\ QuietFields(SquashLast)
  BY DEF SquashLast
<1>10. QuietObjects(SquashTimes) /\ QuietRecords(SquashTimes) /\ QuietFields(SquashTimes)
  BY DEF SquashTimes
<1>11. QuietObjects(SquashTables) /\ QuietRecords(SquashTables) /\ QuietFields(SquashTables)
  BY DEF SquashTables
<1> QED BY <1>1, <1>2, <1>3, <1>4, <1>5, <1>6, <1>7, <1>8, <1>9, <1>10, <1>11, Zenon

\* Each core migration is a sequence of operations.
LEMMA CoreSeqs ==
  ASSUME NEW k \in 1..40
  PROVE  IsSeq(Core[k])
BY EachPlain DEF Plain

\* The table of objects, part by part.
LEMMA SquashObjects == Turns(Squash, "object", ObjectColumns, {}, {"id", "object_type"})
<1> DEFINE T == "object"
           C == ObjectColumns
           A == {"id", "object_type", "version", "data"}
           B == {"id", "object_type", "version"}
           E == {"id", "object_type"}
           F == {"id", "object_type", "object_type_fk"}
           G == {"id", "object_type_fk"}
<1>0. "id" \in C
  BY DEF ObjectColumns
<1>1. Turns(Core01, T, C, {}, A)
  <2>1. OnlyLoud(Core01, 1, T, C) /\ IsSeq(Core01)
    BY CoreSeqs DEF Core, Core01, OnlyLoud, IsOps
  <2>2. /\ Core01[1].do = "create" /\ Core01[1].table = T
        /\ Core01[1].columns = Columns({"object_type", "version", "data"}, {}, {"uuid"})
    BY DEF Core01, CreateModel
  <2>3. /\ "id" \in DOMAIN Core01[1].columns /\ Core01[1].columns["id"] = {"unique"}
        /\ DOMAIN Core01[1].columns \cap C = A
    BY <2>2 DEF Columns, Fields, ObjectColumns
  <2> HIDE DEF A, T, C
  <2>4. Turns(Core01, T, C, {}, DOMAIN Core01[1].columns \cap C)
    BY <1>0, <2>1, <2>2, <2>3, TurnsCreate, Zenon
  <2> QED BY <2>3, <2>4
<1>2. Turns(Core05, T, C, A, B)
  <2>1. OnlyLoud(Core05, 1, T, C) /\ IsSeq(Core05)
    BY CoreSeqs DEF Core, Core05, OnlyLoud, IsOps
  <2>2. Core05[1].do = "remove" /\ Core05[1].table = T /\ Core05[1].column = "data"
    BY DEF Core05, RemoveField
  <2>3. A \ {"data"} = B /\ A \ {"data"} # {}
    OBVIOUS
  <2> HIDE DEF A, B, T, C
  <2>4. Turns(Core05, T, C, A, A \ {"data"})
    BY <1>0, <2>1, <2>2, <2>3, TurnsRemove, Zenon
  <2> QED BY <2>3, <2>4
<1>3. Turns(Core11, T, C, B, E)
  <2>1. OnlyLoud(Core11, 1, T, C) /\ IsSeq(Core11)
    BY CoreSeqs DEF Core, Core11, OnlyLoud, IsOps
  <2>2. Core11[1].do = "remove" /\ Core11[1].table = T /\ Core11[1].column = "version"
    BY DEF Core11, RemoveField
  <2>3. B \ {"version"} = E /\ B \ {"version"} # {}
    OBVIOUS
  <2> HIDE DEF B, E, T, C
  <2>4. Turns(Core11, T, C, B, B \ {"version"})
    BY <1>0, <2>1, <2>2, <2>3, TurnsRemove, Zenon
  <2> QED BY <2>3, <2>4
<1>4. Turns(Core21, T, C, E, F)
  <2>1. IsSeq(Core21)
    BY CoreSeqs DEF Core
  <2>2. OnlyLoud(Core21, 4, T, C)
    BY DEF Core21, OnlyLoud, IsOps, ObjectColumns, Quiet, AlterField, AlterFieldAs, CreateModel,
           AlterUniqueTogether
  <2>3. Core21[4].do = "add" /\ Core21[4].table = T /\ Core21[4].column = "object_type_fk"
    BY DEF Core21, AddField, AddFieldAs, Optional
  <2>4. /\ E \cup {"object_type_fk"} = F /\ E # {} /\ "object_type_fk" \in C
        /\ "object_type_fk" \notin E /\ "object_type_fk" # "id"
    BY DEF ObjectColumns
  <2> HIDE DEF E, F, T, C
  <2>5. Turns(Core21, T, C, E, E \cup {"object_type_fk"})
    BY <1>0, <2>1, <2>2, <2>3, <2>4, TurnsAdd, Zenon
  <2> QED BY <2>4, <2>5
<1>5. Turns(SquashUrl, T, C, F, G)
  <2>1. OnlyLoud(SquashUrl, 1, T, C) /\ IsSeq(SquashUrl)
    BY SquashAlone DEF SquashUrl, OnlyLoud, IsOps
  <2>2. /\ SquashUrl[1].do = "remove" /\ SquashUrl[1].table = T
        /\ SquashUrl[1].column = "object_type"
    BY DEF SquashUrl, RemoveField
  <2>3. F \ {"object_type"} = G /\ F \ {"object_type"} # {}
    OBVIOUS
  <2> HIDE DEF F, G, T, C
  <2>4. Turns(SquashUrl, T, C, F, F \ {"object_type"})
    BY <1>0, <2>1, <2>2, <2>3, TurnsRemove, Zenon
  <2> QED BY <2>3, <2>4
<1>6. Turns(SquashLink, T, C, G, E)
  <2>1. OnlyLoud(SquashLink, 1, T, C) /\ IsSeq(SquashLink)
    BY SquashAlone DEF SquashLink, OnlyLoud, IsOps
  <2>2. /\ SquashLink[1].do = "rename" /\ SquashLink[1].table = T
        /\ SquashLink[1].column = "object_type_fk" /\ SquashLink[1].name = "object_type"
    BY DEF SquashLink, RenameField
  <2>3. /\ (G \ {"object_type_fk"}) \cup {"object_type"} = E /\ "object_type_fk" \in G
        /\ "object_type" \in C /\ "object_type" \notin G /\ "object_type" # "id"
        /\ "object_type_fk" # "id"
    BY DEF ObjectColumns
  <2> HIDE DEF E, G, T, C
  <2>4. Turns(SquashLink, T, C, G, (G \ {"object_type_fk"}) \cup {"object_type"})
    BY <1>0, <2>1, <2>2, <2>3, TurnsRename, Zenon
  <2> QED BY <2>3, <2>4
<1> HIDE DEF A, B, E, F, G, T, C
<1>7. \A ops, N : IsSeq(ops) /\ QuietObjects(ops) => Turns(ops, T, C, N, N)
  BY <1>0, TurnsQuiet DEF QuietObjects, T, C
<1>8. /\ IsSeq(Core03) /\ QuietObjects(Core03) /\ IsSeq(Core08) /\ QuietObjects(Core08)
      /\ IsSeq(Core09) /\ QuietObjects(Core09) /\ IsSeq(Core12) /\ QuietObjects(Core12)
      /\ IsSeq(Core15) /\ QuietObjects(Core15) /\ IsSeq(Core16) /\ QuietObjects(Core16)
      /\ IsSeq(Core17) /\ QuietObjects(Core17) /\ IsSeq(Core30) /\ QuietObjects(Core30)
      /\ IsSeq(Core31) /\ QuietObjects(Core31) /\ IsSeq(Core32) /\ QuietObjects(Core32)
  <2>1. \A k \in {3, 8, 9, 12, 15, 16, 17, 30, 31, 32} : IsSeq(Core[k]) /\ QuietObjects(Core[k])
    BY CoreSeqs, ObjectsAlone
  <2> QED BY <2>1 DEF Core
<1>9. Turns(SquashRecords, T, C, {}, B)
  <2>1. Turns(Core01 \o Core03, T, C, {}, A)
    BY <1>1, <1>7, <1>8, TurnsJoined
  <2>2. Turns((Core01 \o Core03) \o Core05, T, C, {}, B)
    BY <1>2, <2>1, TurnsJoined
  <2>3. Turns(((Core01 \o Core03) \o Core05) \o SquashDates, T, C, {}, B)
    BY <1>7, <2>2, SquashAlone, TurnsJoined
  <2> QED BY <2>3, SquashParts
<1>10. Turns(SquashIndexes, T, C, B, E)
  <2>1. Turns((Core08 \o Core09) \o Core11, T, C, B, E)
    BY <1>3, <1>7, <1>8, TurnsJoined
  <2>2. Turns((((Core08 \o Core09) \o Core11) \o Core12) \o SquashUuid, T, C, B, E)
    BY <1>7, <1>8, <2>1, SquashAlone, TurnsJoined
  <2>3. Turns(((((((Core08 \o Core09) \o Core11) \o Core12) \o SquashUuid) \o Core15) \o Core16)
               \o Core17, T, C, B, E)
    BY <1>7, <1>8, <2>2, TurnsJoined
  <2>4. Turns((((((((Core08 \o Core09) \o Core11) \o Core12) \o SquashUuid) \o Core15) \o Core16)
               \o Core17) \o SquashIndex, T, C, B, E)
    BY <1>7, <2>3, SquashAlone, TurnsJoined
  <2> QED BY <2>4, SquashParts
<1>11. Turns(SquashTypes, T, C, E, E)
  <2>1. Turns(SquashUrl \o SquashLink, T, C, F, E)
    BY <1>5, <1>6, TurnsJoined
  <2>2. Turns((SquashUrl \o SquashLink) \o SquashLinked, T, C, F, E)
    BY <1>7, <2>1, SquashAlone, TurnsJoined
  <2>3. Turns(Core21 \o ((SquashUrl \o SquashLink) \o SquashLinked), T, C, E, E)
    BY <1>4, <2>2, TurnsJoined
  <2> QED BY <2>3, SquashParts
<1>12. Turns(SquashLookups, T, C, E, E)
  <2>1. Turns((Core30 \o Core31) \o Core32, T, C, E, E)
    BY <1>7, <1>8, TurnsJoined
  <2>2. Turns(((Core30 \o Core31) \o Core32) \o SquashLast, T, C, E, E)
    BY <1>7, <2>1, SquashAlone, TurnsJoined
  <2> QED BY <2>2, SquashParts
<1>13. Turns(SquashTypeTexts, T, C, E, E) /\ Turns(SquashTables, T, C, E, E)
  <2>1. Turns(SquashTexts \o SquashTimes, T, C, E, E)
    BY <1>7, SquashAlone, TurnsJoined
  <2> QED BY <1>7, <2>1, SquashAlone, SquashParts
<1>14. Turns(Squash, T, C, {}, E)
  <2>1. Turns((SquashRecords \o SquashIndexes) \o SquashTypes, T, C, {}, E)
    BY <1>9, <1>10, <1>11, TurnsJoined
  <2>2. Turns((((SquashRecords \o SquashIndexes) \o SquashTypes) \o SquashLookups)
               \o SquashTypeTexts, T, C, {}, E)
    BY <1>12, <1>13, <2>1, TurnsJoined
  <2>3. Turns(((((SquashRecords \o SquashIndexes) \o SquashTypes) \o SquashLookups)
                \o SquashTypeTexts) \o SquashTables, T, C, {}, E)
    BY <1>13, <2>2, TurnsJoined
  <2> QED BY <2>3, SquashParts
<1> QED BY <1>14 DEF T, C, E

\* The table of records.
LEMMA SquashRecordTable == Turns(Squash, "objectrecord", RecordColumns, {}, RecordNames(38))
<1> DEFINE T == "objectrecord"
           C == RecordColumns
           A == {"id", "object", "data", "material_date"}
           B == {"id", "object", "data", "start_date"}
           E == {"id", "object", "data", "start_date", "version"}
           F == {"id", "object", "data", "start_at", "version"}
           G == {"id", "object", "data", "start_at", "version", "index"}
<1>0. "id" \in C /\ G = RecordNames(38)
  BY DEF RecordColumns, RecordNames, Start
<1>1. Turns(Core03, T, C, {}, A)
  <2>1. OnlyLoud(Core03, 1, T, C) /\ IsSeq(Core03)
    BY CoreSeqs DEF Core, Core03, OnlyLoud, IsOps
  <2>2. /\ Core03[1].do = "create" /\ Core03[1].table = T
        /\ Core03[1].columns = Columns({"data", "record_type", "material_date", "registration_date",
                                        "object"}, {}, {})
    BY DEF Core03, CreateModel
  <2>3. /\ "id" \in DOMAIN Core03[1].columns /\ Core03[1].columns["id"] = {"unique"}
        /\ DOMAIN Core03[1].columns \cap C = A
    BY <2>2 DEF Columns, Fields, RecordColumns
  <2> HIDE DEF A, T, C
  <2>4. Turns(Core03, T, C, {}, DOMAIN Core03[1].columns \cap C)
    BY <1>0, <2>1, <2>2, <2>3, TurnsCreate, Zenon
  <2> QED BY <2>3, <2>4
<1>2. Turns(SquashDates, T, C, A, B)
  <2>1. OnlyLoud(SquashDates, 1, T, C) /\ IsSeq(SquashDates)
    BY SquashAlone DEF SquashDates, OnlyLoud, IsOps, RecordColumns, Quiet, RemoveField, AddField,
                       AddFieldAs, AlterField, AlterFieldAs
  <2>2. /\ SquashDates[1].do = "rename" /\ SquashDates[1].table = T
        /\ SquashDates[1].column = "material_date" /\ SquashDates[1].name = "start_date"
    BY DEF SquashDates, RenameField
  <2>3. /\ (A \ {"material_date"}) \cup {"start_date"} = B /\ "material_date" \in A
        /\ "start_date" \in C /\ "start_date" \notin A /\ "start_date" # "id"
        /\ "material_date" # "id"
    BY DEF RecordColumns
  <2> HIDE DEF A, B, T, C
  <2>4. Turns(SquashDates, T, C, A, (A \ {"material_date"}) \cup {"start_date"})
    BY <1>0, <2>1, <2>2, <2>3, TurnsRename, Zenon
  <2> QED BY <2>3, <2>4
<1>3. Turns(Core09, T, C, B, E)
  <2>1. OnlyLoud(Core09, 1, T, C) /\ IsSeq(Core09)
    BY CoreSeqs DEF Core, Core09, OnlyLoud, IsOps
  <2>2. Core09[1].do = "add" /\ Core09[1].table = T /\ Core09[1].column = "version"
    BY DEF Core09, AddFieldAs
  <2>3. /\ B \cup {"version"} = E /\ B # {} /\ "version" \in C /\ "version" \notin B
        /\ "version" # "id"
    BY DEF RecordColumns
  <2> HIDE DEF B, E, T, C
  <2>4. Turns(Core09, T, C, B, B \cup {"version"})
    BY <1>0, <2>1, <2>2, <2>3, TurnsAdd, Zenon
  <2> QED BY <2>3, <2>4
<1>4. Turns(Core16, T, C, E, F)
  <2>1. OnlyLoud(Core16, 3, T, C) /\ IsSeq(Core16)
    BY CoreSeqs DEF Core, Core16, OnlyLoud, IsOps, RecordColumns, Quiet, RenameField
  <2>2. /\ Core16[3].do = "rename" /\ Core16[3].table = T
        /\ Core16[3].column = "start_date" /\ Core16[3].name = "start_at"
    BY DEF Core16, RenameField
  <2>3. /\ (E \ {"start_date"}) \cup {"start_at"} = F /\ "start_date" \in E
        /\ "start_at" \in C /\ "start_at" \notin E /\ "start_at" # "id" /\ "start_date" # "id"
    BY DEF RecordColumns
  <2> HIDE DEF E, F, T, C
  <2>4. Turns(Core16, T, C, E, (E \ {"start_date"}) \cup {"start_at"})
    BY <1>0, <2>1, <2>2, <2>3, TurnsRename, Zenon
  <2> QED BY <2>3, <2>4
<1>5. Turns(SquashIndex, T, C, F, G)
  <2>1. OnlyLoud(SquashIndex, 1, T, C) /\ IsSeq(SquashIndex)
    BY SquashAlone DEF SquashIndex, OnlyLoud, IsOps, Quiet, AlterUniqueTogether
  <2>2. /\ SquashIndex[1].do = "add" /\ SquashIndex[1].table = T
        /\ SquashIndex[1].column = "index"
    BY DEF SquashIndex, AddField, AddFieldAs
  <2>3. F \cup {"index"} = G /\ F # {} /\ "index" \in C /\ "index" \notin F /\ "index" # "id"
    BY DEF RecordColumns
  <2> HIDE DEF F, G, T, C
  <2>4. Turns(SquashIndex, T, C, F, F \cup {"index"})
    BY <1>0, <2>1, <2>2, <2>3, TurnsAdd, Zenon
  <2> QED BY <2>3, <2>4
<1> HIDE DEF A, B, E, F, G, T, C
<1>7. \A ops, N : IsSeq(ops) /\ QuietRecords(ops) => Turns(ops, T, C, N, N)
  BY <1>0, TurnsQuiet DEF QuietRecords, T, C
<1>8. /\ IsSeq(Core01) /\ QuietRecords(Core01) /\ IsSeq(Core05) /\ QuietRecords(Core05)
      /\ IsSeq(Core08) /\ QuietRecords(Core08) /\ IsSeq(Core11) /\ QuietRecords(Core11)
      /\ IsSeq(Core12) /\ QuietRecords(Core12) /\ IsSeq(Core15) /\ QuietRecords(Core15)
      /\ IsSeq(Core17) /\ QuietRecords(Core17) /\ IsSeq(Core21) /\ QuietRecords(Core21)
      /\ IsSeq(Core30) /\ QuietRecords(Core30) /\ IsSeq(Core31) /\ QuietRecords(Core31)
      /\ IsSeq(Core32) /\ QuietRecords(Core32)
  <2>1. \A k \in {1, 5, 8, 11, 12, 15, 17, 21, 30, 31, 32} :
          IsSeq(Core[k]) /\ QuietRecords(Core[k])
    BY CoreSeqs, RecordsAlone
  <2> QED BY <2>1 DEF Core
<1>9. Turns(SquashRecords, T, C, {}, B)
  <2>1. Turns((Core01 \o Core03) \o Core05, T, C, {}, A)
    BY <1>1, <1>7, <1>8, TurnsJoined
  <2>2. Turns(((Core01 \o Core03) \o Core05) \o SquashDates, T, C, {}, B)
    BY <1>2, <2>1, TurnsJoined
  <2> QED BY <2>2, SquashParts
<1>10. Turns(SquashIndexes, T, C, B, G)
  <2>1. Turns(Core08 \o Core09, T, C, B, E)
    BY <1>3, <1>7, <1>8, TurnsJoined
  <2>2. Turns((((Core08 \o Core09) \o Core11) \o Core12) \o SquashUuid, T, C, B, E)
    BY <1>7, <1>8, <2>1, SquashAlone, TurnsJoined
  <2>3. Turns((((((Core08 \o Core09) \o Core11) \o Core12) \o SquashUuid) \o Core15) \o Core16,
              T, C, B, F)
    BY <1>4, <1>7, <1>8, <2>2, TurnsJoined
  <2>4. Turns((((((((Core08 \o Core09) \o Core11) \o Core12) \o SquashUuid) \o Core15) \o Core16)
               \o Core17) \o SquashIndex, T, C, B, G)
    BY <1>5, <1>7, <1>8, <2>3, TurnsJoined
  <2> QED BY <2>4, SquashParts
<1>11. Turns(SquashTypes, T, C, G, G)
  <2>1. Turns((SquashUrl \o SquashLink) \o SquashLinked, T, C, G, G)
    BY <1>7, SquashAlone, TurnsJoined
  <2>2. Turns(Core21 \o ((SquashUrl \o SquashLink) \o SquashLinked), T, C, G, G)
    BY <1>7, <1>8, <2>1, TurnsJoined
  <2> QED BY <2>2, SquashParts
<1>12. Turns(SquashLookups, T, C, G, G)
  <2>1. Turns((Core30 \o Core31) \o Core32, T, C, G, G)
    BY <1>7, <1>8, TurnsJoined
  <2>2. Turns(((Core30 \o Core31) \o Core32) \o SquashLast, T, C, G, G)
    BY <1>7, <2>1, SquashAlone, TurnsJoined
  <2> QED BY <2>2, SquashParts
<1>13. Turns(SquashTypeTexts, T, C, G, G) /\ Turns(SquashTables, T, C, G, G)
  <2>1. Turns(SquashTexts \o SquashTimes, T, C, G, G)
    BY <1>7, SquashAlone, TurnsJoined
  <2> QED BY <1>7, <2>1, SquashAlone, SquashParts
<1>14. Turns(Squash, T, C, {}, G)
  <2>1. Turns((SquashRecords \o SquashIndexes) \o SquashTypes, T, C, {}, G)
    BY <1>9, <1>10, <1>11, TurnsJoined
  <2>2. Turns((((SquashRecords \o SquashIndexes) \o SquashTypes) \o SquashLookups)
               \o SquashTypeTexts, T, C, {}, G)
    BY <1>12, <1>13, <2>1, TurnsJoined
  <2>3. Turns(((((SquashRecords \o SquashIndexes) \o SquashTypes) \o SquashLookups)
                \o SquashTypeTexts) \o SquashTables, T, C, {}, G)
    BY <1>13, <2>2, TurnsJoined
  <2> QED BY <2>3, SquashParts
<1> QED BY <1>0, <1>14 DEF T, C

\* The table of object types.
LEMMA SquashFields == Turns(Squash, "objecttype", TypeFields, {}, TypeNames(38))
<1> DEFINE T == "objecttype"
           C == TypeFields
           A == {"id", "uuid", "service"}
<1>0. "id" \in C /\ A = TypeNames(38)
  BY DEF TypeFields, TypeNames
<1>1. Turns(Core21, T, C, {}, A)
  <2>1. OnlyLoud(Core21, 2, T, C) /\ IsSeq(Core21)
    BY CoreSeqs DEF Core, Core21, OnlyLoud, IsOps, TypeFields, Quiet, AlterField, AlterFieldAs,
                    AddField, AddFieldAs, AlterUniqueTogether
  <2>2. /\ Core21[2].do = "create" /\ Core21[2].table = T
        /\ Core21[2].columns = Columns({"uuid", "_name", "service"}, {}, {})
    BY DEF Core21, CreateModel
  <2>3. /\ "id" \in DOMAIN Core21[2].columns /\ Core21[2].columns["id"] = {"unique"}
        /\ DOMAIN Core21[2].columns \cap C = A
    BY <2>2 DEF Columns, Fields, TypeFields
  <2> HIDE DEF A, T, C
  <2>4. Turns(Core21, T, C, {}, DOMAIN Core21[2].columns \cap C)
    BY <1>0, <2>1, <2>2, <2>3, TurnsCreate, Zenon
  <2> QED BY <2>3, <2>4
<1> HIDE DEF A, T, C
<1>2. \A ops, N : IsSeq(ops) /\ QuietFields(ops) => Turns(ops, T, C, N, N)
  BY <1>0, TurnsQuiet DEF QuietFields, T, C
<1>3. /\ IsSeq(Core01) /\ QuietFields(Core01) /\ IsSeq(Core03) /\ QuietFields(Core03)
      /\ IsSeq(Core05) /\ QuietFields(Core05) /\ IsSeq(Core08) /\ QuietFields(Core08)
      /\ IsSeq(Core09) /\ QuietFields(Core09) /\ IsSeq(Core11) /\ QuietFields(Core11)
      /\ IsSeq(Core12) /\ QuietFields(Core12) /\ IsSeq(Core15) /\ QuietFields(Core15)
      /\ IsSeq(Core16) /\ QuietFields(Core16) /\ IsSeq(Core17) /\ QuietFields(Core17)
      /\ IsSeq(Core30) /\ QuietFields(Core30) /\ IsSeq(Core31) /\ QuietFields(Core31)
      /\ IsSeq(Core32) /\ QuietFields(Core32)
  <2>1. \A k \in {1, 3, 5, 8, 9, 11, 12, 15, 16, 17, 30, 31, 32} :
          IsSeq(Core[k]) /\ QuietFields(Core[k])
    BY CoreSeqs, FieldsAlone
  <2> QED BY <2>1 DEF Core
<1>4. Turns(SquashRecords, T, C, {}, {})
  <2>1. Turns((Core01 \o Core03) \o Core05, T, C, {}, {})
    BY <1>2, <1>3, TurnsJoined
  <2>2. Turns(((Core01 \o Core03) \o Core05) \o SquashDates, T, C, {}, {})
    BY <1>2, <2>1, SquashAlone, TurnsJoined
  <2> QED BY <2>2, SquashParts
<1>5. Turns(SquashIndexes, T, C, {}, {})
  <2>1. Turns((Core08 \o Core09) \o Core11, T, C, {}, {})
    BY <1>2, <1>3, TurnsJoined
  <2>2. Turns((((Core08 \o Core09) \o Core11) \o Core12) \o SquashUuid, T, C, {}, {})
    BY <1>2, <1>3, <2>1, SquashAlone, TurnsJoined
  <2>3. Turns(((((((Core08 \o Core09) \o Core11) \o Core12) \o SquashUuid) \o Core15) \o Core16)
               \o Core17, T, C, {}, {})
    BY <1>2, <1>3, <2>2, TurnsJoined
  <2>4. Turns((((((((Core08 \o Core09) \o Core11) \o Core12) \o SquashUuid) \o Core15) \o Core16)
               \o Core17) \o SquashIndex, T, C, {}, {})
    BY <1>2, <2>3, SquashAlone, TurnsJoined
  <2> QED BY <2>4, SquashParts
<1>6. Turns(SquashTypes, T, C, {}, A)
  <2>1. Turns((SquashUrl \o SquashLink) \o SquashLinked, T, C, A, A)
    BY <1>2, SquashAlone, TurnsJoined
  <2>2. Turns(Core21 \o ((SquashUrl \o SquashLink) \o SquashLinked), T, C, {}, A)
    BY <1>1, <2>1, TurnsJoined
  <2> QED BY <2>2, SquashParts
<1>7. Turns(SquashLookups, T, C, A, A)
  <2>1. Turns((Core30 \o Core31) \o Core32, T, C, A, A)
    BY <1>2, <1>3, TurnsJoined
  <2>2. Turns(((Core30 \o Core31) \o Core32) \o SquashLast, T, C, A, A)
    BY <1>2, <2>1, SquashAlone, TurnsJoined
  <2> QED BY <2>2, SquashParts
<1>8. Turns(SquashTypeTexts, T, C, A, A) /\ Turns(SquashTables, T, C, A, A)
  <2>1. Turns(SquashTexts \o SquashTimes, T, C, A, A)
    BY <1>2, SquashAlone, TurnsJoined
  <2> QED BY <1>2, <2>1, SquashAlone, SquashParts
<1>9. Turns(Squash, T, C, {}, A)
  <2>1. Turns((SquashRecords \o SquashIndexes) \o SquashTypes, T, C, {}, A)
    BY <1>4, <1>5, <1>6, TurnsJoined
  <2>2. Turns((((SquashRecords \o SquashIndexes) \o SquashTypes) \o SquashLookups)
               \o SquashTypeTexts, T, C, {}, A)
    BY <1>7, <1>8, <2>1, TurnsJoined
  <2>3. Turns(((((SquashRecords \o SquashIndexes) \o SquashTypes) \o SquashLookups)
                \o SquashTypeTexts) \o SquashTables, T, C, {}, A)
    BY <1>8, <2>2, TurnsJoined
  <2> QED BY <2>3, SquashParts
<1> QED BY <1>0, <1>9 DEF T, C

\* Of a database without tables, the squash makes those of core migration 0038, without rows.
LEMMA SquashHistory ==
  ASSUME NEW d, NEW n \in Nat, NEW s, HistoryStage(d, 0, n, s), Valid(Migrated(d, Squash))
  PROVE  HistoryStage(Migrated(d, Squash), Squashed, n, s)
<1> DEFINE e == Migrated(d, Squash)
<1>1. /\ Bare(d, "object", ObjectColumns, {}) /\ Bare(d, "objectrecord", RecordColumns, {})
      /\ Bare(d, "objecttype", TypeFields, {})
  BY DEF HistoryStage, HistoryTables, ObjectTable, RecordTable, TypesTable, Bare
<1>2. /\ Bare(e, "object", ObjectColumns, {"id", "object_type"})
      /\ Bare(e, "objectrecord", RecordColumns, RecordNames(38))
      /\ Bare(e, "objecttype", TypeFields, TypeNames(38))
  BY <1>1, SquashObjects, SquashRecordTable, SquashFields DEF Turns
<1> HIDE DEF e
<1>3. {"id", "object_type"} = ObjectNames(38) /\ "id" \in RecordNames(38) /\ "id" \in TypeNames(38)
  BY DEF ObjectNames, RecordNames, TypeNames
<1>4. /\ ObjectTable(e, 38) /\ RecordTable(e, 38) /\ TypesTable(e, 38)
      /\ e.rows["object"] = {} /\ e.rows["objectrecord"] = {} /\ e.rows["objecttype"] = {}
  <2>1. /\ RecordNames(38) # {} /\ TypeNames(38) # {} /\ ObjectNames(38) # {}
    BY <1>3
  <2> QED BY <1>2, <1>3, <2>1 DEF Bare, ObjectTable, RecordTable, TypesTable
<1>5. Objs(e, 38) = {} /\ Recs(e, 38) = {} /\ Typs(e, 38) = {} /\ View(e, 38) = {}
  BY <1>4 DEF Objs, Recs, Typs, View, Seen
<1>6. DOMAIN s = {}
  <2>1. ToldStill(Objs(d, 0), View(d, 0), Typs(d, 0), 0, s) /\ Objs(d, 0) = {}
    BY DEF HistoryStage, Objs
  <2>2. {o.id : o \in {}} = {i \in DOMAIN s : StaysAt(0, s[i].url)}
    BY <2>1 DEF ToldStill
  <2> QED BY <2>2 DEF StaysAt
<1>7. Sound({}, {}, {}, 38, n) /\ ToldStill({}, {}, {}, 38, s)
  BY <1>6 DEF Sound, Numbered, ToldStill
<1>8. Valid(e)
  BY DEF e
<1> QED BY <1>4, <1>5, <1>7, <1>8 DEF HistoryStage, HistoryTables, Squashed, e

-----------------------------------------------------------------------------
(* Migrations of token leave objects, records and types alone.                 *)
HistoryUnharmed(d, e) ==
  /\ Unharmed(d, e, "object", ObjectColumns)
  /\ Unharmed(d, e, "objectrecord", RecordColumns)
  /\ Unharmed(d, e, "objecttype", TypeFields)

\* Operations that leave the three tables alone.
QuietHistory(ops) == QuietObjects(ops) /\ QuietRecords(ops) /\ QuietFields(ops)

\* No token migration touches objects, records or types.
LEMMA TokensAlone ==
  ASSUME NEW k \in 1..17
  PROVE  QuietHistory(Token[k])
<1> USE DEF QuietHistory, QuietObjects, QuietRecords, QuietFields, IsOps, QuietOps, Quiet, QuietCode,
        ObjectColumns, RecordColumns, TypeFields, CreateModel, DeleteModel, RenameModel, AddField,
        AddFieldAs, AlterField, AlterFieldAs, RemoveField, RenameField, AlterUniqueTogether, RunPython
<1>1. QuietHistory(Token01)
  BY DEF Token01
<1>2. QuietHistory(Token02)
  BY DEF Token02
<1>3. QuietHistory(Token03)
  BY DEF Token03
<1>4. QuietHistory(Token04)
  BY DEF Token04
<1>5. QuietHistory(Token05)
  BY DEF Token05
<1>6. QuietHistory(Token06)
  BY DEF Token06
<1>7. QuietHistory(Token07)
  BY DEF Token07
<1>8. QuietHistory(Token08)
  BY DEF Token08
<1>9. QuietHistory(Token09)
  BY DEF Token09
<1>10. QuietHistory(Token10)
  BY DEF Token10
<1>11. QuietHistory(Token11)
  BY DEF Token11
<1>12. QuietHistory(Token12)
  BY DEF Token12
<1>13. QuietHistory(Token13)
  BY DEF Token13
<1>14. QuietHistory(Token14)
  BY DEF Token14
<1>15. QuietHistory(Token15)
  BY DEF Token15
<1>16. QuietHistory(Token16)
  BY DEF Token16
<1>17. QuietHistory(Token17)
  BY DEF Token17
<1> HIDE DEF QuietHistory
<1> QED
  BY <1>1, <1>2, <1>3, <1>4, <1>5, <1>6, <1>7, <1>8, <1>9, <1>10, <1>11, <1>12, <1>13, <1>14,
     <1>15, <1>16, <1>17 DEF Token

\* What rows with the same values say.
LEMMA SameSays ==
  ASSUME NEW c \in 0..40, NEW r, NEW s
  PROVE  /\ c >= 1 /\ Alike(r, s, ObjectNames(c)) => Obj(c, s) = Obj(c, r)
         /\ c >= 3 /\ Alike(r, s, RecordNames(c)) => Rec(c, s) = Rec(c, r)
         /\ Alike(r, s, TypeNames(c)) => Typ(c, s) = Typ(c, r)
<1>1. ASSUME c >= 1, Alike(r, s, ObjectNames(c))
      PROVE  Obj(c, s) = Obj(c, r)
  <2>1. /\ s.id = r.id /\ (c # 23 => s.object_type = r.object_type)
        /\ (c <= 10 => s.version = r.version) /\ (c <= 4 => s.data = r.data)
        /\ (c \in 21..23 => s.object_type_fk = r.object_type_fk)
    BY <1>1 DEF Alike, ObjectNames
  <2> QED BY <2>1 DEF Obj, Link
<1>2. ASSUME c >= 3, Alike(r, s, RecordNames(c))
      PROVE  Rec(c, s) = Rec(c, r)
  <2>1. /\ s.id = r.id /\ s.object = r.object /\ s.data = r.data /\ s[Start(c)] = r[Start(c)]
        /\ (c >= 9 => s.version = r.version) /\ (c >= 18 => s.index = r.index)
    BY <1>2 DEF Alike, RecordNames
  <2> QED BY <2>1 DEF Rec
<1>3. ASSUME Alike(r, s, TypeNames(c))
      PROVE  Typ(c, s) = Typ(c, r)
  <2>1. s.id = r.id /\ s.uuid = r.uuid /\ (c <= 38 => s.service = r.service)
    BY <1>3 DEF Alike, TypeNames
  <2> QED BY <2>1 DEF Typ
<1> QED BY <1>1, <1>2, <1>3

\* A database of which the three tables are unharmed tells what it told.
LEMMA UnharmedHistory ==
  ASSUME NEW d, NEW e, NEW c \in 0..40, NEW n, NEW s, HistoryStage(d, c, n, s),
         HistoryUnharmed(d, e), Valid(e)
  PROVE  HistoryStage(e, c, n, s)
<1>1. HistoryTables(d, c)
  BY DEF HistoryStage
<1>2. ObjectTable(e, c) /\ Objs(e, c) = Objs(d, c)
  <2>0. ObjectTable(d, c) /\ Unharmed(d, e, "object", ObjectColumns)
    BY <1>1 DEF HistoryTables, HistoryUnharmed
  <2>1. CASE c = 0
    BY <2>0, <2>1 DEF ObjectTable, Unharmed, Keeps, Absent, Objs
  <2>2. CASE c >= 1
    <3>1. /\ HasNames(d, "object", ObjectColumns, ObjectNames(c)) /\ Shaped(e, "object")
          /\ HasNames(e, "object", ObjectColumns, ObjectNames(c))
          /\ SameRows(d.rows["object"], e.rows["object"], ObjectNames(c))
      BY <2>0, <2>2 DEF ObjectTable, Unharmed, Keeps, HasNames
    <3>2. c = 21 => \A o \in e.rows["object"] : o.object_type_fk = Null
      <4>1. c = 21 => "object_type_fk" \in ObjectNames(c)
        BY DEF ObjectNames
      <4> QED BY <2>0, <3>1, <4>1 DEF ObjectTable, SameRows, Alike
    <3>3. {Obj(c, o) : o \in e.rows["object"]} = {Obj(c, o) : o \in d.rows["object"]}
      BY <2>2, <3>1, SameSays DEF SameRows
    <3> QED BY <2>2, <3>1, <3>2, <3>3 DEF ObjectTable, Objs
  <2> QED BY <2>1, <2>2
<1>3. RecordTable(e, c) /\ Recs(e, c) = Recs(d, c)
  <2>0. RecordTable(d, c) /\ Unharmed(d, e, "objectrecord", RecordColumns)
    BY <1>1 DEF HistoryTables, HistoryUnharmed
  <2>1. CASE c <= 2
    BY <2>0, <2>1 DEF RecordTable, Unharmed, Keeps, Absent, Recs
  <2>2. CASE c >= 3
    <3>1. /\ HasNames(d, "objectrecord", RecordColumns, RecordNames(c)) /\ Shaped(e, "objectrecord")
          /\ HasNames(e, "objectrecord", RecordColumns, RecordNames(c))
          /\ SameRows(d.rows["objectrecord"], e.rows["objectrecord"], RecordNames(c))
      BY <2>0, <2>2 DEF RecordTable, Unharmed, Keeps, HasNames
    <3>2. c = 3 => e.rows["objectrecord"] = {}
      BY <2>0, <3>1 DEF RecordTable, SameRows
    <3>3. {Rec(c, r) : r \in e.rows["objectrecord"]} = {Rec(c, r) : r \in d.rows["objectrecord"]}
      BY <2>2, <3>1, SameSays DEF SameRows
    <3>4. RecordTable(e, c)
      BY <2>2, <3>1, <3>2 DEF RecordTable
    <3>5. Recs(e, c) = Recs(d, c)
      BY <3>3 DEF Recs
    <3> QED BY <3>4, <3>5
  <2> QED BY <2>1, <2>2
<1>4. TypesTable(e, c) /\ Typs(e, c) = Typs(d, c)
  <2>0. TypesTable(d, c) /\ Unharmed(d, e, "objecttype", TypeFields)
    BY <1>1 DEF HistoryTables, HistoryUnharmed
  <2>1. CASE c <= 20
    BY <2>0, <2>1 DEF TypesTable, Unharmed, Keeps, Absent, Typs
  <2>2. CASE c >= 21
    <3>1. /\ HasNames(d, "objecttype", TypeFields, TypeNames(c)) /\ Shaped(e, "objecttype")
          /\ HasNames(e, "objecttype", TypeFields, TypeNames(c))
          /\ SameRows(d.rows["objecttype"], e.rows["objecttype"], TypeNames(c))
      BY <2>0, <2>2 DEF TypesTable, Unharmed, Keeps, HasNames
    <3>2. c = 21 => e.rows["objecttype"] = {}
      BY <2>0, <3>1 DEF TypesTable, SameRows
    <3>3. {Typ(c, t) : t \in e.rows["objecttype"]} = {Typ(c, t) : t \in d.rows["objecttype"]}
      BY <2>2, <3>1, SameSays DEF SameRows
    <3> QED BY <2>2, <3>1, <3>2, <3>3 DEF TypesTable, Typs
  <2> QED BY <2>1, <2>2
<1>5. View(e, c) = View(d, c)
  BY <1>2, <1>3 DEF View
<1> QED BY <1>1, <1>2, <1>3, <1>4, <1>5 DEF HistoryStage, HistoryTables

\* So every token migration keeps what was told.
LEMMA TokenHistory ==
  ASSUME NEW d, NEW c \in 0..40, NEW k \in 1..17, NEW n, NEW s, HistoryStage(d, c, n, s),
         Valid(Migrated(d, Token[k]))
  PROVE  HistoryStage(Migrated(d, Token[k]), c, n, s)
<1>1. /\ Shaped(d, "object") /\ Shaped(d, "objectrecord") /\ Shaped(d, "objecttype")
  BY DEF HistoryStage, HistoryTables, ObjectTable, RecordTable, TypesTable
<1>2. "id" \in ObjectColumns /\ "id" \in RecordColumns /\ "id" \in TypeFields
  BY DEF ObjectColumns, RecordColumns, TypeFields
<1>3. HistoryUnharmed(d, Migrated(d, Token[k]))
  BY <1>1, <1>2, TokensAlone, QuietMigration
  DEF HistoryUnharmed, QuietHistory, QuietObjects, QuietRecords, QuietFields
<1> QED BY <1>3, UnharmedHistory

-----------------------------------------------------------------------------
(* What the app of a release tells of objects is what the tables say.           *)
\* The URL that the app gives of an object: its own, or that of its type.
UrlIn(Y, c, link) ==
  IF c <= 20 THEN link ELSE [path |-> ObjOf(Y, link).service, uuid |-> ObjOf(Y, link).uuid]

\* What the app of core c tells of the objects O, their records V and types Y.
SaysIn(O, V, Y, c) ==
  [id \in {o.id : o \in O} |->
     [url |-> UrlIn(Y, c, ObjOf(O, id).link), history |-> HistoryOf(V, c, id)]]

\* The app of a release runs on the database.
Tellable ==
  /\ applied[1] \in 1..40 \ ({3, 9, 18} \cup 21..25) /\ writes \in Nat
  /\ HistoryTables(db, applied[1])
  /\ Sound(Objs(db, applied[1]), View(db, applied[1]), Typs(db, applied[1]), applied[1], writes)

\* It knows the release by the columns that are there.
LEMMA HasColumns ==
  ASSUME Tellable
  PROVE  /\ Rows("object") = db.rows["object"]
         /\ Has("objectrecord", "id") <=> applied[1] >= 4
         /\ Has("objectrecord", "version") <=> applied[1] >= 10
         /\ Has("objectrecord", "index") <=> applied[1] >= 19
         /\ Has("objecttype", "id") <=> applied[1] >= 26
         /\ Has("objecttype", "service") <=> applied[1] \in 26..38
         /\ applied[1] >= 4 => Rows("objectrecord") = db.rows["objectrecord"]
<1> DEFINE c == applied[1]
<1>1. c \in 1..40 \ ({3, 9, 18} \cup 21..25) /\ ObjectTable(db, c) /\ RecordTable(db, c) /\ TypesTable(db, c)
  BY DEF Tellable, HistoryTables
<1> HIDE DEF c
<1>2. Rows("object") = db.rows["object"]
  BY <1>1 DEF ObjectTable, HasNames, Rows
<1>3. /\ Has("objectrecord", "id") <=> c >= 4
      /\ Has("objectrecord", "version") <=> c >= 10
      /\ Has("objectrecord", "index") <=> c >= 19
      /\ c >= 4 => Rows("objectrecord") = db.rows["objectrecord"]
  <2>1. CASE c <= 2
    BY <1>1, <2>1 DEF RecordTable, Absent, Has
  <2>2. CASE c >= 4
    <3>1. /\ "objectrecord" \in DOMAIN db.columns
          /\ DOMAIN db.columns["objectrecord"] \cap RecordColumns = RecordNames(c)
      BY <1>1, <2>2 DEF RecordTable, HasNames, Names
    <3>2. /\ "id" \in RecordNames(c) /\ ("version" \in RecordNames(c) <=> c >= 9)
          /\ ("index" \in RecordNames(c) <=> c >= 18)
      BY <1>1 DEF RecordNames, Start
    <3>3. \A x \in {"id", "version", "index"} :
            x \in DOMAIN db.columns["objectrecord"] <=> x \in RecordNames(c)
      BY <3>1 DEF RecordColumns
    <3> QED BY <1>1, <2>2, <3>1, <3>2, <3>3 DEF Has, Rows
  <2> QED BY <1>1, <2>1, <2>2
<1>4. /\ Has("objecttype", "id") <=> c >= 26
      /\ Has("objecttype", "service") <=> c \in 26..38
  <2>1. CASE c <= 20
    BY <1>1, <2>1 DEF TypesTable, Absent, Has
  <2>2. CASE c >= 26
    <3>1. /\ "objecttype" \in DOMAIN db.columns
          /\ DOMAIN db.columns["objecttype"] \cap TypeFields = TypeNames(c)
      BY <1>1, <2>2 DEF TypesTable, HasNames, Names
    <3>2. "id" \in TypeNames(c) /\ ("service" \in TypeNames(c) <=> c <= 38)
      BY <1>1 DEF TypeNames
    <3> QED BY <1>1, <2>2, <3>1, <3>2 DEF Has, TypeFields
  <2> QED BY <1>1, <2>1, <2>2
<1> QED BY <1>2, <1>3, <1>4 DEF c

\* The record that is told for a row.
Shown(d, c, r) == IF c <= 9 THEN FromRec(Objs(d, c), Rec(c, r)) ELSE Rec(c, r)
At(c, r)       == IF c <= 18 THEN r[Start(c)] ELSE r.index

\* What is told of a row, migration by migration.
LEMMA ShownRows ==
  ASSUME NEW d, NEW c \in 4..40
  PROVE  /\ View(d, c) = {Shown(d, c, r) : r \in d.rows["objectrecord"]}
         /\ \A r : LET v == Shown(d, c, r)
                   IN /\ v.id = r.id /\ v.object = r.object /\ v.data = r.data /\ v.at = At(c, r)
                      /\ v.version = IF c <= 9 THEN ObjOf(Objs(d, c), r.object).version ELSE r.version
<1>1. \A r : LET v == Shown(d, c, r)
             IN /\ v.id = r.id /\ v.object = r.object /\ v.data = r.data /\ v.at = At(c, r)
                /\ v.version = IF c <= 9 THEN ObjOf(Objs(d, c), r.object).version ELSE r.version
  BY DEF Shown, FromRec, Rec, At
<1>2. Recs(d, c) = {Rec(c, r) : r \in d.rows["objectrecord"]}
  BY DEF Recs
<1>3. View(d, c) = {Shown(d, c, r) : r \in d.rows["objectrecord"]}
  <2>1. CASE c <= 9
    BY <1>2, <2>1 DEF View, Seen, Shown
  <2>2. CASE c >= 10
    BY <1>2, <2>2 DEF View, Seen, Shown
  <2> QED BY <2>1, <2>2
<1> QED BY <1>1, <1>3

\* The app reads the start of a record from the column that has it.
LEMMA StartOfRow ==
  ASSUME Tellable, applied[1] >= 4, NEW r \in db.rows["objectrecord"]
  PROVE  StartOf(r) = r[Start(applied[1])]
<1> DEFINE c == applied[1]
           Cs == {"material_date", "start_date", "start_at"}
<1>1. c \in 4..40 /\ RecordTable(db, c)
  BY DEF Tellable, HistoryTables
<1> HIDE DEF c
<1>2. /\ DOMAIN r = DOMAIN db.columns["objectrecord"]
      /\ DOMAIN db.columns["objectrecord"] \cap RecordColumns = RecordNames(c)
  BY <1>1 DEF RecordTable, HasNames, Names, Shaped
<1>3. Cs \cap RecordNames(c) = {Start(c)} /\ Cs \subseteq RecordColumns
  BY <1>1 DEF RecordNames, Start, RecordColumns
<1>4. \A x \in Cs : x \in DOMAIN r <=> x = Start(c)
  BY <1>2, <1>3
<1>5. Start(c) \in Cs
  BY DEF Start
<1>6. (CHOOSE x \in Cs : x \in DOMAIN r) = Start(c)
  BY <1>4, <1>5
<1> QED BY <1>6 DEF StartOf, c

\* The place of a row is that of the record that is told.
LEMMA PlaceOfRow ==
  ASSUME Tellable, applied[1] >= 4, NEW r \in db.rows["objectrecord"]
  PROVE  Place(r) = PlaceIn(View(db, applied[1]), applied[1], Shown(db, applied[1], r))
<1> DEFINE c == applied[1]
           R == db.rows["objectrecord"]
           V == View(db, c)
           f(q) == Shown(db, c, q)
           S == {q \in R : q.object = r.object /\ Before(q, r)}
<1>1. c \in 4..40 /\ c # 9 /\ c # 18 /\ HistoryTables(db, c) /\ Sound(Objs(db, c), V, Typs(db, c), c, writes)
      /\ writes \in Nat
  BY DEF Tellable
<1> HIDE DEF c
<1>2. UniqueIds(db, "objectrecord")
  BY <1>1, TablesUnique
<1>3. V = {f(q) : q \in R} /\ \A q : f(q).id = q.id /\ f(q).object = q.object /\ f(q).at = At(c, q)
  <2> HIDE DEF R, V, f
  <2>1. c \in 4..40
    BY <1>1
  <2>2. /\ View(db, c) = {Shown(db, c, q) : q \in db.rows["objectrecord"]}
        /\ \A q : LET v == Shown(db, c, q)
                IN /\ v.id = q.id /\ v.object = q.object /\ v.data = q.data /\ v.at = At(c, q)
                   /\ v.version = IF c <= 9 THEN ObjOf(Objs(db, c), q.object).version ELSE q.version
    BY <2>1, ShownRows, ZenonT(60)
  <2>3. \A q : f(q).id = q.id /\ f(q).object = q.object /\ f(q).at = At(c, q)
    BY <2>2 DEF f
  <2>4. V = {f(q) : q \in R}
    BY <2>2 DEF f, V, R
  <2> QED BY <2>3, <2>4
<1>4. \A q \in R : f(q) \in V /\ q.id \in 1..writes
  BY <1>1, <1>3 DEF Sound, Numbered
<1>5. \A q \in R : Before(q, r) <=> NotAfter(c, f(q), f(r))
  <2> HIDE DEF f
  <2>1. CASE c <= 18
    <3>1. ~Has("objectrecord", "index")
      BY <1>1, <2>1, HasColumns DEF c
    <3>2. \A q \in R : StartOf(q) = At(c, q)
      BY <1>1, <2>1, StartOfRow DEF At, c, R
    <3> QED BY <1>3, <2>1, <3>1, <3>2 DEF Before, NotAfter
  <2>2. CASE c >= 19
    <3>1. Has("objectrecord", "index")
      BY <1>1, <2>2, HasColumns DEF c
    <3>2. \A q : f(q).at = q.index
      BY <1>1, <1>3, <2>2 DEF At
    <3>3. \A q : Before(q, r) <=> q.index <= r.index
      BY <3>1 DEF Before
    <3>4. \A q : NotAfter(c, f(q), f(r)) <=> f(q).at <= f(r).at
      BY <1>1, <2>2 DEF NotAfter
    <3> QED BY <3>2, <3>3, <3>4
  <2> QED BY <1>1, <2>1, <2>2
<1> HIDE DEF f
<1>6. {q.id : q \in S} = {v.id : v \in UpToIn(V, c, f(r))}
  <2>1. ASSUME NEW q \in S
        PROVE  q.id \in {v.id : v \in UpToIn(V, c, f(r))}
    <3>1. f(q) \in UpToIn(V, c, f(r))
      BY <1>3, <1>4, <1>5 DEF UpToIn
    <3> QED BY <1>3, <3>1
  <2>2. ASSUME NEW v \in UpToIn(V, c, f(r))
        PROVE  v.id \in {q.id : q \in S}
    <3>1. PICK q \in R : v = f(q)
      BY <1>3 DEF UpToIn
    <3>2. q \in S
      BY <1>3, <1>5, <3>1 DEF UpToIn
    <3> QED BY <1>3, <3>1, <3>2
  <2> QED BY <2>1, <2>2
<1>7. Place(r) = Cardinality(S)
  BY <1>1, HasColumns DEF Place, c
<1>8. Cardinality(S) = Cardinality({q.id : q \in S})
  <2>1. \A q \in S : q.id \in 1..writes
    BY <1>4
  <2>2. \A q \in S, w \in S : q.id = w.id => q = w
    BY <1>2 DEF UniqueIds
  <2> HIDE DEF S
  <2> QED BY <1>1, <2>1, <2>2, IdCount
<1> QED BY <1>6, <1>7, <1>8 DEF PlaceIn, f, c

\* The history that the app tells of an object.
LEMMA HistoryTold ==
  ASSUME Tellable, NEW o \in db.rows["object"]
  PROVE  History(o) = HistoryOf(View(db, applied[1]), applied[1], o.id)
<1> DEFINE c == applied[1]
           V == View(db, c)
<1>1. /\ c \in 1..40 \ ({3, 9, 18} \cup 21..25) /\ HistoryTables(db, c) /\ writes \in Nat
      /\ Sound(Objs(db, c), V, Typs(db, c), c, writes)
  BY DEF Tellable
<1>2. UniqueIds(db, "object") /\ ObjOf(Objs(db, c), o.id) = Obj(c, o)
  BY <1>1, TablesUnique, ObjOfRow
<1>3. CASE c >= 4
  <2> DEFINE R == db.rows["objectrecord"]
             f(q) == Shown(db, c, q)
  <2>1. V = {f(q) : q \in R} /\ \A q : f(q).object = q.object /\ f(q).data = q.data
        /\ f(q).version = IF c <= 9 THEN ObjOf(Objs(db, c), q.object).version ELSE q.version
    BY <1>1, <1>3, ShownRows
  <2>2. Has("objectrecord", "id") /\ Rows("objectrecord") = R /\ (Has("objectrecord", "version") <=> c >= 10)
    BY <1>3, HasColumns
  <2>3. \A q \in R : Place(q) = PlaceIn(V, c, f(q))
    BY <1>3, PlaceOfRow
  <2> HIDE DEF f, V
  <2>4. \A q \in R : q.object = o.id => Told(o, q) = ToldOf(f(q))
    <3>1. c <= 9 => Obj(c, o).version = o.version
      BY DEF Obj
    <3> HIDE DEF c
    <3>2. ASSUME NEW q \in R, q.object = o.id
          PROVE  f(q).data = q.data
                 /\ f(q).version = IF Has("objectrecord", "version") THEN q.version ELSE o.version
      BY <1>1, <1>2, <2>1, <2>2, <3>1, <3>2
    <3> QED BY <3>2 DEF Told, ToldOf
  <2>5. History(o) = {<<Place(q), Told(o, q)>> : q \in {w \in R : w.object = o.id}}
    BY <2>2 DEF History
  <2>6. HistoryOf(V, c, o.id) = {<<PlaceIn(V, c, f(q)), ToldOf(f(q))>> : q \in {w \in R : w.object = o.id}}
    <3>1. {v \in V : v.object = o.id} = {f(q) : q \in {w \in R : w.object = o.id}}
      BY <2>1
    <3>2. HistoryOf(V, c, o.id) = {<<PlaceIn(V, c, v), ToldOf(v)>> : v \in {w \in V : w.object = o.id}}
      BY DEF HistoryOf
    <3> QED BY <3>1, <3>2
  <2>7. {<<Place(q), Told(o, q)>> : q \in {w \in R : w.object = o.id}}
          = {<<PlaceIn(V, c, f(q)), ToldOf(f(q))>> : q \in {w \in R : w.object = o.id}}
    BY <2>3, <2>4
  <2> QED BY <2>5, <2>6, <2>7 DEF V
<1>4. CASE c <= 2
  <2> DEFINE g(p) == FromObj(Obj(c, p))
             v == g(o)
  <2>1. V = {g(p) : p \in db.rows["object"]}
    BY <1>1, <1>4 DEF View, Seen, Objs
  <2>2. \A p : g(p).object = p.id /\ g(p).id = p.id /\ g(p).at = Today
               /\ g(p).data = p.data /\ g(p).version = p.version
    <3>1. \A p : LET x == Obj(c, p)
                IN x.id = p.id /\ x.data = p.data /\ x.version = p.version
      BY <1>1, <1>4 DEF Obj
    <3>2. \A x : LET y == FromObj(x)
                IN y.object = x.id /\ y.id = x.id /\ y.at = Today /\ y.data = x.data
                   /\ y.version = x.version
      BY DEF FromObj
    <3> QED BY <3>1, <3>2
  <2> HIDE DEF g, V
  <2>3. {w \in V : w.object = o.id} = {v}
    BY <1>2, <2>1, <2>2 DEF UniqueIds
  <2>4. v.id \in 1..writes /\ v.id = o.id
    BY <1>1, <2>1, <2>2 DEF Sound, Numbered
  <2>5. UpToIn(V, c, v) = {v}
    <3>1. NotAfter(c, v, v)
      BY <1>1, <1>4, <2>4 DEF NotAfter
    <3>2. UpToIn(V, c, v) = {q \in {w \in V : w.object = o.id} : NotAfter(c, q, v)}
      BY <2>2 DEF UpToIn
    <3> HIDE DEF v
    <3> QED BY <2>3, <3>1, <3>2
  <2>6. PlaceIn(V, c, v) = 1
    <3>1. {q.id : q \in UpToIn(V, c, v)} = {v.id}
      BY <2>5
    <3> QED BY <3>1, FS_Singleton DEF PlaceIn
  <2>7. HistoryOf(V, c, o.id) = {<<1, ToldOf(v)>>}
    BY <2>3, <2>6 DEF HistoryOf
  <2>8. History(o) = {<<1, [data |-> o.data, version |-> o.version]>>}
    BY <1>1, <1>4, HasColumns DEF History
  <2>9. ToldOf(v) = [data |-> o.data, version |-> o.version]
    BY <2>2 DEF ToldOf
  <2> QED BY <2>7, <2>8, <2>9 DEF V
<1> QED BY <1>1, <1>3, <1>4

\* Without its column no type has a service.
LEMMA TypesKept ==
  ASSUME NEW d, NEW c \in 0..40, c >= 39, NEW y \in Typs(d, c)
  PROVE  y.service = Null
<1>1. PICK t \in d.rows["objecttype"] : y = Typ(c, t)
  BY DEF Typs
<1> QED BY <1>1 DEF Typ

\* The URL that the app tells of an object.
LEMMA UrlTold ==
  ASSUME Tellable, NEW o \in db.rows["object"]
  PROVE  UrlOf(o) = UrlIn(Typs(db, applied[1]), applied[1], Obj(applied[1], o).link)
<1> DEFINE c == applied[1]
           Y == Typs(db, c)
           link == Obj(c, o).link
<1>1. /\ c \in 1..40 \ ({3, 9, 18} \cup 21..25) /\ HistoryTables(db, c)
      /\ Sound(Objs(db, c), View(db, c), Y, c, writes)
  BY DEF Tellable
<1>2. link = o.object_type
  BY <1>1 DEF Obj, Link
<1>3. /\ Has("objecttype", "id") <=> c >= 26
      /\ Has("objecttype", "service") <=> c \in 26..38
  BY HasColumns
<1> HIDE DEF c
<1>4. CASE c <= 20
  BY <1>1, <1>2, <1>3, <1>4 DEF UrlOf, UrlIn, c
<1>5. CASE c >= 26
  <2>1. Obj(c, o) \in Objs(db, c)
    BY <1>1 DEF Objs
  <2>2. PICK y \in Y : y.id = link
    BY <1>1, <1>5, <2>1 DEF Sound
  <2>3. PICK t \in db.rows["objecttype"] : y = Typ(c, t)
    BY <1>1, <1>5, <2>2 DEF Typs
  <2>4. t.id = o.object_type /\ y.uuid = t.uuid /\ y.service = IF c <= 38 THEN t.service ELSE Null
    BY <1>2, <2>2, <2>3 DEF Typ
  <2>5. RowWith(db, "objecttype", o.object_type) = t
    <3>1. UniqueIds(db, "objecttype")
      BY <1>1, <1>5, TablesUnique
    <3> QED BY <2>4, <3>1, RowWithId
  <2>6. ObjOf(Y, link) = y
    <3>1. Keyed(Y)
      BY <1>1, TablesKeyed
    <3> QED BY <2>2, <3>1, ObjOfKeyed
  <2>7. UrlOf(o) = [path |-> IF c <= 38 THEN t.service ELSE Null, uuid |-> t.uuid]
    BY <1>1, <1>3, <1>5, <2>5 DEF UrlOf, TypeOf
  <2>8. UrlIn(Y, c, link) = [path |-> y.service, uuid |-> y.uuid]
    BY <1>1, <1>5, <2>6 DEF UrlIn
  <2> QED BY <2>4, <2>7, <2>8 DEF c
<1> QED BY <1>1, <1>4, <1>5

\* What the app tells is what the tables say.
LEMMA SaysTold ==
  Tellable =>
    Says = SaysIn(Objs(db, applied[1]), View(db, applied[1]), Typs(db, applied[1]), applied[1])
<1> SUFFICES ASSUME Tellable
             PROVE  Says = SaysIn(Objs(db, applied[1]), View(db, applied[1]), Typs(db, applied[1]),
                                  applied[1])
  OBVIOUS
<1> DEFINE c == applied[1]
           R == db.rows["object"]
           O == Objs(db, c)
           V == View(db, c)
           Y == Typs(db, c)
<1>1. c \in 1..40 /\ HistoryTables(db, c)
  BY DEF Tellable
<1>2. UniqueIds(db, "object")
  BY <1>1, TablesUnique
<1>3. \A r \in R : /\ RowWith(db, "object", r.id) = r /\ ObjOf(O, r.id) = Obj(c, r)
                   /\ UrlOf(r) = UrlIn(Y, c, Obj(c, r).link) /\ History(r) = HistoryOf(V, c, r.id)
  BY <1>1, <1>2, RowWithId, ObjOfRow, UrlTold, HistoryTold
<1>4. {o.id : o \in O} = {r.id : r \in R}
  <2>1. \A r : Obj(c, r).id = r.id
    BY DEF Obj
  <2>2. O = {Obj(c, r) : r \in R}
    BY <1>1 DEF Objs
  <2> QED BY <2>1, <2>2
<1>5. Rows("object") = R
  BY HasColumns
<1> DEFINE says(id) == [url |-> UrlOf(RowWith(db, "object", id)),
                        history |-> History(RowWith(db, "object", id))]
           told(id) == [url |-> UrlIn(Y, c, ObjOf(O, id).link), history |-> HistoryOf(V, c, id)]
<1>6. Says = [id \in {r.id : r \in R} |-> says(id)]
  BY <1>5 DEF Says
<1>7. SaysIn(O, V, Y, c) = [id \in {o.id : o \in O} |-> told(id)]
  BY DEF SaysIn
<1>8. \A id \in {r.id : r \in R} : says(id) = told(id)
  BY <1>3
<1> HIDE DEF says, told, O, V, Y, c
<1>9. Says = SaysIn(O, V, Y, c)
  BY <1>4, <1>6, <1>7, <1>8
<1> QED BY <1>9 DEF O, V, Y, c

\* What the app tells, it told.
LEMMA FreshTold ==
  ASSUME NEW c \in 1..40 \ ({3, 9, 18} \cup 21..25), NEW O, NEW V, NEW Y, NEW n \in Nat,
         Keyed(O), Keyed(Y), Sound(O, V, Y, c, n), c >= 39 => \A y \in Y : y.service = Null
  PROVE  ToldStill(O, V, Y, c, SaysIn(O, V, Y, c))
<1> DEFINE s == SaysIn(O, V, Y, c)
<1>1. /\ DOMAIN s = {o.id : o \in O}
      /\ \A o \in O : s[o.id].url = UrlIn(Y, c, o.link) /\ s[o.id].history = HistoryOf(V, c, o.id)
  <2>1. \A o \in O : ObjOf(O, o.id) = o
    BY ObjOfKeyed
  <2> QED BY <2>1 DEF SaysIn
<1> HIDE DEF s
<1>2. CASE c <= 20
  <2>1. \A o \in O : s[o.id].url = o.link /\ IsUrl(o.link)
    BY <1>1, <1>2 DEF UrlIn, Sound
  <2> QED BY <1>1, <1>2, <2>1 DEF ToldStill, StaysAt, LinkFits, s
<1>3. CASE c >= 26
  <2>1. ASSUME NEW o \in O
        PROVE  Survives(s[o.id].url) /\ TypedAs(c, o.link, s[o.id].url, Y)
    <3>1. PICK y \in Y : y.id = o.link
      BY <1>3 DEF Sound
    <3>2. ObjOf(Y, o.link) = y
      BY <3>1, ObjOfKeyed
    <3>3. s[o.id].url = [path |-> y.service, uuid |-> y.uuid]
      BY <1>1, <1>3, <3>2 DEF UrlIn
    <3>4. TypedAs(c, o.link, s[o.id].url, Y)
      BY <3>1, <3>3 DEF TypedAs
    <3>5. CASE c >= 39
      <4>1. y.service = Null
        BY <3>5
      <4>2. s[o.id].url.path = Null
        BY <3>3, <4>1
      <4> QED BY <3>4, <4>2 DEF Survives
    <3>6. CASE c <= 38
      <4>1. y.service \in Roots /\ y.uuid # Null /\ y.service \in Seq(STRING)
        BY <3>6, RootAssumption DEF Sound
      <4>2. y.service \in RootsOf(s[o.id].url)
        BY <3>3, <4>1 DEF RootsOf, IsPrefix
      <4> QED BY <3>3, <3>4, <4>1, <4>2 DEF Survives
    <3> QED BY <3>4, <3>5, <3>6
  <2>2. {o.id : o \in O} = {i \in DOMAIN s : StaysAt(c, s[i].url)}
    BY <1>1, <2>1 DEF StaysAt
  <2> QED BY <1>1, <1>3, <2>1, <2>2 DEF ToldStill, LinkFits, s
<1> QED BY <1>2, <1>3

-----------------------------------------------------------------------------
(* What the app of a release enters.                                           *)

\* Sound, row by row.
RowsSound(d, c, n) ==
  /\ c <= 2 => \A o \in d.rows["object"] : o.id \in 1..n
  /\ c >= 4 => \A r \in d.rows["objectrecord"] :
                 /\ r.id \in 1..n /\ At(c, r) \in Nat
                 /\ \E o \in d.rows["object"] : o.id = r.object
  /\ c <= 20 => \A o \in d.rows["object"] : IsUrl(o.object_type)
  /\ c >= 26 => \A o \in d.rows["object"] : \E t \in d.rows["objecttype"] : t.id = o.object_type
  /\ c \in 26..38 => \A t \in d.rows["objecttype"] : t.service \in Roots /\ t.uuid # Null

\* Sound tables, by their rows.
LEMMA SoundOfRows ==
  ASSUME NEW d, NEW c \in 1..40 \ ({3, 9, 18} \cup 21..25), NEW n \in Nat
  PROVE  Sound(Objs(d, c), View(d, c), Typs(d, c), c, n) <=> RowsSound(d, c, n)
<1> DEFINE O == Objs(d, c)
           V == View(d, c)
           Y == Typs(d, c)
<1>1. O = {Obj(c, o) : o \in d.rows["object"]}
      /\ \A o : Obj(c, o).id = o.id /\ Obj(c, o).link = o.object_type
  BY DEF Objs, Obj, Link
<1>2. c >= 26 => /\ Y = {Typ(c, t) : t \in d.rows["objecttype"]}
                 /\ \A t : /\ Typ(c, t).id = t.id /\ Typ(c, t).uuid = t.uuid
                           /\ c <= 38 => Typ(c, t).service = t.service
  BY DEF Typs, Typ
<1>3. c <= 20 => Y = {}
  BY DEF Typs
<1>4. c >= 4 => /\ V = {Shown(d, c, r) : r \in d.rows["objectrecord"]}
                /\ \A r : LET v == Shown(d, c, r)
                          IN v.id = r.id /\ v.object = r.object /\ v.at = At(c, r)
  <2> HIDE DEF O, Y
  <2> SUFFICES ASSUME c >= 4
               PROVE  /\ V = {Shown(d, c, r) : r \in d.rows["objectrecord"]}
                      /\ \A r : LET v == Shown(d, c, r)
                                IN v.id = r.id /\ v.object = r.object /\ v.at = At(c, r)
    OBVIOUS
  <2>1. c \in 4..40
    OBVIOUS
  <2>2. \A r : LET v == Shown(d, c, r)
               IN v.id = r.id /\ v.object = r.object /\ v.at = At(c, r)
    <3>1. \A r : LET v == Shown(d, c, r)
                 IN /\ v.id = r.id /\ v.object = r.object /\ v.data = r.data /\ v.at = At(c, r)
                    /\ v.version = IF c <= 9 THEN ObjOf(Objs(d, c), r.object).version ELSE r.version
      BY <2>1, ShownRows, Zenon
    <3> QED BY <3>1, Zenon
  <2>3. View(d, c) = {Shown(d, c, r) : r \in d.rows["objectrecord"]}
    BY <2>1, ShownRows
  <2> QED BY <2>2, <2>3
<1>5. c <= 2 => /\ V = {FromObj(o) : o \in O}
                /\ \A o : LET v == FromObj(o) IN v.id = o.id /\ v.object = o.id /\ v.at = Today
  BY DEF View, Seen, FromObj
<1> HIDE DEF O, V, Y
<1>6. Numbered(V, n) /\ (\A v \in V : \E o \in O : o.id = v.object)
      <=> /\ c <= 2 => \A o \in d.rows["object"] : o.id \in 1..n
          /\ c >= 4 => \A r \in d.rows["objectrecord"] :
                         /\ r.id \in 1..n /\ At(c, r) \in Nat
                         /\ \E o \in d.rows["object"] : o.id = r.object
  <2>1. CASE c <= 2
    <3>1. \A v \in V : \E o \in O : o.id = v.object
      BY <1>5, <2>1
    <3>2. Numbered(V, n) <=> \A o \in O : o.id \in 1..n
      BY <1>5, <2>1, DateAssumption DEF Numbered
    <3>3. (\A o \in O : o.id \in 1..n) <=> \A o \in d.rows["object"] : o.id \in 1..n
      BY <1>1
    <3> QED BY <2>1, <3>1, <3>2, <3>3
  <2>2. CASE c >= 4
    <3>1. (\A v \in V : \E o \in O : o.id = v.object)
          <=> \A r \in d.rows["objectrecord"] : \E o \in d.rows["object"] : o.id = r.object
      BY <1>1, <1>4, <2>2
    <3>2. Numbered(V, n) <=> \A r \in d.rows["objectrecord"] : r.id \in 1..n /\ At(c, r) \in Nat
      BY <1>4, <2>2 DEF Numbered
    <3> QED BY <2>2, <3>1, <3>2
  <2> QED BY <2>1, <2>2
<1>7. (c <= 21 => \A o \in O : IsUrl(o.link))
      <=> (c <= 20 => \A o \in d.rows["object"] : IsUrl(o.object_type))
  BY <1>1
<1>8. (c >= 25 => \A o \in O : \E y \in Y : y.id = o.link)
      <=> (c >= 26 => \A o \in d.rows["object"] : \E t \in d.rows["objecttype"] : t.id = o.object_type)
  <2>1. CASE c <= 20
    BY <2>1
  <2>2. CASE c >= 26
    <3>1. \A i : (\E y \in Y : y.id = i) <=> \E t \in d.rows["objecttype"] : t.id = i
      BY <1>2, <2>2
    <3>2. (\A o \in O : \E y \in Y : y.id = o.link)
          <=> \A o \in d.rows["object"] : \E y \in Y : y.id = o.object_type
      BY <1>1
    <3> QED BY <2>2, <3>1, <3>2
  <2> QED BY <2>1, <2>2
<1>9. (c <= 38 => \A y \in Y : y.service \in Roots /\ y.uuid # Null)
      <=> (c \in 26..38 => \A t \in d.rows["objecttype"] : t.service \in Roots /\ t.uuid # Null)
  BY <1>2, <1>3
<1> QED BY <1>3, <1>6, <1>7, <1>8, <1>9 DEF Sound, RowsSound, O, V, Y

\* Rows more, that are sound.
LEMMA GrownHistory ==
  ASSUME Tellable, NEW e, Valid(e),
         Grows(db, e, "object"), Grows(db, e, "objectrecord"), Grows(db, e, "objecttype"),
         \A o \in e.rows["object"] \ db.rows["object"] :
           /\ o.id = writes + 1
           /\ applied[1] <= 20 => IsUrl(o.object_type)
           /\ applied[1] >= 26 => \E t \in e.rows["objecttype"] : t.id = o.object_type,
         applied[1] >= 4 =>
           \A r \in e.rows["objectrecord"] \ db.rows["objectrecord"] :
             /\ r.id = writes + 1 /\ At(applied[1], r) \in Nat
             /\ \E o \in e.rows["object"] : o.id = r.object,
         applied[1] \in 26..38 =>
           \A t \in e.rows["objecttype"] \ db.rows["objecttype"] : t.service \in Roots /\ t.uuid # Null
  PROVE  /\ HistoryTables(e, applied[1])
         /\ Sound(Objs(e, applied[1]), View(e, applied[1]), Typs(e, applied[1]), applied[1], writes + 1)
<1> DEFINE c == applied[1]
           n == writes
<1>1. /\ c \in 1..40 \ ({3, 9, 18} \cup 21..25) /\ n \in Nat /\ HistoryTables(db, c)
      /\ RowsSound(db, c, n)
  BY SoundOfRows DEF Tellable
<1>2. /\ \A o \in e.rows["object"] \ db.rows["object"] :
           /\ o.id = n + 1
           /\ c <= 20 => IsUrl(o.object_type)
           /\ c >= 26 => \E t \in e.rows["objecttype"] : t.id = o.object_type
      /\ c >= 4 => \A r \in e.rows["objectrecord"] \ db.rows["objectrecord"] :
                     /\ r.id = n + 1 /\ At(c, r) \in Nat
                     /\ \E o \in e.rows["object"] : o.id = r.object
      /\ c \in 26..38 =>
           \A t \in e.rows["objecttype"] \ db.rows["objecttype"] : t.service \in Roots /\ t.uuid # Null
  OBVIOUS
<1> HIDE DEF c, n
<1>3. e.columns = db.columns
  BY DEF Grows
<1>4. /\ Shaped(e, "object") /\ Shaped(e, "objectrecord") /\ Shaped(e, "objecttype")
  BY <1>1, GrownShaped DEF HistoryTables, ObjectTable, RecordTable, TypesTable
<1>5. HistoryTables(e, c)
  <2>1. ObjectTable(e, c)
    BY <1>1, <1>3, <1>4 DEF HistoryTables, ObjectTable, HasNames, Names, Absent
  <2>2. RecordTable(e, c)
    BY <1>1, <1>3, <1>4 DEF HistoryTables, RecordTable, HasNames, Names, Absent
  <2>3. TypesTable(e, c)
    BY <1>1, <1>3, <1>4 DEF HistoryTables, TypesTable, HasNames, Names, Absent
  <2> QED BY <2>1, <2>2, <2>3 DEF HistoryTables
<1>6. /\ db.rows["object"] \subseteq e.rows["object"]
      /\ c >= 4 => db.rows["objectrecord"] \subseteq e.rows["objectrecord"]
      /\ c >= 26 => db.rows["objecttype"] \subseteq e.rows["objecttype"]
  <2>1. /\ "object" \in DOMAIN db.rows /\ (c >= 4 => "objectrecord" \in DOMAIN db.rows)
        /\ (c >= 26 => "objecttype" \in DOMAIN db.rows)
    BY <1>1 DEF HistoryTables, ObjectTable, RecordTable, TypesTable, HasNames, Shaped
  <2> QED BY <2>1 DEF Grows
<1>7. RowsSound(e, c, n + 1)
  <2>1. \A i \in 1..n : i \in 1..(n + 1)
    BY <1>1
  <2>2. n + 1 \in 1..(n + 1)
    BY <1>1
  <2>3. c <= 2 => \A o \in e.rows["object"] : o.id \in 1..(n + 1)
    BY <1>1, <1>2, <2>1, <2>2 DEF RowsSound
  <2>4. c >= 4 => \A r \in e.rows["objectrecord"] :
                    /\ r.id \in 1..(n + 1) /\ At(c, r) \in Nat
                    /\ \E o \in e.rows["object"] : o.id = r.object
    BY <1>1, <1>2, <1>6, <2>1, <2>2 DEF RowsSound
  <2>5. c <= 20 => \A o \in e.rows["object"] : IsUrl(o.object_type)
    BY <1>1, <1>2 DEF RowsSound
  <2>6. c >= 26 => \A o \in e.rows["object"] : \E t \in e.rows["objecttype"] : t.id = o.object_type
    BY <1>1, <1>2, <1>6 DEF RowsSound
  <2>7. c \in 26..38 => \A t \in e.rows["objecttype"] : t.service \in Roots /\ t.uuid # Null
    BY <1>1, <1>2 DEF RowsSound
  <2> QED BY <2>3, <2>4, <2>5, <2>6, <2>7 DEF RowsSound
<1>8. Sound(Objs(e, c), View(e, c), Typs(e, c), c, n + 1)
  BY <1>1, <1>7, SoundOfRows
<1> QED BY <1>5, <1>8 DEF c, n

\* The type of a URL is there once it was entered, and no other table changes.
LEMMA TypeAddedHistory ==
  ASSUME Tellable, NEW url \in Urls, applied[1] >= 26 => HasType(url)
  PROVE  LET e == TypeAdded(url)
         IN /\ Grows(db, e, "objecttype")
            /\ \A T \in DOMAIN db.rows \ {"objecttype"} : e.rows[T] = db.rows[T]
            /\ applied[1] >= 26 => \E t \in e.rows["objecttype"] : t.id = TypeKey(url)
            /\ applied[1] \in 26..38 =>
                 \A t \in e.rows["objecttype"] \ db.rows["objecttype"] :
                   t.service \in Roots /\ t.uuid # Null
<1> DEFINE c == applied[1]
           e == TypeAdded(url)
           row == TypeRow(db, TypeId(url))
           new == Has("objecttype", "id") /\ ~\E type \in Rows("objecttype") : type.uuid = url.uuid
<1>1. /\ c \in 1..40 \ ({3, 9, 18} \cup 21..25) /\ TypesTable(db, c) /\ Shaped(db, "objecttype")
      /\ "columns" \in DOMAIN db /\ "rows" \in DOMAIN db
      /\ (Has("objecttype", "id") <=> c >= 26)
  BY HasColumns DEF Tellable, HistoryTables, TypesTable, Shaped
<1>2. c >= 26 => HasType(url)
  OBVIOUS
<1> HIDE DEF c
<1>3. CASE ~new
  <2>1. e = db
    BY <1>3 DEF TypeAdded
  <2> HIDE DEF e
  <2>2. Grows(db, e, "objecttype")
    BY <1>1, <2>1 DEF Grows
  <2>3. c >= 26 => \E t \in e.rows["objecttype"] : t.uuid = url.uuid
    BY <1>1, <1>3, <2>1 DEF Rows
  <2>4. c >= 26 => \E t \in e.rows["objecttype"] : t.id = TypeKey(url)
    BY <2>3 DEF TypeKey, e
  <2> QED BY <2>1, <2>2, <2>4 DEF c, e
<1>4. CASE new
  <2>1. e = Put(db, "objecttype", {row})
    BY <1>4 DEF TypeAdded, Put
  <2>2. /\ c >= 26 /\ "objecttype" \in DOMAIN db.rows
        /\ DOMAIN db.columns["objecttype"] \cap TypeFields = TypeNames(c)
    BY <1>1, <1>4 DEF TypesTable, HasNames, Names, Shaped
  <2>3. /\ DOMAIN row = DOMAIN db.columns["objecttype"] /\ row.uuid = url.uuid
        /\ c <= 38 => row.service = Root(url)
    <3>1. "uuid" \in DOMAIN db.columns["objecttype"]
          /\ (c <= 38 => "service" \in DOMAIN db.columns["objecttype"])
      BY <2>2 DEF TypeNames
    <3> QED BY <3>1 DEF TypeRow, RowOf, TypeId
  <2>4. Root(url) \in Roots /\ url.uuid # Null
    <3>1. RootsOf(url) # {} /\ url.uuid # Null
      BY <1>2, <2>2 DEF HasType
    <3>2. url.path \in Seq(STRING)
      BY UrlAssumption
    <3> QED BY <3>1, <3>2, LongestRoot
  <2> HIDE DEF e, row
  <2>5. /\ "columns" \in DOMAIN e /\ "rows" \in DOMAIN e /\ e.columns = db.columns
        /\ DOMAIN e.rows = DOMAIN db.rows
        /\ e.rows["objecttype"] = db.rows["objecttype"] \cup {row}
        /\ \A U \in DOMAIN db.rows \ {"objecttype"} : e.rows[U] = db.rows[U]
    BY <1>1, <2>1, <2>2, PutRows
  <2>6. Grows(db, e, "objecttype")
    BY <2>3, <2>5 DEF Grows
  <2>7. \E t \in e.rows["objecttype"] : t.id = TypeKey(url)
    <3>1. \E t \in e.rows["objecttype"] : t.uuid = url.uuid
      BY <2>3, <2>5
    <3> QED BY <3>1 DEF TypeKey, e
  <2>8. c <= 38 => \A t \in e.rows["objecttype"] \ db.rows["objecttype"] :
                     t.service \in Roots /\ t.uuid # Null
    BY <2>3, <2>4, <2>5
  <2> QED BY <1>1, <2>5, <2>6, <2>7, <2>8 DEF c, e
<1> QED BY <1>3, <1>4

\* The inductive invariant: the tables are those of the migrations that were run, and what they
\* say is what was told; target is the release that is being installed.
HistoryInv ==
  /\ applied[1] \in 0..40 /\ applied[2] \in 0..17
  /\ target \in Releases /\ applied[1] <= target[1] /\ applied[2] <= target[2]
  /\ writes \in Nat
  /\ HistoryStage(db, applied[1], writes, said)

\* When the app runs it can tell.
LEMMA RunsTellable == HistoryInv /\ Runs => Tellable
BY ReleaseAssumption DEF HistoryInv, Runs, Tellable, HistoryStage

\* What is entered is told from then on: sound rows are all that an entry owes.
LEMMA EnterHistory ==
  ASSUME HistoryInv, Runs, NEW new, Enter(new), HistoryTables(new, applied[1]),
         Sound(Objs(new, applied[1]), View(new, applied[1]), Typs(new, applied[1]), applied[1],
               writes + 1)
  PROVE  HistoryInv'
<1>1. /\ db' = new /\ applied' = applied /\ target' = target /\ said' = Says' /\ writes' = writes + 1
  BY DEF Enter, Entry
<1>2. writes' \in Nat /\ applied[1] \in 1..40 \ ({3, 9, 18} \cup 21..25)
  BY <1>1, RunsTellable DEF HistoryInv, Tellable
<1>3. Tellable'
  BY <1>1, <1>2 DEF Tellable
<1>4. (Tellable =>
         Says = SaysIn(Objs(db, applied[1]), View(db, applied[1]), Typs(db, applied[1]), applied[1]))'
  BY SaysTold, PTL
<1> DEFINE c == applied[1]
           O == Objs(new, c)
           V == View(new, c)
           Y == Typs(new, c)
<1>5. said' = SaysIn(O, V, Y, c)
  BY <1>1, <1>3, <1>4
<1>6. c \in 0..40 /\ HistoryTables(new, c) /\ Sound(O, V, Y, c, writes + 1)
      /\ c \in 1..40 \ ({3, 9, 18} \cup 21..25) /\ writes + 1 \in Nat
  BY <1>1, <1>2
<1>7. Keyed(O) /\ Keyed(Y) /\ (c >= 39 => \A y \in Y : y.service = Null)
  BY <1>6, TablesKeyed, TypesKept
<1> HIDE DEF c, O, V, Y
<1>8. ToldStill(O, V, Y, c, SaysIn(O, V, Y, c))
  BY <1>6, <1>7, FreshTold
<1>9. HistoryStage(new, c, writes + 1, said')
  BY <1>5, <1>6, <1>8 DEF HistoryStage, O, V, Y
<1> QED BY <1>1, <1>2, <1>9 DEF HistoryInv, c

\* A record that is added gets the next index, and a key of its own.
LEMMA AddRecordHistory ==
  ASSUME HistoryInv, NEW object \in Rows("object"), NEW date \in Dates, AddRecord(object, date)
  PROVE  HistoryInv'
<1> DEFINE c == applied[1]
           records == {r \in Rows("objectrecord") : r.object = object.id}
           given   == [FirstRecord(object, date) EXCEPT
                         !.object = object.id, !.index = Cardinality(records) + 1]
           row == RowOf(db, "objectrecord", given)
           new == Put(db, "objectrecord", {row})
<1>1. Runs /\ Has("objectrecord", "id") /\ Enter(new)
  BY Zenon DEF AddRecord, Insert, Put
<1>2. Tellable
  BY <1>1, RunsTellable
<1>3. /\ c \in 4..40 \ ({3, 9, 18} \cup 21..25) /\ writes \in Nat /\ HistoryTables(db, c)
      /\ RowsSound(db, c, writes) /\ Rows("objectrecord") = db.rows["objectrecord"]
      /\ Rows("object") = db.rows["object"]
  <2>1. /\ c \in 1..40 \ ({3, 9, 18} \cup 21..25) /\ writes \in Nat /\ HistoryTables(db, c)
        /\ Sound(Objs(db, c), View(db, c), Typs(db, c), c, writes)
    BY <1>2 DEF Tellable
  <2>2. c >= 4 /\ Rows("object") = db.rows["object"] /\ Rows("objectrecord") = db.rows["objectrecord"]
    BY <1>1, <1>2, HasColumns
  <2> HIDE DEF c
  <2>3. RowsSound(db, c, writes)
    BY <2>1, SoundOfRows
  <2> QED BY <2>1, <2>2, <2>3
<1>4. Cardinality(records) \in Nat
  <2>1. UniqueIds(db, "objectrecord")
    BY <1>3, TablesUnique
  <2>2. \A r \in records : r.id \in 1..writes
    BY <1>3 DEF RowsSound
  <2>3. \A r \in records, q \in records : r.id = q.id => r = q
    BY <1>3, <2>1 DEF UniqueIds
  <2> HIDE DEF records
  <2>4. IsFiniteSet(records)
    BY <1>3, <2>2, <2>3, IdCount
  <2> QED BY <2>4, FS_CardinalityType
<1> HIDE DEF records
<1>5. /\ {"id", "object", "material_date", "start_date", "start_at", "index"} \subseteq DOMAIN given
      /\ given.id = writes + 1 /\ given.object = object.id /\ given.material_date = date
      /\ given.start_date = date /\ given.start_at = date /\ given.index = Cardinality(records) + 1
  BY DEF FirstRecord, Entry
<1> HIDE DEF given
<1>6. /\ "objectrecord" \in DOMAIN db.columns
      /\ DOMAIN db.columns["objectrecord"] \cap RecordColumns = RecordNames(c)
      /\ "columns" \in DOMAIN db /\ "rows" \in DOMAIN db
      /\ "objectrecord" \in DOMAIN db.rows
  BY <1>3 DEF HistoryTables, RecordTable, HasNames, Names, Shaped
<1>7. DOMAIN row = DOMAIN db.columns["objectrecord"]
      /\ \A x \in DOMAIN db.columns["objectrecord"] : x \in DOMAIN given => row[x] = given[x]
  BY DEF RowOf
<1> HIDE DEF row, c
<1>8. row.id = writes + 1 /\ row.object = object.id /\ At(c, row) \in Nat
  <2>1. {"id", "object", Start(c)} \subseteq DOMAIN db.columns["objectrecord"]
        /\ (c >= 19 => "index" \in DOMAIN db.columns["objectrecord"])
    BY <1>3, <1>6 DEF RecordNames
  <2>2. row.id = writes + 1 /\ row.object = object.id
    BY <1>5, <1>7, <2>1
  <2>3. row[Start(c)] \in Nat
    <3>1. Start(c) \in {"material_date", "start_date", "start_at"} /\ date \in Nat
      BY BoundAssumption DEF Start
    <3>2. row[Start(c)] = given[Start(c)]
      BY <1>5, <1>7, <2>1, <3>1
    <3>3. given[Start(c)] = date
      BY <1>5, <3>1
    <3> QED BY <3>1, <3>2, <3>3
  <2>4. c >= 19 => row.index \in Nat
    BY <1>4, <1>5, <1>7, <2>1
  <2> QED BY <1>3, <2>2, <2>3, <2>4 DEF At
<1>9. /\ "columns" \in DOMAIN new /\ "rows" \in DOMAIN new /\ new.columns = db.columns
      /\ DOMAIN new.rows = DOMAIN db.rows
      /\ new.rows["objectrecord"] = db.rows["objectrecord"] \cup {row}
      /\ \A T \in DOMAIN db.rows \ {"objectrecord"} : new.rows[T] = db.rows[T]
  BY <1>6, PutRows
<1> HIDE DEF new
<1>10. /\ Grows(db, new, "object") /\ Grows(db, new, "objectrecord") /\ Grows(db, new, "objecttype")
  BY <1>6, <1>7, <1>9 DEF Grows
<1>11. /\ new.rows["object"] = db.rows["object"]
       /\ c >= 26 => new.rows["objecttype"] = db.rows["objecttype"]
  <2>1. "object" \in DOMAIN db.rows /\ (c >= 26 => "objecttype" \in DOMAIN db.rows)
    BY <1>3 DEF HistoryTables, ObjectTable, TypesTable, HasNames, Shaped
  <2> QED BY <1>9, <2>1
<1>12. Valid(new)
  BY <1>1 DEF Enter
<1>13. /\ HistoryTables(new, applied[1])
       /\ Sound(Objs(new, applied[1]), View(new, applied[1]), Typs(new, applied[1]), applied[1],
                writes + 1)
  <2>1. \A o \in new.rows["object"] \ db.rows["object"] : FALSE
    BY <1>11
  <2>2. \A r \in new.rows["objectrecord"] \ db.rows["objectrecord"] :
          /\ r.id = writes + 1 /\ At(applied[1], r) \in Nat
          /\ \E o \in new.rows["object"] : o.id = r.object
    BY <1>3, <1>8, <1>9, <1>11 DEF c
  <2>3. applied[1] \in 26..38 => \A t \in new.rows["objecttype"] \ db.rows["objecttype"] : FALSE
    BY <1>11 DEF c
  <2> QED BY <1>2, <1>10, <1>12, <2>1, <2>2, <2>3, GrownHistory
<1> QED BY <1>1, <1>13, EnterHistory

\* An object that is added has its type and its first record.
LEMMA AddObjectHistory ==
  ASSUME HistoryInv, NEW url \in Urls, NEW date \in Dates, AddObject(url, date)
  PROVE  HistoryInv'
<1> DEFINE c == applied[1]
           typed  == Has("objecttype", "id")
           link   == IF typed THEN TypeKey(url) ELSE url
           given  == [id |-> Entry, uuid |-> Entry, data |-> Entry, version |-> Entry,
                      object_type |-> link]
           first  == FirstRecord(given, date)
           row    == RowOf(db, "object", given)
           record == RowOf(db, "objectrecord", first)
           more   == TypeAdded(url)
           base   == Put(more, "object", {row})
           new    == IF Has("objectrecord", "id") THEN Put(base, "objectrecord", {record}) ELSE base
<1>1. Runs /\ (typed => HasType(url)) /\ Enter(new)
  BY Zenon DEF AddObject, Put
<1>2. Tellable
  BY <1>1, RunsTellable
<1>3. /\ c \in 1..40 \ ({3, 9, 18} \cup 21..25) /\ writes \in Nat /\ HistoryTables(db, c)
      /\ (typed <=> c >= 26) /\ (Has("objectrecord", "id") <=> c >= 4)
  BY <1>2, HasColumns DEF Tellable
<1>4. /\ Grows(db, more, "objecttype")
      /\ \A T \in DOMAIN db.rows \ {"objecttype"} : more.rows[T] = db.rows[T]
      /\ c >= 26 => \E t \in more.rows["objecttype"] : t.id = TypeKey(url)
      /\ c \in 26..38 => \A t \in more.rows["objecttype"] \ db.rows["objecttype"] :
                           t.service \in Roots /\ t.uuid # Null
  BY <1>1, <1>2, <1>3, TypeAddedHistory
<1>5. /\ "object" \in DOMAIN db.columns /\ "object" \in DOMAIN db.rows
      /\ DOMAIN db.columns["object"] \cap ObjectColumns = ObjectNames(c)
      /\ c >= 4 => /\ "objectrecord" \in DOMAIN db.columns /\ "objectrecord" \in DOMAIN db.rows
                   /\ DOMAIN db.columns["objectrecord"] \cap RecordColumns = RecordNames(c)
      /\ c >= 26 => "objecttype" \in DOMAIN db.rows
  BY <1>3 DEF HistoryTables, ObjectTable, RecordTable, TypesTable, HasNames, Names, Shaped
<1>6. /\ {"id", "object_type"} \subseteq DOMAIN given
      /\ given.id = writes + 1 /\ given.object_type = link
      /\ {"id", "object", "material_date", "start_date", "start_at", "index"} \subseteq DOMAIN first
      /\ first.id = writes + 1 /\ first.object = writes + 1 /\ first.material_date = date
      /\ first.start_date = date /\ first.start_at = date /\ first.index = 1
  BY DEF FirstRecord, Entry
<1>7. (c <= 20 => link = url) /\ (c >= 26 => link = TypeKey(url))
  BY <1>3
<1> HIDE DEF given, first, link, typed, more
<1>8. /\ DOMAIN row = DOMAIN db.columns["object"]
      /\ \A x \in DOMAIN db.columns["object"] : x \in DOMAIN given => row[x] = given[x]
      /\ DOMAIN record = DOMAIN db.columns["objectrecord"]
      /\ \A x \in DOMAIN db.columns["objectrecord"] : x \in DOMAIN first => record[x] = first[x]
  BY DEF RowOf
<1> HIDE DEF row, record, c
<1>9. row.id = writes + 1 /\ row.object_type = link
  <2>1. {"id", "object_type"} \subseteq DOMAIN db.columns["object"]
    BY <1>3, <1>5 DEF ObjectNames
  <2> QED BY <1>6, <1>8, <2>1
<1>10. c >= 4 => record.id = writes + 1 /\ record.object = writes + 1 /\ At(c, record) \in Nat
  <2> SUFFICES ASSUME c >= 4
               PROVE  record.id = writes + 1 /\ record.object = writes + 1 /\ At(c, record) \in Nat
    OBVIOUS
  <2>1. {"id", "object", Start(c)} \subseteq DOMAIN db.columns["objectrecord"]
        /\ (c >= 19 => "index" \in DOMAIN db.columns["objectrecord"])
    BY <1>3, <1>5 DEF RecordNames
  <2>2. record.id = writes + 1 /\ record.object = writes + 1
    BY <1>6, <1>8, <2>1
  <2>3. record[Start(c)] \in Nat
    <3>1. Start(c) \in {"material_date", "start_date", "start_at"} /\ date \in Nat
      BY BoundAssumption DEF Start
    <3>2. record[Start(c)] = first[Start(c)]
      BY <1>6, <1>8, <2>1, <3>1
    <3>3. first[Start(c)] = date
      BY <1>6, <3>1
    <3> QED BY <3>1, <3>2, <3>3
  <2>4. c >= 19 => record.index \in Nat
    BY <1>6, <1>8, <2>1
  <2> QED BY <1>3, <2>2, <2>3, <2>4 DEF At
<1>11. /\ "columns" \in DOMAIN base /\ "rows" \in DOMAIN base /\ base.columns = db.columns
       /\ DOMAIN base.rows = DOMAIN db.rows
       /\ base.rows["object"] = db.rows["object"] \cup {row}
       /\ \A T \in DOMAIN db.rows \ {"object"} : base.rows[T] = more.rows[T]
  <2>1. /\ "columns" \in DOMAIN more /\ "rows" \in DOMAIN more /\ more.columns = db.columns
        /\ DOMAIN more.rows = DOMAIN db.rows /\ more.rows["object"] = db.rows["object"]
    BY <1>4, <1>5 DEF Grows
  <2> QED BY <1>5, <2>1, PutRows
<1> HIDE DEF base
<1>12. /\ "columns" \in DOMAIN new /\ "rows" \in DOMAIN new /\ new.columns = db.columns
       /\ DOMAIN new.rows = DOMAIN db.rows
       /\ new.rows["object"] = db.rows["object"] \cup {row}
       /\ c >= 4 => new.rows["objectrecord"] = db.rows["objectrecord"] \cup {record}
       /\ \A T \in DOMAIN db.rows \ {"object", "objectrecord"} : new.rows[T] = more.rows[T]
  <2>1. CASE c >= 4
    <3>1. new = Put(base, "objectrecord", {record})
      BY <1>3, <2>1
    <3>2. base.rows["objectrecord"] = db.rows["objectrecord"]
      BY <1>4, <1>5, <1>11, <2>1
    <3> HIDE DEF new
    <3> QED BY <1>5, <1>11, <2>1, <3>1, <3>2, PutRows
  <2>2. CASE ~(c >= 4)
    <3>1. new = base
      BY <1>3, <2>2
    <3> HIDE DEF new
    <3> QED BY <1>11, <2>2, <3>1
  <2> QED BY <2>1, <2>2
<1>13. c <= 2 => "objectrecord" \notin DOMAIN db.rows
  BY <1>3 DEF HistoryTables, RecordTable, Absent, Shaped
<1> HIDE DEF new
<1>14. Grows(db, new, "object")
  BY <1>8, <1>12 DEF Grows
<1>15. Grows(db, new, "objectrecord")
  <2>1. CASE c >= 4
    BY <1>8, <1>12, <2>1 DEF Grows
  <2>2. CASE c <= 2
    BY <1>12, <1>13, <2>2 DEF Grows
  <2> QED BY <1>3, <2>1, <2>2
<1>16. Grows(db, new, "objecttype") /\ (c >= 26 => new.rows["objecttype"] = more.rows["objecttype"])
  <2>1. "objecttype" \in DOMAIN db.rows => new.rows["objecttype"] = more.rows["objecttype"]
    BY <1>12
  <2> QED BY <1>4, <1>5, <1>12, <2>1 DEF Grows
<1>17. Valid(new)
  BY <1>1 DEF Enter
<1>18. /\ HistoryTables(new, applied[1])
       /\ Sound(Objs(new, applied[1]), View(new, applied[1]), Typs(new, applied[1]), applied[1],
                writes + 1)
  <2>1. ASSUME NEW o \in new.rows["object"] \ db.rows["object"]
        PROVE  /\ o.id = writes + 1
               /\ applied[1] <= 20 => IsUrl(o.object_type)
               /\ applied[1] >= 26 => \E t \in new.rows["objecttype"] : t.id = o.object_type
    <3>1. o = row
      BY <1>12
    <3>2. c <= 20 => IsUrl(o.object_type)
      BY <1>7, <1>9, <3>1, UrlAssumption DEF IsUrl
    <3>3. c >= 26 => \E t \in new.rows["objecttype"] : t.id = o.object_type
      BY <1>4, <1>7, <1>9, <1>16, <3>1
    <3> QED BY <1>9, <3>1, <3>2, <3>3 DEF c
  <2>2. applied[1] >= 4 =>
          \A r \in new.rows["objectrecord"] \ db.rows["objectrecord"] :
            /\ r.id = writes + 1 /\ At(applied[1], r) \in Nat
            /\ \E o \in new.rows["object"] : o.id = r.object
    <3>1. row \in new.rows["object"]
      BY <1>12
    <3> QED BY <1>9, <1>10, <1>12, <3>1 DEF c
  <2>3. applied[1] \in 26..38 =>
          \A t \in new.rows["objecttype"] \ db.rows["objecttype"] : t.service \in Roots /\ t.uuid # Null
    BY <1>4, <1>16 DEF c
  <2> QED BY <1>2, <1>14, <1>15, <1>16, <1>17, <2>1, <2>2, <2>3, GrownHistory
<1> QED BY <1>1, <1>18, EnterHistory

\* A permission can add a type, and nothing else that is told.
LEMMA AddPermissionHistory ==
  ASSUME HistoryInv, NEW secret, NEW url \in Urls, NEW mode, NEW fields,
         AddPermission(secret, url, mode, fields)
  PROVE  HistoryInv'
<1> DEFINE c == applied[1]
           more  == TypeAdded(url)
           token == TokenOf(secret)
           perm  == PermOf(secret, url, mode, fields)
           new   == TwoTables(more, "tokenauth", more.rows["tokenauth"] \cup {token},
                                    "permission", more.rows["permission"] \cup {perm})
<1>1. Runs /\ Enter(new) /\ HasType(url)
  BY AddPermissionDoes, Zenon DEF AddPermission
<1>2. Tellable
  BY <1>1, RunsTellable
<1>3. c \in 1..40 /\ HistoryTables(db, c) /\ "columns" \in DOMAIN db /\ "rows" \in DOMAIN db
  BY <1>2 DEF Tellable, HistoryTables, ObjectTable, Shaped
<1>4. /\ Grows(db, more, "objecttype")
      /\ \A T \in DOMAIN db.rows \ {"objecttype"} : more.rows[T] = db.rows[T]
      /\ c \in 26..38 => \A t \in more.rows["objecttype"] \ db.rows["objecttype"] :
                           t.service \in Roots /\ t.uuid # Null
  BY <1>1, <1>2, TypeAddedHistory
<1>5. "object" \in DOMAIN db.rows /\ (c >= 26 => "objecttype" \in DOMAIN db.rows)
  BY <1>3 DEF HistoryTables, ObjectTable, TypesTable, HasNames, Shaped
<1>6. Valid(new)
  BY <1>1 DEF Enter
<1> HIDE DEF more, token, perm, c
<1>7. /\ "columns" \in DOMAIN new /\ "rows" \in DOMAIN new /\ new.columns = db.columns
      /\ DOMAIN new.rows = DOMAIN db.rows
      /\ \A T \in DOMAIN db.rows \ {"tokenauth", "permission"} : new.rows[T] = more.rows[T]
  <2>1. /\ "columns" \in DOMAIN more /\ "rows" \in DOMAIN more /\ more.columns = db.columns
        /\ DOMAIN more.rows = DOMAIN db.rows
    BY <1>4 DEF Grows
  <2> QED BY <2>1, TwoTablesRows
<1> HIDE DEF new
<1>8. /\ \A T \in {"object", "objectrecord"} \cap DOMAIN db.rows : new.rows[T] = db.rows[T]
      /\ "objecttype" \in DOMAIN db.rows => new.rows["objecttype"] = more.rows["objecttype"]
  BY <1>4, <1>7
<1>9. /\ Grows(db, new, "object") /\ Grows(db, new, "objectrecord") /\ Grows(db, new, "objecttype")
  BY <1>4, <1>7, <1>8 DEF Grows
<1>10. /\ HistoryTables(new, applied[1])
       /\ Sound(Objs(new, applied[1]), View(new, applied[1]), Typs(new, applied[1]), applied[1],
                writes + 1)
  <2>1. \A o \in new.rows["object"] \ db.rows["object"] : FALSE
    BY <1>5, <1>8
  <2>2. applied[1] >= 4 => \A r \in new.rows["objectrecord"] \ db.rows["objectrecord"] : FALSE
    <3>1. c >= 4 => "objectrecord" \in DOMAIN db.rows
      BY <1>3 DEF HistoryTables, RecordTable, HasNames, Shaped
    <3> QED BY <1>8, <3>1 DEF c
  <2>3. applied[1] \in 26..38 =>
          \A t \in new.rows["objecttype"] \ db.rows["objecttype"] : t.service \in Roots /\ t.uuid # Null
    BY <1>4, <1>5, <1>8 DEF c
  <2> QED BY <1>2, <1>6, <1>9, <2>1, <2>2, <2>3, GrownHistory
<1> QED BY <1>1, <1>10, EnterHistory

\* A migration, the squash or one of tokens, leaves told what was told.
LEMMA MigrateHistory == HistoryInv /\ Migrate => HistoryInv'
<1> SUFFICES ASSUME HistoryInv, Migrate
             PROVE  HistoryInv'
  OBVIOUS
<1> DEFINE c == applied[1]
           t == applied[2]
<1>0. /\ c \in 0..40 /\ t \in 0..17 /\ writes \in Nat /\ HistoryStage(db, c, writes, said)
      /\ target \in Releases /\ c <= target[1] /\ t <= target[2]
      /\ target[1] \in 1..40 /\ target[2] \in 0..17
  BY ReleaseAssumption DEF HistoryInv
<1>1. CASE MigrateSquash
  <2>1. /\ db' = Migrated(db, Squash) /\ Valid(db') /\ applied' = <<38, t>>
        /\ target' = target /\ said' = said /\ writes' = writes /\ c = 0 /\ target = Latest
    BY <1>1 DEF MigrateSquash, Commit, Squashes, Squashed
  <2>2. HistoryStage(Migrated(db, Squash), 38, writes, said)
    BY <1>0, <2>1, SquashHistory DEF Squashed
  <2>3. target[1] = 40
    BY <2>1 DEF Latest, Core
  <2> HIDE DEF c, t
  <2> QED BY <1>0, <2>1, <2>2, <2>3 DEF HistoryInv
<1>2. CASE MigrateCore
  <2> DEFINE k == c + 1
  <2>1. /\ db' = Migrated(db, Core[k]) /\ Valid(db') /\ applied' = <<k, t>>
        /\ target' = target /\ said' = said /\ writes' = writes /\ c < target[1]
    BY <1>2 DEF MigrateCore, Commit
  <2>2. k \in 1..40 /\ k - 1 = c /\ k <= target[1]
    BY <1>0, <2>1
  <2>3. HistoryStage(Migrated(db, Core[k]), k, writes, said)
    BY <1>0, <2>1, <2>2, CoreHistory
  <2> HIDE DEF c, t, k
  <2> QED BY <1>0, <2>1, <2>2, <2>3 DEF HistoryInv
<1>3. CASE MigrateToken
  <2> DEFINE k == t + 1
  <2>1. /\ db' = Migrated(db, Token[k]) /\ Valid(db') /\ applied' = <<c, k>>
        /\ target' = target /\ said' = said /\ writes' = writes /\ c = target[1] /\ t < target[2]
    BY <1>3 DEF MigrateToken, Commit
  <2>2. k \in 1..17 /\ k <= target[2]
    BY <1>0, <2>1
  <2>3. HistoryStage(Migrated(db, Token[k]), c, writes, said)
    BY <1>0, <2>1, <2>2, TokenHistory
  <2> HIDE DEF c, t, k
  <2> QED BY <1>0, <2>1, <2>2, <2>3 DEF HistoryInv
<1> QED BY <1>1, <1>2, <1>3 DEF Migrate

\* Before the first migration nothing is told.
LEMMA InitHistory == Init => HistoryInv
<1> SUFFICES ASSUME Init
             PROVE  HistoryInv
  OBVIOUS
<1>1. db = NoTables /\ applied = <<0, 0>> /\ target \in Releases /\ said = <<>> /\ writes = 0
  BY DEF Init
<1>2. DOMAIN db.columns = {} /\ DOMAIN db.rows = {}
      /\ "columns" \in DOMAIN db /\ "rows" \in DOMAIN db
  BY <1>1 DEF NoTables
<1>3. HistoryTables(db, 0)
  BY <1>2 DEF HistoryTables, ObjectTable, RecordTable, TypesTable, Shaped, Absent, Valid
<1>4. Objs(db, 0) = {} /\ Recs(db, 0) = {} /\ Typs(db, 0) = {} /\ View(db, 0) = {}
  BY DEF Objs, Recs, Typs, View, Seen
<1>5. DOMAIN said = {}
  BY <1>1
<1>6. HistoryStage(db, 0, 0, said)
  BY <1>3, <1>4, <1>5 DEF HistoryStage, Sound, Numbered, ToldStill
<1>7. target[1] \in 1..40 /\ target[2] \in 0..17
  BY <1>1, ReleaseAssumption
<1>8. applied[1] = 0 /\ applied[2] = 0
  BY <1>1
<1>9. 0 \in 0..40 /\ 0 \in 0..17 /\ 0 <= target[1] /\ 0 <= target[2] /\ 0 \in Nat
  BY <1>7
<1> QED BY <1>1, <1>6, <1>8, <1>9, Zenon DEF HistoryInv

\* No step breaks the invariant.
LEMMA NextHistory == HistoryInv /\ [Next]_vars => HistoryInv'
<1> SUFFICES ASSUME HistoryInv, [Next]_vars
             PROVE  HistoryInv'
  OBVIOUS
<1>1. CASE Migrate
  BY <1>1, MigrateHistory
<1>2. ASSUME NEW release \in Releases, Install(release)
      PROVE  HistoryInv'
  BY <1>2 DEF Install, HistoryInv, Runs
<1>3. ASSUME NEW date \in Dates, NEW url \in Urls, AddObject(url, date)
      PROVE  HistoryInv'
  BY <1>3, AddObjectHistory
<1>4. ASSUME NEW date \in Dates, NEW object \in Rows("object"), AddRecord(object, date)
      PROVE  HistoryInv'
  BY <1>4, AddRecordHistory
<1>5. ASSUME NEW secret \in Secrets, NEW url \in Urls, NEW mode \in {"read_only", "read_and_write"},
             NEW fields \in {Default, "some"}, AddPermission(secret, url, mode, fields)
      PROVE  HistoryInv'
  BY <1>5, AddPermissionHistory
<1>6. CASE UNCHANGED vars
  BY <1>6 DEF vars, HistoryInv
<1> QED BY <1>1, <1>2, <1>3, <1>4, <1>5, <1>6 DEF Next

\* What is told still is what HistoryKept says.
LEMMA KeptHistory == HistoryInv => HistoryKept
<1> SUFFICES ASSUME HistoryInv, Runs
             PROVE  /\ DOMAIN Says = {id \in DOMAIN said :
                                        Has("objecttype", "id") => Survives(said[id].url)}
                    /\ \A id \in DOMAIN Says :
                         /\ Says[id].history = said[id].history
                         /\ SameUrl(Says[id].url, said[id].url)
  BY DEF HistoryKept
<1> DEFINE c == applied[1]
           O == Objs(db, c)
           V == View(db, c)
           Y == Typs(db, c)
<1>1. /\ c \in 1..40 \ ({3, 9, 18} \cup 21..25) /\ HistoryTables(db, c) /\ ToldStill(O, V, Y, c, said)
      /\ Says = SaysIn(O, V, Y, c) /\ (Has("objecttype", "id") <=> c >= 26)
  BY RunsTellable, SaysTold, HasColumns DEF HistoryInv, HistoryStage, Tellable
<1>2. Keyed(O) /\ Keyed(Y) /\ (c >= 39 => \A y \in Y : y.service = Null)
  BY <1>1, TablesKeyed, TypesKept
<1> HIDE DEF c, O, V, Y
<1>3. /\ DOMAIN Says = {o.id : o \in O}
      /\ \A o \in O : Says[o.id].url = UrlIn(Y, c, o.link) /\ Says[o.id].history = HistoryOf(V, c, o.id)
  <2>1. \A o \in O : ObjOf(O, o.id) = o
    BY <1>2, ObjOfKeyed
  <2> QED BY <1>1, <2>1 DEF SaysIn
<1>4. DOMAIN Says = {id \in DOMAIN said : Has("objecttype", "id") => Survives(said[id].url)}
  BY <1>1, <1>3 DEF ToldStill, StaysAt
<1>5. ASSUME NEW o \in O
      PROVE  /\ Says[o.id].history = said[o.id].history
             /\ SameUrl(Says[o.id].url, said[o.id].url)
  <2>1. /\ HistoryOf(V, c, o.id) = said[o.id].history /\ LinkFits(c, o.link, said[o.id].url, Y)
    BY <1>1 DEF ToldStill
  <2>2. CASE c <= 20
    <3>1. Says[o.id].url = said[o.id].url
      BY <1>1, <1>3, <2>1, <2>2 DEF UrlIn, LinkFits
    <3> QED BY <1>3, <2>1, <3>1 DEF SameUrl
  <2>3. CASE c >= 26
    <3>1. PICK y \in Y : /\ y.id = o.link /\ y.uuid = said[o.id].url.uuid
                         /\ c <= 38 /\ said[o.id].url.path \in Roots => y.service = said[o.id].url.path
      BY <1>1, <2>1, <2>3 DEF LinkFits, TypedAs
    <3>2. ObjOf(Y, o.link) = y
      BY <1>2, <3>1, ObjOfKeyed
    <3>3. Says[o.id].url.path = y.service /\ Says[o.id].url.uuid = y.uuid
      <4>1. UrlIn(Y, c, o.link) = [path |-> y.service, uuid |-> y.uuid]
        BY <1>1, <2>3, <3>2 DEF UrlIn
      <4>2. Says[o.id].url = [path |-> y.service, uuid |-> y.uuid]
        BY <1>3, <4>1
      <4>3. Says[o.id].url.path = y.service
        BY <4>2
      <4>4. Says[o.id].url.uuid = y.uuid
        BY <4>2
      <4> QED BY <4>3, <4>4
    <3>4. c >= 39 => y.service = Null
      BY <1>2
    <3> QED BY <1>1, <1>3, <2>1, <3>1, <3>3, <3>4 DEF SameUrl
  <2> QED BY <1>1, <2>2, <2>3
<1>6. \A id \in DOMAIN Says : /\ Says[id].history = said[id].history
                              /\ SameUrl(Says[id].url, said[id].url)
  BY <1>3, <1>5
<1> QED BY <1>4, <1>6

\* Behind each release the app tells the data, the versions and the order of the records of
\* every object, and its type, as before: 40 migrations, or the squash, that split a table,
\* moved its columns, numbered its rows and replaced its links lose nothing of them, but for
\* the objects whose type had no service, or no uuid, which core 0025 removes.
THEOREM HistorySurvives == Spec => []HistoryKept
<1>1. Init => HistoryInv
  BY InitHistory
<1>2. HistoryInv /\ [Next]_vars => HistoryInv'
  BY NextHistory
<1>3. HistoryInv => HistoryKept
  BY KeptHistory
<1> QED BY <1>1, <1>2, <1>3, PTL DEF Spec

=============================================================================
