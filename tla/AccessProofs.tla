---------------------------- MODULE AccessProofs ----------------------------
(***************************************************************************)
(* Proofs about Access: whatever tokens, permissions and configurations    *)
(* there are and however often they change, a request is answered with     *)
(* what its token was permitted.                                           *)
(***************************************************************************)
EXTENDS Access, WellFoundedInduction, FiniteSetTheorems, TLAPS

-----------------------------------------------------------------------------
(* Sets of naturals.                                                          *)

\* A set of naturals has a least element.
LEMMA LeastNat ==
  ASSUME NEW T \in SUBSET Nat, T # {}
  PROVE  \E x \in T : \A y \in T : x <= y
<1> DEFINE R == OpToRel(<, Nat)
<1>1. \E x \in T : \A y \in T : ~ (<<y, x>> \in R)
  BY WFMin, NatLessThanWellFounded, Zenon
<1>2. PICK x \in T : \A y \in T : ~ (<<y, x>> \in R)
  BY <1>1, Zenon
<1>3. ASSUME NEW y \in T, y < x
      PROVE  FALSE
  <2>1. <<y, x>> \in R
    BY <1>3 DEF OpToRel
  <2> HIDE DEF R
  <2> QED BY <2>1, <1>2, Zenon
<1> QED BY <1>3

\* A bounded set of naturals has a greatest element.
LEMMA GreatestNat ==
  ASSUME NEW n \in Nat, NEW S \in SUBSET (0..n), S # {}
  PROVE  \E i \in S : \A j \in S : j <= i
<1>1. \E x \in {n - i : i \in S} : \A y \in {n - i : i \in S} : x <= y
  <2>1. {n - i : i \in S} \in SUBSET Nat /\ {n - i : i \in S} # {}
    <3>1. \A i \in S : i \in 0..n /\ n - i \in Nat
      OBVIOUS
    <3>2. {n - i : i \in S} \in SUBSET Nat
      BY <3>1
    <3>3. PICK i \in S : TRUE
      OBVIOUS
    <3>4. n - i \in {n - j : j \in S}
      BY <3>3
    <3> QED BY <3>2, <3>4
  <2> QED BY <2>1, LeastNat
<1> QED
  BY <1>1

\* What holds of m, and of the next number if of one before n, holds of m to n.
LEMMA Upward ==
  ASSUME NEW m \in Nat, NEW n \in Nat, NEW T, m \in T,
         \A i \in m..n : i # n /\ i \in T => i + 1 \in T
  PROVE  m..n \subseteq T
<1> DEFINE Bad == {i \in m..n : i \notin T}
<1>1. SUFFICES ASSUME Bad # {}
               PROVE  FALSE
  BY <1>1
<1>2. PICK i \in Bad : \A j \in Bad : i <= j
  <2>1. Bad \in SUBSET Nat
    OBVIOUS
  <2> HIDE DEF Bad
  <2> QED BY <1>1, <2>1, LeastNat, Zenon
<1>3. i \in m..n /\ i \notin T /\ i # m
  BY <1>2
<1>4. i - 1 \in m..n /\ i - 1 # n /\ ~(i <= i - 1) /\ (i - 1) + 1 = i
  BY <1>3
<1>5. i - 1 \in T
  BY <1>2, <1>4
<1> QED BY <1>3, <1>4, <1>5

-----------------------------------------------------------------------------
(* Paths and lists of fields. *)

\* A list of fields that is made of a set, as that of a query, has only its elements.
LEMMA OrderOfSet ==
  ASSUME NEW query, NEW order \in QueryOrders(query)
  PROVE  /\ DOMAIN order = 1..Cardinality(query)
         /\ \A i \in DOMAIN order : order[i] \in query
         /\ ToSet(order) \subseteq query
<1>1. order \in [1..Cardinality(query) -> query]
  BY Zenon DEF QueryOrders, SetToSeqs
<1>2. \A i \in DOMAIN order : order[i] \in query
  BY <1>1
<1> QED BY <1>1, <1>2 DEF ToSet

\* No query is an empty list.
LEMMA OrderOfNothing ==
  ASSUME NEW order \in QueryOrders({})
  PROVE  order = <<>>
<1>1. DOMAIN order = 1..0 /\ order \in [1..0 -> {}]
  BY FS_EmptySet, OrderOfSet, Zenon DEF QueryOrders, SetToSeqs
<1> QED BY <1>1

\* Glom: of what may be answered, and what is shown then.
LEMMA GlomAnswers ==
  ASSUME NEW body, NEW fields, NEW error \in {400, 500}
  PROVE  /\ Glom(body, fields, error).status \in {200, error, 500}
         /\ Glom(body, fields, error).status = 500 /\ error = 400 => Clash(fields)
         /\ Glom(body, fields, error).status = 200 =>
              \A x : x \in Glom(body, fields, error).shown <=>
                \E f \in Spec(fields) : x \in Parts(body, f) \/ x \in Parents(f)
<1>1. CASE Clash(fields)
  BY <1>1 DEF Glom, Failed, Answer
<1>2. CASE ~Clash(fields) /\ (\E f \in Spec(fields) : ~IsData(f) /\ f \notin body)
  <2>1. Glom(body, fields, error) = Failed(error)
    BY <1>2, Zenon DEF Glom
  <2> QED BY <2>1 DEF Failed, Answer
<1>3. CASE ~Clash(fields) /\ ~(\E f \in Spec(fields) : ~IsData(f) /\ f \notin body)
  <2>1. Glom(body, fields, error) =
          Answer(200, UNION {Parts(body, f) \cup Parents(f) : f \in Spec(fields)}, {})
    BY <1>3, ZenonT(40) DEF Glom
  <2> QED BY <2>1 DEF Answer
<1> QED BY <1>1, <1>2, <1>3, Zenon

\* The limited and the selected part of a body, as Represent makes them.
Limited(body, allowed) ==
  IF allowed = AllFields THEN Answer(200, body, {}) ELSE Glom(body, allowed, 400)
Selected(body, allowed, query) == Glom(Limited(body, allowed).shown, query, 400)

LEMMA RepresentCases ==
  ASSUME NEW body, NEW allowed, NEW query
  PROVE  /\ Limited(body, allowed).status # 200 =>
              Represent(body, allowed, query) = Limited(body, allowed)
         /\ Limited(body, allowed).status = 200 /\ query = <<>> =>
              /\ Represent(body, allowed, query).status = 200
              /\ Represent(body, allowed, query).shown = Limited(body, allowed).shown
         /\ (Limited(body, allowed).status = 200 /\ query # <<>>
              /\ Selected(body, allowed, query).status # 200) =>
              Represent(body, allowed, query) = Selected(body, allowed, query)
         /\ (Limited(body, allowed).status = 200 /\ query # <<>>
              /\ Selected(body, allowed, query).status = 200) =>
              /\ Represent(body, allowed, query).status = 200
              /\ Represent(body, allowed, query).shown = Selected(body, allowed, query).shown
<1> DEFINE limited == Limited(body, allowed)
           result  == Selected(body, allowed, query)
           asked   == Glom(body, query, 400)
<1>1. Represent(body, allowed, query) =
        CASE limited.status # 200 -> limited
          [] limited.status = 200 /\ query = <<>> ->
               Answer(200, limited.shown, FieldNames(body) \ FieldNames(limited.shown))
          [] limited.status = 200 /\ query # <<>> /\ result.status # 200 -> result
          [] OTHER ->
               Answer(200, result.shown, FieldNames(asked.shown) \ FieldNames(result.shown))
  BY Zenon DEF Represent, Limited, Selected
<1> HIDE DEF limited, result, asked
<1>2. CASE limited.status # 200
  BY <1>1, <1>2 DEF limited
<1>3. CASE limited.status = 200 /\ query = <<>>
  BY <1>1, <1>3 DEF limited, Answer
<1>4. CASE limited.status = 200 /\ query # <<>> /\ result.status # 200
  BY <1>1, <1>4 DEF limited, result
<1>5. CASE limited.status = 200 /\ query # <<>> /\ result.status = 200
  BY <1>1, <1>5 DEF limited, result, Answer
<1> QED BY <1>2, <1>3, <1>4, <1>5 DEF limited, result

\* A record is shown, refused, or not made at all when a list cannot be built.
LEMMA RepresentStatus ==
  ASSUME NEW body, NEW allowed, NEW query
  PROVE  /\ Represent(body, allowed, query).status \in {200, 400, 500}
         /\ Represent(body, allowed, query).status = 500 =>
              Clash(query) \/ (allowed # AllFields /\ Clash(allowed))
<1>1. /\ Limited(body, allowed).status \in {200, 400, 500}
      /\ Limited(body, allowed).status = 500 => allowed # AllFields /\ Clash(allowed)
  BY GlomAnswers DEF Limited, Answer
<1>2. /\ Selected(body, allowed, query).status \in {200, 400, 500}
      /\ Selected(body, allowed, query).status = 500 => Clash(query)
  BY GlomAnswers DEF Selected
<1> QED BY <1>1, <1>2, RepresentCases

\* What is shown is a part of a field that is allowed: the objects around a field have no
\* value of their own.
LEMMA RepresentShown ==
  ASSUME NEW body, NEW allowed, NEW query,
         Represent(body, allowed, query).status = 200, allowed # AllFields,
         \A g \in ToSet(allowed) : Parents(g) \subseteq Objects,
         \A g \in ToSet(query) : Parents(g) \subseteq Objects,
         NEW f \in FieldNames(Represent(body, allowed, query).shown)
  PROVE  \E g \in ToSet(allowed) : IsPrefix(g, f)
<1> DEFINE limited == Limited(body, allowed)
<1>1. /\ limited.status = 200
      /\ \A x : x \in limited.shown <=>
                  \E g \in Spec(allowed) : x \in Parts(body, g) \/ x \in Parents(g)
  <2>1. limited = Glom(body, allowed, 400) /\ 400 \in {400, 500}
    BY DEF Limited
  <2>2. limited.status = 200
    BY RepresentCases
  <2> HIDE DEF limited
  <2> QED BY <2>1, <2>2, GlomAnswers
<1>2. ASSUME NEW x \in limited.shown, x \notin Objects
      PROVE  \E g \in ToSet(allowed) : IsPrefix(g, x)
  <2>1. PICK g \in Spec(allowed) : x \in Parts(body, g) \/ x \in Parents(g)
    BY <1>1, <1>2, Zenon
  <2>2. g \in ToSet(allowed)
    BY <2>1 DEF Spec, ToSet
  <2>3. x \in Parts(body, g)
    BY <2>1, <2>2, <1>2
  <2> QED BY <2>2, <2>3 DEF Parts
<1>3. f \in limited.shown /\ f \notin Objects
  <2>1. CASE query = <<>>
    BY <2>1, <1>1, RepresentCases DEF FieldNames
  <2>2. CASE query # <<>>
    <3>1. /\ Selected(body, allowed, query).status = 200
          /\ Represent(body, allowed, query).shown = Selected(body, allowed, query).shown
      BY <2>2, <1>1, RepresentCases
    <3>2. f \notin Objects /\ f \in Selected(body, allowed, query).shown
      BY <3>1 DEF FieldNames
    <3>3. 400 \in {400, 500}
      OBVIOUS
    <3> HIDE DEF limited
    <3>4. PICK g \in Spec(query) : f \in Parts(limited.shown, g) \/ f \in Parents(g)
      <4> DEFINE whole  == Limited(body, allowed).shown
                 result == Selected(body, allowed, query)
      <4>1. result = Glom(whole, query, 400) /\ limited.shown = whole
        BY DEF Selected, limited
      <4>2. result.status = 200 /\ f \in result.shown
        BY <3>1, <3>2
      <4> HIDE DEF whole, result
      <4>3. \A x : x \in result.shown <=> \E g \in Spec(query) : x \in Parts(whole, g) \/ x \in Parents(g)
        BY <4>1, <4>2, <3>3, GlomAnswers
      <4> QED BY <4>1, <4>2, <4>3, Zenon
    <3>5. g \in ToSet(query)
      BY <3>4 DEF Spec, ToSet
    <3>6. f \in Parts(limited.shown, g)
      BY <3>2, <3>4, <3>5
    <3> QED BY <3>2, <3>6 DEF Parts
  <2> QED BY <2>1, <2>2
<1> QED BY <1>2, <1>3

\* A prefix, element by element.
LEMMA PrefixElements ==
  ASSUME NEW S, NEW s \in Seq(S), NEW t \in Seq(S)
  PROVE  IsPrefix(s, t) <=> Len(s) <= Len(t) /\ \A i \in 1..Len(s) : s[i] = t[i]
<1>1. ASSUME Len(s) <= Len(t)
      PROVE  SubSeq(s, 1, Len(s)) = SubSeq(t, 1, Len(s)) <=> \A i \in 1..Len(s) : s[i] = t[i]
  <2>1. SubSeq(s, 1, Len(s)) = [i \in 1..Len(s) |-> s[i]]
    OBVIOUS
  <2>2. SubSeq(t, 1, Len(s)) = [i \in 1..Len(s) |-> t[i]]
    BY <1>1
  <2> QED BY <2>1, <2>2
<1> QED BY <1>1 DEF IsPrefix

LEMMA PrefixTransitive ==
  ASSUME NEW S, NEW s \in Seq(S), NEW t \in Seq(S), NEW u \in Seq(S),
         IsPrefix(s, t), IsPrefix(t, u)
  PROVE  IsPrefix(s, u)
<1>1. Len(s) <= Len(t) /\ \A i \in 1..Len(s) : s[i] = t[i]
  BY PrefixElements
<1>2. Len(t) <= Len(u) /\ \A i \in 1..Len(t) : t[i] = u[i]
  BY PrefixElements
<1>3. Len(s) <= Len(u) /\ \A i \in 1..Len(s) : s[i] = u[i]
  BY <1>1, <1>2
<1> QED BY <1>3, PrefixElements

\* The parent of an attribute, and the attribute itself, are prefixes of it.
LEMMA TermAndParent ==
  ASSUME NEW S, NEW term \in Seq(S)
  PROVE  /\ IsPrefix(term, term)
         /\ Len(term) > 1 => Front(term) \in Seq(S) /\ IsPrefix(Front(term), term)
<1>1. IsPrefix(term, term)
  BY DEF IsPrefix
<1>2. ASSUME Len(term) > 1
      PROVE  Front(term) \in Seq(S) /\ IsPrefix(Front(term), term)
  <2>1. /\ Front(term) \in Seq(S) /\ Len(Front(term)) = Len(term) - 1
        /\ \A i \in 1..(Len(term) - 1) : Front(term)[i] = term[i]
    BY <1>2 DEF Front
  <2> QED BY <2>1, PrefixElements
<1> QED BY <1>1, <1>2

\* build_spec keeps a prefix of whatever the list has a prefix of: the last one of the list.
LEMMA SpecKeepsPrefix ==
  ASSUME NEW fields \in Seq(Seq(STRING)), NEW term \in Seq(STRING),
         NEW i \in DOMAIN fields, IsPrefix(fields[i], term)
  PROVE  \E g \in Spec(fields) : IsPrefix(g, term)
<1> DEFINE Indices == {j \in 1..Len(fields) : IsPrefix(fields[j], term)}
<1>1. Indices \in SUBSET (0..Len(fields)) /\ Indices # {} /\ Len(fields) \in Nat
  <2>1. i \in Indices /\ Len(fields) \in Nat
    OBVIOUS
  <2>2. \A j \in Indices : j \in 0..Len(fields)
    OBVIOUS
  <2> QED BY <2>1, <2>2
<1>2. \E j \in Indices : \A k \in Indices : k <= j
  BY <1>1, GreatestNat, Zenon
<1>3. PICK j \in Indices : \A k \in Indices : k <= j
  BY <1>2, Zenon
<1>4. j \in DOMAIN fields /\ IsPrefix(fields[j], term) /\ fields[j] \in Seq(STRING)
  OBVIOUS
<1>5. ASSUME NEW k \in DOMAIN fields, k > j, IsStrictPrefix(fields[k], fields[j])
      PROVE  FALSE
  <2>1. fields[k] \in Seq(STRING) /\ IsPrefix(fields[k], fields[j])
    BY <1>5 DEF IsStrictPrefix
  <2>2. IsPrefix(fields[k], term)
    BY <2>1, <1>4, PrefixTransitive
  <2>3. k \in Indices
    BY <2>2
  <2> QED BY <2>3, <1>3, <1>5
<1>6. fields[j] \in Spec(fields)
  BY <1>4, <1>5 DEF Spec
<1> QED BY <1>4, <1>6

\* What a body has is shown when the list allows it or what is around it.
LEMMA AllowedIsShown ==
  ASSUME NEW body, NEW fields, NEW term \in Seq(STRING), term \in body,
         \/ fields = AllFields
         \/ fields \in Seq(Seq(STRING)) /\ \E g \in ToSet(fields) : IsPrefix(g, term),
         Represent(body, fields, <<>>).status = 200
  PROVE  term \in Represent(body, fields, <<>>).shown
<1>1. /\ Limited(body, fields).status = 200
      /\ Represent(body, fields, <<>>).shown = Limited(body, fields).shown
  BY RepresentCases
<1>2. CASE fields = AllFields
  BY <1>1, <1>2 DEF Limited, Answer
<1>3. CASE fields # AllFields
  <2>1. PICK i \in DOMAIN fields : IsPrefix(fields[i], term)
    BY <1>3 DEF ToSet
  <2>2. PICK g \in Spec(fields) : IsPrefix(g, term)
    <3>1. fields \in Seq(Seq(STRING))
      BY <1>3
    <3> QED BY <2>1, <3>1, SpecKeepsPrefix
  <2>3. term \in Parts(body, g)
    BY <2>2 DEF Parts
  <2>4. Limited(body, fields) = Glom(body, fields, 400) /\ 400 \in {400, 500}
    BY <1>3 DEF Limited
  <2>5. Glom(body, fields, 400).status = 200
    BY <1>1, <2>4
  <2>6. term \in Glom(body, fields, 400).shown
    BY <2>3, <2>4, <2>5, GlomAnswers
  <2> QED BY <2>4, <2>6, <1>1
<1> QED BY <1>2, <1>3

-----------------------------------------------------------------------------
(* Folds over the items of a configuration: FoldLeft is defined by a recursive *)
(* function on the subsets of its indices, of which it uses 1..n, 1..n-1, ...  *)

LEMMA GreatestOfSet ==
  ASSUME NEW n \in Nat, NEW S \in SUBSET (1..n), S # {}
  PROVE  Max(S) \in S /\ \A x \in S : x <= Max(S)
<1>1. S \in SUBSET (0..n)
  OBVIOUS
<1>2. \E i \in S : \A j \in S : j <= i
  BY <1>1, GreatestNat, Zenon
<1>3. \E i \in S : \A j \in S : i >= j
  BY <1>2
<1>4. Max(S) \in S /\ \A x \in S : Max(S) >= x
  BY <1>3, Zenon DEF Max
<1>5. Max(S) \in Nat /\ \A x \in S : x \in Nat
  <2>1. \A x \in S : x \in 1..n
    OBVIOUS
  <2>2. \A x \in 1..n : x \in Nat
    OBVIOUS
  <2> QED BY <1>4, <2>1, <2>2, Zenon
<1> QED BY <1>4, <1>5

LEMMA LastOfFirst ==
  ASSUME NEW k \in Nat, k # 0
  PROVE  Max(1..k) = k /\ (1..k) \ {k} = 1..(k - 1)
<1>1. k \in 1..k /\ 1..k \in SUBSET (1..k) /\ 1..k # {}
  OBVIOUS
<1>2. Max(1..k) \in 1..k /\ k <= Max(1..k)
  BY <1>1, GreatestOfSet, Zenon
<1> QED BY <1>2

\* What a recursive definition over the subsets of 1..n says, with step for one index.
FoldBy(iter, n, base, step) ==
  iter = [s \in SUBSET (1..n) |-> IF s = {} THEN base ELSE step[Max(s)][iter[s \ {Max(s)}]]]

\* There is such a function: that for k+1 uses that for k where k+1 is not in the set.
LEMMA FoldExists ==
  ASSUME NEW n \in Nat, NEW V, NEW base \in V, NEW step \in [1..n -> [V -> V]]
  PROVE  \E iter \in [SUBSET (1..n) -> V] : FoldBy(iter, n, base, step)
<1> DEFINE P(k) == \E iter \in [SUBSET (1..k) -> V] : FoldBy(iter, k, base, step)
           Bad  == {k \in 0..n : ~P(k)}
<1>1. SUFFICES ASSUME Bad # {}
              PROVE  FALSE
  <2>1. n \in 0..n
    OBVIOUS
  <2> QED BY <1>1, <2>1
<1>2. PICK k \in Bad : \A j \in Bad : k <= j
  <2>1. Bad \in SUBSET Nat
    OBVIOUS
  <2> QED BY <1>1, <2>1, LeastNat
<1> k \in 0..n /\ ~P(k)
  BY <1>2
<1>3. CASE k = 0
  <2> DEFINE none == [s \in SUBSET (1..0) |-> base]
  <2>1. none \in [SUBSET (1..0) -> V]
    OBVIOUS
  <2>2. \A s \in SUBSET (1..0) : s = {}
    OBVIOUS
  <2>3. FoldBy(none, 0, base, step)
    BY <2>2 DEF FoldBy
  <2> QED BY <1>3, <2>1, <2>3
<1>4. CASE k # 0
  <2>1. k - 1 \in 0..n /\ k \in 1..n /\ k \in Nat /\ ~(k <= k - 1)
    BY <1>4
  <2>2. P(k - 1)
    <3> HIDE DEF P
    <3> QED BY <2>1, <1>2
  <2>3. PICK g \in [SUBSET (1..(k - 1)) -> V] : FoldBy(g, k - 1, base, step)
    BY <2>2, Zenon
  <2> DEFINE h == [s \in SUBSET (1..k) |-> IF k \in s THEN step[k][g[s \ {k}]] ELSE g[s]]
  <2>4. \A s \in SUBSET (1..k) : /\ s \ {k} \in SUBSET (1..(k - 1))
                                 /\ k \notin s => s \in SUBSET (1..(k - 1))
    <3>1. \A x \in 1..k : x # k => x \in 1..(k - 1)
      BY <2>1
    <3> QED BY <3>1
  <2>5. h \in [SUBSET (1..k) -> V]
    <3>1. ASSUME NEW s \in SUBSET (1..k)
          PROVE  (IF k \in s THEN step[k][g[s \ {k}]] ELSE g[s]) \in V
      <4>1. CASE k \in s
        <5>1. g[s \ {k}] \in V
          BY <2>4, <2>3
        <5>2. step[k][g[s \ {k}]] \in V
          BY <5>1, <2>1
        <5> QED BY <4>1, <5>2
      <4>2. CASE k \notin s
        BY <4>2, <2>4, <2>3
      <4> QED BY <4>1, <4>2
    <3> QED BY <3>1
  <2>6. ASSUME NEW s \in SUBSET (1..k)
        PROVE  h[s] = IF s = {} THEN base ELSE step[Max(s)][h[s \ {Max(s)}]]
    <3>1. CASE k \in s
      <4>1. Max(s) = k
        <5>1. s # {} /\ k \in Nat
          BY <3>1, <2>1
        <5>2. Max(s) \in s /\ k <= Max(s)
          BY <5>1, <3>1, GreatestOfSet, Zenon
        <5>3. Max(s) \in 1..k
          BY <5>2
        <5> QED BY <5>2, <5>3, <2>1
      <4>2. s \ {k} \in SUBSET (1..k) /\ k \notin s \ {k}
        OBVIOUS
      <4>3. h[s \ {k}] = g[s \ {k}]
        BY <4>2
      <4>4. h[s] = step[k][g[s \ {k}]]
        BY <3>1
      <4> QED BY <3>1, <4>1, <4>3, <4>4
    <3>2. CASE k \notin s
      <4>1. s \in SUBSET (1..(k - 1)) /\ h[s] = g[s]
        BY <3>2, <2>4
      <4>2. g[s] = IF s = {} THEN base ELSE step[Max(s)][g[s \ {Max(s)}]]
        BY <4>1, <2>3 DEF FoldBy
      <4>3. s \ {Max(s)} \in SUBSET (1..k) /\ k \notin s \ {Max(s)}
        BY <3>2
      <4>4. h[s \ {Max(s)}] = g[s \ {Max(s)}]
        BY <4>3
      <4> QED BY <4>1, <4>2, <4>4
    <3> QED BY <3>1, <3>2
  <2>7. FoldBy(h, k, base, step)
    <3> HIDE DEF h
    <3>1. h = [s \in SUBSET (1..k) |-> h[s]]
      BY <2>5
    <3> QED BY <2>6, <3>1, Zenon DEF FoldBy
  <2> QED BY <2>5, <2>7, <1>2
<1> QED BY <1>3, <1>4

\* What holds of the start of a fold, and of the first k if of the first k-1, holds of all.
LEMMA FoldStays ==
  ASSUME NEW n \in Nat, NEW iter, NEW V, iter[{}] \in V,
         \A k \in 1..n : iter[1..(k - 1)] \in V => iter[1..k] \in V
  PROVE  iter[1..n] \in V
<1> DEFINE Bad == {k \in 0..n : iter[1..k] \notin V}
<1>1. SUFFICES ASSUME Bad # {}
              PROVE  FALSE
  <2>1. n \in 0..n
    OBVIOUS
  <2> QED BY <1>1, <2>1
<1>2. PICK k \in Bad : \A j \in Bad : k <= j
  <2>1. Bad \in SUBSET Nat
    OBVIOUS
  <2> HIDE DEF Bad
  <2> QED BY <1>1, <2>1, LeastNat, Zenon
<1>3. k \in 0..n /\ iter[1..k] \notin V
  BY <1>2
<1>4. k # 0
  <2>1. 1..0 = {}
    OBVIOUS
  <2> QED BY <1>3, <2>1
<1>5. k - 1 \in 0..n /\ k \in 1..n /\ ~(k <= k - 1)
  BY <1>3, <1>4
<1>6. k - 1 \notin Bad
  BY <1>2, <1>5
<1>7. iter[1..(k - 1)] \in V
  BY <1>5, <1>6
<1> QED BY <1>3, <1>5, <1>7

-----------------------------------------------------------------------------
(* The setup configuration. *)

TokenRows == [key : Keys, super : BOOLEAN]
Items == [id : Ids, key : Keys, super : BOOLEAN,
          permissions : Seq([type : Types, mode : {"read_only", "read_and_write"}])]

\* A permission is that of a token and a type that are there.
Fits(b) == \A p \in Ids \X Types : b.perm[p] # None => b.token[p[1]] # None /\ p[2] \in b.types
Bases == [ok : BOOLEAN, types : SUBSET Types, token : [Ids -> TokenRows \cup {None}],
          perm : [Ids \X Types -> Rows \cup {None}]]
Fitting == {b \in Bases : Fits(b)}

\* While the permissions of an item are configured its token is there.
FittingFor(id) == {b \in Fitting : b.ok => b.token[id] # None}

LEMMA RowsOf ==
  /\ \A m \in {"read_only", "read_and_write"} : Row(m, FALSE, <<>>) \in Rows
  /\ \A r \in Rows : /\ r \in [mode : {"read_only", "read_and_write"}, use : BOOLEAN, fields : FieldRules]
                    /\ r # None
  /\ \A r \in Rows, m \in {"read_only", "read_and_write"} : [r EXCEPT !.mode = m] \in Rows
<1>1. Rows = [mode : {"read_only", "read_and_write"}, use : BOOLEAN, fields : FieldRules]
  <2>1. ASSUME NEW r \in Rows
        PROVE  r \in [mode : {"read_only", "read_and_write"}, use : BOOLEAN, fields : FieldRules]
    <3>1. PICK m \in {"read_only", "read_and_write"}, u \in BOOLEAN, f \in FieldRules : r = Row(m, u, f)
      BY <2>1 DEF Rows
    <3> QED BY <3>1 DEF Row
  <2>2. ASSUME NEW r \in [mode : {"read_only", "read_and_write"}, use : BOOLEAN, fields : FieldRules]
        PROVE  r \in Rows
    <3>1. r = Row(r.mode, r.use, r.fields)
      BY DEF Row
    <3>2. r.mode \in {"read_only", "read_and_write"} /\ r.use \in BOOLEAN /\ r.fields \in FieldRules
      OBVIOUS
    <3> QED BY <3>1, <3>2 DEF Rows
  <2> QED BY <2>1, <2>2
<1>2. \A m \in {"read_only", "read_and_write"} : Row(m, FALSE, <<>>) \in Rows
  BY FieldsAssumption, <1>1 DEF Row
<1>3. \A r \in Rows, m \in {"read_only", "read_and_write"} : [r EXCEPT !.mode = m] \in Rows
  BY <1>1
<1> QED BY <1>1, <1>2, <1>3, NoneAssumption

LEMMA ConfigurePermissionFits ==
  ASSUME NEW id \in Ids, NEW p \in [type : Types, mode : {"read_only", "read_and_write"}],
         NEW base \in FittingFor(id)
  PROVE  ConfigurePermission(id, p, base) \in FittingFor(id)
<1>1. base \in Bases /\ Fits(base)
  BY DEF FittingFor, Fitting
<1>2. CASE ~base.ok \/ p.type \notin base.types
  <2>1. ConfigurePermission(id, p, base) = [base EXCEPT !.ok = FALSE]
    BY <1>2 DEF ConfigurePermission, Rejected
  <2> QED BY <2>1, <1>1 DEF FittingFor, Fitting, Fits, Bases
<1>3. CASE base.ok /\ p.type \in base.types
  <2> DEFINE row == IF base.perm[<<id, p.type>>] = None THEN Row(p.mode, FALSE, <<>>)
                    ELSE [base.perm[<<id, p.type>>] EXCEPT !.mode = p.mode]
             at  == <<id, p.type>>
  <2>1. ConfigurePermission(id, p, base) = [base EXCEPT !.perm[at] = row]
    BY <1>3 DEF ConfigurePermission
  <2>2. row \in Rows
    <3>1. base.perm[at] \in Rows \cup {None}
      BY <1>1 DEF Bases
    <3> QED BY <3>1, RowsOf
  <2>3. base.token[id] # None
    BY <1>3 DEF FittingFor
  <2> HIDE DEF row
  <2>4. [base EXCEPT !.perm[at] = row] \in Bases
    BY <1>1, <2>2 DEF Bases
  <2>5. Fits([base EXCEPT !.perm[at] = row])
    BY <1>1, <1>3, <2>3 DEF Bases, Fits
  <2>6. [base EXCEPT !.perm[at] = row].token[id] # None
    BY <1>1, <2>3 DEF Bases
  <2> QED BY <2>1, <2>4, <2>5, <2>6 DEF FittingFor, Fitting
<1> QED BY <1>2, <1>3

LEMMA ConfigureTokenFits ==
  ASSUME NEW item \in Items, NEW base \in Fitting
  PROVE  ConfigureToken(item, base) \in FittingFor(item.id)
<1>1. base \in Bases /\ Fits(base)
  BY DEF Fitting
<1>2. CASE ConfigureToken(item, base) = [base EXCEPT !.ok = FALSE]
  BY <1>1, <1>2 DEF FittingFor, Fitting, Fits, Bases
<1>3. CASE ConfigureToken(item, base) =
             [base EXCEPT !.token[item.id] = [key |-> item.key, super |-> item.super]]
  <2>1. [key |-> item.key, super |-> item.super] \in TokenRows /\ item.id \in Ids
    BY DEF Items, TokenRows
  <2>2. [key |-> item.key, super |-> item.super] # None
    BY <2>1, NoneAssumption DEF TokenRows
  <2> DEFINE row == [key |-> item.key, super |-> item.super]
  <2>3. row \in TokenRows /\ item.id \in Ids /\ row # None
    BY <2>1, <2>2
  <2> HIDE DEF row
  <2>4. ConfigureToken(item, base) = [base EXCEPT !.token[item.id] = row]
    BY <1>3 DEF row
  <2>5. [base EXCEPT !.token[item.id] = row] \in Bases
    BY <1>1, <2>3 DEF Bases
  <2>6. Fits([base EXCEPT !.token[item.id] = row])
    BY <1>1, <2>3 DEF Bases, Fits
  <2>7. [base EXCEPT !.token[item.id] = row].token[item.id] # None
    BY <1>1, <2>3 DEF Bases
  <2> QED BY <2>4, <2>5, <2>6, <2>7 DEF FittingFor, Fitting
<1> QED BY <1>2, <1>3 DEF ConfigureToken, Rejected

\* The permissions of an item are configured one after the other.
ItemStates(at, item, base) ==
  /\ at[0] = ConfigureToken(item, base)
  /\ \A k \in 1..Len(item.permissions) :
       at[k] = ConfigurePermission(item.id, item.permissions[k], at[k - 1])
  /\ at[Len(item.permissions)] = ConfigureItem(base, item)
  /\ \A k \in 0..Len(item.permissions) : at[k] \in FittingFor(item.id)

LEMMA ConfigureItemStates ==
  ASSUME NEW item \in Items, NEW base \in Fitting
  PROVE  \E at : ItemStates(at, item, base)
<1> DEFINE n     == Len(item.permissions)
           start == ConfigureToken(item, base)
           V     == FittingFor(item.id)
           Is(iter) == iter = [s \in SUBSET (1..n) |->
                                 IF s = {} THEN start
                                 ELSE ConfigurePermission(item.id, item.permissions[Max(s)], iter[s \ {Max(s)}])]
           step  == [i \in 1..n |-> [b \in V |-> ConfigurePermission(item.id, item.permissions[i], b)]]
<1>1. /\ n \in Nat /\ DOMAIN item.permissions = 1..n /\ item.id \in Ids
      /\ \A i \in 1..n : item.permissions[i] \in [type : Types, mode : {"read_only", "read_and_write"}]
  <2>1. item.permissions \in Seq([type : Types, mode : {"read_only", "read_and_write"}]) /\ item.id \in Ids
    BY DEF Items
  <2> DEFINE s == item.permissions
             P == [type : Types, mode : {"read_only", "read_and_write"}]
  <2>2. s \in Seq(P)
    BY <2>1
  <2> HIDE DEF s, P
  <2>3. Len(s) \in Nat /\ DOMAIN s = 1..Len(s) /\ \A i \in 1..Len(s) : s[i] \in P
    BY <2>2
  <2> QED BY <2>1, <2>3 DEF s, P
<1>2. start \in V
  BY ConfigureTokenFits
<1>3. ConfigureItem(base, item) = (CHOOSE iter : Is(iter))[1..n]
  BY <1>1, Zenon DEF ConfigureItem, FoldLeft, MapThenFoldSet
<1> HIDE DEF n, start, V
<1>4. \A i \in 1..n, b \in V : ConfigurePermission(item.id, item.permissions[i], b) \in V
  BY <1>1, ConfigurePermissionFits DEF V
<1>5. step \in [1..n -> [V -> V]]
  BY <1>4
<1>6. \E iter : Is(iter)
  <2>1. PICK iter \in [SUBSET (1..n) -> V] : FoldBy(iter, n, start, step)
    <3> HIDE DEF step
    <3> QED BY <1>1, <1>2, <1>5, FoldExists, Zenon
  <2>2. ASSUME NEW s \in SUBSET (1..n), s # {}
        PROVE  step[Max(s)][iter[s \ {Max(s)}]] =
                 ConfigurePermission(item.id, item.permissions[Max(s)], iter[s \ {Max(s)}])
    <3>1. Max(s) \in 1..n
      BY <2>2, <1>1, GreatestOfSet
    <3>2. iter[s \ {Max(s)}] \in V
      OBVIOUS
    <3> QED BY <3>1, <3>2
  <2> HIDE DEF step
  <2>3. Is(iter)
    BY <2>1, <2>2 DEF FoldBy
  <2> QED BY <2>3, Zenon
<1>7. PICK iter : iter = (CHOOSE i : Is(i)) /\ Is(iter)
  BY <1>6, Zenon
<1>8. iter[{}] \in V
  BY <1>2, <1>7
<1>9. ASSUME NEW k \in 1..n
      PROVE  iter[1..k] = ConfigurePermission(item.id, item.permissions[k], iter[1..(k - 1)])
  <2>1. k \in Nat /\ k # 0 /\ 1..k \in SUBSET (1..n) /\ 1..k # {}
    <3>1. k \in Nat /\ k # 0 /\ k \in 1..k /\ \A x \in 1..k : x \in 1..n
      BY <1>1
    <3> QED BY <3>1
  <2>2. Max(1..k) = k /\ (1..k) \ {k} = 1..(k - 1)
    BY <2>1, LastOfFirst
  <2> QED BY <1>7, <2>1, <2>2
<1>10. ASSUME NEW k \in 0..n
       PROVE  iter[1..k] \in V
  <2>1. k \in Nat /\ \A j \in 1..k : j \in 1..n
    BY <1>1
  <2>2. \A j \in 1..k : iter[1..(j - 1)] \in V => iter[1..j] \in V
    <3> SUFFICES ASSUME NEW j \in 1..k, iter[1..(j - 1)] \in V
                 PROVE  iter[1..j] \in V
      OBVIOUS
    <3> QED BY <2>1, <1>4, <1>9
  <2> HIDE DEF Is
  <2> QED BY <1>8, <2>1, <2>2, FoldStays, Zenon
<1> DEFINE at == [k \in 0..n |-> iter[1..k]]
<1>11. at[0] = start /\ n \in 0..n
  <2>1. 1..0 = {} /\ 0 \in 0..n /\ n \in 0..n
    BY <1>1
  <2> QED BY <1>7, <2>1
<1>12. \A k \in 1..n : at[k] = ConfigurePermission(item.id, item.permissions[k], at[k - 1])
  <2>1. \A k \in 1..n : k \in 0..n /\ k - 1 \in 0..n
    BY <1>1
  <2> QED BY <1>9, <2>1
<1>13. at[n] = ConfigureItem(base, item) /\ \A k \in 0..n : at[k] \in V
  BY <1>3, <1>7, <1>10, <1>11
<1> HIDE DEF at, Is
<1>14. ItemStates(at, item, base)
  BY <1>11, <1>12, <1>13 DEF ItemStates, n, start, V
<1> QED BY <1>14

LEMMA ConfigureItemFits ==
  ASSUME NEW item \in Items, NEW base \in Fitting
  PROVE  ConfigureItem(base, item) \in Fitting
<1>1. Len(item.permissions) \in Nat
  <2>1. item.permissions \in Seq([type : Types, mode : {"read_only", "read_and_write"}])
    BY DEF Items
  <2> QED BY <2>1
<1>2. PICK at : ItemStates(at, item, base)
  BY ConfigureItemStates
<1>3. Len(item.permissions) \in 0..Len(item.permissions)
  BY <1>1
<1> QED BY <1>2, <1>3 DEF ItemStates, FittingFor

\* The items are configured one after the other, from the types that were added.
ConfigStates(at, config, base) ==
  /\ at[0] = ConfigureTypes(config.types, base)
  /\ \A k \in 1..Len(config.items) : at[k] = ConfigureItem(at[k - 1], config.items[k])
  /\ at[Len(config.items)] = Configured(config, base)
  /\ \A k \in 0..Len(config.items) : at[k] \in Fitting

LEMMA ConfiguredStates ==
  ASSUME NEW config, config.types \in SUBSET Types, config.items \in Seq(Items),
         NEW base \in Fitting
  PROVE  \E at : ConfigStates(at, config, base)
<1> DEFINE n     == Len(config.items)
           start == ConfigureTypes(config.types, base)
           V     == Fitting
           Is(iter) == iter = [s \in SUBSET (1..n) |->
                                 IF s = {} THEN start
                                 ELSE ConfigureItem(iter[s \ {Max(s)}], config.items[Max(s)])]
           step  == [i \in 1..n |-> [b \in V |-> ConfigureItem(b, config.items[i])]]
<1>1. /\ n \in Nat /\ DOMAIN config.items = 1..n
      /\ \A i \in 1..n : config.items[i] \in Items
  <2> DEFINE s == config.items
  <2>1. s \in Seq(Items)
    OBVIOUS
  <2> HIDE DEF s
  <2>2. Len(s) \in Nat /\ DOMAIN s = 1..Len(s) /\ \A i \in 1..Len(s) : s[i] \in Items
    BY <2>1
  <2> QED BY <2>2 DEF s
<1>2. start \in V
  <2>1. base \in Bases /\ Fits(base)
    BY DEF Fitting
  <2>2. start = [base EXCEPT !.types = base.types \cup config.types]
    BY DEF ConfigureTypes
  <2>3. start \in Bases
    BY <2>1, <2>2 DEF Bases
  <2>4. Fits(start)
    BY <2>1, <2>2 DEF Bases, Fits
  <2> QED BY <2>3, <2>4 DEF Fitting
<1>3. Configured(config, base) = (CHOOSE iter : Is(iter))[1..n]
  BY <1>1, Zenon DEF Configured, FoldLeft, MapThenFoldSet
<1> HIDE DEF n, start, V
<1>4. \A i \in 1..n, b \in V : ConfigureItem(b, config.items[i]) \in V
  BY <1>1, ConfigureItemFits DEF V
<1>5. step \in [1..n -> [V -> V]]
  BY <1>4
<1>6. \E iter : Is(iter)
  <2>1. PICK iter \in [SUBSET (1..n) -> V] : FoldBy(iter, n, start, step)
    <3> HIDE DEF step
    <3> QED BY <1>1, <1>2, <1>5, FoldExists, Zenon
  <2>2. ASSUME NEW s \in SUBSET (1..n), s # {}
        PROVE  step[Max(s)][iter[s \ {Max(s)}]] = ConfigureItem(iter[s \ {Max(s)}], config.items[Max(s)])
    <3>1. Max(s) \in 1..n
      BY <2>2, <1>1, GreatestOfSet
    <3>2. iter[s \ {Max(s)}] \in V
      OBVIOUS
    <3> QED BY <3>1, <3>2
  <2> HIDE DEF step
  <2>3. Is(iter)
    BY <2>1, <2>2 DEF FoldBy
  <2> QED BY <2>3, Zenon
<1>7. PICK iter : iter = (CHOOSE i : Is(i)) /\ Is(iter)
  BY <1>6, Zenon
<1>8. iter[{}] \in V
  BY <1>2, <1>7
<1>9. ASSUME NEW k \in 1..n
      PROVE  iter[1..k] = ConfigureItem(iter[1..(k - 1)], config.items[k])
  <2>1. k \in Nat /\ k # 0 /\ 1..k \in SUBSET (1..n) /\ 1..k # {}
    <3>1. k \in Nat /\ k # 0 /\ k \in 1..k /\ \A x \in 1..k : x \in 1..n
      BY <1>1
    <3> QED BY <3>1
  <2>2. Max(1..k) = k /\ (1..k) \ {k} = 1..(k - 1)
    BY <2>1, LastOfFirst
  <2> QED BY <1>7, <2>1, <2>2
<1>10. ASSUME NEW k \in 0..n
       PROVE  iter[1..k] \in V
  <2>1. k \in Nat /\ \A j \in 1..k : j \in 1..n
    BY <1>1
  <2>2. \A j \in 1..k : iter[1..(j - 1)] \in V => iter[1..j] \in V
    <3> SUFFICES ASSUME NEW j \in 1..k, iter[1..(j - 1)] \in V
                 PROVE  iter[1..j] \in V
      OBVIOUS
    <3> QED BY <2>1, <1>4, <1>9
  <2> HIDE DEF Is
  <2> QED BY <1>8, <2>1, <2>2, FoldStays, Zenon
<1> DEFINE at == [k \in 0..n |-> iter[1..k]]
<1>11. at[0] = start /\ n \in 0..n
  <2>1. 1..0 = {} /\ 0 \in 0..n /\ n \in 0..n
    BY <1>1
  <2> QED BY <1>7, <2>1
<1>12. \A k \in 1..n : at[k] = ConfigureItem(at[k - 1], config.items[k])
  <2>1. \A k \in 1..n : k \in 0..n /\ k - 1 \in 0..n
    BY <1>1
  <2> QED BY <1>9, <2>1
<1>13. at[n] = Configured(config, base) /\ \A k \in 0..n : at[k] \in V
  BY <1>3, <1>7, <1>10, <1>11
<1> HIDE DEF at, Is
<1>14. ConfigStates(at, config, base)
  BY <1>11, <1>12, <1>13 DEF ConfigStates, n, start, V
<1> QED BY <1>14

LEMMA ConfiguredFits ==
  ASSUME NEW config, config.types \in SUBSET Types, config.items \in Seq(Items),
         NEW base \in Fitting
  PROVE  Configured(config, base) \in Fitting
<1>1. Len(config.items) \in 0..Len(config.items)
  OBVIOUS
<1>2. PICK at : ConfigStates(at, config, base)
  BY ConfiguredStates
<1> QED BY <1>1, <1>2 DEF ConfigStates

-----------------------------------------------------------------------------
(* The invariant. *)

RequestFields == {"pc", "action", "id", "super", "gone", "type", "query", "term", "rows", "pre",
                  "round", "status", "shown", "withheld", "saved"}
Phases == {"idle", "type", "sort", "fetch", "prefetch", "exists", "get", "write", "commit",
           "respond", "permissions", "types", "done"}

RequestOK ==
  /\ DOMAIN req = RequestFields
  /\ req.pc \in Phases
  /\ req.action \in Actions /\ req.id \in Ids
  /\ req.super \in BOOLEAN /\ req.gone \in BOOLEAN /\ req.saved \in BOOLEAN
  /\ req.query \in Queries /\ req.term \in Terms /\ req.round \in {1, 2, 3}
  /\ req.status \in {0, 200, 204, 400, 401, 403, 404, 500}

\* Which actions are in which phase.
Active == req.pc \notin {"idle", "done"}
PhaseOK ==
  /\ req.pc # "done" => req.status = 0 /\ ~req.saved
  /\ req.pc = "type" => req.action = "create" /\ ~req.super
  /\ req.pc \in {"sort", "fetch", "prefetch"} => req.action \in Reading \cup {"update", "destroy"}
  /\ req.pc = "respond" => req.action \in Reading \cup {"destroy"}
  /\ req.pc = "permissions" => req.action = "permissions"
  /\ req.pc \in {"write", "commit"} => req.action \in {"create", "update"}
  /\ req.pc \in {"exists", "get"} => req.action \notin {"list", "permissions", "types"} /\ ~req.super
  /\ req.action \notin {"create", "update"} \/ req.pc \in {"type", "sort", "fetch", "prefetch", "write"}
       => req.round = 1
  /\ Active /\ req.action \notin {"list", "permissions"} => req.type \in Types
  /\ req.action \in {"create", "update"} => req.query = {}

\* What was seen of the permissions is finite, and has those there are as long as the
\* request is not answered.
SeenOK ==
  /\ \A t \in Types : IsFiniteSet(seen[t]) /\ seen[t] \subseteq Rows \cup {None}
  /\ Active => \A t \in Types : Mine(t) \in seen[t]

\* A permission was seen before it is read, and one that grants the action before what the
\* action does.
Held(t)  == \E row \in seen[t] : row # None
Granting == \E row \in seen[req.type] : row # None /\ Grants(row, req.action)
GrantOK ==
  ~req.super =>
    /\ req.pc = "get" => Held(req.type)
    /\ req.pc \in {"write", "commit"} => Granting
    /\ req.round # 1 => Granting
    /\ req.pc = "respond" /\ req.action # "list" => Granting

\* The objects of the answer, and the permissions that were prefetched for them.
RowsOK ==
  /\ req.rows \subseteq DOMAIN Stored
  /\ req.action # "list" => req.rows \subseteq {req.type}
  /\ req.action = "list" /\ ~req.super => \A t \in req.rows : Held(t)
  /\ req.pc \in {"exists", "get", "respond", "write"} /\ req.action # "create" =>
       \A t \in req.rows : req.pre[t] \in seen[t]

\* Without a change the term was checked against the permissions that limit the answer.
SortOK ==
  changes = 0 =>
    /\ ~req.gone
    /\ (req.pc \in {"fetch", "prefetch", "respond"} /\ req.action = "list" /\ req.term # None) =>
         /\ TermAllowed(req.term, SortLists)
         /\ \A t \in Types : Mine(t) # None /\ Mine(t).use => Mine(t).fields # None
    /\ req.pc = "prefetch" /\ req.action = "list" =>
         \A t \in req.rows : req.super \/ Mine(t) # None
    /\ req.pc = "respond" /\ req.action = "list" =>
         \A t \in req.rows : req.pre[t] = Mine(t) /\ (req.super \/ Mine(t) # None)

TypeInv   == Database \in Fitting /\ RequestOK /\ changes \in 0..MaxChanges
AccessInv == TypeInv /\ PhaseOK /\ SeenOK /\ GrantOK /\ RowsOK /\ SortOK

-----------------------------------------------------------------------------
(* The invariant holds at first. *)

LEMMA InitDatabase ==
  ASSUME Init
  PROVE  Database \in Fitting
<1>1. PICK given \in Given :
        perm = [p \in Ids \X Types |-> IF p \in DOMAIN given THEN given[p] ELSE None]
  BY DEF Init
<1>2. types = DOMAIN Stored /\ token = Tokens
  BY DEF Init
<1>3. \A p \in Ids \X Types : perm[p] # None =>
        perm[p] \in Rows /\ token[p[1]] # None /\ p[2] \in types
  BY <1>1, <1>2, TokensAssumption
<1>4. perm \in [Ids \X Types -> Rows \cup {None}]
  BY <1>1, <1>3
<1>5. types \in SUBSET Types /\ token \in [Ids -> TokenRows \cup {None}]
  BY <1>2, TokensAssumption DEF TokenRows
<1> QED BY <1>3, <1>4, <1>5 DEF Database, Fitting, Fits, Bases

LEMMA InitInv == Init => AccessInv
<1> SUFFICES ASSUME Init
             PROVE  AccessInv
  OBVIOUS
<1>1. req = NoRequest /\ changes = 0 /\ seen = [t \in Types |-> {}]
  BY DEF Init
<1>2. RequestOK
  BY <1>1, TokensAssumption, FieldsAssumption DEF RequestOK, NoRequest, RequestFields, Phases, Actions
<1>3. TypeInv
  BY <1>1, <1>2, InitDatabase, TokensAssumption DEF TypeInv
<1>4. PhaseOK
  BY <1>1 DEF PhaseOK, NoRequest, Active
<1>5. SeenOK
  BY <1>1, FS_EmptySet DEF SeenOK, NoRequest, Active
<1>6. GrantOK
  BY <1>1 DEF GrantOK, NoRequest
<1>7. RowsOK
  BY <1>1 DEF RowsOK, NoRequest
<1>8. SortOK
  BY <1>1 DEF SortOK, NoRequest
<1> QED BY <1>3, <1>4, <1>5, <1>6, <1>7, <1>8 DEF AccessInv

-----------------------------------------------------------------------------
(* The request begins. *)

LEMMA BeginInv ==
  ASSUME AccessInv, NEW key \in Keys, NEW action \in Actions, NEW t \in Types,
         NEW query \in Queries, NEW term \in Terms, Begin(key, action, t, query, term)
  PROVE  AccessInv'
<1> DEFINE found == {i \in Ids : token[i] # None /\ token[i].key = key}
<1>1. /\ TypeInv /\ UNCHANGED <<types, token, perm, changes>>
      /\ seen' = [u \in Types |-> {perm[<<i, u>>] : i \in found}]
      /\ action \in {"list", "retrieve"} \/ query = {}
  BY DEF AccessInv, Begin, db
<1>2. Database \in Fitting /\ Database' \in Fitting /\ changes' \in 0..MaxChanges
  BY <1>1 DEF TypeInv, Database
<1>3. \A u \in Types : IsFiniteSet(seen'[u]) /\ seen'[u] \subseteq Rows \cup {None}
  <2>1. IsFiniteSet(found)
    BY TokensAssumption, FS_Subset
  <2>2. \A i \in found, u \in Types : perm[<<i, u>>] \in Rows \cup {None}
    BY <1>2 DEF Fitting, Bases, Database
  <2>3. ASSUME NEW u \in Types
        PROVE  IsFiniteSet({perm[<<i, u>>] : i \in found})
    <3> HIDE DEF found
    <3> DEFINE f == [i \in found |-> perm[<<i, u>>]]
    <3>1. f \in Surjection(found, {f[i] : i \in found})
      BY DEF Surjection
    <3> HIDE DEF f
    <3>2. IsFiniteSet({f[i] : i \in found})
      BY <2>1, <3>1, FS_Surjection, Zenon
    <3>3. {f[i] : i \in found} = {perm[<<i, u>>] : i \in found}
      BY DEF f
    <3> QED BY <3>2, <3>3
  <2> QED BY <1>1, <2>2, <2>3
<1>4. CASE found = {}
  <2>1. req' = [NoRequest EXCEPT !.pc = "done", !.action = action, !.status = 401]
    BY <1>4, Zenon DEF Begin
  <2>2. RequestOK'
    BY <2>1, TokensAssumption, FieldsAssumption DEF RequestOK, NoRequest, RequestFields, Phases, Actions
  <2>3. /\ req'.pc = "done" /\ req'.rows = {} /\ req'.round = 1 /\ ~req'.gone /\ ~req'.saved /\ req'.query = {}
    BY <2>1 DEF NoRequest
  <2>4. PhaseOK' /\ GrantOK' /\ RowsOK' /\ SortOK'
    BY <2>3 DEF PhaseOK, GrantOK, RowsOK, SortOK, Active
  <2>5. SeenOK'
    BY <2>3, <1>3 DEF SeenOK, Active
  <2> QED BY <1>2, <2>2, <2>4, <2>5 DEF AccessInv, TypeInv
<1>5. CASE found # {}
  <2> DEFINE i == CHOOSE x \in found : TRUE
             first == CASE action = "create"      -> IF token[i].super THEN "write" ELSE "type"
                        [] action = "permissions" -> "permissions"
                        [] action = "types"       -> "types"
                        [] OTHER                  -> IF term = None THEN "fetch" ELSE "sort"
  <2>1. i \in found /\ i \in Ids /\ token[i] # None
    BY <1>5
  <2>2. token[i].super \in BOOLEAN
    BY <2>1, <1>2 DEF Fitting, Bases, Database, TokenRows
  <2>3. req' = [NoRequest EXCEPT !.pc = first, !.action = action, !.id = i,
                  !.super = token[i].super, !.query = query, !.term = term,
                  !.type = IF action \in {"list", "permissions"} THEN None ELSE t]
    BY <1>5, Zenon DEF Begin
  <2>4. /\ action = "create" => first \in {"write", "type"} /\ (first = "write" <=> token[i].super)
        /\ action = "permissions" => first = "permissions"
        /\ action = "types" => first = "types"
        /\ action \notin {"create", "permissions", "types"} =>
              first \in {"fetch", "sort"} /\ (first = "fetch" => term = None)
    <3>1. CASE action = "create"
      BY <3>1
    <3>2. CASE action = "permissions"
      BY <3>2
    <3>3. CASE action = "types"
      BY <3>3
    <3>4. CASE action \notin {"create", "permissions", "types"}
      BY <3>4
    <3> QED BY <3>1, <3>2, <3>3, <3>4
  <2> HIDE DEF i, first, found
  <2>5. /\ DOMAIN req' = RequestFields
        /\ req'.pc = first /\ req'.action = action /\ req'.id = i /\ req'.super = token[i].super
        /\ req'.query = query /\ req'.term = term /\ req'.rows = {} /\ req'.round = 1
        /\ req'.gone = FALSE /\ req'.saved = FALSE /\ req'.status = 0
        /\ req'.type = IF action \in {"list", "permissions"} THEN None ELSE t
    BY <2>3 DEF NoRequest, RequestFields
  <2>6. first \in Phases \ {"idle", "done", "prefetch", "respond", "exists", "get", "commit"}
    BY <2>4 DEF Actions, Phases
  <2>7. RequestOK'
    BY <2>1, <2>2, <2>5, <2>6 DEF RequestOK
  <2>8. PhaseOK'
    BY <2>4, <2>5, <2>6, <1>1 DEF PhaseOK, Active, Actions, Reading, History
  <2>9. SeenOK'
    <3>1. ASSUME NEW u \in Types
          PROVE  Mine(u)' \in seen'[u]
      <4>1. Mine(u)' = perm[<<i, u>>]
        BY <1>1, <2>5 DEF Mine
      <4>2. seen'[u] = {perm[<<x, u>>] : x \in found}
        BY <1>1
      <4> QED BY <4>1, <4>2, <2>1
    <3> QED BY <3>1, <1>3 DEF SeenOK
  <2>10. GrantOK' /\ RowsOK'
    BY <2>4, <2>5, <2>6 DEF GrantOK, RowsOK
  <2>11. SortOK'
    BY <2>4, <2>5, <2>6 DEF SortOK
  <2> QED BY <1>2, <2>7, <2>8, <2>9, <2>10, <2>11 DEF AccessInv, TypeInv
<1> QED BY <1>4, <1>5

-----------------------------------------------------------------------------
(* The steps of the request, which change neither tokens nor permissions. *)

\* The fields of the request that a step leaves alone.
Same(names) == \A f \in names : req'[f] = req[f]

LEMMA ReadKeeps ==
  ASSUME AccessInv, Read
  PROVE  Database' \in Fitting /\ changes' \in 0..MaxChanges
BY DEF AccessInv, TypeInv, Read, Database, db

LEMMA ReplyInv ==
  ASSUME AccessInv, Active, NEW status \in {200, 204, 400, 401, 403, 404, 500}, Reply(status),
         Database' \in Fitting, UNCHANGED <<seen, changes>>
  PROVE  AccessInv' /\ req'.pc = "done" /\ ~req'.saved /\ req'.status = status
                    /\ Same(RequestFields \ {"pc", "status"})
<1>1. RequestOK /\ PhaseOK /\ SeenOK /\ GrantOK /\ RowsOK /\ SortOK /\ changes \in 0..MaxChanges
  BY DEF AccessInv, TypeInv
<1>2. /\ DOMAIN req' = RequestFields /\ req'.pc = "done" /\ req'.status = status
      /\ \A f \in RequestFields \ {"pc", "status"} : req'[f] = req[f]
  BY <1>1, ZenonT(40) DEF Reply, RequestOK, RequestFields
<1>3. /\ req'.action = req.action /\ req'.id = req.id /\ req'.super = req.super /\ req'.gone = req.gone
      /\ req'.type = req.type /\ req'.query = req.query /\ req'.term = req.term /\ req'.rows = req.rows
      /\ req'.pre = req.pre /\ req'.round = req.round /\ req'.saved = req.saved
  BY <1>2 DEF RequestFields
<1>4. ~req.saved
  BY <1>1 DEF PhaseOK, Active
<1>5. RequestOK'
  BY <1>1, <1>2, <1>3 DEF RequestOK, Phases
<1>6. PhaseOK'
  BY <1>1, <1>2, <1>3 DEF PhaseOK, Active
<1>7. SeenOK'
  BY <1>1, <1>2 DEF SeenOK, Active
<1>8. GrantOK'
  BY <1>1, <1>2, <1>3 DEF GrantOK, Granting
<1>9. RowsOK'
  BY <1>1, <1>2, <1>3 DEF RowsOK, Held
<1>10. SortOK'
  BY <1>1, <1>2, <1>3 DEF SortOK
<1> QED BY <1>1, <1>2, <1>3, <1>4, <1>5, <1>6, <1>7, <1>8, <1>9, <1>10 DEF AccessInv, TypeInv, Same

\* What no step of a request changes after its beginning.
Kept ==
  /\ DOMAIN req' = RequestFields
  /\ req'.action = req.action /\ req'.id = req.id /\ req'.super = req.super /\ req'.gone = req.gone
  /\ req'.type = req.type /\ req'.query = req.query

LEMMA KeptInv ==
  ASSUME AccessInv, Active, Read, Kept, req'.pc \in Phases, req'.term \in Terms,
         req'.round \in {1, 2, 3}, req'.status \in {0, 200}, req'.saved \in BOOLEAN
  PROVE  TypeInv' /\ SeenOK' /\ SortLists' = SortLists
<1>1. RequestOK /\ SeenOK /\ UNCHANGED <<seen, perm>> /\ Database' \in Fitting /\ changes' \in 0..MaxChanges
  BY ReadKeeps DEF AccessInv, TypeInv, Read, db
<1>2. RequestOK'
  BY <1>1 DEF RequestOK, Kept
<1>3. \A t \in Types : Mine(t)' = Mine(t)
  BY <1>1 DEF Mine, Kept
<1>4. SeenOK'
  BY <1>1, <1>3 DEF SeenOK
<1>5. SortLists' = SortLists
  BY <1>3 DEF SortLists
<1> QED BY <1>1, <1>2, <1>4, <1>5 DEF TypeInv

LEMMA FindTypeInv ==
  ASSUME AccessInv, FindType
  PROVE  AccessInv'
<1>1. /\ RequestOK /\ PhaseOK /\ GrantOK /\ RowsOK /\ SortOK /\ Database' \in Fitting
      /\ UNCHANGED <<seen, changes, perm>> /\ req.pc = "type" /\ Active /\ Read
  BY ReadKeeps DEF AccessInv, TypeInv, FindType, Read, db, Active
<1>2. CASE Reply(403)
  BY <1>1, <1>2, ReplyInv
<1>3. CASE req' = [req EXCEPT !.pc = "exists"]
  <2>1. Kept /\ req'.pc = "exists" /\ \A f \in {"term", "rows", "pre", "round", "saved", "status"} : req'[f] = req[f]
    BY <1>1, <1>3 DEF RequestOK, RequestFields, Kept
  <2>2. req'.term = req.term /\ req'.rows = req.rows /\ req'.pre = req.pre /\ req'.round = req.round
        /\ req'.saved = req.saved /\ req'.status = req.status
    BY <2>1
  <2>3. TypeInv' /\ SeenOK' /\ SortLists' = SortLists
    BY <1>1, <2>1, <2>2, KeptInv DEF RequestOK, PhaseOK, Phases
  <2>4. PhaseOK'
    BY <1>1, <2>1, <2>2 DEF PhaseOK, Active, Kept
  <2>5. GrantOK' /\ RowsOK'
    BY <1>1, <2>1, <2>2 DEF GrantOK, RowsOK, PhaseOK, Granting, Held, Kept
  <2>6. SortOK'
    BY <1>1, <2>1, <2>2 DEF SortOK, Mine, Kept
  <2> QED BY <2>3, <2>4, <2>5, <2>6 DEF AccessInv
<1> QED BY <1>2, <1>3 DEF FindType

LEMMA SortInv ==
  ASSUME AccessInv, Sort
  PROVE  AccessInv'
<1>1. /\ RequestOK /\ PhaseOK /\ SeenOK /\ GrantOK /\ RowsOK /\ SortOK /\ Database' \in Fitting
      /\ UNCHANGED <<seen, changes, perm>> /\ req.pc = "sort" /\ Active /\ Read
  BY ReadKeeps DEF AccessInv, TypeInv, Sort, Read, db, Active
<1>2. CASE Reply(500) \/ Reply(400)
  BY <1>1, <1>2, ReplyInv
<1>3. CASE req' = [req EXCEPT !.pc = "fetch", !.term = None]
  <2>1. Kept /\ req'.pc = "fetch" /\ req'.term = None
        /\ \A f \in {"rows", "pre", "round", "saved", "status"} : req'[f] = req[f]
    BY <1>1, <1>3 DEF RequestOK, RequestFields, Kept
  <2>2. req'.rows = req.rows /\ req'.pre = req.pre /\ req'.round = req.round /\ req'.saved = req.saved /\ req'.status = req.status
    BY <2>1
  <2>3. TypeInv' /\ SeenOK' /\ SortLists' = SortLists
    BY <1>1, <2>1, <2>2, FieldsAssumption, KeptInv DEF RequestOK, PhaseOK, Phases
  <2>4. PhaseOK'
    BY <1>1, <2>1, <2>2, FieldsAssumption DEF PhaseOK, Active, Kept
  <2>5. GrantOK'
    BY <1>1, <2>1, <2>2, FieldsAssumption DEF GrantOK, PhaseOK, Granting, Held, Kept
  <2>6. RowsOK'
    BY <1>1, <2>1, <2>2, FieldsAssumption DEF RowsOK, PhaseOK, Held, Kept
  <2>7. SortOK'
    BY <1>1, <2>1, <2>2, FieldsAssumption, <2>3 DEF SortOK, PhaseOK, Mine, Kept, TermAllowed
  <2> QED BY <2>3, <2>4, <2>5, <2>6, <2>7 DEF AccessInv
<1>4. CASE /\ req' = [req EXCEPT !.pc = "fetch"]
           /\ TermAllowed(req.term, SortLists)
           /\ ~(\E t \in Types : Mine(t) # None /\ Mine(t).use /\ Mine(t).fields = None)
  <2>1. Kept /\ req'.pc = "fetch"
        /\ \A f \in {"term", "rows", "pre", "round", "saved", "status"} : req'[f] = req[f]
    BY <1>1, <1>4 DEF RequestOK, RequestFields, Kept
  <2>2. req'.term = req.term /\ req'.rows = req.rows /\ req'.pre = req.pre /\ req'.round = req.round /\ req'.saved = req.saved /\ req'.status = req.status
    BY <2>1
  <2>3. TypeInv' /\ SeenOK' /\ SortLists' = SortLists
    BY <1>1, <2>1, <2>2, KeptInv DEF RequestOK, PhaseOK, Phases
  <2>4. PhaseOK'
    BY <1>1, <2>1, <2>2 DEF PhaseOK, Active, Kept
  <2>5. GrantOK'
    BY <1>1, <2>1, <2>2 DEF GrantOK, PhaseOK, Granting, Held, Kept
  <2>6. RowsOK'
    BY <1>1, <2>1, <2>2 DEF RowsOK, PhaseOK, Held, Kept
  <2>7. \A t \in Types : Mine(t)' = Mine(t)
    BY <1>1, <2>1 DEF Mine, Kept
  <2>8. SortOK'
    <3>1. TermAllowed(req.term, SortLists)'
      BY <1>4, <2>2, <2>3 DEF TermAllowed
    <3> QED BY <1>1, <1>4, <2>1, <2>2, <2>7, <3>1 DEF SortOK, Kept
  <2> QED BY <2>3, <2>4, <2>5, <2>6, <2>8 DEF AccessInv
<1> QED BY <1>2, <1>3, <1>4, Zenon DEF Sort

LEMMA FetchInv ==
  ASSUME AccessInv, Fetch
  PROVE  AccessInv'
<1>1. /\ RequestOK /\ PhaseOK /\ SeenOK /\ GrantOK /\ RowsOK /\ SortOK /\ Database' \in Fitting
      /\ UNCHANGED <<seen, changes, perm>> /\ req.pc = "fetch" /\ Active /\ Read
  BY ReadKeeps DEF AccessInv, TypeInv, Fetch, Read, db, Active
<1>2. CASE Reply(404)
  BY <1>1, <1>2, ReplyInv
<1> DEFINE page == {t \in FilterForToken(req.id, req.super) : req.super \/ ~req.gone}
<1>3. page \subseteq DOMAIN Stored /\ \A t \in page : req.super \/ Mine(t) # None
  BY DEF FilterForToken, Mine
<1>4. ASSUME NEW t \in page, ~req.super
      PROVE  Held(t)
  <2>1. t \in Types /\ Mine(t) # None
    BY <1>3, <1>4, TokensAssumption
  <2> QED BY <2>1, <1>1 DEF SeenOK, Held
<1> HIDE DEF page
<1>5. CASE req.action = "list" /\ req' = [req EXCEPT !.pc = "prefetch", !.rows = page]
  <2>1. Kept /\ req'.pc = "prefetch" /\ req'.rows = page
        /\ \A f \in {"term", "pre", "round", "saved", "status"} : req'[f] = req[f]
    BY <1>1, <1>5 DEF RequestOK, RequestFields, Kept
  <2>2. req'.term = req.term /\ req'.pre = req.pre /\ req'.round = req.round /\ req'.saved = req.saved /\ req'.status = req.status
    BY <2>1
  <2>3. TypeInv' /\ SeenOK' /\ SortLists' = SortLists
    BY <1>1, <2>1, <2>2, KeptInv DEF RequestOK, PhaseOK, Phases
  <2>4. PhaseOK'
    BY <1>1, <2>1, <2>2 DEF PhaseOK, Active, Kept
  <2>5. GrantOK'
    BY <1>1, <2>1, <2>2, <1>5 DEF GrantOK, PhaseOK, Granting, Held, Kept
  <2>6. RowsOK'
    BY <1>1, <2>1, <2>2, <1>3, <1>4, <1>5 DEF RowsOK, PhaseOK, Held, Kept
  <2>7. SortOK'
    BY <1>1, <2>1, <2>2, <1>3, <1>5, <2>3, ZenonT(40) DEF SortOK, PhaseOK, Mine, Kept, TermAllowed
  <2> QED BY <2>3, <2>4, <2>5, <2>6, <2>7 DEF AccessInv
<1>6. CASE req.action # "list" /\ req.type \in DOMAIN Stored
           /\ req' = [req EXCEPT !.pc = "prefetch", !.rows = {req.type}]
  <2>1. Kept /\ req'.pc = "prefetch" /\ req'.rows = {req.type}
        /\ \A f \in {"term", "pre", "round", "saved", "status"} : req'[f] = req[f]
    BY <1>1, <1>6 DEF RequestOK, RequestFields, Kept
  <2>2. req'.term = req.term /\ req'.pre = req.pre /\ req'.round = req.round /\ req'.saved = req.saved /\ req'.status = req.status
    BY <2>1
  <2>3. TypeInv' /\ SeenOK' /\ SortLists' = SortLists
    BY <1>1, <2>1, <2>2, KeptInv DEF RequestOK, PhaseOK, Phases
  <2>4. PhaseOK'
    BY <1>1, <2>1, <2>2 DEF PhaseOK, Active, Kept
  <2>5. GrantOK'
    BY <1>1, <2>1, <2>2, <1>6 DEF GrantOK, PhaseOK, Granting, Held, Kept
  <2>6. RowsOK'
    BY <1>1, <2>1, <2>2, <1>6 DEF RowsOK, PhaseOK, Held, Kept
  <2>7. SortOK'
    BY <1>1, <2>1, <2>2, <1>6, <2>3 DEF SortOK, PhaseOK, Mine, Kept, TermAllowed
  <2> QED BY <2>3, <2>4, <2>5, <2>6, <2>7 DEF AccessInv
<1> QED BY <1>2, <1>5, <1>6, Zenon DEF Fetch, page

LEMMA PrefetchInv ==
  ASSUME AccessInv, Prefetch
  PROVE  AccessInv'
<1>1. /\ RequestOK /\ PhaseOK /\ SeenOK /\ GrantOK /\ RowsOK /\ SortOK /\ Database' \in Fitting
      /\ UNCHANGED <<seen, changes, perm>> /\ req.pc = "prefetch" /\ Active /\ Read
  BY ReadKeeps DEF AccessInv, TypeInv, Prefetch, Read, db, Active
<1> DEFINE pc  == IF req.action = "list" THEN "respond"
                  ELSE IF req.super THEN (IF req.action = "update" THEN "write" ELSE "respond")
                  ELSE "exists"
           pre == [t \in req.rows |-> Mine(t)]
<1>2. req' = [req EXCEPT !.pre = pre, !.pc = pc]
  BY Zenon DEF Prefetch
<1>3. /\ req.action = "list" => pc = "respond"
      /\ req.action # "list" /\ ~req.super => pc = "exists"
      /\ req.action # "list" /\ req.super => pc \in {"write", "respond"} /\ (pc = "write" <=> req.action = "update")
      /\ pc \in Phases \ {"done", "idle", "prefetch", "fetch"}
  BY DEF Phases
<1>4. \A t \in req.rows : pre[t] = Mine(t) /\ t \in Types
  BY <1>1, TokensAssumption DEF RowsOK
<1> HIDE DEF pc, pre
<1>5. CASE TRUE
  <2>1. Kept /\ req'.pc = pc /\ req'.pre = pre
        /\ \A f \in {"term", "rows", "round", "saved", "status"} : req'[f] = req[f]
    BY <1>1, <1>2 DEF RequestOK, RequestFields, Kept
  <2>2. req'.term = req.term /\ req'.rows = req.rows /\ req'.round = req.round /\ req'.saved = req.saved /\ req'.status = req.status
    BY <2>1
  <2>3. TypeInv' /\ SeenOK' /\ SortLists' = SortLists
    BY <1>1, <2>1, <2>2, <1>3, KeptInv DEF RequestOK, PhaseOK, Phases
  <2>4. PhaseOK'
    BY <1>1, <2>1, <2>2, <1>3 DEF PhaseOK, Active, Kept, Reading, History
  <2>5. GrantOK'
    BY <1>1, <2>1, <2>2, <1>3 DEF GrantOK, PhaseOK, Granting, Held, Kept
  <2>6. RowsOK'
    BY <1>1, <2>1, <2>2, <1>3, <1>4 DEF RowsOK, PhaseOK, Held, Kept, SeenOK
  <2>7. SortOK'
    <3>1. CASE req.action # "list"
      BY <1>1, <1>3, <2>1, <3>1 DEF SortOK, Kept
    <3>2. CASE changes = 0 /\ req.action = "list"
      <4>1. \A t \in Types : Mine(t)' = Mine(t)
        BY <1>1, <2>1 DEF Mine, Kept
      <4>2. TermAllowed(req.term, SortLists)' = TermAllowed(req.term, SortLists)
        BY <2>2, <2>3 DEF TermAllowed
      <4>3. /\ ~req.gone
            /\ req.term # None =>
                 /\ TermAllowed(req.term, SortLists)
                 /\ \A t \in Types : Mine(t) # None /\ Mine(t).use => Mine(t).fields # None
            /\ \A t \in req.rows : req.super \/ Mine(t) # None
        BY <1>1, <3>2 DEF SortOK
      <4> QED BY <1>1, <1>3, <1>4, <2>1, <2>2, <3>2, <4>1, <4>2, <4>3 DEF SortOK, Kept
    <3>3. CASE changes # 0
      BY <1>1, <3>3 DEF SortOK
    <3> QED BY <3>1, <3>2, <3>3
  <2> QED BY <2>3, <2>4, <2>5, <2>6, <2>7 DEF AccessInv
<1> QED BY <1>5

LEMMA ExistsInv ==
  ASSUME AccessInv, Exists
  PROVE  AccessInv'
<1>1. /\ RequestOK /\ PhaseOK /\ SeenOK /\ GrantOK /\ RowsOK /\ SortOK /\ Database' \in Fitting
      /\ UNCHANGED <<seen, changes, perm>> /\ req.pc = "exists" /\ Active /\ Read
  BY ReadKeeps DEF AccessInv, TypeInv, Exists, Read, db, Active
<1>2. CASE Reply(500) \/ Reply(403)
  BY <1>1, <1>2, ReplyInv
<1>3. CASE Mine(req.type) # None /\ req' = [req EXCEPT !.pc = "get"]
  <2>0. Held(req.type)
    BY <1>1, <1>3 DEF SeenOK, PhaseOK, Held
  <2>1. Kept /\ req'.pc = "get"
        /\ \A f \in {"term", "rows", "pre", "round", "saved", "status"} : req'[f] = req[f]
    BY <1>1, <1>3 DEF RequestOK, RequestFields, Kept
  <2>2. req'.term = req.term /\ req'.rows = req.rows /\ req'.pre = req.pre /\ req'.round = req.round /\ req'.saved = req.saved /\ req'.status = req.status
    BY <2>1
  <2>3. TypeInv' /\ SeenOK' /\ SortLists' = SortLists
    BY <1>1, <2>1, <2>2, KeptInv DEF RequestOK, PhaseOK, Phases
  <2>4. PhaseOK'
    BY <1>1, <2>1, <2>2 DEF PhaseOK, Active, Kept
  <2>5. GrantOK'
    BY <1>1, <2>1, <2>2, <2>0 DEF GrantOK, PhaseOK, Granting, Held, Kept
  <2>6. RowsOK'
    BY <1>1, <2>1, <2>2 DEF RowsOK, PhaseOK, Held, Kept
  <2>7. SortOK'
    BY <1>1, <2>1, <2>2, <2>3 DEF SortOK, PhaseOK, Mine, Kept, TermAllowed
  <2> QED BY <2>3, <2>4, <2>5, <2>6, <2>7 DEF AccessInv
<1> QED BY <1>2, <1>3, Zenon DEF Exists

LEMMA CheckPermissionInv ==
  ASSUME AccessInv, CheckPermission
  PROVE  AccessInv'
<1>1. /\ RequestOK /\ PhaseOK /\ SeenOK /\ GrantOK /\ RowsOK /\ SortOK /\ Database' \in Fitting
      /\ UNCHANGED <<seen, changes, perm>> /\ req.pc = "get" /\ Active /\ Read
  BY ReadKeeps DEF AccessInv, TypeInv, CheckPermission, Read, db, Active
<1>2. CASE Reply(500) \/ Reply(403)
  BY <1>1, <1>2, ReplyInv
<1>3. CASE /\ Mine(req.type) # None /\ Grants(Mine(req.type), req.action) /\ req.round # 2
           /\ req' = [req EXCEPT !.pc = AfterGet]
  <2>0. Granting
    BY <1>1, <1>3 DEF SeenOK, PhaseOK, Granting
  <2>8. /\ req.round = 3 => AfterGet = "commit"
        /\ req.round = 1 /\ req.action \in {"create", "update"} => AfterGet = "write"
        /\ req.round = 1 /\ req.action \notin {"create", "update"} => AfterGet = "respond"
    BY DEF AfterGet
  <2>9. req.round \in {1, 3} /\ (req.round = 3 => req.action \in {"create", "update"})
    BY <1>1, <1>3 DEF RequestOK, PhaseOK
  <2>1. Kept /\ req'.pc = AfterGet
        /\ \A f \in {"term", "rows", "pre", "round", "saved", "status"} : req'[f] = req[f]
    BY <1>1, <1>3 DEF RequestOK, RequestFields, Kept
  <2>2. req'.term = req.term /\ req'.rows = req.rows /\ req'.pre = req.pre /\ req'.round = req.round /\ req'.saved = req.saved /\ req'.status = req.status
    BY <2>1
  <2>3. TypeInv' /\ SeenOK' /\ SortLists' = SortLists
    BY <1>1, <2>1, <2>2, <2>8, <2>9, KeptInv DEF RequestOK, PhaseOK, Phases
  <2>4. PhaseOK'
    BY <1>1, <2>1, <2>2, <2>8, <2>9 DEF PhaseOK, Active, Kept, RequestOK, Actions, Reading, History
  <2>5. GrantOK'
    BY <1>1, <2>1, <2>2, <2>8, <2>9, <2>0 DEF GrantOK, PhaseOK, Granting, Held, Kept
  <2>6. RowsOK'
    BY <1>1, <2>1, <2>2, <2>8, <2>9 DEF RowsOK, PhaseOK, Held, Kept
  <2>7. SortOK'
    BY <1>1, <2>1, <2>2, <2>8, <2>9, <2>3 DEF SortOK, PhaseOK, Mine, Kept, TermAllowed
  <2> QED BY <2>3, <2>4, <2>5, <2>6, <2>7 DEF AccessInv
<1> QED BY <1>2, <1>3, Zenon DEF CheckPermission

LEMMA WriteInv ==
  ASSUME AccessInv, Write
  PROVE  AccessInv'
<1>1. /\ RequestOK /\ PhaseOK /\ SeenOK /\ GrantOK /\ RowsOK /\ SortOK /\ Database' \in Fitting
      /\ UNCHANGED <<seen, changes, perm>> /\ req.pc = "write" /\ Active /\ Read
  BY ReadKeeps DEF AccessInv, TypeInv, Write, Read, db, Active
<1> DEFINE pc == IF req.super THEN "commit" ELSE "exists"
<1>2. req' = [req EXCEPT !.pc = pc, !.round = 2]
  BY Zenon DEF Write
<1>3. (pc = "commit" /\ req.super) \/ (pc = "exists" /\ ~req.super)
  OBVIOUS
<1> HIDE DEF pc
<1>4. CASE TRUE
  <2>1. Kept /\ req'.pc = pc /\ req'.round = 2
        /\ \A f \in {"term", "rows", "pre", "saved", "status"} : req'[f] = req[f]
    BY <1>1, <1>2 DEF RequestOK, RequestFields, Kept
  <2>2. req'.term = req.term /\ req'.rows = req.rows /\ req'.pre = req.pre /\ req'.saved = req.saved /\ req'.status = req.status
    BY <2>1
  <2>3. TypeInv' /\ SeenOK' /\ SortLists' = SortLists
    BY <1>1, <1>3, <2>1, <2>2, KeptInv DEF RequestOK, PhaseOK, Phases
  <2>4. PhaseOK'
    BY <1>1, <1>3, <2>1, <2>2 DEF PhaseOK, Active, Kept
  <2>5. GrantOK'
    BY <1>1, <1>3, <2>1, <2>2 DEF GrantOK, PhaseOK, Granting, Held, Kept
  <2>6. RowsOK'
    BY <1>1, <1>3, <2>1, <2>2 DEF RowsOK, PhaseOK, Held, Kept
  <2>7. SortOK'
    BY <1>1, <1>3, <2>1, <2>2, <2>3 DEF SortOK, PhaseOK, Mine, Kept, TermAllowed
  <2> QED BY <2>3, <2>4, <2>5, <2>6, <2>7 DEF AccessInv
<1> QED BY <1>4

LEMMA CommitInv ==
  ASSUME AccessInv, Commit
  PROVE  AccessInv'
<1>1. /\ RequestOK /\ PhaseOK /\ SeenOK /\ GrantOK /\ RowsOK /\ SortOK /\ Database' \in Fitting
      /\ UNCHANGED <<seen, changes, perm>> /\ req.pc = "commit" /\ Active /\ Read
  BY ReadKeeps DEF AccessInv, TypeInv, Commit, Read, db, Active
<1>2. req' = [req EXCEPT !.pc = "done", !.status = 200, !.saved = TRUE]
  BY DEF Commit
<1>3. CASE TRUE
  <2>1. Kept /\ req'.pc = "done" /\ req'.status = 200 /\ req'.saved = TRUE
        /\ \A f \in {"term", "rows", "pre", "round"} : req'[f] = req[f]
    BY <1>1, <1>2 DEF RequestOK, RequestFields, Kept
  <2>2. req'.term = req.term /\ req'.rows = req.rows /\ req'.pre = req.pre /\ req'.round = req.round
    BY <2>1
  <2>3. TypeInv' /\ SeenOK' /\ SortLists' = SortLists
    BY <1>1, <2>1, <2>2, KeptInv, ZenonT(40) DEF RequestOK, PhaseOK, Phases
  <2>4. PhaseOK'
    BY <1>1, <2>1, <2>2 DEF PhaseOK, Active, Kept
  <2>5. GrantOK'
    BY <1>1, <2>1, <2>2 DEF GrantOK, PhaseOK, Granting, Held, Kept
  <2>6. RowsOK'
    BY <1>1, <2>1, <2>2 DEF RowsOK, PhaseOK, Held, Kept
  <2>7. SortOK'
    BY <1>1, <2>1, <2>2, <2>3 DEF SortOK, PhaseOK, Mine, Kept, TermAllowed
  <2> QED BY <2>3, <2>4, <2>5, <2>6, <2>7 DEF AccessInv
<1> QED BY <1>3

\* What is answered to a record that was written, and where the request goes then.
WrittenAllowed == AllowedFields(Mine(req.type), Written.version, None)
WrittenAnswer  == Represent(Written.body, WrittenAllowed, <<>>)
AfterSerialize == IF req.action = "create" THEN "commit" ELSE "exists"

LEMMA SerializeCases ==
  ASSUME SerializeWritten
  PROVE  \/ Mine(req.type) = None /\ Reply(500)
         \/ Mine(req.type) # None /\ WrittenAllowed = None /\ Reply(500)
         \/ /\ Mine(req.type) # None /\ WrittenAllowed # None
            /\ WrittenAnswer.status # 200 /\ Reply(WrittenAnswer.status)
         \/ \E shown : req' = [req EXCEPT !.shown = shown, !.round = 3, !.pc = AfterSerialize]
<1> DEFINE row  == Mine(req.type)
           move == [req EXCEPT !.shown = (req.type :> WrittenAnswer.shown), !.round = 3, !.pc = AfterSerialize]
<1>1. (CASE row = None -> Reply(500)
         [] row # None /\ WrittenAllowed = None -> Reply(500)
         [] row # None /\ WrittenAllowed # None /\ WrittenAnswer.status # 200 -> Reply(WrittenAnswer.status)
         [] OTHER -> req' = move)
  BY Zenon DEF SerializeWritten, WrittenAnswer, WrittenAllowed, AfterSerialize
<1> HIDE DEF row, move
<1>2. CASE row = None
  BY <1>1, <1>2 DEF row
<1>3. CASE row # None /\ WrittenAllowed = None
  BY <1>1, <1>3 DEF row
<1>4. CASE row # None /\ WrittenAllowed # None /\ WrittenAnswer.status # 200
  BY <1>1, <1>4 DEF row
<1>5. CASE row # None /\ WrittenAllowed # None /\ WrittenAnswer.status = 200
  BY <1>1, <1>5 DEF move
<1> QED BY <1>2, <1>3, <1>4, <1>5

LEMMA SerializeWrittenInv ==
  ASSUME AccessInv, SerializeWritten
  PROVE  AccessInv'
<1>1. /\ RequestOK /\ PhaseOK /\ SeenOK /\ GrantOK /\ RowsOK /\ SortOK /\ Database' \in Fitting
      /\ UNCHANGED <<seen, changes, perm>> /\ req.pc = "get" /\ Active /\ Read
  BY ReadKeeps DEF AccessInv, TypeInv, SerializeWritten, Read, db, Active
<1>2. WrittenAnswer.status \in {200, 400, 500}
  BY RepresentStatus DEF WrittenAnswer
<1>3. CASE Reply(500) \/ (WrittenAnswer.status # 200 /\ Reply(WrittenAnswer.status))
  BY <1>1, <1>2, <1>3, ReplyInv
<1>4. req.round = 2
  BY DEF SerializeWritten
<1>5. AfterSerialize \in {"commit", "exists"} /\ (AfterSerialize = "commit" <=> req.action = "create")
  BY DEF AfterSerialize
<1>6. req.action \in {"create", "update"}
  BY <1>1, <1>4 DEF PhaseOK
<1>7. ASSUME NEW shown, req' = [req EXCEPT !.shown = shown, !.round = 3, !.pc = AfterSerialize]
      PROVE  AccessInv'
  <2>1. Kept /\ req'.pc = AfterSerialize /\ req'.round = 3
        /\ \A f \in {"term", "rows", "pre", "saved", "status"} : req'[f] = req[f]
    BY <1>1, <1>7 DEF RequestOK, RequestFields, Kept
  <2>2. req'.term = req.term /\ req'.rows = req.rows /\ req'.pre = req.pre /\ req'.saved = req.saved /\ req'.status = req.status
    BY <2>1
  <2>3. TypeInv' /\ SeenOK' /\ SortLists' = SortLists
    BY <1>1, <1>4, <1>5, <1>6, <2>1, <2>2, KeptInv DEF RequestOK, PhaseOK, Phases
  <2>4. PhaseOK'
    BY <1>1, <1>4, <1>5, <1>6, <2>1, <2>2 DEF PhaseOK, Active, Kept
  <2>5. GrantOK'
    BY <1>1, <1>4, <1>5, <1>6, <2>1, <2>2 DEF GrantOK, PhaseOK, Granting, Held, Kept
  <2>6. RowsOK'
    BY <1>1, <1>4, <1>5, <1>6, <2>1, <2>2 DEF RowsOK, PhaseOK, Held, Kept
  <2>7. SortOK'
    BY <1>1, <1>4, <1>5, <1>6, <2>1, <2>2, <2>3 DEF SortOK, PhaseOK, Mine, Kept, TermAllowed
  <2> QED BY <2>3, <2>4, <2>5, <2>6, <2>7 DEF AccessInv
<1> QED BY <1>3, <1>7, SerializeCases, Zenon

LEMMA ListPermissionsInv ==
  ASSUME AccessInv, ListPermissions
  PROVE  AccessInv'
<1>1. /\ RequestOK /\ PhaseOK /\ SeenOK /\ GrantOK /\ RowsOK /\ SortOK /\ Database' \in Fitting
      /\ UNCHANGED <<seen, changes, perm>> /\ req.pc = "permissions" /\ Active /\ Read
  BY ReadKeeps DEF AccessInv, TypeInv, ListPermissions, Read, db, Active
<1> DEFINE shown == [t \in {u \in Types : Mine(u) # None} |-> Mine(t)]
<1>2. req' = [req EXCEPT !.pc = "done", !.status = 200, !.shown = shown]
  BY DEF ListPermissions
<1> HIDE DEF shown
<1>3. CASE TRUE
  <2>1. Kept /\ req'.pc = "done" /\ req'.status = 200
        /\ \A f \in {"term", "rows", "pre", "round", "saved"} : req'[f] = req[f]
    BY <1>1, <1>2 DEF RequestOK, RequestFields, Kept
  <2>2. req'.term = req.term /\ req'.rows = req.rows /\ req'.pre = req.pre /\ req'.round = req.round /\ req'.saved = req.saved
    BY <2>1
  <2>3. TypeInv' /\ SeenOK' /\ SortLists' = SortLists
    BY <1>1, <2>1, <2>2, KeptInv DEF RequestOK, PhaseOK, Phases
  <2>4. PhaseOK'
    BY <1>1, <2>1, <2>2 DEF PhaseOK, Active, Kept
  <2>5. GrantOK'
    BY <1>1, <2>1, <2>2 DEF GrantOK, PhaseOK, Granting, Held, Kept
  <2>6. RowsOK'
    BY <1>1, <2>1, <2>2 DEF RowsOK, PhaseOK, Held, Kept
  <2>7. SortOK'
    BY <1>1, <2>1, <2>2, <2>3 DEF SortOK, PhaseOK, Mine, Kept, TermAllowed
  <2> QED BY <2>3, <2>4, <2>5, <2>6, <2>7 DEF AccessInv
<1> QED BY <1>3

LEMMA RespondInv ==
  ASSUME AccessInv, Respond
  PROVE  AccessInv'
<1>1. /\ RequestOK /\ PhaseOK /\ SeenOK /\ GrantOK /\ RowsOK /\ SortOK /\ Database' \in Fitting
      /\ UNCHANGED <<seen, changes, perm>> /\ req.pc = "respond" /\ Active /\ Read
  BY ReadKeeps DEF AccessInv, TypeInv, Respond, Read, db, Active
<1>2. PICK order \in QueryOrders(req.query) :
        IF \E t \in req.rows : NoPermission(t) \/ Allowed(t) = None
        THEN Reply(500)
        ELSE LET made   == [t \in req.rows |-> Represent(Stored[t].body, Allowed(t), order)]
                 failed == {t \in req.rows : made[t].status # 200}
             IN  IF failed # {} THEN \E t \in failed : Reply(made[t].status)
                 ELSE req' = [req EXCEPT !.pc = "done", !.status = 200,
                                !.shown = [t \in req.rows |-> made[t].shown],
                                !.withheld = [t \in req.rows |-> made[t].withheld],
                                !.saved = (req.action = "destroy")]
  BY Zenon DEF Respond
<1> DEFINE made   == [t \in req.rows |-> Represent(Stored[t].body, Allowed(t), order)]
           failed == {t \in req.rows : made[t].status # 200}
<1>3. CASE Reply(500)
  BY <1>1, <1>3, ReplyInv
<1>4. CASE \E t \in failed : Reply(made[t].status)
  <2>1. PICK t \in failed : Reply(made[t].status)
    BY <1>4
  <2>2. made[t].status \in {200, 400, 500}
    BY RepresentStatus
  <2> HIDE DEF made
  <2> QED BY <1>1, <2>1, <2>2, ReplyInv
<1>5. CASE req' = [req EXCEPT !.pc = "done", !.status = 200,
                     !.shown = [t \in req.rows |-> made[t].shown],
                     !.withheld = [t \in req.rows |-> made[t].withheld],
                     !.saved = (req.action = "destroy")]
  <2> HIDE DEF made
  <2> DEFINE saved == req.action = "destroy"
  <2> saved \in BOOLEAN
    OBVIOUS
  <2> HIDE DEF saved
  <2>1. Kept /\ req'.pc = "done" /\ req'.status = 200 /\ req'.saved = saved
        /\ \A f \in {"term", "rows", "pre", "round"} : req'[f] = req[f]
    BY <1>1, <1>5 DEF RequestOK, RequestFields, Kept, saved
  <2>2. req'.term = req.term /\ req'.rows = req.rows /\ req'.pre = req.pre /\ req'.round = req.round
    BY <2>1
  <2>3. TypeInv' /\ SeenOK' /\ SortLists' = SortLists
    BY <1>1, <2>1, <2>2, KeptInv DEF RequestOK, PhaseOK, Phases
  <2>4. PhaseOK'
    BY <1>1, <2>1, <2>2 DEF PhaseOK, Active, Kept
  <2>5. GrantOK'
    BY <1>1, <2>1, <2>2 DEF GrantOK, PhaseOK, Granting, Held, Kept
  <2>6. RowsOK'
    BY <1>1, <2>1, <2>2 DEF RowsOK, PhaseOK, Held, Kept
  <2>7. SortOK'
    BY <1>1, <2>1, <2>2, <2>3 DEF SortOK, PhaseOK, Mine, Kept, TermAllowed
  <2> QED BY <2>3, <2>4, <2>5, <2>6, <2>7 DEF AccessInv
<1> QED BY <1>2, <1>3, <1>4, <1>5, Zenon

LEMMA ChangeTypeInv ==
  ASSUME AccessInv, ChangeType
  PROVE  AccessInv'
<1>1. /\ Database \in Fitting /\ UNCHANGED <<seen, changes>> /\ Active
  BY DEF AccessInv, TypeInv, ChangeType, Active
<1>2. CASE UNCHANGED db /\ (Reply(404) \/ Reply(400))
  <2>1. Database' \in Fitting
    BY <1>1, <1>2 DEF Database, db
  <2> QED BY <1>1, <1>2, <2>1, ReplyInv
<1>3. CASE /\ types' = types \ {req.type}
           /\ perm' = [p \in DOMAIN perm |-> IF p[2] = req.type THEN None ELSE perm[p]]
           /\ UNCHANGED token
           /\ Reply(204)
  <2>1. /\ types \subseteq Types /\ token \in [Ids -> TokenRows \cup {None}]
        /\ perm \in [Ids \X Types -> Rows \cup {None}]
        /\ \A p \in Ids \X Types : perm[p] # None => token[p[1]] # None /\ p[2] \in types
    BY <1>1 DEF Database, Fitting, Fits, Bases
  <2>2. perm' \in [Ids \X Types -> Rows \cup {None}]
    BY <1>3, <2>1
  <2>3. \A p \in Ids \X Types : perm'[p] # None => token'[p[1]] # None /\ p[2] \in types'
    BY <1>3, <2>1
  <2>4. types' \in SUBSET Types /\ token' \in [Ids -> TokenRows \cup {None}]
    BY <1>3, <2>1
  <2>5. Database' \in Fitting
    BY <2>2, <2>3, <2>4 DEF Database, Fitting, Fits, Bases
  <2> QED BY <1>1, <1>3, <2>5, ReplyInv
<1> QED BY <1>2, <1>3 DEF ChangeType

-----------------------------------------------------------------------------
(* Changes of tokens and permissions during the request. *)

\* A change leaves the request alone, but for its token being deleted.
LEMMA ChangedInv ==
  ASSUME AccessInv, Changed, Database' \in Fitting,
         DOMAIN req' = RequestFields, Same(RequestFields \ {"gone"}), req'.gone \in BOOLEAN
  PROVE  AccessInv'
<1>1. /\ RequestOK /\ PhaseOK /\ SeenOK /\ GrantOK /\ RowsOK /\ changes \in 0..MaxChanges
      /\ Database' \in Fitting /\ changes' = changes + 1 /\ changes < MaxChanges /\ Active
      /\ seen' = [t \in Types |-> seen[t] \cup {IF req'.gone THEN None ELSE perm'[<<req.id, t>>]}]
  BY DEF AccessInv, TypeInv, Changed, Active
<1>2. /\ req'.pc = req.pc /\ req'.action = req.action /\ req'.id = req.id /\ req'.super = req.super
      /\ req'.type = req.type /\ req'.query = req.query /\ req'.term = req.term /\ req'.rows = req.rows
      /\ req'.pre = req.pre /\ req'.round = req.round /\ req'.saved = req.saved /\ req'.status = req.status
  BY DEF Same, RequestFields
<1>3. changes' \in 0..MaxChanges /\ changes' # 0
  BY <1>1, TokensAssumption
<1>4. RequestOK' /\ PhaseOK'
  <2>1. RequestOK'
    BY <1>1, <1>2 DEF RequestOK
  <2>2. PhaseOK'
    BY <1>1, <1>2 DEF PhaseOK, Active
  <2> QED BY <2>1, <2>2
<1>5. ASSUME NEW t \in Types
      PROVE  seen'[t] = seen[t] \cup {Mine(t)'}
  <2>1. Mine(t)' = IF req'.gone THEN None ELSE perm'[<<req.id, t>>]
    <3>1. Mine(t)' = IF req'.gone THEN None ELSE perm'[<<req'.id, t>>]
      BY Zenon DEF Mine
    <3> QED BY <3>1, <1>2, Zenon
  <2>2. seen'[t] = seen[t] \cup {IF req'.gone THEN None ELSE perm'[<<req.id, t>>]}
    BY <1>1
  <2> QED BY <2>1, <2>2, Zenon
<1>6. \A t \in Types : Mine(t)' \in Rows \cup {None}
  <2>1. perm' \in [Ids \X Types -> Rows \cup {None}] /\ req'.id \in Ids
    BY <1>1, <1>2 DEF Database, Fitting, Bases, RequestOK
  <2> QED BY <2>1 DEF Mine
<1>7. SeenOK'
  <2>1. ASSUME NEW t \in Types
        PROVE  IsFiniteSet(seen'[t])
    <3>1. IsFiniteSet(seen[t])
      BY <1>1 DEF SeenOK
    <3>2. IsFiniteSet(seen[t] \cup {Mine(t)'})
      BY <3>1, FS_AddElement
    <3>3. seen'[t] = seen[t] \cup {Mine(t)'}
      BY <1>5
    <3> QED BY <3>2, <3>3, Zenon
  <2>2. \A t \in Types : seen'[t] \subseteq Rows \cup {None} /\ Mine(t)' \in seen'[t]
    BY <1>1, <1>5, <1>6 DEF SeenOK
  <2> QED BY <2>1, <2>2 DEF SeenOK
<1>8. \A t \in Types : seen[t] \subseteq seen'[t]
  BY <1>5
<1>9. req.rows \subseteq Types
  BY <1>1, TokensAssumption DEF RowsOK
<1>10. GrantOK'
  <2>1. Held(req.type) /\ req.type \in Types => Held(req.type)'
    BY <1>2, <1>8 DEF Held
  <2>2. Granting /\ req.type \in Types => Granting'
    BY <1>2, <1>8 DEF Granting
  <2>3. req.pc = "get" \/ req.pc \in {"write", "commit"} \/ req.round # 1
          \/ (req.pc = "respond" /\ req.action # "list") => req.type \in Types
    BY <1>1 DEF PhaseOK, Reading, History
  <2> QED BY <1>1, <1>2, <2>1, <2>2, <2>3 DEF GrantOK
<1>11. RowsOK'
  <2>1. \A t \in req.rows : Held(t) => Held(t)'
    BY <1>8, <1>9 DEF Held
  <2> QED BY <1>1, <1>2, <1>8, <1>9, <2>1 DEF RowsOK
<1>12. SortOK'
  BY <1>3 DEF SortOK
<1> QED BY <1>1, <1>3, <1>4, <1>7, <1>10, <1>11, <1>12 DEF AccessInv, TypeInv

LEMMA DatabaseFields ==
  ASSUME Database \in Fitting
  PROVE  /\ types \subseteq Types /\ token \in [Ids -> TokenRows \cup {None}]
         /\ perm \in [Ids \X Types -> Rows \cup {None}]
         /\ \A p \in Ids \X Types : perm[p] # None => token[p[1]] # None /\ p[2] \in types
BY DEF Database, Fitting, Fits, Bases

LEMMA DatabaseFits ==
  ASSUME types' \subseteq Types, token' \in [Ids -> TokenRows \cup {None}],
         perm' \in [Ids \X Types -> Rows \cup {None}],
         \A p \in Ids \X Types : perm'[p] # None => token'[p[1]] # None /\ p[2] \in types'
  PROVE  Database' \in Fitting
BY DEF Database, Fitting, Fits, Bases

LEMMA SameRequest ==
  ASSUME RequestOK, UNCHANGED req
  PROVE  DOMAIN req' = RequestFields /\ Same(RequestFields \ {"gone"}) /\ req'.gone \in BOOLEAN
BY DEF RequestOK, Same

LEMMA SavePermissionInv ==
  ASSUME AccessInv, NEW t \in Types, NEW row \in Entered \cup {None}, SavePermission(req.id, t, row)
  PROVE  AccessInv'
<1>1. RequestOK /\ Database \in Fitting /\ req.id \in Ids
  BY DEF AccessInv, TypeInv, RequestOK
<1>2. /\ token[req.id] # None /\ t \in types /\ perm' = [perm EXCEPT ![<<req.id, t>>] = row]
      /\ types' = types /\ token' = token /\ UNCHANGED req /\ Changed
  BY DEF SavePermission
<1>3. row \in Rows \cup {None}
  BY DEF Entered
<1>4. perm' \in [Ids \X Types -> Rows \cup {None}]
  BY <1>1, <1>2, <1>3, DatabaseFields
<1>5. \A p \in Ids \X Types : perm'[p] # None => token'[p[1]] # None /\ p[2] \in types'
  BY <1>1, <1>2, <1>3, DatabaseFields
<1>6. Database' \in Fitting
  BY <1>1, <1>2, <1>4, <1>5, DatabaseFields, DatabaseFits
<1> QED BY <1>1, <1>2, <1>6, SameRequest, ChangedInv

LEMMA AddTokenInv ==
  ASSUME AccessInv, NEW i \in Ids, NEW super \in BOOLEAN, AddToken(i, super)
  PROVE  AccessInv'
<1>1. RequestOK /\ Database \in Fitting
  BY DEF AccessInv, TypeInv
<1>2. /\ token[i] = None /\ types' = types /\ perm' = perm /\ UNCHANGED req /\ Changed
      /\ \E key \in Keys \ Taken(i) : token' = [token EXCEPT ![i] = [key |-> key, super |-> super]]
  BY DEF AddToken
<1>3. PICK key \in Keys : token' = [token EXCEPT ![i] = [key |-> key, super |-> super]]
  BY <1>2
<1>4. [key |-> key, super |-> super] \in TokenRows /\ [key |-> key, super |-> super] # None
  <2>1. [key |-> key, super |-> super] \in [key : Keys, super : BOOLEAN]
    OBVIOUS
  <2> QED BY <2>1, NoneAssumption DEF TokenRows
<1>5. token' \in [Ids -> TokenRows \cup {None}]
  BY <1>1, <1>3, <1>4, DatabaseFields
<1>6. \A p \in Ids \X Types : perm'[p] # None => token'[p[1]] # None /\ p[2] \in types'
  BY <1>1, <1>2, <1>3, <1>4, DatabaseFields
<1>7. Database' \in Fitting
  BY <1>1, <1>2, <1>5, <1>6, DatabaseFields, DatabaseFits
<1> QED BY <1>1, <1>2, <1>7, SameRequest, ChangedInv

LEMMA DeleteTokenInv ==
  ASSUME AccessInv, NEW i \in Ids, DeleteToken(i)
  PROVE  AccessInv'
<1>1. RequestOK /\ Database \in Fitting /\ DOMAIN req = RequestFields /\ req.gone \in BOOLEAN
  BY DEF AccessInv, TypeInv, RequestOK
<1>2. /\ token' = [token EXCEPT ![i] = None] /\ types' = types /\ Changed
      /\ perm' = [p \in DOMAIN perm |-> IF p[1] = i THEN None ELSE perm[p]]
      /\ req' = [req EXCEPT !.gone = req.gone \/ req.id = i]
  BY DEF DeleteToken
<1>3. DOMAIN req' = RequestFields /\ Same(RequestFields \ {"gone"}) /\ req'.gone \in BOOLEAN
  BY <1>1, <1>2 DEF Same, RequestFields
<1>4. perm' \in [Ids \X Types -> Rows \cup {None}] /\ token' \in [Ids -> TokenRows \cup {None}]
  BY <1>1, <1>2, DatabaseFields
<1>5. \A p \in Ids \X Types : perm'[p] # None => token'[p[1]] # None /\ p[2] \in types'
  BY <1>1, <1>2, DatabaseFields
<1>6. Database' \in Fitting
  BY <1>1, <1>2, <1>4, <1>5, DatabaseFields, DatabaseFits
<1> QED BY <1>2, <1>3, <1>6, ChangedInv

LEMMA RunConfigurationInv ==
  ASSUME AccessInv, NEW config \in Configs, RunConfiguration(config)
  PROVE  AccessInv'
<1>1. RequestOK /\ Database \in Fitting /\ UNCHANGED req /\ Changed
  BY DEF AccessInv, TypeInv, RunConfiguration
<1> DEFINE result == Configured(config, Database)
<1>2. result \in Fitting
  <2>1. config.types \in SUBSET Types /\ config.items \in Seq(Items)
    BY ConfigsAssumption, Zenon DEF Items
  <2> QED BY <1>1, <2>1, ConfiguredFits
<1>3. types' = result.types /\ token' = result.token /\ perm' = result.perm
  BY DEF RunConfiguration
<1> HIDE DEF result
<1>4. Database' \in Fitting
  <2>1. result \in Bases /\ Fits(result)
    BY <1>2 DEF Fitting
  <2> QED BY <1>3, <2>1, DatabaseFits DEF Bases, Fits
<1> QED BY <1>1, <1>4, SameRequest, ChangedInv

-----------------------------------------------------------------------------
(* The invariant holds always. *)

LEMMA StutterInv ==
  ASSUME AccessInv, UNCHANGED vars
  PROVE  AccessInv'
<1>1. types' = types /\ token' = token /\ perm' = perm /\ req' = req /\ seen' = seen /\ changes' = changes
  BY DEF vars
<1>2. \A t \in Types : Mine(t)' = Mine(t) /\ Held(t)' = Held(t)
  BY <1>1 DEF Mine, Held
<1>3. Granting' = Granting /\ SortLists' = SortLists
  BY <1>1 DEF Granting, SortLists, Mine
<1>4. TypeInv' /\ PhaseOK' /\ SeenOK'
  BY <1>1, <1>2 DEF AccessInv, TypeInv, RequestOK, Database, PhaseOK, Active, SeenOK
<1>5. GrantOK' /\ RowsOK'
  BY <1>1, <1>3 DEF AccessInv, GrantOK, RowsOK, Held
<1>6. SortOK'
  BY <1>1, <1>2, <1>3 DEF AccessInv, SortOK, TermAllowed, Mine
<1> QED BY <1>4, <1>5, <1>6 DEF AccessInv

LEMMA NextInv == AccessInv /\ [Next]_vars => AccessInv'
<1> SUFFICES ASSUME AccessInv, [Next]_vars
             PROVE  AccessInv'
  OBVIOUS
<1>1. ASSUME NEW key \in Keys, NEW action \in Actions, NEW t \in Types, NEW query \in Queries,
             NEW term \in Terms, Begin(key, action, t, query, term)
      PROVE  AccessInv'
  BY <1>1, BeginInv
<1>2. CASE RequestStep
  BY <1>2, FindTypeInv, SortInv, FetchInv, PrefetchInv, ExistsInv, CheckPermissionInv, WriteInv,
     SerializeWrittenInv, CommitInv, RespondInv, ListPermissionsInv, ChangeTypeInv, Zenon DEF RequestStep
<1>3. ASSUME NEW t \in Types, NEW row \in Entered \cup {None}, SavePermission(req.id, t, row)
      PROVE  AccessInv'
  BY <1>3, SavePermissionInv
<1>4. ASSUME NEW i \in Ids \ {Blank}, NEW super \in BOOLEAN, AddToken(i, super)
      PROVE  AccessInv'
  BY <1>4, AddTokenInv
<1>5. ASSUME NEW i \in Ids, DeleteToken(i)
      PROVE  AccessInv'
  BY <1>5, DeleteTokenInv
<1>6. CASE GenerateToken
  BY <1>6, AddTokenInv, TokensAssumption DEF GenerateToken
<1>7. ASSUME NEW config \in Configs, RunConfiguration(config)
      PROVE  AccessInv'
  BY <1>7, RunConfigurationInv
<1>8. CASE UNCHANGED vars
  BY <1>8, StutterInv
<1> QED BY <1>1, <1>2, <1>3, <1>4, <1>5, <1>6, <1>7, <1>8, Zenon DEF Next

LEMMA AlwaysInv == AccessSpec => []AccessInv
BY InitInv, NextInv, PTL DEF AccessSpec

-----------------------------------------------------------------------------
(* Which steps answer the request, and how. *)

LEMMA ChangedAnswers ==
  ASSUME AccessInv, Changed, req' = req \/ (\E g \in BOOLEAN : req' = [req EXCEPT !.gone = g])
  PROVE  req'.status = 0 /\ ~req'.saved
<1>1. DOMAIN req = RequestFields /\ req.status = 0 /\ ~req.saved
  BY ZenonT(40) DEF AccessInv, TypeInv, PhaseOK, RequestOK, Changed
<1> QED BY <1>1 DEF RequestFields

LEMMA ReplyAnswers ==
  ASSUME AccessInv, Active, NEW status, Reply(status)
  PROVE  req'.status = status /\ ~req'.saved
<1>1. DOMAIN req = RequestFields /\ ~req.saved
  BY DEF AccessInv, TypeInv, PhaseOK, RequestOK, Active
<1> QED BY <1>1 DEF RequestFields, Reply

LEMMA Answers ==
  ASSUME AccessInv, Next
  PROVE  /\ req'.status = 200 => Commit \/ ListPermissions \/ Respond
         /\ req'.status = 500 => Sort \/ Exists \/ CheckPermission \/ SerializeWritten \/ Respond
         /\ req'.saved => Commit \/ Respond
<1> DEFINE Fine == req'.status \notin {200, 500} /\ ~req'.saved
<1>1. DOMAIN req = RequestFields
  BY DEF AccessInv, TypeInv, RequestOK
<1>2. Active => req.status = 0 /\ ~req.saved
  BY DEF AccessInv, TypeInv, PhaseOK, RequestOK, Active
<1>3. ASSUME NEW key \in Keys, NEW action \in Actions, NEW t \in Types, NEW query \in Queries,
             NEW term \in Terms, Begin(key, action, t, query, term)
      PROVE  Fine
  <2> DEFINE found == {i \in Ids : token[i] # None /\ token[i].key = key}
             First(i) == CASE action = "create"      -> IF token[i].super THEN "write" ELSE "type"
                           [] action = "permissions" -> "permissions"
                           [] action = "types"       -> "types"
                           [] OTHER                  -> IF term = None THEN "fetch" ELSE "sort"
  <2>1. req' = IF found = {}
               THEN [NoRequest EXCEPT !.pc = "done", !.action = action, !.status = 401]
               ELSE LET i == CHOOSE x \in found : TRUE
                    IN [NoRequest EXCEPT !.pc = First(i), !.action = action, !.id = i,
                          !.super = token[i].super, !.query = query, !.term = term,
                          !.type = IF action \in {"list", "permissions"} THEN None ELSE t]
    BY <1>3, Zenon DEF Begin
  <2> HIDE DEF found, First
  <2> QED BY <2>1 DEF NoRequest
<1>4. CASE FindType
  BY <1>1, <1>2, <1>4, ReplyAnswers DEF FindType, Active, RequestFields
<1>5. CASE Fetch
  <2>1. Active
    BY <1>5 DEF Fetch, Active
  <2>2. CASE Reply(404)
    BY <2>1, <2>2, ReplyAnswers
  <2>3. ASSUME NEW rows, req' = [req EXCEPT !.pc = "prefetch", !.rows = rows]
        PROVE  Fine
    BY <1>1, <1>2, <2>1, <2>3 DEF RequestFields
  <2> QED BY <1>5, <2>2, <2>3, ZenonT(40) DEF Fetch
<1>6. CASE Prefetch
  BY <1>1, <1>2, <1>6 DEF Prefetch, Active, RequestFields
<1>7. CASE Write
  BY <1>1, <1>2, <1>7 DEF Write, Active, RequestFields
<1>8. CASE ChangeType
  BY <1>8, ReplyAnswers DEF ChangeType, Active
<1>9. CASE Sort
  <2>1. Reply(500) \/ Reply(400) \/ req' = [req EXCEPT !.pc = "fetch"]
          \/ req' = [req EXCEPT !.pc = "fetch", !.term = None]
    BY <1>9 DEF Sort
  <2>2. ~req'.saved /\ req'.status # 200
    <3>1. Active
      BY <1>9 DEF Sort, Active
    <3>2. CASE Reply(500) \/ Reply(400)
      BY <3>1, <3>2, ReplyAnswers
    <3>3. CASE req' = [req EXCEPT !.pc = "fetch"]
      BY <1>1, <1>2, <3>1, <3>3 DEF RequestFields
    <3>4. CASE req' = [req EXCEPT !.pc = "fetch", !.term = None]
      BY <1>1, <1>2, <3>1, <3>4 DEF RequestFields
    <3> QED BY <2>1, <3>2, <3>3, <3>4
  <2> QED BY <1>9, <2>2
<1>10. CASE Exists
  <2>1. ~req'.saved /\ req'.status # 200
    BY <1>1, <1>2, <1>10, ReplyAnswers DEF Exists, Active, RequestFields
  <2> QED BY <1>10, <2>1
<1>11. CASE CheckPermission
  <2>1. Reply(500) \/ Reply(403) \/ req' = [req EXCEPT !.pc = AfterGet]
    BY <1>11, Zenon DEF CheckPermission
  <2>2. ~req'.saved /\ req'.status # 200
    BY <1>1, <1>2, <1>11, <2>1, ReplyAnswers DEF CheckPermission, Active, RequestFields
  <2> QED BY <1>11, <2>2
<1>12. CASE SerializeWritten
  <2>1. ~req'.saved /\ req'.status # 200
    <3>1. \/ Reply(500)
          \/ WrittenAnswer.status # 200 /\ Reply(WrittenAnswer.status)
          \/ \E shown : req' = [req EXCEPT !.shown = shown, !.round = 3, !.pc = AfterSerialize]
      BY <1>12, SerializeCases, Zenon
    <3>2. Active
      BY <1>12 DEF SerializeWritten, Active
    <3>3. CASE Reply(500)
      BY <3>2, <3>3, ReplyAnswers
    <3>4. CASE WrittenAnswer.status # 200 /\ Reply(WrittenAnswer.status)
      BY <3>2, <3>4, ReplyAnswers
    <3>5. ASSUME NEW shown, req' = [req EXCEPT !.shown = shown, !.round = 3, !.pc = AfterSerialize]
          PROVE  ~req'.saved /\ req'.status # 200
      BY <1>1, <1>2, <3>2, <3>5 DEF RequestFields
    <3> QED BY <3>1, <3>3, <3>4, <3>5, Zenon
  <2> QED BY <1>12, <2>1
<1>13. CASE Commit
  <2>1. req'.status = 200
    BY <1>1, <1>13 DEF Commit, RequestFields
  <2> QED BY <1>13, <2>1
<1>14. CASE ListPermissions
  <2>1. req'.status = 200 /\ ~req'.saved
    BY <1>1, <1>2, <1>14 DEF ListPermissions, RequestFields, Active
  <2> QED BY <1>14, <2>1
<1>15. ASSUME NEW t \in Types, NEW row \in Entered \cup {None}, SavePermission(req.id, t, row)
       PROVE  Fine
  BY <1>15, ChangedAnswers DEF SavePermission
<1>16. ASSUME NEW i \in Ids, NEW super \in BOOLEAN, AddToken(i, super)
       PROVE  Fine
  BY <1>16, ChangedAnswers DEF AddToken
<1>17. ASSUME NEW i \in Ids, DeleteToken(i)
       PROVE  Fine
  <2>1. Active /\ req' = [req EXCEPT !.gone = @ \/ req.id = i]
    BY <1>17 DEF DeleteToken, Changed, Active
  <2>3. req'.status = req.status /\ req'.saved = req.saved
    BY <1>1, <2>1 DEF RequestFields
  <2> QED BY <1>2, <2>1, <2>3
<1>18. ASSUME NEW config \in Configs, RunConfiguration(config)
       PROVE  Fine
  <2>1. req' = req /\ req.pc \notin {"idle", "done"}
    BY <1>18, Zenon DEF RunConfiguration, Changed
  <2>2. req.status = 0 /\ ~req.saved
    BY <1>2, <2>1 DEF Active
  <2>3. req'.status = 0 /\ ~req'.saved
    BY <2>1, <2>2, Zenon
  <2> QED BY <2>3
<1>19. CASE GenerateToken
  <2>1. Blank \in Ids /\ FALSE \in BOOLEAN
    BY TokensAssumption
  <2>2. AddToken(Blank, FALSE)
    BY <1>19 DEF GenerateToken
  <2>3. Fine
    <3> HIDE DEF Fine
    <3> QED BY <2>1, <2>2, <1>16, Zenon
  <2> QED BY <2>3
<1>20. CASE RequestStep
  BY <1>4, <1>5, <1>6, <1>7, <1>8, <1>9, <1>10, <1>11, <1>12, <1>13, <1>14, <1>20, Zenon DEF RequestStep
<1> QED BY <1>3, <1>15, <1>16, <1>17, <1>18, <1>19, <1>20 DEF Next

-----------------------------------------------------------------------------
(* What is shown. *)

\* The list of fields that a permission gives for a version.
LEMMA AllowedCases ==
  ASSUME NEW row \in Rows, NEW version
  PROVE  LET allowed == AllowedFields(row, version, None) IN
         \/ allowed = AllFields
         \/ row.use /\ row.mode = "read_only" /\ row.fields = None /\ allowed = None
         \/ /\ row.use /\ row.mode = "read_only" /\ row.fields \in FieldRules \ {None}
            /\ version \in DOMAIN row.fields /\ allowed = row.fields[version]
         \/ /\ row.use /\ row.mode = "read_only" /\ row.fields \in FieldRules \ {None}
            /\ version \notin DOMAIN row.fields /\ allowed = <<>>
<1>1. row.fields \in FieldRules /\ row.use \in BOOLEAN
  BY DEF Rows, Row
<1>2. CASE ~(row.mode = "read_only" /\ row.use)
  BY <1>2 DEF AllowedFields
<1>3. CASE row.mode = "read_only" /\ row.use /\ row.fields = None
  BY <1>3 DEF AllowedFields
<1>4. CASE row.mode = "read_only" /\ row.use /\ row.fields # None
  BY <1>1, <1>4 DEF AllowedFields
<1> QED BY <1>1, <1>2, <1>3, <1>4

\* Such a list is null only when the fields are.
LEMMA AllowedIsList ==
  ASSUME NEW row \in Rows, NEW version
  PROVE  LET allowed == AllowedFields(row, version, None) IN
         /\ allowed = None => row.use /\ row.fields = None
         /\ allowed # None /\ allowed # AllFields =>
              \A f \in ToSet(allowed) : Parents(f) \subseteq Objects
         /\ allowed # None /\ allowed # AllFields /\ Clash(allowed) =>
              row.use /\ row.fields # None /\ \E v \in DOMAIN row.fields : Clash(row.fields[v])
<1> DEFINE allowed == AllowedFields(row, version, None)
<1> HIDE DEF allowed
<1>1. CASE allowed = AllFields
  BY <1>1, NoneAssumption DEF allowed
<1>2. CASE row.use /\ row.mode = "read_only" /\ row.fields = None /\ allowed = None
  BY <1>2 DEF allowed
<1>3. CASE /\ row.use /\ row.mode = "read_only" /\ row.fields \in FieldRules \ {None}
           /\ version \in DOMAIN row.fields /\ allowed = row.fields[version]
  <2>1. allowed # None /\ \A f \in ToSet(allowed) : Parents(f) \subseteq Objects
    BY <1>3, NoneAssumption, FieldsAssumption
  <2> QED BY <1>3, <2>1 DEF allowed
<1>4. CASE /\ row.use /\ row.mode = "read_only" /\ row.fields \in FieldRules \ {None}
           /\ version \notin DOMAIN row.fields /\ allowed = <<>>
  <2>1. allowed # None /\ ToSet(allowed) = {} /\ ~Clash(allowed)
    BY <1>4, NoneAssumption DEF ToSet, Clash
  <2> QED BY <2>1 DEF allowed
<1> QED BY <1>1, <1>2, <1>3, <1>4, AllowedCases DEF allowed

\* The three ways in which Respond answers.
Shown(t, order) == Represent(Stored[t].body, Allowed(t), order)
Answerable(t)   == ~NoPermission(t) /\ Allowed(t) # None

LEMMA RespondCases ==
  ASSUME AccessInv, Respond
  PROVE  /\ UNCHANGED <<types, token, perm, seen, changes>>
         /\ \A f \in RequestFields \ {"pc", "status", "shown", "withheld", "saved"} : req'[f] = req[f]
         /\ \/ req'.status = 500 /\ ~req'.saved /\ \E t \in req.rows : ~Answerable(t)
            \/ \E order \in QueryOrders(req.query), t \in req.rows :
                 /\ Answerable(t) /\ Shown(t, order).status # 200
                 /\ req'.status = Shown(t, order).status /\ ~req'.saved
            \/ \E order \in QueryOrders(req.query) :
                 /\ \A t \in req.rows : Answerable(t) /\ Shown(t, order).status = 200
                 /\ req'.status = 200 /\ (req'.saved <=> req.action = "destroy")
                 /\ req'.shown = [t \in req.rows |-> Shown(t, order).shown]
<1>1. /\ UNCHANGED <<types, token, perm, seen, changes>>
      /\ DOMAIN req = RequestFields /\ Active
  BY DEF AccessInv, TypeInv, RequestOK, Respond, Read, db, Active
<1>2. PICK order \in QueryOrders(req.query) :
        IF \E t \in req.rows : NoPermission(t) \/ Allowed(t) = None
        THEN Reply(500)
        ELSE LET made   == [t \in req.rows |-> Represent(Stored[t].body, Allowed(t), order)]
                 failed == {t \in req.rows : made[t].status # 200}
             IN  IF failed # {} THEN \E t \in failed : Reply(made[t].status)
                 ELSE req' = [req EXCEPT !.pc = "done", !.status = 200,
                                !.shown = [t \in req.rows |-> made[t].shown],
                                !.withheld = [t \in req.rows |-> made[t].withheld],
                                !.saved = (req.action = "destroy")]
  BY Zenon DEF Respond
<1> DEFINE made     == [t \in req.rows |-> Represent(Stored[t].body, Allowed(t), order)]
           failed   == {t \in req.rows : made[t].status # 200}
           withheld == [t \in req.rows |-> made[t].withheld]
<1>3. \A t \in req.rows : made[t] = Shown(t, order)
  BY DEF Shown
<1>4. CASE \E t \in req.rows : NoPermission(t) \/ Allowed(t) = None
  <2>1. Reply(500)
    BY <1>2, <1>4, Zenon
  <2>2. req'.status = 500 /\ ~req'.saved
    BY <1>1, <2>1, ReplyAnswers
  <2>3. \E t \in req.rows : ~Answerable(t)
    BY <1>4 DEF Answerable
  <2>4. \A f \in RequestFields \ {"pc", "status"} : req'[f] = req[f]
    BY <1>1, <2>1 DEF Reply, RequestFields
  <2> QED BY <1>1, <2>2, <2>3, <2>4
<1>5. CASE ~(\E t \in req.rows : NoPermission(t) \/ Allowed(t) = None) /\ failed # {}
  <2> HIDE DEF made
  <2>1. PICK t \in failed : Reply(made[t].status)
    BY <1>2, <1>5, Zenon DEF made
  <2>2. /\ Answerable(t) /\ t \in req.rows /\ Shown(t, order).status # 200
        /\ made[t].status = Shown(t, order).status
    BY <1>3, <1>5, <2>1 DEF Answerable
  <2>3. req'.status = Shown(t, order).status /\ ~req'.saved
    BY <1>1, <2>1, <2>2, ReplyAnswers
  <2>4. \A f \in RequestFields \ {"pc", "status"} : req'[f] = req[f]
    BY <1>1, <2>1 DEF Reply, RequestFields
  <2> QED BY <1>1, <2>2, <2>3, <2>4
<1>6. CASE ~(\E t \in req.rows : NoPermission(t) \/ Allowed(t) = None) /\ failed = {}
  <2> DEFINE saved == req.action = "destroy"
             shown == [t \in req.rows |-> Shown(t, order).shown]
  <2>1. req' = [req EXCEPT !.pc = "done", !.status = 200,
                  !.shown = [t \in req.rows |-> made[t].shown],
                  !.withheld = withheld, !.saved = saved]
    BY <1>2, <1>6, Zenon
  <2>2. [t \in req.rows |-> made[t].shown] = shown
    BY <1>3, Zenon
  <2> HIDE DEF made, withheld, saved, shown
  <2>3. \A t \in req.rows : Answerable(t) /\ Shown(t, order).status = 200
    BY <1>3, <1>6 DEF Answerable
  <2> HIDE DEF failed
  <2>4. /\ req'.status = 200 /\ req'.saved = saved /\ req'.shown = shown
        /\ \A f \in RequestFields \ {"pc", "status", "shown", "withheld", "saved"} : req'[f] = req[f]
    BY <1>1, <2>1, <2>2 DEF RequestFields
  <2>5. req'.saved <=> req.action = "destroy"
    BY <2>4 DEF saved
  <2> QED BY <1>1, <2>3, <2>4, <2>5 DEF shown
<1> QED BY <1>4, <1>5, <1>6, Zenon

\* The permission that limits what is shown of an object was seen, when there is one.
LEMMA RowForSeen ==
  ASSUME AccessInv, Active, req.pc = "respond", NEW t \in req.rows
  PROVE  t \in Types /\ t \in DOMAIN Stored /\ RowFor(t) \in seen[t] /\ seen[t] \subseteq Rows \cup {None}
<1>1. t \in DOMAIN Stored /\ t \in Types
  BY TokensAssumption DEF AccessInv, RowsOK
<1>2. Mine(t) \in seen[t] /\ seen[t] \subseteq Rows \cup {None}
  BY <1>1 DEF AccessInv, SeenOK
<1>3. req.action # "create"
  BY DEF AccessInv, PhaseOK, Reading, History
<1>4. req.pre[t] \in seen[t]
  BY <1>3 DEF AccessInv, RowsOK
<1> QED BY <1>1, <1>2, <1>4 DEF RowFor

\* What is shown under a permission is shown by it.
LEMMA PermissionShows ==
  ASSUME NEW t, NEW row \in Rows, NEW query \in Queries, NEW order \in QueryOrders(query),
         NEW allowed, allowed = AllowedFields(row, Stored[t].version, None), allowed # None,
         Represent(Stored[t].body, allowed, order).status = 200
  PROVE  Shows(row, t, Represent(Stored[t].body, allowed, order).shown)
<1> DEFINE shown == Represent(Stored[t].body, allowed, order).shown
<1>1. row # None
  BY NoneAssumption
<1>2. CASE allowed = AllFields
  BY <1>1, <1>2 DEF Shows
<1>3. CASE allowed # AllFields
  <2>1. \A g \in ToSet(allowed) : Parents(g) \subseteq Objects
    BY <1>3, AllowedIsList
  <2>2. \A g \in ToSet(order) : Parents(g) \subseteq Objects
    BY OrderOfSet, FieldsAssumption
  <2>3. \A f \in FieldNames(shown) : \E g \in ToSet(allowed) : IsPrefix(g, f)
    BY <1>3, <2>1, <2>2, RepresentShown
  <2> HIDE DEF shown
  <2>4. Shows(row, t, shown)
    BY <1>1, <2>3 DEF Shows
  <2> QED BY <2>4 DEF shown
<1> QED BY <1>2, <1>3

LEMMA RespondSucceeds ==
  ASSUME AccessInv, Respond, req'.status = 200
  PROVE  \E order \in QueryOrders(req.query) :
           \A t \in req.rows : /\ Answerable(t) /\ Shown(t, order).status = 200
                              /\ req'.shown[t] = Shown(t, order).shown
<1>1. req'.status # 500
  OBVIOUS
<1>2. ASSUME NEW order \in QueryOrders(req.query), NEW t \in req.rows,
             Shown(t, order).status # 200, req'.status = Shown(t, order).status
      PROVE  FALSE
  BY <1>2
<1>3. \/ \E order \in QueryOrders(req.query), t \in req.rows :
           Shown(t, order).status # 200 /\ req'.status = Shown(t, order).status
      \/ \E order \in QueryOrders(req.query) :
           /\ \A t \in req.rows : Answerable(t) /\ Shown(t, order).status = 200
           /\ req'.shown = [t \in req.rows |-> Shown(t, order).shown]
  BY <1>1, RespondCases
<1>4. PICK order \in QueryOrders(req.query) :
        /\ \A t \in req.rows : Answerable(t) /\ Shown(t, order).status = 200
        /\ req'.shown = [t \in req.rows |-> Shown(t, order).shown]
  BY <1>2, <1>3
<1> QED BY <1>4

LEMMA RespondShows ==
  ASSUME AccessInv, Respond, req'.status = 200, req.action \in Reading, ~req.super, NEW t \in req.rows
  PROVE  t \in Types /\ \E row \in seen[t] : Shows(row, t, req'.shown[t])
<1>1. Active /\ req.pc = "respond"
  BY DEF Respond, Active
<1>2. t \in Types /\ RowFor(t) \in seen[t] /\ seen[t] \subseteq Rows \cup {None}
  BY <1>1, RowForSeen
<1>3. PICK order \in QueryOrders(req.query) :
        Answerable(t) /\ Shown(t, order).status = 200 /\ req'.shown[t] = Shown(t, order).shown
  BY RespondSucceeds
<1>4. req.query \in Queries
  BY DEF AccessInv, TypeInv, RequestOK
<1>5. CASE req.action \in History
  <2>1. Granting /\ t = req.type
    BY <1>1, <1>5 DEF AccessInv, GrantOK, RowsOK, History
  <2>2. PICK row \in seen[t] : row # None /\ Grants(row, req.action)
    BY <2>1 DEF Granting
  <2>3. AllowedFields(row, Stored[t].version, None) = AllFields
    BY <1>5, <2>2 DEF Grants, AllowedFields
  <2>4. Shows(row, t, req'.shown[t])
    BY <2>2, <2>3 DEF Shows
  <2> QED BY <1>2, <2>4
<1>6. CASE req.action \notin History
  <2> DEFINE allowed == AllowedFields(RowFor(t), Stored[t].version, None)
  <2>1. RowFor(t) # None /\ Allowed(t) = allowed /\ allowed # None
    BY <1>3, <1>6 DEF Answerable, NoPermission, Allowed
  <2>2. RowFor(t) \in Rows
    BY <1>2, <2>1
  <2>3. Represent(Stored[t].body, allowed, order).status = 200
        /\ req'.shown[t] = Represent(Stored[t].body, allowed, order).shown
    BY <1>3, <2>1, Zenon DEF Shown
  <2> HIDE DEF allowed
  <2>4. Shows(RowFor(t), t, Represent(Stored[t].body, allowed, order).shown)
    BY <1>4, <2>1, <2>2, <2>3, PermissionShows DEF allowed
  <2> QED BY <1>2, <2>3, <2>4
<1> QED BY <1>5, <1>6

\* What an answer shows of an object, in a list as alone, one permission allowed that the
\* token had for its type since the request came: whatever the admin or a run of the setup
\* configuration changes between the statements of the request (to_representation of
\* DynamicFieldsMixin, has_object_permission, the prefetch of token_permissions).
THEOREM AccessShownWasGranted == AccessSpec => []ShownWasGranted
<1>1. Init => ShownWasGranted
  BY DEF Init, NoRequest, ShownWasGranted, Answered
<1>2. ASSUME AccessInv, ShownWasGranted, [Next]_vars
      PROVE  ShownWasGranted'
  <2>1. CASE UNCHANGED vars
    BY <1>2, <2>1 DEF vars, ShownWasGranted, Answered
  <2>2. CASE Next
    <3>1. SUFFICES ASSUME (Answered /\ req.action \in Reading /\ ~req.super)', NEW t \in req'.rows
                   PROVE  \E row \in seen'[t] : Shows(row, t, req'.shown[t])
      BY DEF ShownWasGranted
    <3>2. CASE Commit
      <4>1. req'.action = req.action /\ req.action \in {"create", "update"}
        BY <1>2, <3>2 DEF Commit, AccessInv, TypeInv, RequestOK, RequestFields, PhaseOK
      <4> QED BY <3>1, <4>1 DEF Reading, History
    <3>3. CASE ListPermissions
      <4>1. req'.action = req.action /\ req.action = "permissions"
        BY <1>2, <3>3 DEF ListPermissions, AccessInv, TypeInv, RequestOK, RequestFields, PhaseOK
      <4> QED BY <3>1, <4>1 DEF Reading, History
    <3>4. CASE Respond
      <4>1. /\ seen' = seen /\ req'.rows = req.rows /\ req'.action = req.action
            /\ req'.super = req.super
        BY <1>2, <3>4, RespondCases DEF RequestFields
      <4>2. req'.status = 200
        BY <3>1 DEF Answered
      <4>3. \E row \in seen[t] : Shows(row, t, req'.shown[t])
        BY <1>2, <3>1, <3>4, <4>1, <4>2, RespondShows
      <4> QED BY <4>1, <4>3
    <3>5. req'.status = 200
      BY <3>1 DEF Answered
    <3> QED BY <1>2, <2>2, <3>2, <3>3, <3>4, <3>5, Answers
  <2> QED BY <1>2, <2>1, <2>2
<1> QED BY <1>1, <1>2, AlwaysInv, PTL DEF AccessSpec

\* The types, tokens and permissions there are fit each other: a permission is one of a
\* token and a type that are there (the foreign keys of Permission, deleted in cascade).
THEOREM AccessTypeOK == AccessSpec => []TypeOK
<1>1. ASSUME AccessInv
      PROVE  TypeOK
  <2>1. types \in SUBSET Types /\ token \in [Ids -> TokenRows \cup {None}]
        /\ perm \in [Ids \X Types -> Rows \cup {None}]
        /\ \A p \in Ids \X Types : perm[p] # None => token[p[1]] # None /\ p[2] \in types
    BY <1>1 DEF AccessInv, TypeInv, Fitting, Bases, Fits, Database
  <2>2. req.status \in {0, 200, 204, 400, 401, 403, 404, 500} /\ changes \in 0..MaxChanges
    BY <1>1 DEF AccessInv, TypeInv, RequestOK
  <2> QED BY <2>1, <2>2 DEF TypeOK, TokenRows
<1> QED BY <1>1, AlwaysInv, PTL

-----------------------------------------------------------------------------
(* What is saved. *)

\* A record is saved and an object deleted only under a permission to write for its type,
\* which the token had since the request came: whatever changes between the check
\* (has_permission, has_object_permission) and the end of the transaction.
THEOREM AccessWriteWasGranted == AccessSpec => []WriteWasGranted
<1> DEFINE Writer == \E row \in seen[req.type] \ {None} : row.mode = "read_and_write"
<1>1. Init => WriteWasGranted
  BY DEF Init, NoRequest, WriteWasGranted
<1>2. ASSUME AccessInv, WriteWasGranted, [Next]_vars
      PROVE  WriteWasGranted'
  <2>1. CASE UNCHANGED vars
    BY <1>2, <2>1 DEF vars, WriteWasGranted
  <2>2. ASSUME Granting, req.action \in {"create", "update", "destroy"}
        PROVE  Writer
    BY <2>2 DEF Granting, Grants, Reading, History
  <2>3. CASE Commit
    <3>1. seen' = seen /\ req'.type = req.type /\ req'.super = req.super
          /\ req.pc = "commit" /\ req.action \in {"create", "update"}
      BY <1>2, <2>3 DEF Commit, Read, AccessInv, TypeInv, RequestOK, RequestFields, PhaseOK
    <3>2. ~req.super => Granting
      BY <1>2, <3>1 DEF AccessInv, GrantOK
    <3> QED BY <2>2, <3>1, <3>2 DEF WriteWasGranted
  <2>4. CASE Respond
    <3>1. seen' = seen /\ req'.type = req.type /\ req'.super = req.super
          /\ req.pc = "respond" /\ (req'.saved => req.action = "destroy")
      BY <1>2, <2>4, RespondCases, ZenonT(40) DEF RequestFields, Respond
    <3>2. ~req.super /\ req'.saved => Granting
      BY <1>2, <3>1 DEF AccessInv, GrantOK
    <3> QED BY <2>2, <3>1, <3>2 DEF WriteWasGranted
  <2>5. CASE Next /\ ~Commit /\ ~Respond
    BY <1>2, <2>5, Answers DEF WriteWasGranted
  <2> QED BY <1>2, <2>1, <2>3, <2>4, <2>5
<1> QED BY <1>1, <1>2, AlwaysInv, PTL DEF AccessSpec

-----------------------------------------------------------------------------
(* When the answer is an error. *)

Excused ==
  \/ \E t \in Types : Cardinality(seen[t]) > 1
  \/ \E t \in Types : \E row \in seen[t] \ {None} :
       row.use /\ (row.fields = None \/ \E v \in DOMAIN row.fields : Clash(row.fields[v]))
  \/ \E f, g \in req.query : IsStrictPrefix(f, g)

\* A permission that was there is gone.
LEMMA PermissionGone ==
  ASSUME AccessInv, NEW t \in Types, Held(t), None \in seen[t]
  PROVE  Excused
<1>1. PICK row \in seen[t] : row # None
  BY DEF Held
<1>2. IsFiniteSet(seen[t]) /\ {row, None} \subseteq seen[t]
  BY <1>1 DEF AccessInv, SeenOK
<1>3. Cardinality({row, None}) = 2
  <2>1. IsFiniteSet({row}) /\ Cardinality({row}) = 1
    BY FS_Singleton
  <2>2. Cardinality({row} \cup {None}) = Cardinality({row}) + 1
    BY <1>1, <2>1, FS_AddElement
  <2>3. {row} \cup {None} = {row, None}
    OBVIOUS
  <2> QED BY <2>1, <2>2, <2>3
<1>4. Cardinality({row, None}) <= Cardinality(seen[t])
  BY <1>2, FS_Subset
<1>5. Cardinality(seen[t]) \in Nat
  BY <1>2, FS_CardinalityType
<1> QED BY <1>3, <1>4, <1>5 DEF Excused

\* The fields of a permission are null or cannot be built.
LEMMA FieldsUnfit ==
  ASSUME NEW t \in Types, NEW row \in seen[t] \cap Rows, NEW version,
         LET allowed == AllowedFields(row, version, None)
         IN  allowed = None \/ (allowed # AllFields /\ Clash(allowed))
  PROVE  Excused
<1>1. row \in Rows /\ row # None
  BY NoneAssumption
<1>2. row.use /\ (row.fields = None \/ \E v \in DOMAIN row.fields : Clash(row.fields[v]))
  BY <1>1, AllowedIsList
<1> QED BY <1>1, <1>2 DEF Excused

LEMMA RespondExcused ==
  ASSUME AccessInv, Respond, req'.status = 500
  PROVE  Excused
<1>1. Active /\ req.pc = "respond"
  BY DEF Respond, Active
<1>2. ASSUME NEW t \in req.rows
      PROVE  /\ t \in Types /\ RowFor(t) \in seen[t] /\ seen[t] \subseteq Rows \cup {None}
             /\ ~req.super /\ req.action \notin History => Held(t)
  <2>1. t \in Types /\ RowFor(t) \in seen[t] /\ seen[t] \subseteq Rows \cup {None}
    BY <1>1, <1>2, RowForSeen
  <2>2. ASSUME ~req.super
        PROVE  Held(t)
    <3>1. CASE req.action = "list"
      BY <1>2, <2>2, <3>1 DEF AccessInv, RowsOK
    <3>2. CASE req.action # "list"
      <4>1. Granting /\ t = req.type
        BY <1>1, <1>2, <2>2, <3>2 DEF AccessInv, GrantOK, RowsOK
      <4> QED BY <4>1 DEF Granting, Held
    <3> QED BY <3>1, <3>2
  <2> QED BY <2>1, <2>2
<1>3. ASSUME NEW t \in req.rows, Allowed(t) = None \/ (Allowed(t) # AllFields /\ Clash(Allowed(t)))
      PROVE  Excused
  <2>1. /\ ~req.super /\ req.action \notin History
        /\ Allowed(t) = AllowedFields(RowFor(t), Stored[t].version, None)
    BY <1>3, NoneAssumption DEF Allowed
  <2>2. CASE RowFor(t) = None
    BY <1>2, <2>1, <2>2, PermissionGone
  <2>3. CASE RowFor(t) # None
    <3>1. RowFor(t) \in seen[t] \cap Rows /\ t \in Types
      BY <1>2, <2>3
    <3> QED BY <1>3, <2>1, <3>1, FieldsUnfit
  <2> QED BY <2>2, <2>3
<1>4. CASE \E t \in req.rows : ~Answerable(t)
  <2>1. PICK t \in req.rows : NoPermission(t) \/ Allowed(t) = None
    BY <1>4 DEF Answerable
  <2>2. CASE NoPermission(t)
    BY <1>2, <2>2, PermissionGone DEF NoPermission
  <2> QED BY <1>3, <2>1, <2>2
<1>5. ASSUME NEW order \in QueryOrders(req.query), NEW t \in req.rows, Shown(t, order).status = 500
      PROVE  Excused
  <2>1. Clash(order) \/ (Allowed(t) # AllFields /\ Clash(Allowed(t)))
    BY <1>5, RepresentStatus DEF Shown
  <2>2. CASE Clash(order)
    <3>1. PICK i, j \in DOMAIN order : IsStrictPrefix(order[i], order[j])
      BY <2>2 DEF Clash
    <3>2. order[i] \in req.query /\ order[j] \in req.query
      BY <3>1, OrderOfSet
    <3> QED BY <3>1, <3>2 DEF Excused
  <2> QED BY <1>3, <2>1, <2>2
<1> QED BY <1>4, <1>5, RespondCases

\* What the statements of a request that is not answered yet have seen.
LEMMA MineSeen ==
  ASSUME AccessInv, Active, req.type \in Types
  PROVE  Mine(req.type) \in seen[req.type] /\ seen[req.type] \subseteq Rows \cup {None}
BY DEF AccessInv, SeenOK

LEMMA ErrorExcused ==
  ASSUME AccessInv, Sort \/ Exists \/ CheckPermission \/ SerializeWritten \/ Respond,
         req'.status = 500
  PROVE  Excused
<1>1. Active /\ req.status = 0 /\ DOMAIN req = RequestFields
  BY ZenonT(40) DEF Sort, Exists, CheckPermission, SerializeWritten, Respond, Active, AccessInv, TypeInv, RequestOK, PhaseOK
<1>2. CASE Sort
  <2>1. \E t \in Types : Mine(t) # None /\ Mine(t).use /\ Mine(t).fields = None
    <3>1. ASSUME req' = [req EXCEPT !.pc = "fetch"] \/ req' = [req EXCEPT !.pc = "fetch", !.term = None]
          PROVE  FALSE
      <4>1. CASE req' = [req EXCEPT !.pc = "fetch"]
        BY <1>1, <4>1 DEF RequestFields
      <4>2. CASE req' = [req EXCEPT !.pc = "fetch", !.term = None]
        BY <1>1, <4>2 DEF RequestFields
      <4> QED BY <3>1, <4>1, <4>2
    <3>2. ~Reply(400)
      BY <1>1, ReplyAnswers
    <3> QED BY <1>2, <3>1, <3>2, Zenon DEF Sort
  <2>2. PICK t \in Types : Mine(t) # None /\ Mine(t).use /\ Mine(t).fields = None
    BY <2>1
  <2>3. Mine(t) \in seen[t]
    BY <1>1 DEF AccessInv, SeenOK
  <2> QED BY <2>2, <2>3 DEF Excused
<1>3. CASE Exists
  <2>1. req.round = 2 /\ Mine(req.type) = None /\ req.pc = "exists"
    <3>1. ~Reply(403)
      BY <1>1, ReplyAnswers
    <3>2. req' # [req EXCEPT !.pc = "get"]
      BY <1>1 DEF RequestFields
    <3> QED BY <1>3, <3>1, <3>2, Zenon DEF Exists
  <2>2. Granting /\ req.type \in Types
    BY <1>1, <2>1 DEF AccessInv, GrantOK, PhaseOK
  <2>3. Held(req.type) /\ None \in seen[req.type]
    BY <1>1, <2>1, <2>2, MineSeen DEF Granting, Held
  <2> QED BY <2>2, <2>3, PermissionGone
<1>4. CASE CheckPermission
  <2>1. Mine(req.type) = None /\ req.pc = "get"
    <3> DEFINE row == Mine(req.type)
    <3>1. ~Reply(403)
      BY <1>1, ReplyAnswers
    <3>2. \A pc : req' # [req EXCEPT !.pc = pc]
      BY <1>1 DEF RequestFields
    <3>3. (CASE row = None -> Reply(500)
             [] row # None /\ Grants(row, req.action) -> req' = [req EXCEPT !.pc = AfterGet]
             [] OTHER -> Reply(403))
      BY <1>4, Zenon DEF CheckPermission
    <3> HIDE DEF row
    <3>4. row = None
      BY <3>1, <3>2, <3>3
    <3> QED BY <1>4, <3>4 DEF row, CheckPermission
  <2>2. Held(req.type) /\ req.type \in Types
    BY <1>1, <2>1 DEF AccessInv, GrantOK, PhaseOK
  <2>3. None \in seen[req.type]
    BY <1>1, <2>1, <2>2, MineSeen
  <2> QED BY <2>2, <2>3, PermissionGone
<1>5. CASE SerializeWritten
  <2>1. Granting /\ req.type \in Types /\ req.round = 2
    BY <1>1, <1>5 DEF SerializeWritten, AccessInv, GrantOK, PhaseOK
  <2>2. Mine(req.type) \in seen[req.type] /\ seen[req.type] \subseteq Rows \cup {None}
    BY <1>1, <2>1, MineSeen
  <2>3. CASE Mine(req.type) = None
    BY <2>1, <2>2, <2>3, PermissionGone DEF Granting, Held
  <2>4. ASSUME Mine(req.type) # None,
               WrittenAllowed = None \/ (WrittenAllowed # AllFields /\ Clash(WrittenAllowed))
        PROVE  Excused
    <3>1. Mine(req.type) \in seen[req.type] \cap Rows
      BY <2>2, <2>4
    <3> QED BY <2>1, <2>4, <3>1, FieldsUnfit DEF WrittenAllowed
  <2>5. ASSUME WrittenAnswer.status # 200, Reply(WrittenAnswer.status)
        PROVE  WrittenAllowed # AllFields /\ Clash(WrittenAllowed)
    <3>1. WrittenAnswer.status = 500
      BY <1>1, <2>5, ReplyAnswers
    <3>2. ~Clash(<<>>)
      BY DEF Clash
    <3> QED BY <3>1, <3>2, RepresentStatus DEF WrittenAnswer
  <2>6. ASSUME NEW shown, req' = [req EXCEPT !.shown = shown, !.round = 3, !.pc = AfterSerialize]
        PROVE  FALSE
    BY <1>1, <2>6 DEF RequestFields
  <2> QED BY <1>5, <2>3, <2>4, <2>5, <2>6, SerializeCases, Zenon
<1> QED BY <1>2, <1>3, <1>4, <1>5, RespondExcused

LEMMA ErrorKeepsQuery ==
  ASSUME AccessInv, Sort \/ Exists \/ CheckPermission \/ SerializeWritten \/ Respond
  PROVE  req'.query = req.query
<1>1. DOMAIN req = RequestFields
  BY DEF AccessInv, TypeInv, RequestOK
<1>2. ASSUME NEW status, Reply(status)
      PROVE  req'.query = req.query
  BY <1>1, <1>2 DEF Reply, RequestFields
<1>3. CASE Sort
  <2>1. ASSUME NEW pc, NEW term, req' = [req EXCEPT !.pc = pc] \/ req' = [req EXCEPT !.pc = pc, !.term = term]
        PROVE  req'.query = req.query
    BY <1>1, <2>1 DEF RequestFields
  <2> QED BY <1>2, <1>3, <2>1, ZenonT(40) DEF Sort
<1>4. CASE Exists
  BY <1>1, <1>2, <1>4 DEF Exists, RequestFields
<1>5. CASE CheckPermission
  <2>1. Reply(500) \/ Reply(403) \/ req' = [req EXCEPT !.pc = AfterGet]
    BY <1>5, Zenon DEF CheckPermission
  <2> QED BY <1>1, <1>2, <2>1 DEF RequestFields
<1>6. CASE SerializeWritten
  <2>1. ASSUME NEW shown, req' = [req EXCEPT !.shown = shown, !.round = 3, !.pc = AfterSerialize]
        PROVE  req'.query = req.query
    BY <1>1, <2>1 DEF RequestFields
  <2> QED BY <1>2, <1>6, <2>1, SerializeCases, Zenon
<1>7. CASE Respond
  BY <1>7, RespondCases DEF RequestFields
<1> QED BY <1>3, <1>4, <1>5, <1>6, <1>7

\* A request is answered with an error of the server only when a permission that it had
\* read is gone or changed at its next statement, when the fields of one are null, or when
\* a list of fields cannot be made into a specification (get_permission_for_object_type,
\* get_allowed_fields, build_spec).
THEOREM AccessErrorNeedsChange == AccessSpec => []ErrorNeedsChange
<1>1. Init => ErrorNeedsChange
  BY DEF Init, NoRequest, ErrorNeedsChange
<1>2. ASSUME AccessInv, ErrorNeedsChange, [Next]_vars
      PROVE  ErrorNeedsChange'
  <2>1. CASE UNCHANGED vars
    BY <1>2, <2>1 DEF vars, ErrorNeedsChange
  <2>2. CASE Next
    <3>1. SUFFICES ASSUME req'.status = 500
                   PROVE  Excused'
      BY DEF ErrorNeedsChange, Excused
    <3>2. Sort \/ Exists \/ CheckPermission \/ SerializeWritten \/ Respond
      BY <1>2, <2>2, <3>1, Answers
    <3>3. Excused
      BY <1>2, <3>1, <3>2, ErrorExcused
    <3>4. seen' = seen
      BY <3>2 DEF Sort, Exists, CheckPermission, SerializeWritten, Respond, Read
    <3>5. req'.query = req.query
      BY <1>2, <3>1, <3>2, ErrorKeepsQuery
    <3> QED BY <3>3, <3>4, <3>5 DEF Excused
  <2> QED BY <1>2, <2>1, <2>2
<1> QED BY <1>1, <1>2, AlwaysInv, PTL DEF AccessSpec

-----------------------------------------------------------------------------
(* What a list is sorted by. *)

\* What a field that the list may be sorted by is to the permission for one type.
LEMMA SortedRow ==
  ASSUME NEW t \in Types, NEW row \in Rows, row = Mine(t), row.use, row.fields \in FieldRules \ {None},
         NEW v \in DOMAIN row.fields, NEW term \in Seq(STRING), TermAllowed(term, SortLists)
  PROVE  \E g \in ToSet(row.fields[v]) : IsPrefix(g, term)
<1>1. row # None
  BY NoneAssumption
<1>2. row.fields[v] \in SortLists
  BY <1>1 DEF SortLists
<1>3. \/ term \in ToSet(row.fields[v])
      \/ Len(term) > 1 /\ Front(term) \in ToSet(row.fields[v])
  BY <1>2 DEF TermAllowed
<1> QED BY <1>3, TermAndParent

\* The permission does not name the version of the object.
Unnamed(t) == ~req.super /\ Stored[t].version \notin DOMAIN perm[req.id, t].fields

\* What a list shows of an object that it is sorted by, when nothing changed.
LEMMA SortedShown ==
  ASSUME AccessInv, Respond, changes = 0, req.action = "list", req.term # None,
         req.query = {}, req'.status = 200, NEW t \in req.rows
  PROVE  req.term \notin Stored[t].body \/ req.term \in req'.shown[t] \/ Unnamed(t)
<1> DEFINE v == Stored[t].version
<1>1. Active /\ req.pc = "respond"
  BY DEF Respond, Active
<1>2. t \in Types /\ RowFor(t) \in seen[t] /\ seen[t] \subseteq Rows \cup {None}
  BY <1>1, RowForSeen
<1>3. /\ ~req.gone /\ TermAllowed(req.term, SortLists)
      /\ Mine(t) # None /\ Mine(t).use => Mine(t).fields # None
      /\ req.pre[t] = Mine(t) /\ (req.super \/ Mine(t) # None)
  BY <1>1, <1>2 DEF AccessInv, SortOK
<1>4. req.term \in Seq(STRING)
  BY FieldsAssumption DEF AccessInv, TypeInv, RequestOK
<1>5. Shown(t, <<>>).status = 200 /\ req'.shown[t] = Shown(t, <<>>).shown /\ Answerable(t)
  <2>1. PICK order \in QueryOrders(req.query) :
          Answerable(t) /\ Shown(t, order).status = 200 /\ req'.shown[t] = Shown(t, order).shown
    BY RespondSucceeds
  <2>2. order = <<>>
    BY <2>1, OrderOfNothing
  <2> QED BY <2>1, <2>2
<1>6. CASE Allowed(t) = AllFields
  <2>1. req.term \in Stored[t].body => req.term \in Represent(Stored[t].body, AllFields, <<>>).shown
    BY <1>4, <1>5, <1>6, AllowedIsShown DEF Shown
  <2> QED BY <1>5, <1>6, <2>1 DEF Shown
<1>7. CASE Allowed(t) # AllFields
  <2> DEFINE row == Mine(t)
             allowed == AllowedFields(row, v, None)
  <2>1. ~req.super /\ row # None /\ row \in Rows /\ RowFor(t) = row
    <3> HIDE DEF row
    <3>1. ~req.super /\ row # None /\ row = Mine(t)
      BY <1>3, <1>7 DEF row, Allowed
    <3>2. RowFor(t) = row
      BY <1>3, <3>1 DEF RowFor
    <3> QED BY <1>2, <3>1, <3>2
  <2>2. allowed = Allowed(t) /\ allowed # None
    BY <1>5, <2>1 DEF Allowed, Answerable, History
  <2> HIDE DEF row, allowed, v
  <2>3. CASE row.use /\ row.fields \in FieldRules \ {None} /\ v \in DOMAIN row.fields /\ allowed = row.fields[v]
    <3>1. \E g \in ToSet(allowed) : IsPrefix(g, req.term)
      BY <1>2, <1>3, <1>4, <2>1, <2>3, SortedRow DEF row
    <3>2. allowed \in Seq(Seq(STRING))
      BY <2>3, FieldsAssumption
    <3>3. req.term \in Stored[t].body => req.term \in Represent(Stored[t].body, allowed, <<>>).shown
      BY <1>4, <1>5, <2>2, <3>1, <3>2, AllowedIsShown DEF Shown
    <3> QED BY <1>5, <2>2, <3>3 DEF Shown
  <2>4. CASE v \notin DOMAIN row.fields
    <3>1. row = perm[req.id, t]
      BY <1>3, Zenon DEF row, Mine
    <3>2. Unnamed(t)
      BY <2>1, <2>4, <3>1, Zenon DEF v, Unnamed
    <3> QED BY <3>2
  <2> QED BY <1>7, <2>1, <2>2, <2>3, <2>4, AllowedCases DEF allowed
<1> QED BY <1>6, <1>7

\* Without a change during the request a list is sorted only by what every object in it
\* shows, whatever the permissions of the token and the versions of the objects: the order
\* tells nothing about a field that is left out (remove_invalid_fields of OrderingBackend
\* and to_representation of DynamicFieldsMixin agree, but for versions no rule names).
THEOREM AccessSortedByShown == AccessSpec => []SortedByShown
<1>1. Init => SortedByShown
  <2>1. Init => ~Answered
    BY DEF Init, NoRequest, Answered
  <2> QED BY <2>1, Zenon DEF SortedByShown
<1>2. ASSUME AccessInv, SortedByShown, [Next]_vars
      PROVE  SortedByShown'
  <2>1. CASE UNCHANGED vars
    BY <1>2, <2>1 DEF vars, SortedByShown, Answered
  <2>2. CASE Next
    <3>1. SUFFICES ASSUME (Answered /\ req.action = "list" /\ req.term # None /\ changes = 0 /\ req.query = {})',
                          NEW t \in req'.rows
                   PROVE  req'.term \notin Stored[t].body \/ req'.term \in req'.shown[t] \/ Unnamed(t)'
      BY Zenon DEF SortedByShown, Unnamed
    <3>2. CASE Commit
      <4>1. req'.action = req.action /\ req.action \in {"create", "update"}
        BY <1>2, <3>2 DEF Commit, AccessInv, TypeInv, RequestOK, RequestFields, PhaseOK
      <4> QED BY <3>1, <4>1
    <3>3. CASE ListPermissions
      <4>1. req'.action = req.action /\ req.action = "permissions"
        BY <1>2, <3>3 DEF ListPermissions, AccessInv, TypeInv, RequestOK, RequestFields, PhaseOK
      <4> QED BY <3>1, <4>1
    <3>4. CASE Respond
      <4>1. /\ perm' = perm /\ changes' = changes /\ req'.rows = req.rows /\ req'.action = req.action
            /\ req'.super = req.super /\ req'.term = req.term /\ req'.id = req.id /\ req'.query = req.query
        BY <1>2, <3>4, RespondCases DEF RequestFields
      <4>2. req'.status = 200
        BY <3>1 DEF Answered
      <4>3. req.term \notin Stored[t].body \/ req.term \in req'.shown[t] \/ Unnamed(t)
        BY <1>2, <3>1, <3>4, <4>1, <4>2, SortedShown
      <4>4. Unnamed(t) => Unnamed(t)'
        BY <4>1, Zenon DEF Unnamed
      <4> QED BY <4>1, <4>3, <4>4
    <3>5. req'.status = 200
      BY <3>1 DEF Answered
    <3> QED BY <1>2, <2>2, <3>2, <3>3, <3>4, <3>5, Answers
  <2> QED BY <1>2, <2>1, <2>2
<1> QED BY <1>1, <1>2, AlwaysInv, PTL DEF AccessSpec

-----------------------------------------------------------------------------
(* The setup configuration converges. *)

\* A configuration that names each token once, and of a token each type once.  Of two
\* entries for the same the last would hold, and their keys could be in each other's way.
NamesOnce(config) ==
  /\ \A n, m \in DOMAIN config.items : config.items[n].id = config.items[m].id => n = m
  /\ \A n \in DOMAIN config.items : LET ps == config.items[n].permissions IN
       \A k, l \in DOMAIN ps : ps[k].type = ps[l].type => k = l

TokenOf(item) == [key |-> item.key, super |-> item.super]

\* Another token has the key of the item.
HasKey(b, j, item) == b.token[j] # None /\ b.token[j].key = item.key

PermissionSet(item, k, c) == LET p == item.permissions[k] IN
  /\ p.type \in c.types /\ c.perm[<<item.id, p.type>>] # None
  /\ c.perm[<<item.id, p.type>>].mode = p.mode

\* What the token and the first n permissions of an item make of b.
ItemDone(item, n, b, c) ==
  /\ b.ok /\ c.types = b.types
  /\ c.token[item.id] = TokenOf(item)
  /\ \A j \in Ids \ {item.id} : c.token[j] = b.token[j] /\ ~HasKey(b, j, item)
  /\ \A k \in 1..n : PermissionSet(item, k, c)
  /\ \A i \in Ids, t \in Types :
       (i = item.id => \A k \in 1..n : item.permissions[k].type # t) => c.perm[<<i, t>>] = b.perm[<<i, t>>]

LEMMA ItemParts ==
  ASSUME NEW item \in Items
  PROVE  /\ item.id \in Ids /\ item.key \in Keys /\ item.super \in BOOLEAN
         /\ Len(item.permissions) \in Nat /\ DOMAIN item.permissions = 1..Len(item.permissions)
         /\ \A k \in 1..Len(item.permissions) :
              item.permissions[k] \in [type : Types, mode : {"read_only", "read_and_write"}]
<1> DEFINE s == item.permissions
           P == [type : Types, mode : {"read_only", "read_and_write"}]
<1>1. s \in Seq(P) /\ item.id \in Ids /\ item.key \in Keys /\ item.super \in BOOLEAN
  BY DEF Items
<1> HIDE DEF s, P
<1>2. Len(s) \in Nat /\ DOMAIN s = 1..Len(s) /\ \A k \in 1..Len(s) : s[k] \in P
  BY <1>1
<1> QED BY <1>1, <1>2 DEF s, P

LEMMA TokenDone ==
  ASSUME NEW item \in Items, NEW b \in Fitting, ConfigureToken(item, b).ok
  PROVE  ItemDone(item, 0, b, ConfigureToken(item, b))
<1>1. b \in Bases /\ item.id \in Ids
  BY ItemParts DEF Fitting
<1>2. CASE \E j \in Ids \ {item.id} : HasKey(b, j, item)
  <2>1. ConfigureToken(item, b) = [b EXCEPT !.ok = FALSE]
    BY <1>2 DEF ConfigureToken, Rejected, HasKey
  <2>2. ~ConfigureToken(item, b).ok
    BY <1>1, <2>1 DEF Bases
  <2> QED BY <2>2
<1>3. CASE ~\E j \in Ids \ {item.id} : HasKey(b, j, item)
  <2>1. ConfigureToken(item, b) = [b EXCEPT !.token[item.id] = TokenOf(item)]
    BY <1>3 DEF ConfigureToken, HasKey, TokenOf
  <2> DEFINE c == [b EXCEPT !.token[item.id] = TokenOf(item)]
  <2>2. /\ c.ok = b.ok /\ c.types = b.types /\ c.perm = b.perm
        /\ c.token[item.id] = TokenOf(item) /\ \A j \in Ids \ {item.id} : c.token[j] = b.token[j]
    BY <1>1 DEF Bases
  <2> HIDE DEF c
  <2>3. \A j \in Ids \ {item.id} : ~HasKey(b, j, item)
    BY <1>3
  <2>4. ItemDone(item, 0, b, c)
    BY <2>1, <2>2, <2>3 DEF ItemDone, c
  <2> QED BY <2>1, <2>4 DEF c
<1> QED BY <1>2, <1>3

LEMMA PermissionDone ==
  ASSUME NEW id \in Ids, NEW p \in [type : Types, mode : {"read_only", "read_and_write"}],
         NEW b \in Fitting, ConfigurePermission(id, p, b).ok
  PROVE  LET c == ConfigurePermission(id, p, b) IN
         /\ b.ok /\ p.type \in b.types /\ c.types = b.types /\ c.token = b.token
         /\ c.perm[<<id, p.type>>] # None /\ c.perm[<<id, p.type>>].mode = p.mode
         /\ \A x \in Ids \X Types : x # <<id, p.type>> => c.perm[x] = b.perm[x]
<1>1. b \in Bases
  BY DEF Fitting
<1>2. CASE ~b.ok \/ p.type \notin b.types
  <2>1. ConfigurePermission(id, p, b) = [b EXCEPT !.ok = FALSE]
    BY <1>2 DEF ConfigurePermission, Rejected
  <2>2. ~ConfigurePermission(id, p, b).ok
    BY <1>1, <2>1 DEF Bases
  <2> QED BY <2>2
<1>3. CASE b.ok /\ p.type \in b.types
  <2> DEFINE at  == <<id, p.type>>
             row == IF b.perm[at] = None THEN Row(p.mode, FALSE, <<>>) ELSE [b.perm[at] EXCEPT !.mode = p.mode]
             c   == [b EXCEPT !.perm[at] = row]
  <2>1. ConfigurePermission(id, p, b) = c
    BY <1>3 DEF ConfigurePermission
  <2>2. row \in Rows /\ row # None /\ row.mode = p.mode
    <3>1. b.perm[at] \in Rows \cup {None}
      BY <1>1 DEF Bases
    <3>2. Row(p.mode, FALSE, <<>>).mode = p.mode
      BY DEF Row
    <3>3. CASE b.perm[at] = None
      BY <3>2, <3>3, RowsOf
    <3>4. CASE b.perm[at] # None
      BY <3>1, <3>4, RowsOf
    <3> QED BY <3>3, <3>4
  <2> HIDE DEF row
  <2>3. /\ c.types = b.types /\ c.token = b.token /\ c.perm[at] = row
        /\ \A x \in Ids \X Types : x # at => c.perm[x] = b.perm[x]
    BY <1>1 DEF Bases
  <2> HIDE DEF c
  <2> QED BY <1>3, <2>1, <2>2, <2>3
<1> QED BY <1>2, <1>3

LEMMA OneMoreDone ==
  ASSUME NEW item \in Items, NEW n \in 1..Len(item.permissions), NEW b, NEW c \in Fitting,
         \A k \in 1..(n - 1) : item.permissions[k].type # item.permissions[n].type,
         ItemDone(item, n - 1, b, c), ConfigurePermission(item.id, item.permissions[n], c).ok
  PROVE  ItemDone(item, n, b, ConfigurePermission(item.id, item.permissions[n], c))
<1> DEFINE p == item.permissions[n]
           d == ConfigurePermission(item.id, p, c)
           at == <<item.id, p.type>>
<1>1. item.id \in Ids /\ p \in [type : Types, mode : {"read_only", "read_and_write"}] /\ n \in Nat
  BY ItemParts
<1>2. /\ p.type \in c.types /\ d.types = c.types /\ d.token = c.token
      /\ d.perm[at] # None /\ d.perm[at].mode = p.mode
      /\ \A x \in Ids \X Types : x # at => d.perm[x] = c.perm[x]
  <2> HIDE DEF p
  <2> QED BY <1>1, PermissionDone DEF p
<1> HIDE DEF d
<1>3. ASSUME NEW k \in 1..n
      PROVE  PermissionSet(item, k, d)
  <2>1. CASE k = n
    BY <1>2, <2>1 DEF PermissionSet
  <2>2. CASE k # n
    <3>1. k \in 1..(n - 1) /\ k \in 1..Len(item.permissions)
      BY <1>1, <2>2, ItemParts
    <3>2. item.permissions[k].type \in Types /\ <<item.id, item.permissions[k].type>> # at
      BY <3>1, ItemParts
    <3>3. PermissionSet(item, k, c)
      BY <3>1 DEF ItemDone
    <3>4. d.perm[<<item.id, item.permissions[k].type>>] = c.perm[<<item.id, item.permissions[k].type>>]
      BY <1>1, <1>2, <3>2
    <3> QED BY <1>2, <3>3, <3>4 DEF PermissionSet
  <2> QED BY <2>1, <2>2
<1>4. ASSUME NEW i \in Ids, NEW t \in Types,
             i = item.id => \A k \in 1..n : item.permissions[k].type # t
      PROVE  d.perm[<<i, t>>] = b.perm[<<i, t>>]
  <2>1. n \in 1..n /\ \A k \in 1..(n - 1) : k \in 1..n
    BY <1>1
  <2>2. <<i, t>> # at /\ <<i, t>> \in Ids \X Types
    BY <1>4, <2>1
  <2>3. i = item.id => \A k \in 1..(n - 1) : item.permissions[k].type # t
    BY <1>4, <2>1
  <2>4. c.perm[<<i, t>>] = b.perm[<<i, t>>]
    BY <2>3 DEF ItemDone
  <2> QED BY <1>2, <2>2, <2>4
<1> QED BY <1>2, <1>3, <1>4 DEF ItemDone, d

\* An item that is configured without an error does what it says and nothing else.
LEMMA ItemConfigured ==
  ASSUME NEW item \in Items, NEW b \in Fitting, ConfigureItem(b, item).ok,
         \A k, l \in DOMAIN item.permissions :
           item.permissions[k].type = item.permissions[l].type => k = l
  PROVE  ItemDone(item, Len(item.permissions), b, ConfigureItem(b, item))
<1> DEFINE n == Len(item.permissions)
<1>1. PICK at : ItemStates(at, item, b)
  BY ConfigureItemStates
<1>2. n \in Nat /\ DOMAIN item.permissions = 1..n
  BY ItemParts
<1> DEFINE T == {k \in 0..n : at[k].ok => ItemDone(item, k, b, at[k])}
<1>3. 0 \in T
  BY <1>1, <1>2, TokenDone DEF ItemStates
<1>4. ASSUME NEW k \in 0..n, k # n, k \in T
      PROVE  k + 1 \in T
  <2> DEFINE m == k + 1
  <2>1. m \in 1..n /\ m \in 0..n /\ m - 1 = k /\ \A i \in 1..(m - 1) : i \in 1..n /\ i # m
    BY <1>2, <1>4
  <2>2. at[m] = ConfigurePermission(item.id, item.permissions[m], at[m - 1])
    BY <1>1, <2>1 DEF ItemStates
  <2>3. at[m - 1] \in Fitting /\ (at[m - 1].ok => ItemDone(item, m - 1, b, at[m - 1]))
    BY <1>1, <1>4, <2>1 DEF ItemStates, FittingFor
  <2>4. item.id \in Ids /\ item.permissions[m] \in [type : Types, mode : {"read_only", "read_and_write"}]
    BY <2>1, ItemParts
  <2>5. \A i \in 1..(m - 1) : item.permissions[i].type # item.permissions[m].type
    BY <1>2, <2>1
  <2> HIDE DEF m
  <2>6. ASSUME at[m].ok
        PROVE  ItemDone(item, m, b, at[m])
    <3>1. at[m - 1].ok
      <4> DEFINE p == item.permissions[m]
                 before == at[m - 1]
      <4>1. ConfigurePermission(item.id, p, before).ok
        BY <2>2, <2>6
      <4>2. before \in Fitting /\ item.id \in Ids /\ p \in [type : Types, mode : {"read_only", "read_and_write"}]
        BY <2>3, <2>4
      <4> HIDE DEF p, before
      <4>3. before.ok
        BY <4>1, <4>2, PermissionDone
      <4> QED BY <4>3 DEF before
    <3> QED BY <2>1, <2>2, <2>3, <2>5, <2>6, <3>1, OneMoreDone
  <2> QED BY <2>1, <2>6 DEF m
<1>5. 0..n \subseteq T
  <2> HIDE DEF T, n
  <2> QED BY <1>2, <1>3, <1>4, Upward
<1>6. n \in T
  BY <1>2, <1>5
<1> QED BY <1>1, <1>6 DEF ItemStates

\* An item is settled when configuring it would change nothing.
Settled(item, c) ==
  /\ c.token[item.id] = TokenOf(item)
  /\ \A j \in Ids \ {item.id} : ~HasKey(c, j, item)
  /\ \A k \in 1..Len(item.permissions) : PermissionSet(item, k, c)

LEMMA SettledStays ==
  ASSUME NEW item \in Items, NEW c \in Fitting, c.ok, Settled(item, c)
  PROVE  ConfigureItem(c, item) = c
<1> DEFINE n == Len(item.permissions)
<1>1. PICK at : ItemStates(at, item, c)
  BY ConfigureItemStates
<1>2. n \in Nat /\ item.id \in Ids /\ c \in Bases
  BY ItemParts DEF Fitting
<1> DEFINE T == {k \in 0..n : at[k] = c}
<1>3. 0 \in T
  <2>1. ConfigureToken(item, c) = [c EXCEPT !.token[item.id] = TokenOf(item)]
    BY DEF ConfigureToken, Settled, HasKey, TokenOf
  <2>2. [c EXCEPT !.token[item.id] = TokenOf(item)] = c
    BY <1>2 DEF Settled, Bases
  <2> QED BY <1>1, <1>2, <2>1, <2>2 DEF ItemStates
<1>4. ASSUME NEW k \in 0..n, k # n, k \in T
      PROVE  k + 1 \in T
  <2> DEFINE m == k + 1
             p == item.permissions[m]
             x == <<item.id, p.type>>
             row == c.perm[x]
  <2>1. m \in 1..n /\ m \in 0..n /\ m - 1 = k
    BY <1>2, <1>4
  <2>2. at[m] = ConfigurePermission(item.id, p, c)
    BY <1>1, <1>4, <2>1 DEF ItemStates
  <2>3. p.type \in c.types /\ row # None /\ row.mode = p.mode
    BY <2>1 DEF Settled, PermissionSet
  <2>4. p.type \in Types /\ x \in Ids \X Types
    BY <1>2, <2>1, ItemParts
  <2>5. ConfigurePermission(item.id, p, c) = [c EXCEPT !.perm[x] = [row EXCEPT !.mode = p.mode]]
    BY <2>3 DEF ConfigurePermission
  <2>6. [row EXCEPT !.mode = p.mode] = row
    <3>1. row \in Rows
      BY <1>2, <2>3, <2>4 DEF Bases
    <3>2. row \in [mode : {"read_only", "read_and_write"}, use : BOOLEAN, fields : FieldRules]
      BY <3>1, RowsOf
    <3> HIDE DEF row
    <3> QED BY <2>3, <3>2
  <2>7. [c EXCEPT !.perm[x] = row] = c
    BY <1>2, <2>4 DEF Bases
  <2> QED BY <2>1, <2>2, <2>5, <2>6, <2>7
<1>5. 0..n \subseteq T
  <2> HIDE DEF T, n
  <2> QED BY <1>2, <1>3, <1>4, Upward
<1>6. n \in T
  BY <1>2, <1>5
<1> QED BY <1>1, <1>6 DEF ItemStates

\* What an item settles the items after it leave so.
LEMMA SettledAfter ==
  ASSUME NEW item \in Items, NEW other \in Items, item.id # other.id, NEW b, NEW c,
         Settled(item, b), ItemDone(other, Len(other.permissions), b, c)
  PROVE  Settled(item, c)
<1>1. item.id \in Ids /\ other.id \in Ids
  BY ItemParts
<1>2. c.token[item.id] = TokenOf(item) /\ item.key # other.key
  <2>1. c.token[item.id] = b.token[item.id] /\ ~HasKey(b, item.id, other)
    BY <1>1 DEF ItemDone
  <2>2. b.token[item.id] = TokenOf(item) /\ TokenOf(item) # None
    <3>1. TokenOf(item) \in TokenRows
      BY ItemParts DEF TokenOf, TokenRows
    <3> QED BY <3>1, NoneAssumption DEF Settled, TokenRows
  <2> QED BY <2>1, <2>2 DEF HasKey, TokenOf
<1>3. ASSUME NEW j \in Ids \ {item.id}
      PROVE  ~HasKey(c, j, item)
  <2>1. CASE j = other.id
    BY <1>2, <2>1 DEF ItemDone, HasKey, TokenOf
  <2>2. CASE j # other.id
    BY <2>2 DEF ItemDone, Settled, HasKey
  <2> QED BY <2>1, <2>2
<1>4. ASSUME NEW k \in 1..Len(item.permissions)
      PROVE  PermissionSet(item, k, c)
  <2>1. PermissionSet(item, k, b) /\ item.permissions[k].type \in Types
    BY ItemParts DEF Settled
  <2>2. c.types = b.types
    BY DEF ItemDone
  <2>3. c.perm[<<item.id, item.permissions[k].type>>] = b.perm[<<item.id, item.permissions[k].type>>]
    BY <1>1, <2>1 DEF ItemDone
  <2> QED BY <2>1, <2>2, <2>3 DEF PermissionSet
<1> QED BY <1>2, <1>3, <1>4 DEF Settled

LEMMA DoneIsSettled ==
  ASSUME NEW item \in Items, NEW b, NEW c, ItemDone(item, Len(item.permissions), b, c)
  PROVE  Settled(item, c)
BY DEF ItemDone, Settled, HasKey

\* What the first n items of a configuration make of b.
ConfigDone(config, n, b, c) ==
  /\ c.types = b.types \cup config.types
  /\ \A m \in 1..n : Settled(config.items[m], c)
  /\ \A i \in Ids : (\A m \in 1..n : config.items[m].id # i) => c.token[i] = b.token[i]
  /\ \A i \in Ids, t \in Types :
       (\A m \in 1..n : config.items[m].id = i =>
          \A k \in DOMAIN config.items[m].permissions : config.items[m].permissions[k].type # t)
       => c.perm[<<i, t>>] = b.perm[<<i, t>>]

LEMMA ConfigParts ==
  ASSUME NEW config \in Configs
  PROVE  /\ config.types \in SUBSET Types /\ config.items \in Seq(Items)
         /\ Len(config.items) \in Nat /\ DOMAIN config.items = 1..Len(config.items)
         /\ \A n \in 1..Len(config.items) : config.items[n] \in Items
<1> DEFINE s == config.items
<1>1. config.types \in SUBSET Types /\ s \in Seq(Items)
  BY ConfigsAssumption, Zenon DEF Items
<1> HIDE DEF s
<1>2. Len(s) \in Nat /\ DOMAIN s = 1..Len(s) /\ \A n \in 1..Len(s) : s[n] \in Items
  BY <1>1
<1> QED BY <1>1, <1>2 DEF s

LEMMA TypesDone ==
  ASSUME NEW config \in Configs, NEW b \in Fitting
  PROVE  /\ ConfigDone(config, 0, b, ConfigureTypes(config.types, b))
         /\ ConfigureTypes(config.types, b).ok = b.ok
<1> DEFINE c == [b EXCEPT !.types = b.types \cup config.types]
<1>1. ConfigureTypes(config.types, b) = c
  BY DEF ConfigureTypes
<1>2. c.ok = b.ok /\ c.types = b.types \cup config.types /\ c.token = b.token /\ c.perm = b.perm
  BY DEF Fitting, Bases
<1> HIDE DEF c
<1> QED BY <1>1, <1>2 DEF ConfigDone

LEMMA OneMoreItem ==
  ASSUME NEW config \in Configs, NamesOnce(config), NEW n \in 1..Len(config.items), NEW b, NEW c, NEW d,
         ConfigDone(config, n - 1, b, c), ItemDone(config.items[n], Len(config.items[n].permissions), c, d)
  PROVE  ConfigDone(config, n, b, d)
<1> DEFINE item == config.items[n]
           size == Len(item.permissions)
<1>1. /\ n \in Nat /\ n \in 1..n /\ \A m \in 1..(n - 1) : m \in 1..n /\ m \in 1..Len(config.items) /\ m # n
      /\ \A m \in 1..n : m \in 1..Len(config.items) /\ (m # n => m \in 1..(n - 1))
      /\ DOMAIN config.items = 1..Len(config.items)
  BY ConfigParts
<1>2. item \in Items /\ \A m \in 1..(n - 1) : config.items[m] \in Items /\ config.items[m].id # item.id
  BY <1>1, ConfigParts DEF NamesOnce
<1>3. ASSUME NEW m \in 1..n
      PROVE  Settled(config.items[m], d)
  <2>1. CASE m = n
    BY <1>2, <2>1, DoneIsSettled
  <2>2. CASE m # n
    <3>1. m \in 1..(n - 1)
      BY <1>1, <2>2
    <3>2. Settled(config.items[m], c)
      BY <3>1 DEF ConfigDone
    <3> QED BY <1>2, <3>1, <3>2, SettledAfter
  <2> QED BY <2>1, <2>2
<1>4. ASSUME NEW i \in Ids, \A m \in 1..n : config.items[m].id # i
      PROVE  d.token[i] = b.token[i]
  <2>1. i # item.id /\ \A m \in 1..(n - 1) : config.items[m].id # i
    BY <1>1, <1>4
  <2> QED BY <2>1 DEF ConfigDone, ItemDone
<1>5. ASSUME NEW i \in Ids, NEW t \in Types,
             \A m \in 1..n : config.items[m].id = i =>
               \A k \in DOMAIN config.items[m].permissions : config.items[m].permissions[k].type # t
      PROVE  d.perm[<<i, t>>] = b.perm[<<i, t>>]
  <2>1. DOMAIN item.permissions = 1..size
    BY <1>2, ItemParts
  <2>2. i = item.id => \A k \in 1..size : item.permissions[k].type # t
    BY <1>1, <1>5, <2>1
  <2>3. d.perm[<<i, t>>] = c.perm[<<i, t>>]
    BY <2>2 DEF ItemDone
  <2>4. c.perm[<<i, t>>] = b.perm[<<i, t>>]
    BY <1>1, <1>5 DEF ConfigDone
  <2> QED BY <2>3, <2>4
<1>6. d.types = c.types
  BY DEF ItemDone
<1> QED BY <1>3, <1>4, <1>5, <1>6 DEF ConfigDone

\* A configuration that runs without an error does what it says and nothing else.
LEMMA ConfigConfigured ==
  ASSUME NEW config \in Configs, NamesOnce(config), NEW b \in Fitting, Configured(config, b).ok
  PROVE  ConfigDone(config, Len(config.items), b, Configured(config, b))
<1> DEFINE n == Len(config.items)
<1>1. n \in Nat /\ DOMAIN config.items = 1..n /\ \A m \in 1..n : config.items[m] \in Items
  BY ConfigParts
<1>2. PICK at : ConfigStates(at, config, b)
  BY ConfigParts, ConfiguredStates
<1> DEFINE T == {k \in 0..n : at[k].ok => ConfigDone(config, k, b, at[k])}
<1>3. 0 \in T
  BY <1>1, <1>2, TypesDone DEF ConfigStates
<1>4. ASSUME NEW k \in 0..n, k # n, k \in T
      PROVE  k + 1 \in T
  <2> DEFINE m == k + 1
             item == config.items[m]
             before == at[m - 1]
  <2>1. m \in 1..n /\ m \in 0..n /\ m - 1 = k /\ k \in 0..n
    BY <1>1, <1>4
  <2>2. at[m] = ConfigureItem(before, item) /\ before \in Fitting /\ item \in Items
    BY <1>1, <1>2, <2>1 DEF ConfigStates
  <2>3. before.ok => ConfigDone(config, m - 1, b, before)
    BY <1>4, <2>1
  <2>4. \A i, j \in DOMAIN item.permissions : item.permissions[i].type = item.permissions[j].type => i = j
    BY <1>1, <2>1 DEF NamesOnce
  <2>5. ASSUME at[m].ok
        PROVE  ConfigDone(config, m, b, at[m])
    <3>1. ItemDone(item, Len(item.permissions), before, at[m])
      <4> HIDE DEF before, item
      <4> QED BY <2>2, <2>4, <2>5, ItemConfigured
    <3>2. before.ok
      BY <3>1 DEF ItemDone
    <3> HIDE DEF before, m
    <3> QED BY <2>1, <2>3, <3>1, <3>2, OneMoreItem
  <2> QED BY <2>1, <2>5
<1>5. 0..n \subseteq T
  <2> HIDE DEF T, n
  <2> QED BY <1>1, <1>3, <1>4, Upward
<1>6. n \in T
  BY <1>1, <1>5
<1> QED BY <1>2, <1>6 DEF ConfigStates

LEMMA ConfiguredAgain ==
  ASSUME NEW config \in Configs, NEW c \in Fitting, c.ok, config.types \subseteq c.types,
         \A m \in 1..Len(config.items) : Settled(config.items[m], c)
  PROVE  Configured(config, c) = c
<1> DEFINE n == Len(config.items)
<1>1. n \in Nat /\ \A m \in 1..n : config.items[m] \in Items
  BY ConfigParts
<1>2. PICK at : ConfigStates(at, config, c)
  BY ConfigParts, ConfiguredStates
<1> DEFINE T == {k \in 0..n : at[k] = c}
<1>3. 0 \in T
  <2>1. ConfigureTypes(config.types, c) = [c EXCEPT !.types = c.types \cup config.types]
    BY DEF ConfigureTypes
  <2>2. c.types \cup config.types = c.types
    OBVIOUS
  <2>3. [c EXCEPT !.types = c.types] = c
    BY DEF Fitting, Bases
  <2>4. at[0] = ConfigureTypes(config.types, c) /\ 0 \in 0..n
    BY <1>1, <1>2 DEF ConfigStates
  <2>5. ConfigureTypes(config.types, c) = c
    BY <2>1, <2>2, <2>3
  <2> QED BY <2>4, <2>5
<1>4. ASSUME NEW k \in 0..n, k # n, k \in T
      PROVE  k + 1 \in T
  <2> DEFINE m == k + 1
             item == config.items[m]
  <2>1. m \in 1..n /\ m \in 0..n /\ m - 1 = k
    BY <1>1, <1>4
  <2>2. at[m] = ConfigureItem(c, item)
    BY <1>2, <1>4, <2>1 DEF ConfigStates
  <2>3. item \in Items /\ Settled(item, c)
    BY <1>1, <2>1
  <2>4. ConfigureItem(c, item) = c
    <3> HIDE DEF item
    <3> QED BY <2>3, SettledStays
  <2> QED BY <2>1, <2>2, <2>4
<1>5. 0..n \subseteq T
  <2> HIDE DEF T, n
  <2> QED BY <1>1, <1>3, <1>4, Upward
<1>6. n \in T
  BY <1>1, <1>5
<1> QED BY <1>2, <1>6 DEF ConfigStates

\* After a run of the setup configuration the tokens and modes are those that it names,
\* nothing else has changed, and running it again changes nothing: for configurations with
\* any number of items, on any tables (execute of TokenAuthConfigurationStep).
THEOREM AccessConverges ==
  ASSUME \A config \in Configs : NamesOnce(config)
  PROVE  AccessSpec => []Converges
<1>1. ASSUME AccessInv, NEW config \in Configs, Configured(config, Database).ok
      PROVE  LET after == Configured(config, Database) IN
             /\ Configured(config, after) = after
             /\ \A n \in DOMAIN config.items : LET item == config.items[n] IN
                  /\ after.token[item.id] = [key |-> item.key, super |-> item.super]
                  /\ \A k \in DOMAIN item.permissions :
                       LET p == item.permissions[k] IN after.perm[item.id, p.type].mode = p.mode
             /\ \A i \in Ids : NamedBy(config, i, None) \/ after.token[i] = token[i]
             /\ \A i \in Ids, t \in Types : NamedBy(config, i, t) \/ after.perm[i, t] = perm[i, t]
  <2> DEFINE b == Database
             after == Configured(config, b)
             n == Len(config.items)
  <2>1. b \in Fitting /\ b.token = token /\ b.perm = perm /\ b.types = types
    BY <1>1 DEF AccessInv, TypeInv, Database
  <2>2. after.ok
    BY <1>1
  <2> HIDE DEF b
  <2>3. /\ n \in Nat /\ DOMAIN config.items = 1..n /\ config.types \in SUBSET Types
        /\ config.items \in Seq(Items) /\ \A m \in 1..n : config.items[m] \in Items
    BY ConfigParts
  <2>4. after \in Fitting
    BY <2>1, <2>3, ConfiguredFits
  <2>5. ConfigDone(config, n, b, after)
    BY <2>1, <2>2, ConfigConfigured
  <2> HIDE DEF after, n
  <2>6. Configured(config, after) = after
    <3>1. config.types \subseteq after.types /\ \A m \in 1..n : Settled(config.items[m], after)
      BY <2>5 DEF ConfigDone
    <3> QED BY <2>2, <2>4, <3>1, ConfiguredAgain DEF n
  <2>7. ASSUME NEW m \in DOMAIN config.items
        PROVE  /\ after.token[config.items[m].id] = [key |-> config.items[m].key, super |-> config.items[m].super]
               /\ \A k \in DOMAIN config.items[m].permissions :
                    after.perm[<<config.items[m].id, config.items[m].permissions[k].type>>].mode
                      = config.items[m].permissions[k].mode
    <3>1. Settled(config.items[m], after) /\ config.items[m] \in Items
      BY <2>3, <2>5 DEF ConfigDone
    <3>2. DOMAIN config.items[m].permissions = 1..Len(config.items[m].permissions)
      BY <3>1, ItemParts
    <3> QED BY <3>1, <3>2 DEF Settled, PermissionSet, TokenOf
  <2>8. ASSUME NEW i \in Ids, ~NamedBy(config, i, None)
        PROVE  after.token[i] = token[i]
    BY <2>1, <2>3, <2>5, <2>8 DEF ConfigDone, NamedBy
  <2>9. ASSUME NEW i \in Ids, NEW t \in Types, ~NamedBy(config, i, t)
        PROVE  after.perm[<<i, t>>] = perm[<<i, t>>]
    BY <2>1, <2>3, <2>5, <2>9 DEF ConfigDone, NamedBy
  <2> QED BY <2>6, <2>7, <2>8, <2>9, Zenon DEF after, b
<1>2. AccessInv => Converges
  BY <1>1, Zenon DEF Converges
<1> QED BY <1>2, AlwaysInv, PTL
=============================================================================
