--------------------------- MODULE ObjectDataProofs ---------------------------
(***************************************************************************)
(* Proofs about ObjectData, and about what merge_patch makes of data that  *)
(* goes as deep as one likes.                                              *)
(***************************************************************************)
EXTENDS ObjectData, WellFoundedInduction, TLAPS

-----------------------------------------------------------------------------
(* Sets of naturals.                                                          *)

\* A set of naturals has a least element.
LEMMA LeastNat ==
  ASSUME NEW T \in SUBSET Nat, T # {}
  PROVE  \E x \in T : \A y \in T : x <= y
<1> DEFINE R == OpToRel(<, Nat)
<1>1. \E x \in T : \A y \in T : ~ (<<y, x>> \in R)
  BY WFMin, NatLessThanWellFounded, Zenon
<1>2. PICK x \in T : \A y \in T : ~ (<<y, x>> \in R)
  BY <1>1, Zenon
<1>3. ASSUME NEW y \in T, y < x
      PROVE  FALSE
  <2>1. <<y, x>> \in R
    BY <1>3 DEF OpToRel
  <2> HIDE DEF R
  <2> QED BY <2>1, <1>2, Zenon
<1> QED BY <1>3

\* What holds of m, and of the next number if of one before n, holds of m to n.
LEMMA Upward ==
  ASSUME NEW m \in Nat, NEW n \in Nat, NEW T, m \in T,
         \A i \in m..n : i # n /\ i \in T => i + 1 \in T
  PROVE  m..n \subseteq T
<1> DEFINE Bad == {i \in m..n : i \notin T}
<1>1. SUFFICES ASSUME Bad # {}
               PROVE  FALSE
  BY <1>1
<1>2. PICK i \in Bad : \A j \in Bad : i <= j
  <2>1. Bad \in SUBSET Nat
    OBVIOUS
  <2> HIDE DEF Bad
  <2> QED BY <1>1, <2>1, LeastNat, Zenon
<1>3. i \in m..n /\ i \notin T /\ i # m
  BY <1>2
<1>4. i - 1 \in m..n /\ i - 1 # n /\ ~(i <= i - 1) /\ (i - 1) + 1 = i
  BY <1>3
<1>5. i - 1 \in T
  BY <1>2, <1>4
<1> QED BY <1>3, <1>4, <1>5

-----------------------------------------------------------------------------
(* The value at a path. *)

WalkBy(at, v, path) ==
  at = [n \in 0..Len(path) |-> IF n = 0 THEN v ELSE Get(at[n - 1], path[n])]
Walk(v, path) == CHOOSE at : WalkBy(at, v, path)

LEMMA AtIsWalk ==
  ASSUME NEW v, NEW path
  PROVE  At(v, path) = Walk(v, path)[Len(path)]
BY Zenon DEF At, Walk, WalkBy

\* There is such a walk: its first k steps, and one more.
LEMMA WalkExists ==
  ASSUME NEW v, NEW S, NEW path \in Seq(S)
  PROVE  WalkBy(Walk(v, path), v, path)
<1> DEFINE Steps(at, k) == at = [n \in 0..k |-> IF n = 0 THEN v ELSE Get(at[n - 1], path[n])]
           Bad == {k \in 0..Len(path) : \A at : ~Steps(at, k)}
<1>1. Len(path) \in Nat
  OBVIOUS
<1>2. Bad = {}
  <2> SUFFICES ASSUME Bad # {}
               PROVE  FALSE
    OBVIOUS
  <2>1. PICK k \in Bad : \A j \in Bad : k <= j
    <3>1. Bad \in SUBSET Nat
      BY <1>1
    <3> HIDE DEF Bad
    <3> QED BY <3>1, LeastNat, Zenon
  <2>2. k \in 0..Len(path) /\ \A at : ~Steps(at, k)
    BY <2>1, Zenon
  <2>3. CASE k = 0
    <3>1. Steps([n \in 0..0 |-> v], 0)
      OBVIOUS
    <3> HIDE DEF Steps
    <3> QED BY <2>2, <2>3, <3>1, Zenon
  <2>4. CASE k # 0
    <3>1. k - 1 \in 0..Len(path) /\ k \in Nat /\ ~(k <= k - 1)
      BY <1>1, <2>2, <2>4
    <3>2. k - 1 \notin Bad
      BY <2>1, <3>1
    <3>3. PICK g : Steps(g, k - 1)
      BY <3>1, <3>2
    <3> DEFINE h == [n \in 0..k |-> IF n = k THEN Get(g[k - 1], path[k]) ELSE g[n]]
    <3>4. ASSUME NEW n \in 0..k
          PROVE  h[n] = IF n = 0 THEN v ELSE Get(h[n - 1], path[n])
      <4>1. n \in Nat /\ (n # 0 => n - 1 \in 0..k /\ n - 1 # k) /\ (n # k => n \in 0..(k - 1))
        BY <3>1
      <4> HIDE DEF h
      <4>2. \A m \in 0..k : h[m] = IF m = k THEN Get(g[k - 1], path[k]) ELSE g[m]
        BY Zenon DEF h
      <4>3. n # k => g[n] = IF n = 0 THEN v ELSE Get(g[n - 1], path[n])
        BY <3>3, <4>1
      <4> QED BY <2>4, <3>1, <4>1, <4>2, <4>3
    <3>5. h = [n \in 0..k |-> h[n]]
      OBVIOUS
    <3> HIDE DEF h
    <3>6. Steps(h, k)
      BY <3>4, <3>5, Zenon
    <3> HIDE DEF Steps
    <3> QED BY <2>2, <3>6, Zenon
  <2> QED BY <2>3, <2>4
<1>3. \E at : WalkBy(at, v, path)
  <2>1. Len(path) \in 0..Len(path)
    BY <1>1
  <2>2. \E at : Steps(at, Len(path))
    <3> HIDE DEF Steps
    <3> QED BY <1>2, <2>1, Zenon
  <2> QED BY <2>2, Zenon DEF WalkBy
<1> QED BY <1>3, Zenon DEF Walk

LEMMA WalkSteps ==
  ASSUME NEW v, NEW S, NEW path \in Seq(S)
  PROVE  /\ Walk(v, path)[0] = v
         /\ \A n \in 1..Len(path) : Walk(v, path)[n] = Get(Walk(v, path)[n - 1], path[n])
<1> DEFINE w == Walk(v, path)
<1>1. w = [n \in 0..Len(path) |-> IF n = 0 THEN v ELSE Get(w[n - 1], path[n])]
  BY WalkExists DEF WalkBy
<1> HIDE DEF w
<1>2. \A n \in 0..Len(path) : w[n] = IF n = 0 THEN v ELSE Get(w[n - 1], path[n])
  BY <1>1, Zenon
<1>3. Len(path) \in Nat
  OBVIOUS
<1>4. w[0] = v
  BY <1>2, <1>3
<1>5. \A n \in 1..Len(path) : w[n] = Get(w[n - 1], path[n])
  BY <1>2, <1>3
<1> QED BY <1>4, <1>5 DEF w

\* Walks along the same keys, which have met, stay together.
LEMMA WalksMeet ==
  ASSUME NEW v, NEW w, NEW S, NEW path \in Seq(S), NEW other \in Seq(S), NEW m \in Nat, NEW n \in Nat,
         m <= n, n <= Len(path), n <= Len(other), \A i \in (m + 1)..n : path[i] = other[i],
         Walk(v, path)[m] = Walk(w, other)[m]
  PROVE  \A i \in m..n : Walk(v, path)[i] = Walk(w, other)[i]
<1> DEFINE f == Walk(v, path)
           g == Walk(w, other)
           T == {i \in m..n : f[i] = g[i]}
<1>1. m \in T
  OBVIOUS
<1>2. ASSUME NEW i \in m..n, i # n, i \in T
      PROVE  i + 1 \in T
  <2>1. /\ i + 1 \in (m + 1)..n /\ i + 1 \in 1..Len(path) /\ i + 1 \in 1..Len(other)
        /\ (i + 1) - 1 = i /\ i + 1 \in m..n
    BY <1>2
  <2>2. f[i + 1] = Get(f[i], path[i + 1])
    BY <2>1, WalkSteps
  <2>3. g[i + 1] = Get(g[i], other[i + 1])
    BY <2>1, WalkSteps
  <2>4. path[i + 1] = other[i + 1] /\ f[i] = g[i]
    BY <1>2, <2>1
  <2> HIDE DEF f, g
  <2> QED BY <2>1, <2>2, <2>3, <2>4
<1>3. m..n \subseteq T
  <2> HIDE DEF T
  <2> QED BY <1>1, <1>2, Upward
<1> QED BY <1>3

LEMMA WalksStart ==
  ASSUME NEW v, NEW S, NEW path \in Seq(S), NEW other \in Seq(S), NEW n \in Nat,
         n <= Len(path), n <= Len(other), \A i \in 1..n : path[i] = other[i]
  PROVE  Walk(v, path)[n] = Walk(v, other)[n]
<1> DEFINE T == {i \in 0..n : Walk(v, path)[i] = Walk(v, other)[i]}
<1>1. 0 \in T
  BY WalkSteps
<1>2. ASSUME NEW i \in 0..n, i # n, i \in T
      PROVE  i + 1 \in T
  <2>1. /\ i + 1 \in 1..n /\ i + 1 \in 1..Len(path) /\ i + 1 \in 1..Len(other)
        /\ (i + 1) - 1 = i /\ i + 1 \in 0..n
    BY <1>2
  <2>2. Walk(v, path)[i + 1] = Get(Walk(v, path)[i], path[i + 1])
    BY <2>1, WalkSteps
  <2>3. Walk(v, other)[i + 1] = Get(Walk(v, other)[i], other[i + 1])
    BY <2>1, WalkSteps
  <2> QED BY <1>2, <2>1, <2>2, <2>3
<1>3. 0..n \subseteq T
  <2> HIDE DEF T
  <2> QED BY <1>1, <1>2, Upward
<1>4. n \in 0..n
  OBVIOUS
<1> QED BY <1>3, <1>4

\* A path is walked key by key.
LEMMA AtSteps ==
  ASSUME NEW v, NEW S
  PROVE  /\ At(v, << >>) = v
         /\ \A path \in Seq(S), k \in S : At(v, Append(path, k)) = Get(At(v, path), k)
<1>1. At(v, << >>) = v
  <2>1. << >> \in Seq(S) /\ Len(<< >>) = 0
    OBVIOUS
  <2> QED BY <2>1, WalkSteps, AtIsWalk
<1>2. ASSUME NEW path \in Seq(S), NEW k \in S
      PROVE  At(v, Append(path, k)) = Get(At(v, path), k)
  <2> DEFINE longer == Append(path, k)
             n == Len(path)
  <2>1. /\ longer \in Seq(S) /\ Len(longer) = n + 1 /\ longer[n + 1] = k
        /\ \A i \in 1..n : longer[i] = path[i]
        /\ n \in Nat
    OBVIOUS
  <2> HIDE DEF longer, n
  <2>2. Walk(v, longer)[n + 1] = Get(Walk(v, longer)[n], k)
    <3>1. n + 1 \in 1..Len(longer) /\ (n + 1) - 1 = n
      BY <2>1
    <3> QED BY <2>1, <3>1, WalkSteps
  <2>3. n <= Len(path) /\ n <= Len(longer)
    BY <2>1 DEF n
  <2>4. Walk(v, path)[n] = Walk(v, longer)[n]
    BY <2>1, <2>3, WalksStart
  <2> QED BY <2>1, <2>2, <2>4, AtIsWalk DEF longer, n
<1> QED BY <1>1, <1>2

\* What stands at the start of a path.
LEMMA AtStart ==
  ASSUME NEW v, NEW S, NEW path \in Seq(S), NEW n \in 0..Len(path)
  PROVE  /\ At(v, SubSeq(path, 1, n)) = Walk(v, path)[n]
         /\ SubSeq(path, 1, n) \in Seq(S) /\ Len(SubSeq(path, 1, n)) = n
<1> DEFINE start == SubSeq(path, 1, n)
<1>1. /\ start \in Seq(S) /\ Len(start) = n /\ n \in Nat /\ n <= Len(path)
      /\ \A i \in 1..n : start[i] = path[i]
  OBVIOUS
<1> HIDE DEF start
<1>2. Walk(v, start)[n] = Walk(v, path)[n]
  BY <1>1, WalksStart
<1> QED BY <1>1, <1>2, AtIsWalk DEF start

-----------------------------------------------------------------------------
(* Merging. *)

MergedAt(merged, target, patch, path) ==
  LET old == Items(At(target, path))
      new == At(patch, path)
  IN  IF ~IsObj(new) THEN new
      ELSE Obj([k \in DOMAIN old \cup DOMAIN new.at |->
                  IF k \in DOMAIN new.at THEN merged[Append(path, k)] ELSE old[k]])
MergedBy(merged, target, patch) ==
  merged = [path \in Places |-> MergedAt(merged, target, patch, path)]
Merging(target, patch) == CHOOSE merged : MergedBy(merged, target, patch)

LEMMA MergePatchIsMerging ==
  ASSUME NEW target, NEW patch
  PROVE  MergePatch(target, patch) = Merging(target, patch)[<< >>]
BY Zenon DEF MergePatch, Merging, MergedBy, MergedAt

LEMMA PlacesFit ==
  /\ << >> \in Places /\ Len(<< >>) = 0
  /\ \A path \in Places : path \in Seq(Keys) /\ Len(path) \in 0..MaxDepth
  /\ \A path \in Places, k \in Keys : Len(path) < MaxDepth =>
       Append(path, k) \in Places /\ Len(Append(path, k)) = Len(path) + 1
<1>1. << >> \in [1..0 -> Keys] /\ 0 \in 0..MaxDepth
  BY DepthAssumption
<1>2. ASSUME NEW path \in Places
      PROVE  path \in Seq(Keys) /\ Len(path) \in 0..MaxDepth
  <2>1. PICK n \in 0..MaxDepth : path \in [1..n -> Keys]
    BY DEF Places
  <2>2. n \in Nat
    BY <2>1, DepthAssumption
  <2>3. path \in Seq(Keys) /\ Len(path) = n
    BY <2>1, <2>2
  <2> QED BY <2>1, <2>3
<1>3. ASSUME NEW path \in Places, NEW k \in Keys, Len(path) < MaxDepth
      PROVE  Append(path, k) \in Places /\ Len(Append(path, k)) = Len(path) + 1
  <2>1. path \in Seq(Keys) /\ Len(path) \in 0..MaxDepth
    BY <1>2
  <2>2. Append(path, k) \in Seq(Keys) /\ Len(Append(path, k)) = Len(path) + 1
    BY <2>1
  <2>3. Len(path) + 1 \in 0..MaxDepth
    BY <2>1, <1>3, DepthAssumption
  <2> DEFINE longer == Append(path, k)
  <2>4. longer \in [1..Len(longer) -> Keys]
    <3>1. longer \in Seq(Keys)
      BY <2>2
    <3> HIDE DEF longer
    <3> QED BY <3>1
  <2> HIDE DEF longer
  <2>5. longer \in [1..(Len(path) + 1) -> Keys]
    BY <2>2, <2>4 DEF longer
  <2> QED BY <2>2, <2>3, <2>5 DEF Places, longer
<1> QED BY <1>1, <1>2, <1>3 DEF Places

\* An object of a patch has only places for its values.
LEMMA PatchPlaces ==
  ASSUME NEW patch, IsPatch(patch), NEW path \in Places, IsObj(At(patch, path)),
         NEW k \in DOMAIN At(patch, path).at
  PROVE  /\ k \in Keys /\ Append(path, k) \in Places /\ Len(Append(path, k)) = Len(path) + 1
         /\ At(patch, path).at[k].kind # "missing"
<1>1. Len(path) < MaxDepth /\ k \in Keys /\ At(patch, path).at[k].kind # "missing"
  BY DEF IsPatch
<1> QED BY <1>1, PlacesFit

LEMMA MergedAtSame ==
  ASSUME NEW target, NEW patch, IsPatch(patch), NEW path \in Places, NEW f, NEW g,
         \A k \in Keys : Append(path, k) \in Places /\ Len(Append(path, k)) = Len(path) + 1
                           => f[Append(path, k)] = g[Append(path, k)]
  PROVE  MergedAt(f, target, patch, path) = MergedAt(g, target, patch, path)
<1> DEFINE old == Items(At(target, path))
           new == At(patch, path)
<1>1. CASE ~IsObj(new)
  BY <1>1 DEF MergedAt
<1>2. CASE IsObj(new)
  <2>1. \A k \in DOMAIN new.at : f[Append(path, k)] = g[Append(path, k)]
    BY <1>2, PatchPlaces
  <2> HIDE DEF old, new
  <2>2. [k \in DOMAIN old \cup DOMAIN new.at |-> IF k \in DOMAIN new.at THEN f[Append(path, k)] ELSE old[k]]
        = [k \in DOMAIN old \cup DOMAIN new.at |-> IF k \in DOMAIN new.at THEN g[Append(path, k)] ELSE old[k]]
    BY <2>1
  <2>3. MergedAt(f, target, patch, path) =
          Obj([k \in DOMAIN old \cup DOMAIN new.at |-> IF k \in DOMAIN new.at THEN f[Append(path, k)] ELSE old[k]])
    BY <1>2, Zenon DEF MergedAt, old, new
  <2>4. MergedAt(g, target, patch, path) =
          Obj([k \in DOMAIN old \cup DOMAIN new.at |-> IF k \in DOMAIN new.at THEN g[Append(path, k)] ELSE old[k]])
    BY <1>2, Zenon DEF MergedAt, old, new
  <2> QED BY <2>2, <2>3, <2>4
<1> QED BY <1>1, <1>2

\* There is such a merging: from the deepest places up.
LEMMA MergingExists ==
  ASSUME NEW target, NEW patch, IsPatch(patch)
  PROVE  MergedBy(Merging(target, patch), target, patch)
<1> DEFINE Deep(k) == {path \in Places : Len(path) + k >= MaxDepth}
           Merges(m, k) == m = [path \in Deep(k) |-> MergedAt(m, target, patch, path)]
           T == {k \in 0..MaxDepth : \E m : Merges(m, k)}
<1>0. MaxDepth \in Nat /\ \A path \in Places : Len(path) \in 0..MaxDepth
  BY DepthAssumption, PlacesFit
<1>1. 0 \in T
  <2> DEFINE h == [path \in Deep(0) |-> MergedAt(<< >>, target, patch, path)]
  <2>1. ASSUME NEW path \in Deep(0)
        PROVE  MergedAt(h, target, patch, path) = MergedAt(<< >>, target, patch, path)
    <3>1. path \in Places /\ Len(path) = MaxDepth
      BY <1>0
    <3>2. \A x \in Places : Len(x) # Len(path) + 1
      BY <1>0, <3>1
    <3> HIDE DEF h
    <3> QED BY <3>1, <3>2, MergedAtSame
  <2>2. Merges(h, 0)
    <3>1. \A path \in Deep(0) : h[path] = MergedAt(h, target, patch, path)
      BY <2>1
    <3>2. h = [path \in Deep(0) |-> h[path]]
      OBVIOUS
    <3> HIDE DEF h, Deep
    <3> QED BY <3>1, <3>2, Zenon
  <2> HIDE DEF h, Merges
  <2> QED BY <1>0, <2>2
<1>2. ASSUME NEW k \in 0..MaxDepth, k # MaxDepth, k \in T
      PROVE  k + 1 \in T
  <2>1. PICK g : Merges(g, k)
    BY <1>2
  <2> DEFINE h == [path \in Deep(k + 1) |-> IF path \in Deep(k) THEN g[path] ELSE MergedAt(g, target, patch, path)]
  <2>2. Deep(k) \subseteq Deep(k + 1) /\ Deep(k + 1) \subseteq Places /\ k + 1 \in 0..MaxDepth
    BY <1>0, <1>2
  <2>3. \A path \in Deep(k) : g[path] = MergedAt(g, target, patch, path)
    BY <2>1
  <2>4. \A path \in Deep(k + 1) : h[path] = MergedAt(g, target, patch, path)
    BY <2>3, Zenon
  <2>5. ASSUME NEW path \in Deep(k + 1)
        PROVE  MergedAt(h, target, patch, path) = MergedAt(g, target, patch, path)
    <3>1. \A x \in Places : Len(x) = Len(path) + 1 => x \in Deep(k) /\ x \in Deep(k + 1)
      BY <1>0, <1>2
    <3> HIDE DEF h, Deep
    <3>2. \A x \in Places : Len(x) = Len(path) + 1 => h[x] = g[x]
      BY <2>3, <2>4, <3>1
    <3> QED BY <2>2, <3>2, MergedAtSame
  <2>6. Merges(h, k + 1)
    <3>1. \A path \in Deep(k + 1) : h[path] = MergedAt(h, target, patch, path)
      BY <2>4, <2>5
    <3>2. h = [path \in Deep(k + 1) |-> h[path]]
      OBVIOUS
    <3> HIDE DEF h, Deep
    <3> QED BY <3>1, <3>2, Zenon
  <2> HIDE DEF h, Merges
  <2> QED BY <2>2, <2>6
<1>3. MaxDepth \in T
  <2>1. 0 \in Nat /\ MaxDepth \in 0..MaxDepth
    BY <1>0
  <2> HIDE DEF T
  <2>2. 0..MaxDepth \subseteq T
    BY <1>0, <1>1, <1>2, Upward
  <2> QED BY <2>1, <2>2
<1>4. PICK m : Merges(m, MaxDepth)
  BY <1>3
<1>5. Deep(MaxDepth) = Places
  BY <1>0
<1>6. MergedBy(m, target, patch)
  <2> HIDE DEF Deep
  <2> QED BY <1>4, <1>5, Zenon DEF MergedBy
<1> QED BY <1>6, Zenon DEF Merging

LEMMA Gets ==
  /\ \A at, k : /\ IsObj(Obj(at)) /\ Obj(at).at = at /\ Items(Obj(at)) = at
                /\ Get(Obj(at), k) = IF k \in DOMAIN at THEN at[k] ELSE Missing
  /\ \A v, k : ~IsObj(v) => Get(v, k) = Missing
  /\ ~IsObj(Missing) /\ Missing.kind = "missing"
BY DEF Get, Obj, IsObj, Items, Missing

\* What merging makes of a place.
MergedItems(target, patch, path) ==
  [k \in DOMAIN Items(At(target, path)) \cup DOMAIN At(patch, path).at |->
     IF k \in DOMAIN At(patch, path).at THEN Merging(target, patch)[Append(path, k)]
                                        ELSE Items(At(target, path))[k]]

LEMMA MergedPlace ==
  ASSUME NEW target, NEW patch, IsPatch(patch), NEW path \in Places
  PROVE  Merging(target, patch)[path] =
           IF IsObj(At(patch, path)) THEN Obj(MergedItems(target, patch, path)) ELSE At(patch, path)
<1>1. Merging(target, patch)[path] = MergedAt(Merging(target, patch), target, patch, path)
  BY MergingExists DEF MergedBy
<1> QED BY <1>1, Zenon DEF MergedAt, MergedItems

\* The first n steps along the path are to values of objects that the patch names.
Leads(patch, path, n) ==
  \A m \in 0..(n - 1) : IsObj(Walk(patch, path)[m]) /\ path[m + 1] \in DOMAIN Walk(patch, path)[m].at

LEMMA NextStart ==
  ASSUME NEW S, NEW path \in Seq(S), NEW n \in Nat, n < Len(path)
  PROVE  SubSeq(path, 1, n + 1) = Append(SubSeq(path, 1, n), path[n + 1])
OBVIOUS

\* There, what merging makes of the place is what is found.
LEMMA MergedThere ==
  ASSUME NEW target, NEW patch, IsPatch(patch), NEW S, NEW path \in Seq(S),
         NEW n \in 0..Len(path), Leads(patch, path, n)
  PROVE  /\ SubSeq(path, 1, n) \in Places
         /\ Walk(MergePatch(target, patch), path)[n] = Merging(target, patch)[SubSeq(path, 1, n)]
<1> DEFINE r == MergePatch(target, patch)
           merged == Merging(target, patch)
           start(i) == SubSeq(path, 1, i)
           T == {i \in 0..n : start(i) \in Places /\ Walk(r, path)[i] = merged[start(i)]}
<1>1. 0 \in T
  <2>1. start(0) = << >>
    OBVIOUS
  <2> HIDE DEF start
  <2>2. Walk(r, path)[0] = r /\ r = merged[<< >>]
    BY WalkSteps, MergePatchIsMerging
  <2> QED BY <2>1, <2>2, PlacesFit
<1>2. ASSUME NEW i \in 0..n, i # n, i \in T
      PROVE  i + 1 \in T
  <2> DEFINE x == At(patch, start(i))
             k == path[i + 1]
             all == MergedItems(target, patch, start(i))
  <2>1. i \in 0..(n - 1) /\ i \in Nat /\ i < Len(path) /\ i \in 0..Len(path) /\ i + 1 \in 1..Len(path)
        /\ i + 1 \in 0..n /\ (i + 1) - 1 = i
    BY <1>2
  <2>2. start(i) \in Places /\ Walk(r, path)[i] = merged[start(i)]
    BY <1>2
  <2>3. x = Walk(patch, path)[i]
    BY <2>1, AtStart
  <2>4. IsObj(x) /\ k \in DOMAIN x.at
    BY <2>1, <2>3 DEF Leads
  <2>5. Append(start(i), k) \in Places
    BY <2>2, <2>4, PatchPlaces
  <2>6. start(i + 1) = Append(start(i), k)
    BY <2>1, NextStart
  <2>7. merged[start(i)] = Obj(all)
    BY <2>2, <2>4, MergedPlace
  <2>8. Walk(r, path)[i + 1] = Get(Obj(all), k)
    BY <2>1, <2>2, <2>7, WalkSteps
  <2>9. Get(Obj(all), k) = all[k] /\ all[k] = merged[Append(start(i), k)]
    <3>1. k \in DOMAIN all /\ all[k] = merged[Append(start(i), k)]
      <4> HIDE DEF k, start
      <4> QED BY <2>4 DEF MergedItems
    <3> HIDE DEF all
    <3> QED BY <3>1, Gets
  <2> HIDE DEF start, all, k, r, merged
  <2> QED BY <2>1, <2>5, <2>6, <2>8, <2>9
<1>3. 0..n \subseteq T
  <2>1. 0 \in Nat /\ n \in Nat
    OBVIOUS
  <2> HIDE DEF T
  <2> QED BY <1>1, <1>2, <2>1, Upward
<1>4. n \in 0..n
  OBVIOUS
<1> QED BY <1>3, <1>4

LEMMA LeadsOn ==
  ASSUME NEW patch, NEW S, NEW path \in Seq(S), NEW k \in S, Leads(patch, path, Len(path)),
         IsObj(At(patch, path)), k \in DOMAIN At(patch, path).at
  PROVE  Leads(patch, Append(path, k), Len(Append(path, k)))
<1> DEFINE longer == Append(path, k)
           n == Len(path)
<1>1. /\ longer \in Seq(S) /\ Len(longer) = n + 1 /\ longer[n + 1] = k
      /\ \A i \in 1..n : longer[i] = path[i]
      /\ n \in Nat /\ n <= Len(path)
  OBVIOUS
<1>2. Walk(patch, path)[n] = At(patch, path)
  BY AtIsWalk
<1> HIDE DEF longer, n
<1>3. ASSUME NEW m \in 0..n
      PROVE  Walk(patch, longer)[m] = Walk(patch, path)[m]
  <2>1. m \in Nat /\ m <= Len(path) /\ m <= Len(longer) /\ \A i \in 1..m : path[i] = longer[i]
    BY <1>1 DEF n
  <2> QED BY <1>1, <2>1, WalksStart
<1>4. ASSUME NEW m \in 0..n
      PROVE  IsObj(Walk(patch, longer)[m]) /\ longer[m + 1] \in DOMAIN Walk(patch, longer)[m].at
  <2>1. CASE m = n
    BY <1>1, <1>2, <1>3, <2>1
  <2>2. CASE m # n
    <3>1. m \in 0..(Len(path) - 1) /\ m + 1 \in 1..n
      BY <1>1, <2>2 DEF n
    <3>2. IsObj(Walk(patch, path)[m]) /\ path[m + 1] \in DOMAIN Walk(patch, path)[m].at
      BY <3>1 DEF Leads
    <3> QED BY <1>1, <1>3, <3>1, <3>2
  <2> QED BY <2>1, <2>2
<1>5. Len(longer) - 1 = n
  BY <1>1
<1> QED BY <1>4, <1>5 DEF Leads, longer

\* Merging a patch once more changes nothing at a place that it names, if it changes nothing
\* below.
LEMMA MergedAgainAt ==
  ASSUME NEW target, NEW patch, IsPatch(patch), NEW path \in Places, Leads(patch, path, Len(path)),
         IsObj(At(patch, path)) => \A k \in DOMAIN At(patch, path).at :
           Merging(MergePatch(target, patch), patch)[Append(path, k)] = Merging(target, patch)[Append(path, k)]
  PROVE  Merging(MergePatch(target, patch), patch)[path] = Merging(target, patch)[path]
<1> DEFINE r == MergePatch(target, patch)
           x == At(patch, path)
           all == MergedItems(target, patch, path)
           again == MergedItems(r, patch, path)
<1>1. CASE ~IsObj(x)
  BY <1>1, MergedPlace
<1>2. CASE IsObj(x)
  <2>1. path \in Seq(Keys) /\ Len(path) \in 0..Len(path) /\ SubSeq(path, 1, Len(path)) = path
    <3>1. path \in Seq(Keys)
      BY PlacesFit
    <3> QED BY <3>1
  <2>2. At(r, path) = Merging(target, patch)[path]
    <3> DEFINE n == Len(path)
    <3>1. n \in 0..Len(path) /\ Leads(patch, path, n) /\ SubSeq(path, 1, n) = path
      BY <2>1
    <3>2. At(r, path) = Walk(r, path)[n]
      BY AtIsWalk
    <3> HIDE DEF n
    <3>3. Walk(r, path)[n] = Merging(target, patch)[SubSeq(path, 1, n)]
      BY <2>1, <3>1, MergedThere
    <3> QED BY <3>1, <3>2, <3>3
  <2>3. At(r, path) = Obj(all)
    BY <1>2, <2>2, MergedPlace
  <2>4. Items(At(r, path)) = all
    BY <2>3, Gets
  <2>5. again = [k \in DOMAIN all \cup DOMAIN x.at |->
                   IF k \in DOMAIN x.at THEN Merging(r, patch)[Append(path, k)] ELSE all[k]]
    BY <2>4, Zenon DEF MergedItems
  <2>6. /\ all = [k \in DOMAIN all |-> all[k]]
        /\ DOMAIN x.at \subseteq DOMAIN all
        /\ \A k \in DOMAIN x.at : all[k] = Merging(target, patch)[Append(path, k)]
    BY DEF MergedItems
  <2>7. \A k \in DOMAIN x.at : Merging(r, patch)[Append(path, k)] = all[k]
    BY <1>2, <2>6
  <2> HIDE DEF r, all, x
  <2>8. again = all
    BY <2>5, <2>6, <2>7
  <2>9. Merging(r, patch)[path] = Obj(again) /\ Merging(target, patch)[path] = Obj(all)
    BY <1>2, MergedPlace DEF x, all
  <2> QED BY <2>8, <2>9 DEF r
<1> QED BY <1>1, <1>2

\* What is validated after one merge is what is saved after two (DataToValidate, DataToSave).
LEMMA MergeTwice ==
  ASSUME NEW target, NEW patch, IsPatch(patch)
  PROVE  MergePatch(MergePatch(target, patch), patch) = MergePatch(target, patch)
<1> DEFINE r == MergePatch(target, patch)
           Same(path) == Merging(r, patch)[path] = Merging(target, patch)[path]
           Below(k) == \A path \in Places : Len(path) + k >= MaxDepth /\ Leads(patch, path, Len(path)) => Same(path)
           T == {k \in 0..MaxDepth : Below(k)}
<1>0. MaxDepth \in Nat /\ \A path \in Places : path \in Seq(Keys) /\ Len(path) \in 0..MaxDepth
  BY DepthAssumption, PlacesFit
<1>1. 0 \in T
  <2>1. ASSUME NEW path \in Places, Len(path) + 0 >= MaxDepth, Leads(patch, path, Len(path))
        PROVE  Same(path)
    <3>1. ~(Len(path) < MaxDepth)
      BY <1>0, <2>1
    <3>2. ~IsObj(At(patch, path))
      BY <3>1 DEF IsPatch
    <3> QED BY <2>1, <3>2, MergedAgainAt
  <2> QED BY <1>0, <2>1
<1>2. ASSUME NEW k \in 0..MaxDepth, k # MaxDepth, k \in T
      PROVE  k + 1 \in T
  <2>1. ASSUME NEW path \in Places, Len(path) + (k + 1) >= MaxDepth, Leads(patch, path, Len(path))
        PROVE  Same(path)
    <3>1. ASSUME IsObj(At(patch, path)), NEW key \in DOMAIN At(patch, path).at
          PROVE  Same(Append(path, key))
      <4>1. key \in Keys /\ Append(path, key) \in Places /\ Len(Append(path, key)) = Len(path) + 1
        BY <3>1, PatchPlaces
      <4>2. Leads(patch, Append(path, key), Len(Append(path, key)))
        BY <1>0, <2>1, <3>1, <4>1, LeadsOn
      <4>3. Len(Append(path, key)) + k >= MaxDepth
        BY <1>0, <2>1, <4>1
      <4> HIDE DEF Same
      <4> QED BY <1>2, <4>1, <4>2, <4>3
    <3> QED BY <2>1, <3>1, MergedAgainAt
  <2>2. k + 1 \in 0..MaxDepth
    BY <1>0, <1>2
  <2> HIDE DEF Same
  <2> QED BY <2>1, <2>2
<1>3. MaxDepth \in T
  <2>1. 0 \in Nat /\ MaxDepth \in 0..MaxDepth
    BY <1>0
  <2> HIDE DEF T
  <2>2. 0..MaxDepth \subseteq T
    BY <1>0, <1>1, <1>2, Upward
  <2> QED BY <2>1, <2>2
<1>4. Same(<< >>)
  <2>1. Leads(patch, << >>, Len(<< >>))
    BY DEF Leads
  <2>2. << >> \in Places /\ Len(<< >>) + MaxDepth >= MaxDepth
    BY <1>0, PlacesFit
  <2> HIDE DEF Same
  <2> QED BY <1>3, <2>1, <2>2, PlacesFit
<1> QED BY <1>4, MergePatchIsMerging

\* Nothing is found below what is not there.
LEMMA MissingBelow ==
  ASSUME NEW v, NEW S, NEW path \in Seq(S), NEW n \in 0..Len(path), Walk(v, path)[n] = Missing
  PROVE  \A i \in n..Len(path) : Walk(v, path)[i] = Missing
<1> DEFINE T == {i \in n..Len(path) : Walk(v, path)[i] = Missing}
<1>1. n \in T /\ n \in Nat /\ Len(path) \in Nat
  OBVIOUS
<1>2. ASSUME NEW i \in n..Len(path), i # Len(path), i \in T
      PROVE  i + 1 \in T
  <2>1. i + 1 \in 1..Len(path) /\ (i + 1) - 1 = i /\ i + 1 \in n..Len(path)
    BY <1>1, <1>2
  <2>2. Walk(v, path)[i + 1] = Get(Walk(v, path)[i], path[i + 1])
    BY <2>1, WalkSteps
  <2> QED BY <1>2, <2>1, <2>2, Gets
<1> HIDE DEF T
<1>3. n..Len(path) \subseteq T
  BY <1>1, <1>2, Upward
<1> QED BY <1>3 DEF T

LEMMA NamesWalk ==
  ASSUME NEW patch, NEW S, NEW path \in Seq(S)
  PROVE  Names(patch, path) <=> \E n \in 0..Len(path) : Walk(patch, path)[n].kind \notin {"object", "missing"}
BY AtStart DEF Names

\* What a patch leaves: where it leads, what is there is not missing.
LEMMA LeadsToValue ==
  ASSUME NEW patch, IsPatch(patch), patch.kind # "missing", NEW S, NEW path \in Seq(S),
         NEW n \in 0..Len(path), Leads(patch, path, n)
  PROVE  Walk(patch, path)[n].kind # "missing"
<1>1. CASE n = 0
  BY <1>1, WalkSteps
<1>2. CASE n # 0
  <2>1. /\ n - 1 \in 0..(n - 1) /\ n - 1 \in 0..Len(path) /\ n \in 1..Len(path) /\ (n - 1) + 1 = n
    BY <1>2
  <2>2. Leads(patch, path, n - 1)
    <3>1. \A m \in 0..((n - 1) - 1) : m \in 0..(n - 1)
      BY <1>2
    <3> QED BY <3>1 DEF Leads
  <2>3. SubSeq(path, 1, n - 1) \in Places
    BY <2>1, <2>2, MergedThere
  <2>4. Walk(patch, path)[n - 1] = At(patch, SubSeq(path, 1, n - 1))
    BY <2>1, AtStart
  <2>5. IsObj(Walk(patch, path)[n - 1]) /\ path[n] \in DOMAIN Walk(patch, path)[n - 1].at
    BY <2>1 DEF Leads
  <2>6. Walk(patch, path)[n] = Walk(patch, path)[n - 1].at[path[n]]
    <3>1. Walk(patch, path)[n] = Get(Walk(patch, path)[n - 1], path[n])
      BY <2>1, WalkSteps
    <3> QED BY <2>5, <3>1 DEF Get
  <2> QED BY <2>3, <2>4, <2>5, <2>6, PatchPlaces
<1> QED BY <1>1, <1>2

\* A patch changes what it names, and nothing else.
LEMMA MergeKeeps ==
  ASSUME NEW target, NEW patch, IsPatch(patch), patch.kind # "missing", NEW S, NEW path \in Seq(S)
  PROVE  LET r == MergePatch(target, patch) IN
         /\ Names(patch, path) => At(r, path) = At(patch, path)
         /\ ~Names(patch, path) /\ At(patch, path) = Missing => At(r, path) = At(target, path)
         /\ ~Names(patch, path) /\ At(patch, path) # Missing => IsObj(At(r, path))
<1> DEFINE r == MergePatch(target, patch)
           w == Walk(patch, path)
           size == Len(path)
           Ends == {n \in 0..size : ~(n < size /\ IsObj(w[n]) /\ path[n + 1] \in DOMAIN w[n].at)}
<1>0. size \in Nat /\ size \in 0..size
  OBVIOUS
<1>1. PICK n \in Ends : \A m \in Ends : n <= m
  <2>1. Ends \in SUBSET Nat /\ size \in Ends
    BY <1>0
  <2> HIDE DEF Ends
  <2> QED BY <2>1, LeastNat, Zenon
<1>2. n \in 0..size /\ ~(n < size /\ IsObj(w[n]) /\ path[n + 1] \in DOMAIN w[n].at)
  BY <1>1
<1>3. \A m \in 0..(n - 1) : m \in 0..size /\ m < size /\ IsObj(w[m]) /\ path[m + 1] \in DOMAIN w[m].at
  <2> SUFFICES ASSUME NEW m \in 0..(n - 1)
               PROVE  m \in 0..size /\ m < size /\ m \notin Ends
    OBVIOUS
  <2> QED BY <1>0, <1>1, <1>2
<1>4. Leads(patch, path, n)
  BY <1>3 DEF Leads
<1> DEFINE start == SubSeq(path, 1, n)
<1>5. start \in Places /\ Walk(r, path)[n] = Merging(target, patch)[start]
  BY <1>2, <1>4, MergedThere
<1>6. w[n] = At(patch, start) /\ Walk(target, path)[n] = At(target, start)
  BY <1>2, AtStart
<1>7. w[n].kind # "missing"
  BY <1>2, <1>4, LeadsToValue
<1>8. /\ At(r, path) = Walk(r, path)[size] /\ At(patch, path) = w[size] /\ At(target, path) = Walk(target, path)[size]
  BY AtIsWalk
<1>9. Names(patch, path) <=> \E m \in 0..size : w[m].kind \notin {"object", "missing"}
  BY NamesWalk
<1>10. CASE ~IsObj(w[n])
  <2>1. Names(patch, path)
    BY <1>2, <1>7, <1>9, <1>10 DEF IsObj
  <2>2. Walk(r, path)[n] = w[n]
    BY <1>5, <1>6, <1>10, MergedPlace
  <2>3. Walk(r, path)[size] = w[size]
    <3>1. n \in Nat /\ n <= size /\ size \in n..size
      BY <1>0, <1>2
    <3>2. \A i \in n..size : Walk(r, path)[i] = Walk(patch, path)[i]
      BY <2>2, <3>1, WalksMeet
    <3> QED BY <3>1, <3>2
  <2> QED BY <1>8, <2>1, <2>3
<1>11. CASE IsObj(w[n]) /\ n = size
  <2>1. Walk(r, path)[n] = Obj(MergedItems(target, patch, start))
    BY <1>5, <1>6, <1>11, MergedPlace
  <2>2. IsObj(At(r, path))
    BY <1>8, <1>11, <2>1, Gets
  <2>3. \A m \in 0..size : IsObj(w[m])
    BY <1>0, <1>3, <1>11
  <2>4. ~Names(patch, path)
    BY <1>9, <2>3 DEF IsObj
  <2>5. At(patch, path) # Missing
    BY <1>8, <1>11, Gets
  <2> QED BY <2>2, <2>4, <2>5
<1>12. CASE IsObj(w[n]) /\ n # size
  <2> DEFINE k == path[n + 1]
             all == MergedItems(target, patch, start)
  <2>1. /\ n + 1 \in 1..size /\ (n + 1) - 1 = n /\ n < size /\ n + 1 \in 0..size /\ n + 1 \in Nat
        /\ n + 1 <= size /\ size \in (n + 1)..size
    BY <1>0, <1>2, <1>12
  <2>2. k \notin DOMAIN w[n].at
    BY <1>2, <1>12, <2>1
  <2>3. w[n + 1] = Missing
    <3>1. w[n + 1] = Get(w[n], k)
      BY <2>1, WalkSteps
    <3> QED BY <2>2, <3>1 DEF Get
  <2>4. \A i \in (n + 1)..size : w[i] = Missing
    BY <2>1, <2>3, MissingBelow
  <2>5. ~Names(patch, path)
    <3>1. ASSUME NEW m \in 0..size
          PROVE  w[m].kind \in {"object", "missing"}
      <4>1. m \in 0..(n - 1) \/ m = n \/ m \in (n + 1)..size
        BY <1>2
      <4> QED BY <1>3, <1>12, <2>4, <4>1, Gets DEF IsObj
    <3> QED BY <1>9, <3>1
  <2>6. At(patch, path) = Missing
    BY <1>8, <2>1, <2>4
  <2>7. Walk(r, path)[n] = Obj(all)
    BY <1>5, <1>6, <1>12, MergedPlace
  <2>8. Get(Obj(all), k) = Get(At(target, start), k)
    <3>1. /\ k \in DOMAIN all <=> k \in DOMAIN Items(At(target, start))
          /\ k \in DOMAIN all => all[k] = Items(At(target, start))[k]
      BY <1>6, <2>2 DEF MergedItems
    <3> HIDE DEF all, start, k
    <3> QED BY <3>1, Gets DEF Get, Items
  <2>9. Walk(r, path)[n + 1] = Walk(target, path)[n + 1]
    <3>1. Walk(r, path)[n + 1] = Get(Walk(r, path)[n], k)
      BY <2>1, WalkSteps
    <3>2. Walk(target, path)[n + 1] = Get(Walk(target, path)[n], k)
      BY <2>1, WalkSteps
    <3> QED BY <1>6, <2>7, <2>8, <3>1, <3>2
  <2>10. \A i \in (n + 1)..size : Walk(r, path)[i] = Walk(target, path)[i]
    <3> DEFINE m == n + 1
    <3>1. m \in Nat /\ m <= size /\ Walk(r, path)[m] = Walk(target, path)[m]
      BY <2>1, <2>9
    <3> HIDE DEF m
    <3>2. \A i \in m..size : Walk(r, path)[i] = Walk(target, path)[i]
      <4> HIDE DEF r
      <4> QED BY <3>1, WalksMeet
    <3> QED BY <3>2 DEF m
  <2> QED BY <1>8, <2>1, <2>5, <2>6, <2>10
<1> QED BY <1>10, <1>11, <1>12

-----------------------------------------------------------------------------
(* What holds of records and requests. *)

Going(q) == q.pc \in {"valid", "saved"}

\* What a request that is being handled says, of records that are there.
BodyOK(q) ==
  /\ q.uuid \in Uuids /\ q.body \in Bodies /\ q.kind \in {"create", "put", "patch"}
  /\ q.base.start \in Days /\ q.base.version \in Nat /\ q.base.data \in Values
  /\ q.body.corrects \in {Absent, 0} \cup DOMAIN recs[q.uuid]

\* What it will save fits.
SaveFits(q) ==
  /\ Given(q.body.version, q.base.version) # 0
  /\ SchemaFits(TypeOf[q.uuid], Given(q.body.version, q.base.version), DataToSave(q.kind, q.base, q.body.data))
  /\ GeometryFits(TypeOf[q.uuid], q.body.geo)

\* What it has inserted is what it says, and was registered on a day until today.
InsertOK(q) ==
  /\ q.row.registered \in 1..today
  /\ q.row = Row(Given(q.body.version, q.base.version), DataToSave(q.kind, q.base, q.body.data),
                 Given(q.body.geo, FALSE), Given(q.body.start, q.base.start), q.row.registered,
                 Given(q.body.corrects, 0), Validated(q))

\* The uuid of a POST was free when it was validated.
KnownOK(q) == q.kind = "create" /\ (q.pc = "valid" \/ q.status = 500) => q.uuid \notin q.known

Statuses == {0, 200, 201, 302, 400, 404, 500}

RequestOK(q) ==
  /\ DOMAIN q = DOMAIN NoRequest
  /\ q.pc \in {"new", "valid", "saved", "done"} /\ q.status \in Statuses
  /\ Going(q) => BodyOK(q) /\ q.status = 0
  /\ q.pc = "saved" => InsertOK(q)
  /\ KnownOK(q)
  /\ Going(q) /\ Validated(q) => SaveFits(q)

RequestsOK == DOMAIN req = Requests /\ \A r \in Requests : RequestOK(req[r])

RowsOK ==
  /\ today \in Days /\ DOMAIN recs = Uuids
  /\ \A u \in Uuids : /\ \E S : recs[u] \in Seq(S)
                      /\ \A n \in DOMAIN recs[u] : RowOK(recs[u], n, today)

\* What a step does to the formal history of the days that are settled: nothing.
PastFixed ==
  \A u \in Uuids, d \in Days : DaySettled(u, d) =>
    /\ DaySettled(u, d)'
    /\ KeepMax(FilterForRegistrationDate(recs'[u], d)) = KeepMax(FilterForRegistrationDate(recs[u], d))

\* What is settled stays settled.
SettledStay == \A u \in Uuids, d \in Days : DaySettled(u, d) => DaySettled(u, d)'

RecordsInv == RowsOK /\ RequestsOK /\ SavedFits

-----------------------------------------------------------------------------
(* A record that is added, and what it does to the one before it. *)

Ended(row, start) == [row EXCEPT !.end = start]

LEMMA ClosedRows ==
  ASSUME NEW S, NEW rows \in Seq(S), NEW start
  PROVE  /\ \E X : Closed(rows, start) \in Seq(X)
         /\ Len(Closed(rows, start)) = Len(rows)
         /\ \A n \in 1..Len(rows) :
              Closed(rows, start)[n] = IF n = Len(rows) THEN Ended(rows[n], start) ELSE rows[n]
<1> DEFINE size == Len(rows)
           last == Ended(rows[size], start)
           all == [rows EXCEPT ![size] = last]
<1>1. CASE rows = << >>
  BY <1>1 DEF Closed
<1>2. CASE rows # << >>
  <2>1. Closed(rows, start) = all
    BY <1>2, Zenon DEF Closed, Ended
  <2> HIDE DEF last
  <2>2. size \in 1..size /\ size \in Nat
    BY <1>2
  <2>3. rows \in [1..size -> S \cup {last}]
    OBVIOUS
  <2>4. all \in [1..size -> S \cup {last}]
    BY <2>3
  <2>5. all \in Seq(S \cup {last}) /\ Len(all) = size
    BY <2>2, <2>4
  <2>6. \A n \in 1..size : all[n] = IF n = size THEN last ELSE rows[n]
    BY <2>3
  <2> HIDE DEF all
  <2>7. \A n \in 1..size : all[n] = IF n = size THEN Ended(rows[n], start) ELSE rows[n]
    BY <2>6 DEF last
  <2> QED BY <2>1, <2>5, <2>7
<1> QED BY <1>1, <1>2

Longer(rows, start, row) == Append(Closed(rows, start), row)

LEMMA AddedRow ==
  ASSUME NEW S, NEW rows \in Seq(S), NEW start, NEW row
  PROVE  /\ \E X : Longer(rows, start, row) \in Seq(X)
         /\ Len(Longer(rows, start, row)) = Len(rows) + 1
         /\ Longer(rows, start, row)[Len(rows) + 1] = row
         /\ \A n \in 1..Len(rows) : Longer(rows, start, row)[n] =
              IF n = Len(rows) THEN Ended(rows[n], start) ELSE rows[n]
<1> DEFINE old == Closed(rows, start)
<1>1. PICK X : old \in Seq(X)
  BY ClosedRows
<1>2. /\ Len(old) = Len(rows)
      /\ \A n \in 1..Len(rows) : old[n] = IF n = Len(rows) THEN Ended(rows[n], start) ELSE rows[n]
  BY ClosedRows
<1> HIDE DEF old
<1>3. old \in Seq(X \cup {row})
  BY <1>1
<1> DEFINE new == Append(old, row)
<1>4. /\ new \in Seq(X \cup {row}) /\ Len(new) = Len(old) + 1 /\ new[Len(old) + 1] = row
      /\ \A n \in 1..Len(old) : new[n] = old[n]
  BY <1>3
<1> HIDE DEF new
<1> QED BY <1>2, <1>4 DEF new, old, Longer

LEMMA ClosedRow ==
  ASSUME NEW row, NEW start, DOMAIN row = DOMAIN NoRow
  PROVE  LET new == Ended(row, start) IN
         /\ DOMAIN new = DOMAIN NoRow /\ new.end = start
         /\ new.version = row.version /\ new.data = row.data /\ new.geo = row.geo
         /\ new.start = row.start /\ new.registered = row.registered /\ new.corrects = row.corrects
         /\ new.checked = row.checked
BY DEF NoRow, Row, Ended

LEMMA RowFields ==
  ASSUME NEW version, NEW data, NEW geo, NEW start, NEW registered, NEW corrects, NEW checked
  PROVE  LET row == Row(version, data, geo, start, registered, corrects, checked) IN
         /\ DOMAIN row = DOMAIN NoRow /\ row.end = 0
         /\ row.version = version /\ row.data = data /\ row.geo = geo
         /\ row.start = start /\ row.registered = registered /\ row.corrects = corrects
         /\ row.checked = checked
BY DEF NoRow, Row

\* The rows of an object and a new one make rows of an object.
LEMMA RowAdded ==
  ASSUME NEW u \in Uuids, RowsOK, NEW row,
         DOMAIN row = DOMAIN NoRow, row.geo \in BOOLEAN, row.start \in Days, row.end = 0,
         row.checked \in BOOLEAN, row.version \in Nat, row.data \in Values,
         row.registered \in 1..today, row.corrects \in 0..Len(recs[u]),
         recs' = [recs EXCEPT ![u] = Append(Closed(@, row.start), row)], today' = today
  PROVE  /\ RowsOK'
         /\ \A x \in Uuids \ {u} : recs'[x] = recs[x]
         /\ \A x \in Uuids : DOMAIN recs[x] \subseteq DOMAIN recs'[x]
         /\ SavedFits /\ (row.checked => RowFits(u, row)) => SavedFits'
         /\ \A x \in Uuids, d \in Days : x # u \/ d < row.registered =>
              FilterForRegistrationDate(recs'[x], d) = FilterForRegistrationDate(recs[x], d)
<1> DEFINE rows == recs[u]
           start == row.start
           new == Longer(rows, start, row)
           size == Len(rows)
<1>1. PICK S : rows \in Seq(S)
  BY DEF RowsOK
<1>2. DOMAIN recs = Uuids /\ \A x \in Uuids : \A n \in DOMAIN recs[x] : RowOK(recs[x], n, today)
  BY DEF RowsOK
<1>3. recs' = [recs EXCEPT ![u] = new]
  BY Zenon DEF Longer
<1>4. size \in Nat /\ DOMAIN rows = 1..size
  BY <1>1
<1>5. /\ \E X : new \in Seq(X)
      /\ Len(new) = size + 1 /\ new[size + 1] = row
      /\ \A n \in 1..size : new[n] = IF n = size THEN Ended(rows[n], start) ELSE rows[n]
  <2> HIDE DEF rows, start
  <2> QED BY <1>1, AddedRow
<1> HIDE DEF new
<1>6. recs'[u] = new /\ (\A x \in Uuids \ {u} : recs'[x] = recs[x]) /\ DOMAIN recs' = Uuids
  BY <1>2, <1>3
<1>7. DOMAIN new = 1..(size + 1)
  <2>1. PICK X : new \in Seq(X)
    BY <1>5
  <2>2. DOMAIN new = 1..Len(new)
    BY <2>1
  <2> QED BY <1>5, <2>2
<1>8. ASSUME NEW n \in 1..size
      PROVE  /\ DOMAIN new[n] = DOMAIN NoRow /\ new[n].end = new[n + 1].start
             /\ new[n].version = rows[n].version /\ new[n].data = rows[n].data /\ new[n].geo = rows[n].geo
             /\ new[n].start = rows[n].start /\ new[n].registered = rows[n].registered
             /\ new[n].corrects = rows[n].corrects /\ new[n].checked = rows[n].checked
  <2>1. RowOK(rows, n, today)
    BY <1>2, <1>4
  <2>2. CASE n = size
    <3>1. new[n] = Ended(rows[n], start) /\ new[n + 1].start = start
      BY <1>4, <1>5, <2>2
    <3>2. DOMAIN rows[n] = DOMAIN NoRow
      BY <2>1 DEF RowOK
    <3> HIDE DEF rows, start
    <3> QED BY <3>1, <3>2, ClosedRow
  <2>3. CASE n # size
    <3>1. n \in 1..size /\ n + 1 \in 1..size /\ n < size
      BY <1>4, <2>3
    <3>2. new[n] = rows[n]
      BY <1>5, <2>3
    <3>3. new[n + 1].start = rows[n + 1].start
      <4>1. DOMAIN rows[n + 1] = DOMAIN NoRow
        BY <1>2, <1>4, <3>1 DEF RowOK
      <4>2. CASE n + 1 = size
        BY <1>5, <3>1, <4>1, <4>2, ClosedRow
      <4>3. CASE n + 1 # size
        BY <1>5, <3>1, <4>3
      <4> QED BY <4>2, <4>3
    <3> QED BY <2>1, <3>1, <3>2, <3>3 DEF RowOK
  <2> QED BY <2>2, <2>3
<1>9. ASSUME NEW n \in 1..(size + 1)
      PROVE  RowOK(new, n, today)
  <2>1. CASE n = size + 1
    <3>1. ~(n < Len(new)) /\ size \in Nat /\ n - 1 = size
      BY <1>4, <1>5, <2>1
    <3> QED BY <1>5, <2>1, <3>1 DEF RowOK
  <2>2. CASE n # size + 1
    <3>1. n \in 1..size /\ n < Len(new)
      BY <1>4, <1>5, <2>2
    <3>2. RowOK(rows, n, today)
      BY <1>2, <1>4, <3>1
    <3> QED BY <1>8, <3>1, <3>2 DEF RowOK
  <2> QED BY <2>1, <2>2
<1>10. RowsOK'
  <2>1. ASSUME NEW x \in Uuids
        PROVE  /\ \E X : recs'[x] \in Seq(X)
               /\ \A n \in DOMAIN recs'[x] : RowOK(recs'[x], n, today)
    <3>1. CASE x = u
      BY <1>5, <1>6, <1>7, <1>9, <3>1
    <3>2. CASE x # u
      BY <1>2, <1>6, <3>2 DEF RowsOK
    <3> QED BY <3>1, <3>2
  <2>2. (\A x \in Uuids : /\ \E X : recs[x] \in Seq(X)
                      /\ \A n \in DOMAIN recs[x] : RowOK(recs[x], n, today))'
    BY <2>1, Zenon
  <2> QED BY <1>6, <2>2 DEF RowsOK
<1>11. \A x \in Uuids : DOMAIN recs[x] \subseteq DOMAIN recs'[x]
  BY <1>4, <1>6, <1>7
<1>12. ASSUME SavedFits, row.checked => RowFits(u, row)
       PROVE  SavedFits'
  <2> SUFFICES ASSUME NEW x \in Uuids, NEW n \in DOMAIN recs'[x], recs'[x][n].checked
               PROVE  RowFits(x, recs'[x][n])
    BY DEF SavedFits
  <2>1. CASE x # u
    BY <1>6, <1>12, <2>1 DEF SavedFits
  <2>2. CASE x = u /\ n = size + 1
    BY <1>5, <1>6, <1>12, <2>2
  <2>3. CASE x = u /\ n # size + 1
    <3>1. n \in 1..size
      BY <1>4, <1>6, <1>7, <2>3
    <3>2. RowFits(u, rows[n])
      BY <1>4, <1>6, <1>8, <1>12, <2>3, <3>1 DEF SavedFits
    <3> QED BY <1>6, <1>8, <2>3, <3>1, <3>2 DEF RowFits
  <2> QED BY <2>1, <2>2, <2>3
<1>13. ASSUME NEW x \in Uuids, NEW d \in Days, x # u \/ d < row.registered
       PROVE  FilterForRegistrationDate(recs'[x], d) = FilterForRegistrationDate(recs[x], d)
  <2>1. CASE x # u
    BY <1>6, <2>1
  <2>2. CASE x = u
    <3>1. d \in Nat /\ today \in Nat /\ row.registered \in Nat /\ d < row.registered
      BY <1>13, <2>2, InitialAssumption DEF RowsOK, Days
    <3>2. \A n \in DOMAIN new : new[n].registered <= d => n \in 1..size
      BY <1>4, <1>5, <1>7, <3>1
    <3>3. \A n \in 1..size : n \in DOMAIN new /\ new[n].registered = rows[n].registered
      BY <1>4, <1>7, <1>8
    <3> QED BY <1>4, <1>6, <2>2, <3>2, <3>3 DEF FilterForRegistrationDate
  <2> QED BY <2>1, <2>2
<1> QED BY <1>6, <1>10, <1>11, <1>12, <1>13

-----------------------------------------------------------------------------
(* What is validated, and what is saved. *)

LEMMA EmptyPatch == IsPatch(EmptyObject) /\ EmptyObject.kind # "missing" /\ IsObj(EmptyObject) /\ EmptyObject.at = << >>
<1>1. IsObj(EmptyObject) /\ EmptyObject.at = << >> /\ EmptyObject.kind # "missing"
  BY DEF EmptyObject, Obj, IsObj
<1>2. ASSUME NEW path \in Places, IsObj(At(EmptyObject, path))
      PROVE  path = << >>
  <2>1. path \in Seq(Keys) /\ Len(path) \in Nat
    BY PlacesFit
  <2>2. CASE Len(path) # 0
    <3>1. 1 \in 1..Len(path) /\ 1 - 1 = 0 /\ 1 \in 0..Len(path) /\ Len(path) \in 1..Len(path)
      BY <2>1, <2>2
    <3>2. Walk(EmptyObject, path)[1] = Get(Walk(EmptyObject, path)[0], path[1])
      BY <2>1, <3>1, WalkSteps
    <3>3. Walk(EmptyObject, path)[1] = Missing
      BY <1>1, <2>1, <3>2, WalkSteps DEF Get
    <3>4. At(EmptyObject, path) = Missing
      BY <2>1, <3>1, <3>3, MissingBelow, AtIsWalk
    <3> QED BY <1>2, <3>4, Gets
  <2> QED BY <2>1, <2>2
<1>3. \A path \in Places : IsObj(At(EmptyObject, path)) =>
        /\ Len(path) < MaxDepth /\ DOMAIN At(EmptyObject, path).at \subseteq Keys
        /\ \A k \in DOMAIN At(EmptyObject, path).at : At(EmptyObject, path).at[k].kind # "missing"
  <2>1. At(EmptyObject, << >>) = EmptyObject
    BY AtSteps
  <2>2. Len(<< >>) = 0 /\ DOMAIN << >> = {}
    OBVIOUS
  <2> QED BY <1>1, <1>2, <2>1, <2>2, DepthAssumption
<1> QED BY <1>1, <1>3 DEF IsPatch

\* Merging nothing into an object leaves it as it is.
LEMMA MergeNothing ==
  ASSUME NEW old, IsObj(old), IsJson(old)
  PROVE  MergePatch(old, EmptyObject) = old
<1>1. old = Obj([k \in DOMAIN old.at |-> old.at[k]])
  BY DEF IsJson, IsObj
<1>2. At(old, << >>) = old /\ At(EmptyObject, << >>) = EmptyObject
  BY AtSteps
<1>3. DOMAIN EmptyObject.at = {} /\ IsObj(EmptyObject)
  BY EmptyPatch
<1>4. MergePatch(old, EmptyObject) = Obj(MergedItems(old, EmptyObject, << >>))
  BY <1>2, <1>3, MergedPlace, MergePatchIsMerging, EmptyPatch, PlacesFit
<1>5. Items(old) = old.at
  BY DEF Items
<1>6. MergedItems(old, EmptyObject, << >>) = [k \in DOMAIN old.at |-> old.at[k]]
  BY <1>2, <1>3, <1>5 DEF MergedItems
<1> QED BY <1>1, <1>4, <1>6

LEMMA BodyPatch ==
  ASSUME NEW b \in Bodies
  PROVE  IsPatch(Given(b.data, EmptyObject)) /\ Given(b.data, EmptyObject).kind # "missing"
BY BodiesAssumption, EmptyPatch DEF Given

\* A PATCH is saved as if it were merged once.
LEMMA SavedIsMerged ==
  ASSUME NEW b \in Bodies, NEW old
  PROVE  DataToSave("patch", old, b.data) = MergePatch(old.data, Given(b.data, EmptyObject))
<1>1. DataToSave("patch", old, b.data) = MergePatch(InMemory(old.data, b.data), Given(b.data, EmptyObject))
  BY DEF DataToSave
<1>2. CASE b.data # Absent /\ IsObj(b.data) /\ IsObj(old.data)
  <2>1. InMemory(old.data, b.data) = MergePatch(old.data, b.data) /\ Given(b.data, EmptyObject) = b.data
    BY <1>2 DEF InMemory, Given
  <2> QED BY <1>1, <1>2, <2>1, MergeTwice, BodyPatch
<1>3. CASE ~(b.data # Absent /\ IsObj(b.data) /\ IsObj(old.data))
  BY <1>1, <1>3, Zenon DEF InMemory
<1> QED BY <1>2, <1>3

\* What is saved is data.
LEMMA SavedIsData ==
  ASSUME NEW kind, NEW b \in Bodies, NEW old, old.data \in Values
  PROVE  DataToSave(kind, old, b.data) \in Values
<1>1. CASE kind = "patch"
  <2>1. DataToSave(kind, old, b.data) = MergePatch(old.data, Given(b.data, EmptyObject))
    BY <1>1, SavedIsMerged
  <2> QED BY <2>1, ValuesAssumption DEF Given
<1>2. CASE kind # "patch"
  BY <1>2, ValuesAssumption DEF DataToSave, Given
<1> QED BY <1>1, <1>2

\* It is saved as it was validated, and so is a PUT with data.
LEMMA SavedIsValidated ==
  ASSUME NEW kind \in {"put", "patch"}, NEW b \in Bodies, NEW old, IsJson(old.data),
         b.data = Absent => kind = "patch" /\ IsObj(old.data)
  PROVE  DataToSave(kind, old, b.data) = DataToValidate(kind, old, b.data)
<1>1. CASE kind = "put"
  <2>1. b.data # Absent
    BY <1>1
  <2> QED BY <1>1, <2>1 DEF DataToSave, DataToValidate, Given
<1>2. CASE kind = "patch"
  <2>1. DataToSave(kind, old, b.data) = MergePatch(old.data, Given(b.data, EmptyObject))
    BY <1>2, SavedIsMerged
  <2>2. DataToValidate(kind, old, b.data) = Patched(old.data, b.data)
    BY <1>2 DEF DataToValidate
  <2>3. CASE b.data = Absent
    <3>1. IsObj(old.data)
      BY <2>3
    <3> QED BY <2>1, <2>2, <2>3, <3>1, MergeNothing DEF Patched, Given
  <2>4. CASE b.data # Absent
    BY <2>1, <2>2, <2>4 DEF Patched, Given
  <2> QED BY <2>3, <2>4
<1> QED BY <1>1, <1>2

-----------------------------------------------------------------------------
(* Steps. *)

LEMMA InitRecords ==
  ASSUME Init
  PROVE  RecordsInv
<1>1. RowsOK
  <2>1. today = 1 /\ today \in Days
    BY InitialAssumption DEF Init, Days
  <2>2. DOMAIN recs = Uuids /\ \A u \in Uuids : /\ recs[u] \in Seq(Range(recs[u]))
                                               /\ \A n \in DOMAIN recs[u] : RowOK(recs[u], n, 1)
    BY InitialAssumption DEF Init
  <2> QED BY <2>1, <2>2 DEF RowsOK
<1>2. SavedFits
  BY InitialAssumption DEF Init, SavedFits
<1>3. RequestsOK
  <2>1. DOMAIN req = Requests /\ \A r \in Requests : req[r] = NoRequest
    BY DEF Init
  <2>2. RequestOK(NoRequest)
    BY DEF RequestOK, NoRequest, Going, KnownOK, Statuses
  <2> QED BY <2>1, <2>2 DEF RequestsOK
<1> QED BY <1>1, <1>2, <1>3 DEF RecordsInv

\* Requests that a step leaves alone stay as they were, as records are only added.
LEMMA RequestKept ==
  ASSUME NEW x \in Requests, RequestOK(req[x]), req'[x] = req[x], today' = today,
         \A u \in Uuids : DOMAIN recs[u] \subseteq DOMAIN recs'[u]
  PROVE  RequestOK(req[x])'
<1>1. BodyOK(req[x]) => BodyOK(req[x])'
  BY DEF BodyOK
<1>2. InsertOK(req[x]) => InsertOK(req[x])'
  BY DEF InsertOK, Validated
<1>3. KnownOK(req[x]) => KnownOK(req[x])'
  BY DEF KnownOK
<1>4. (SaveFits(req[x]) => SaveFits(req[x])') /\ (Validated(req[x])' <=> Validated(req[x]))
  BY DEF SaveFits, Validated
<1> QED BY <1>1, <1>2, <1>3, <1>4 DEF RequestOK, Going

\* A step of one request.
LEMMA OneRequest ==
  ASSUME RequestsOK, NEW r \in Requests, NEW new, req' = [req EXCEPT ![r] = new], today' = today,
         \A u \in Uuids : DOMAIN recs[u] \subseteq DOMAIN recs'[u], RequestOK(req[r])'
  PROVE  RequestsOK'
<1>1. DOMAIN req' = Requests /\ \A x \in Requests \ {r} : req'[x] = req[x]
  BY DEF RequestsOK
<1>2. \A x \in Requests \ {r} : RequestOK(req[x])'
  BY <1>1, RequestKept DEF RequestsOK
<1>3. \A x \in Requests : RequestOK(req[x])'
  BY <1>2
<1> QED BY <1>1, <1>3 DEF RequestsOK

LEMMA Later == \A d, day, other \in Nat : d < day /\ day <= other => d < other
OBVIOUS

\* What a request inserts is registered today, which is later than all that is settled.
LEMMA SettledStays ==
  ASSUME RowsOK, RequestsOK, NEW r \in Requests, NEW new, req' = [req EXCEPT ![r] = new], today' = today,
         new.pc = "saved" => new.row.registered = today
  PROVE  SettledStay
<1> SUFFICES ASSUME NEW u \in Uuids, NEW d \in Days, DaySettled(u, d)
             PROVE  DaySettled(u, d)'
  BY DEF SettledStay
<1>1. d < today /\ \A x \in Requests : req[x].pc = "saved" /\ req[x].uuid = u => d < req[x].row.registered
  BY DEF DaySettled, Pending
<1>2. req'[r] = new /\ \A x \in Requests \ {r} : req'[x] = req[x]
  BY DEF RequestsOK
<1>3. ASSUME NEW x \in Requests, req'[x].pc = "saved", req'[x].uuid = u
      PROVE  d < req'[x].row.registered
  BY <1>1, <1>2, <1>3
<1> QED BY <1>1, <1>3 DEF DaySettled, Pending

LEMMA Replied ==
  ASSUME RowsOK, RequestsOK, NEW r \in Requests, NEW status \in Statuses, Reply(r, status), today' = today
  PROVE  /\ \E new : req' = [req EXCEPT ![r] = new]
         /\ RequestOK(req[r])' /\ SettledStay
<1> DEFINE new == [NoRequest EXCEPT !.pc = "done", !.kind = @, !.status = status]
<1>1. req' = [req EXCEPT ![r] = new]
  BY Zenon DEF Reply
<1>2. DOMAIN new = DOMAIN NoRequest /\ new.pc = "done" /\ new.kind = "none" /\ new.status = status
  BY DEF NoRequest
<1> HIDE DEF new
<1>3. req'[r] = new
  BY <1>1 DEF RequestsOK
<1>4. RequestOK(req[r])'
  BY <1>2, <1>3 DEF RequestOK, KnownOK, Going
<1>5. SettledStay
  BY <1>1, <1>2, SettledStays
<1> QED BY <1>1, <1>4, <1>5

LEMMA SameRecords ==
  ASSUME RowsOK, UNCHANGED <<today, recs>>, SettledStay
  PROVE  RowsOK' /\ (SavedFits => SavedFits') /\ PastFixed /\ \A u \in Uuids : DOMAIN recs[u] \subseteq DOMAIN recs'[u]
BY DEF RowsOK, SavedFits, PastFixed, SettledStay

LEMMA LastRow ==
  ASSUME RowsOK, NEW u \in Uuids, recs[u] # << >>
  PROVE  /\ Len(recs[u]) \in DOMAIN recs[u] /\ Last(recs[u]) = recs[u][Len(recs[u])]
         /\ Last(recs[u]).start \in Days /\ Last(recs[u]).version \in Nat /\ Last(recs[u]).data \in Values
<1>1. PICK S : recs[u] \in Seq(S)
  BY DEF RowsOK
<1>2. Len(recs[u]) \in DOMAIN recs[u] /\ Last(recs[u]) = recs[u][Len(recs[u])]
  BY <1>1 DEF Last
<1> QED BY <1>2 DEF RowsOK, RowOK

LEMMA BeginCreateInv ==
  ASSUME RecordsInv, NEW r \in Requests, NEW u \in Uuids, NEW b \in Bodies, BeginCreate(r, u, b)
  PROVE  RecordsInv' /\ PastFixed
<1>1. RowsOK /\ RequestsOK
  BY DEF RecordsInv
<1>2. UNCHANGED <<today, recs>>
  BY DEF BeginCreate
<1>3. CASE CreateValid(u, b)
  <2> DEFINE new == [NoRequest EXCEPT !.pc = "valid", !.kind = "create", !.uuid = u, !.body = b,
                       !.since = today, !.known = {x \in Uuids : recs[x] # <<>>}]
  <2>1. req' = [req EXCEPT ![r] = new]
    BY <1>3 DEF BeginCreate
  <2>2. /\ DOMAIN new = DOMAIN NoRequest /\ new.pc = "valid" /\ new.kind = "create" /\ new.uuid = u
        /\ new.body = b /\ new.known = {x \in Uuids : recs[x] # <<>>} /\ new.base = NoRow /\ new.status = 0
    BY DEF NoRequest
  <2> HIDE DEF new
  <2>3. req'[r] = new
    BY <1>1, <2>1 DEF RequestsOK
  <2>4. /\ recs[u] = << >> /\ b.type # Absent /\ b.version # Absent /\ b.corrects \in {Absent, 0}
        /\ SchemaFits(b.type, b.version, Given(b.data, EmptyObject)) /\ GeometryFits(b.type, b.geo)
    BY <1>3 DEF CreateValid
  <2>5. b.type = TypeOf[u]
    BY <2>4 DEF BeginCreate
  <2>6. NoRow.start \in Days /\ NoRow.version \in Nat /\ NoRow.data \in Values
    BY InitialAssumption, ValuesAssumption DEF NoRow, Row, Days
  <2>7. BodyOK(req[r])'
    BY <1>2, <2>2, <2>3, <2>4, <2>6 DEF BodyOK
  <2>8. KnownOK(req[r])'
    BY <2>2, <2>3, <2>4 DEF KnownOK
  <2>9. Validated(req[r])' => SaveFits(req[r])'
    <3>1. Given(b.version, NoRow.version) = b.version
      BY <2>4 DEF Given
    <3>2. DataToSave("create", NoRow, b.data) = Given(b.data, EmptyObject)
      BY DEF DataToSave
    <3>3. Validated(req[r])' => b.version # 0
      BY <2>2, <2>3, <3>1 DEF Validated
    <3> QED BY <2>2, <2>3, <2>4, <2>5, <3>1, <3>2, <3>3 DEF SaveFits
  <2>10. RequestOK(req[r])'
    BY <2>2, <2>3, <2>7, <2>8, <2>9 DEF RequestOK, Statuses, Going
  <2>11. SettledStay
    BY <1>1, <1>2, <2>1, <2>2, SettledStays
  <2> QED BY <1>1, <1>2, <2>1, <2>10, <2>11, SameRecords, OneRequest DEF RecordsInv
<1>4. CASE ~CreateValid(u, b)
  <2>1. Reply(r, 400) /\ 400 \in Statuses
    BY <1>4 DEF BeginCreate, Statuses
  <2>2. (\E new : req' = [req EXCEPT ![r] = new]) /\ RequestOK(req[r])' /\ SettledStay
    BY <1>1, <1>2, <2>1, Replied
  <2> QED BY <1>1, <1>2, <2>2, SameRecords, OneRequest DEF RecordsInv
<1> QED BY <1>3, <1>4

LEMMA QueryStatuses ==
  \A date, registration, where, within :
    QueryStatus(date, registration, where, within) \in {200, 400, 500}
BY DEF QueryStatus

\* An update that its validation lets through.
Begun(r, kind, u, b, where) ==
  req' = [req EXCEPT ![r] =
            [NoRequest EXCEPT !.pc = "valid", !.kind = kind, !.uuid = u, !.body = b,
               !.where = where, !.base = Last(recs[u]), !.since = today]]

LEMMA UpdateCases ==
  ASSUME NEW r \in Requests, NEW kind, NEW u, NEW b, NEW where, BeginUpdate(r, kind, u, b, where)
  PROVE  \/ \E status \in Statuses : Reply(r, status)
         \/ UpdateValid(kind, u, b, Last(recs[u])) /\ Begun(r, kind, u, b, where)
<1> DEFINE status == QueryStatus(Absent, Absent, where, "anywhere")
           begun == Begun(r, kind, u, b, where)
           found == Found(Last(recs[u]), where)
           valid == UpdateValid(kind, u, b, Last(recs[u]))
<1>1. (CASE status # 200 -> Reply(r, status)
         [] status = 200 /\ ~found -> Reply(r, 404)
         [] status = 200 /\ found /\ ~valid -> Reply(r, 400)
         [] OTHER -> begun)
  BY Zenon DEF BeginUpdate, Begun
<1>2. status \in Statuses /\ 404 \in Statuses /\ 400 \in Statuses
  <2>1. QueryStatus(Absent, Absent, where, "anywhere") \in {200, 400, 500}
    BY QueryStatuses
  <2>2. status \in {200, 400, 500}
    BY <2>1
  <2> HIDE DEF status
  <2> QED BY <2>2 DEF Statuses
<1> HIDE DEF status, begun, found, valid
<1>3. Reply(r, status) \/ Reply(r, 404) \/ Reply(r, 400) \/ (valid /\ begun)
  BY <1>1, Zenon
<1> QED BY <1>2, <1>3, Zenon DEF begun, valid

LEMMA BeginUpdateInv ==
  ASSUME RecordsInv, NEW r \in Requests, NEW u \in Uuids, NEW b \in Bodies, NEW kind \in {"put", "patch"},
         NEW where, BeginUpdate(r, kind, u, b, where)
  PROVE  RecordsInv' /\ PastFixed
<1> DEFINE old == Last(recs[u])
<1>1. RowsOK /\ RequestsOK
  BY DEF RecordsInv
<1>2. UNCHANGED <<today, recs>> /\ recs[u] # << >>
  BY DEF BeginUpdate
<1>3. CASE \E status \in Statuses : Reply(r, status)
  <2>1. (\E new : req' = [req EXCEPT ![r] = new]) /\ RequestOK(req[r])' /\ SettledStay
    BY <1>1, <1>2, <1>3, Replied
  <2> QED BY <1>1, <1>2, <2>1, SameRecords, OneRequest DEF RecordsInv
<1>4. CASE UpdateValid(kind, u, b, old) /\ Begun(r, kind, u, b, where)
  <2> DEFINE new == [NoRequest EXCEPT !.pc = "valid", !.kind = kind, !.uuid = u, !.body = b,
                       !.where = where, !.base = old, !.since = today]
  <2>1. req' = [req EXCEPT ![r] = new]
    BY <1>4 DEF Begun
  <2>2. /\ DOMAIN new = DOMAIN NoRequest /\ new.pc = "valid" /\ new.kind = kind /\ new.uuid = u
        /\ new.body = b /\ new.base = old /\ new.status = 0
    BY DEF NoRequest
  <2> HIDE DEF new
  <2>3. req'[r] = new
    BY <1>1, <2>1 DEF RequestsOK
  <2>4. old.start \in Days /\ old.version \in Nat /\ old.data \in Values
    BY <1>1, <1>2, LastRow
  <2> HIDE DEF old
  <2>5. BodyOK(req[r])'
    BY <1>2, <1>4, <2>2, <2>3, <2>4 DEF BodyOK, UpdateValid
  <2>6. KnownOK(req[r])'
    BY <2>2, <2>3 DEF KnownOK
  <2>7. ASSUME Validated(req[r])'
        PROVE  SaveFits(req[r])'
    <3>1. /\ Given(b.version, old.version) # 0
          /\ b.data = Absent => kind = "patch" /\ IsObj(old.data)
      BY <2>2, <2>3, <2>7 DEF Validated
    <3>2. IsJson(old.data)
      <4>1. IsJson(At(old.data, << >>))
        BY <2>4, ValuesAssumption
      <4> QED BY <4>1, AtSteps
    <3>3. DataToSave(kind, old, b.data) = DataToValidate(kind, old, b.data)
      BY <3>1, <3>2, SavedIsValidated
    <3>4. /\ SchemaFits(TypeOf[u], Given(b.version, old.version), DataToValidate(kind, old, b.data))
          /\ GeometryFits(TypeOf[u], b.geo)
      BY <1>4 DEF UpdateValid
    <3> QED BY <2>2, <2>3, <3>1, <3>3, <3>4 DEF SaveFits
  <2>8. RequestOK(req[r])'
    BY <2>2, <2>3, <2>5, <2>6, <2>7 DEF RequestOK, Statuses, Going
  <2>9. SettledStay
    BY <1>1, <1>2, <2>1, <2>2, SettledStays
  <2> QED BY <1>1, <1>2, <2>1, <2>8, <2>9, SameRecords, OneRequest DEF RecordsInv
<1>5. \/ \E status \in Statuses : Reply(r, status)
      \/ UpdateValid(kind, u, b, Last(recs[u])) /\ Begun(r, kind, u, b, where)
  BY UpdateCases
<1> QED BY <1>3, <1>4, <1>5

LEMMA NewRowIs ==
  ASSUME NEW q
  PROVE  NewRow(q) = Row(Given(q.body.version, q.base.version),
                         DataToSave(q.kind, q.base, q.body.data), Given(q.body.geo, FALSE),
                         Given(q.body.start, q.base.start), today, Given(q.body.corrects, 0), Validated(q))
BY SMT DEF NewRow, RegistrationDay

LEMMA SaveInv ==
  ASSUME RecordsInv, NEW r \in Requests, Save(r)
  PROVE  RecordsInv' /\ PastFixed
<1> DEFINE q == req[r]
<1>1. RowsOK /\ RequestsOK /\ RequestOK(q)
  BY DEF RecordsInv, RequestsOK
<1>2. UNCHANGED <<today, recs>> /\ q.pc = "valid"
  BY DEF Save
<1>3. BodyOK(q) /\ KnownOK(q) /\ (Validated(q) => SaveFits(q)) /\ DOMAIN q = DOMAIN NoRequest
  BY <1>1, <1>2 DEF RequestOK, Going
<1>4. CASE req' = [req EXCEPT ![r] =
                     [NoRequest EXCEPT !.pc = "done", !.kind = q.kind, !.uuid = q.uuid,
                        !.known = q.known, !.status = 500]]
  <2> DEFINE new == [NoRequest EXCEPT !.pc = "done", !.kind = q.kind, !.uuid = q.uuid,
                        !.known = q.known, !.status = 500]
  <2>1. req' = [req EXCEPT ![r] = new]
    BY <1>4
  <2>2. /\ DOMAIN new = DOMAIN NoRequest /\ new.pc = "done" /\ new.kind = q.kind /\ new.uuid = q.uuid
        /\ new.known = q.known /\ new.status = 500
    BY DEF NoRequest
  <2> HIDE DEF new
  <2>3. req'[r] = new
    BY <1>1, <2>1 DEF RequestsOK
  <2>4. KnownOK(req[r])'
    BY <1>2, <1>3, <2>2, <2>3 DEF KnownOK
  <2>5. RequestOK(req[r])'
    BY <2>2, <2>3, <2>4 DEF RequestOK, Statuses, Going
  <2>6. SettledStay
    BY <1>1, <1>2, <2>1, <2>2, SettledStays
  <2> QED BY <1>1, <1>2, <2>1, <2>5, <2>6, SameRecords, OneRequest DEF RecordsInv
<1>5. CASE req' = [req EXCEPT ![r].pc = "saved", ![r].row = NewRow(q)]
  <2> DEFINE row == NewRow(q)
             new == [q EXCEPT !.pc = "saved", !.row = row]
  <2>1. req' = [req EXCEPT ![r] = new]
    <3>1. req' = [[req EXCEPT ![r] = [req[r] EXCEPT !.pc = "saved"]] EXCEPT ![r] =
                     [[req EXCEPT ![r] = [req[r] EXCEPT !.pc = "saved"]][r] EXCEPT !.row = row]]
      BY <1>5, Zenon
    <3> QED BY <1>1, <3>1 DEF RequestsOK
  <2>2. /\ DOMAIN new = DOMAIN NoRequest /\ new.pc = "saved" /\ new.row = row /\ new.kind = q.kind
        /\ new.uuid = q.uuid /\ new.body = q.body /\ new.base = q.base /\ new.status = q.status
        /\ new.known = q.known
    BY <1>3 DEF NoRequest
  <2> HIDE DEF new
  <2>3. req'[r] = new
    BY <1>1, <2>1 DEF RequestsOK
  <2>4. /\ row = Row(Given(q.body.version, q.base.version), DataToSave(q.kind, q.base, q.body.data),
                     Given(q.body.geo, FALSE), Given(q.body.start, q.base.start), today,
                     Given(q.body.corrects, 0), Validated(q))
        /\ row.registered = today
    <3>1. row = Row(Given(q.body.version, q.base.version), DataToSave(q.kind, q.base, q.body.data),
                    Given(q.body.geo, FALSE), Given(q.body.start, q.base.start), today,
                    Given(q.body.corrects, 0), Validated(q))
      BY NewRowIs
    <3>2. row.registered = today
      BY <3>1 DEF Row
    <3> QED BY <3>1, <3>2
  <2>5. today \in 1..today
    BY <1>1, InitialAssumption DEF RowsOK, Days
  <2> HIDE DEF row
  <2>6. InsertOK(req[r])' /\ (Validated(req[r])' <=> Validated(q))
    <3>1. Validated(req[r])' <=> Validated(q)
      BY <2>2, <2>3 DEF Validated
    <3>2. Validated(q) = Validated(req[r])'
      BY <3>1 DEF Validated
    <3> QED BY <1>2, <2>2, <2>3, <2>4, <2>5, <3>1, <3>2 DEF InsertOK
  <2>7. BodyOK(req[r])' /\ (Validated(req[r])' => SaveFits(req[r])')
    BY <1>2, <1>3, <2>2, <2>3, <2>6 DEF BodyOK, SaveFits
  <2>8. KnownOK(req[r])' /\ q.status = 0
    BY <1>1, <1>2, <2>2, <2>3 DEF KnownOK, RequestOK, Going
  <2>9. RequestOK(req[r])'
    BY <2>2, <2>3, <2>6, <2>7, <2>8 DEF RequestOK, Statuses, Going
  <2>10. SettledStay
    BY <1>1, <1>2, <2>1, <2>2, <2>4, SettledStays
  <2> QED BY <1>1, <1>2, <2>1, <2>9, <2>10, SameRecords, OneRequest DEF RecordsInv
<1> QED BY <1>4, <1>5, Zenon DEF Save

\* The row of a request that has been inserted.
LEMMA InsertedRow ==
  ASSUME RowsOK, NEW q, RequestOK(q), q.pc = "saved"
  PROVE  /\ q.uuid \in Uuids
         /\ DOMAIN q.row = DOMAIN NoRow /\ q.row.geo \in BOOLEAN /\ q.row.start \in Days /\ q.row.end = 0
         /\ q.row.registered \in 1..today /\ q.row.corrects \in 0..Len(recs[q.uuid])
         /\ q.row.checked \in BOOLEAN /\ q.row.version \in Nat /\ q.row.data \in Values
         /\ q.row.checked => RowFits(q.uuid, q.row)
<1> DEFINE b == q.body
           version == Given(b.version, q.base.version)
           data == DataToSave(q.kind, q.base, b.data)
           geo == Given(b.geo, FALSE)
           start == Given(b.start, q.base.start)
           registered == q.row.registered
           corrects == Given(b.corrects, 0)
           checked == Validated(q)
<1>1. BodyOK(q) /\ InsertOK(q) /\ (Validated(q) => SaveFits(q))
  BY DEF RequestOK, Going
<1>2. q.row = Row(version, data, geo, start, registered, corrects, checked)
  BY <1>1 DEF InsertOK
<1>3. registered \in 1..today
  BY <1>1 DEF InsertOK
<1>4. /\ q.uuid \in Uuids /\ b \in Bodies /\ q.base.start \in Days
      /\ q.base.version \in Nat /\ q.base.data \in Values /\ b.corrects \in {Absent, 0} \cup DOMAIN recs[q.uuid]
  BY <1>1 DEF BodyOK
<1>5. geo \in BOOLEAN /\ start \in Days /\ version \in Nat /\ data \in Values /\ checked \in BOOLEAN
  <2>1. data \in Values
    BY <1>4, SavedIsData
  <2>2. checked \in BOOLEAN
    BY DEF Validated
  <2> QED BY <1>4, <2>1, <2>2, BodiesAssumption DEF Given
<1>6. corrects \in 0..Len(recs[q.uuid])
  <2>1. PICK S : recs[q.uuid] \in Seq(S)
    BY <1>4 DEF RowsOK
  <2>2. Len(recs[q.uuid]) \in Nat /\ DOMAIN recs[q.uuid] = 1..Len(recs[q.uuid])
    BY <2>1
  <2> QED BY <1>4, <2>2 DEF Given
<1>7. /\ DOMAIN q.row = DOMAIN NoRow /\ q.row.end = 0 /\ q.row.version = version /\ q.row.data = data
      /\ q.row.geo = geo /\ q.row.start = start /\ q.row.corrects = corrects /\ q.row.checked = checked
  <2> HIDE DEF version, data, geo, start, registered, corrects, checked
  <2> QED BY <1>2 DEF Row, NoRow
<1>8. ASSUME q.row.checked
      PROVE  RowFits(q.uuid, q.row)
  <2>1. /\ version # 0 /\ SchemaFits(TypeOf[q.uuid], version, data) /\ GeometryFits(TypeOf[q.uuid], b.geo)
    BY <1>1, <1>7, <1>8 DEF SaveFits
  <2>2. geo => TypeOf[q.uuid] \in WithGeometry
    BY <2>1 DEF GeometryFits, Given
  <2> HIDE DEF version, data, geo
  <2> QED BY <1>7, <2>1, <2>2 DEF RowFits, SchemaFits
<1> QED BY <1>3, <1>4, <1>5, <1>6, <1>7, <1>8

LEMMA CommitInv ==
  ASSUME RecordsInv, NEW r \in Requests, Commit(r)
  PROVE  RecordsInv' /\ PastFixed
<1> DEFINE q == req[r]
           row == q.row
<1>1. RowsOK /\ RequestsOK /\ RequestOK(q) /\ SavedFits
  BY DEF RecordsInv, RequestsOK
<1>2. today' = today /\ q.pc = "saved"
  BY DEF Commit
<1>3. CASE Found(row, q.where)
  <2>1. /\ recs' = [recs EXCEPT ![q.uuid] = Append(Closed(@, row.start), row)]
        /\ Reply(r, IF q.kind = "create" THEN 201 ELSE 200)
    BY <1>3 DEF Commit
  <2>2. (IF q.kind = "create" THEN 201 ELSE 200) \in Statuses
    BY DEF Statuses
  <2>3. (\E new : req' = [req EXCEPT ![r] = new]) /\ RequestOK(req[r])' /\ SettledStay
    BY <1>1, <1>2, <2>1, <2>2, Replied
  <2>4. /\ q.uuid \in Uuids
        /\ DOMAIN row = DOMAIN NoRow /\ row.geo \in BOOLEAN /\ row.start \in Days /\ row.end = 0
        /\ row.registered \in 1..today /\ row.corrects \in 0..Len(recs[q.uuid])
        /\ row.checked \in BOOLEAN /\ row.version \in Nat /\ row.data \in Values
        /\ row.checked => RowFits(q.uuid, row)
    BY <1>1, <1>2, InsertedRow
  <2> HIDE DEF row
  <2>5. /\ RowsOK' /\ \A x \in Uuids : DOMAIN recs[x] \subseteq DOMAIN recs'[x]
        /\ SavedFits /\ (row.checked => RowFits(q.uuid, row)) => SavedFits'
        /\ \A x \in Uuids, d \in Days : x # q.uuid \/ d < row.registered =>
             FilterForRegistrationDate(recs'[x], d) = FilterForRegistrationDate(recs[x], d)
    BY <1>1, <1>2, <2>1, <2>4, RowAdded
  <2>6. RequestsOK'
    BY <1>1, <1>2, <2>3, <2>5, OneRequest
  <2>7. PastFixed
    <3> SUFFICES ASSUME NEW u \in Uuids, NEW d \in Days, DaySettled(u, d)
                 PROVE  /\ DaySettled(u, d)'
                        /\ FilterForRegistrationDate(recs'[u], d) = FilterForRegistrationDate(recs[u], d)
      BY DEF PastFixed
    <3>1. DaySettled(u, d)'
      BY <2>3 DEF SettledStay
    <3>2. u # q.uuid \/ d < row.registered
      BY <1>2 DEF DaySettled, Pending, row
    <3> QED BY <2>5, <3>1, <3>2
  <2> QED BY <1>1, <2>4, <2>5, <2>6, <2>7 DEF RecordsInv
<1>4. CASE ~Found(row, q.where)
  <2>1. Reply(r, 404) /\ 404 \in Statuses /\ recs' = recs
    BY <1>4 DEF Commit, Statuses
  <2>2. (\E new : req' = [req EXCEPT ![r] = new]) /\ RequestOK(req[r])' /\ SettledStay
    BY <1>1, <1>2, <2>1, Replied
  <2> QED BY <1>1, <1>2, <2>1, <2>2, SameRecords, OneRequest DEF RecordsInv
<1> QED BY <1>3, <1>4

LEMMA AdminAddInv ==
  ASSUME RecordsInv, NEW r \in Requests, NEW u \in Uuids, NEW b \in Bodies, AdminAdd(r, u, b)
  PROVE  RecordsInv' /\ PastFixed
<1> DEFINE q == [kind |-> "admin", uuid |-> u, body |-> b, base |-> NoRow, since |-> today]
           row == NewRow(q)
           corrected == {n \in DOMAIN recs[u] : \A m \in DOMAIN recs[u] : recs[u][m].corrects # n}
           valid == /\ b.data \notin {EmptyObject, Arr(<<>>)}
                    /\ SchemaFits(TypeOf[u], b.version, b.data)
                    /\ b.corrects \in {Absent, 0} \cup corrected
<1>1. RowsOK /\ RequestsOK /\ SavedFits
  BY DEF RecordsInv
<1>2. /\ today' = today
      /\ b.version # Absent /\ b.data # Absent /\ b.start # Absent
  BY DEF AdminAdd
<1>3. IF valid
      THEN recs' = [recs EXCEPT ![u] = Append(Closed(@, b.start), row)] /\ Reply(r, 302)
      ELSE Reply(r, 200) /\ recs' = recs
  BY Zenon DEF AdminAdd
<1>4. 302 \in Statuses /\ 200 \in Statuses
  BY DEF Statuses
<1>5. CASE valid
  <2> DEFINE version == Given(b.version, NoRow.version)
             data == DataToSave("admin", NoRow, b.data)
             geo == Given(b.geo, FALSE)
             start == Given(b.start, NoRow.start)
             corrects == Given(b.corrects, 0)
             checked == Validated(q)
  <2>1. row = Row(version, data, geo, start, today, corrects, checked)
    <3>1. /\ q.kind = "admin" /\ q.body = b /\ q.base = NoRow
      OBVIOUS
    <3> HIDE DEF q
    <3> QED BY <3>1, NewRowIs
  <2>2. /\ geo \in BOOLEAN /\ start \in Days /\ start = b.start /\ version = b.version /\ data = b.data
        /\ version \in Nat /\ data \in Values /\ checked \in BOOLEAN
    <3>1. checked \in BOOLEAN
      BY DEF Validated
    <3> HIDE DEF checked, q
    <3> QED BY <1>2, <3>1, BodiesAssumption, ValuesAssumption DEF Given, DataToSave
  <2>3. corrects \in 0..Len(recs[u])
    <3>1. PICK S : recs[u] \in Seq(S)
      BY <1>1 DEF RowsOK
    <3>2. Len(recs[u]) \in Nat /\ DOMAIN recs[u] = 1..Len(recs[u])
      BY <3>1
    <3> QED BY <1>5, <3>2 DEF Given
  <2>4. today \in 1..today
    BY <1>1, InitialAssumption DEF RowsOK, Days
  <2>5. ASSUME checked
        PROVE  b.version # 0 /\ SchemaFits(TypeOf[u], b.version, b.data) /\ (geo => TypeOf[u] \in WithGeometry)
    <3>1. /\ q.kind = "admin" /\ q.body = b /\ q.uuid = u
      OBVIOUS
    <3> HIDE DEF q
    <3> QED BY <1>2, <1>5, <2>5, <3>1 DEF Validated, GeometryFits, Given
  <2>6. recs' = [recs EXCEPT ![u] = Append(Closed(@, b.start), row)] /\ Reply(r, 302)
    BY <1>3, <1>5
  <2> HIDE DEF row, valid, version, data, geo, start, corrects, checked
  <2>7. /\ DOMAIN row = DOMAIN NoRow /\ row.end = 0 /\ row.version = version /\ row.data = data
        /\ row.geo = geo /\ row.start = start /\ row.registered = today /\ row.corrects = corrects
        /\ row.checked = checked
    BY <2>1 DEF Row, NoRow
  <2>8. recs' = [recs EXCEPT ![u] = Append(Closed(@, row.start), row)]
    BY <2>2, <2>6, <2>7
  <2>9. row.checked => RowFits(u, row)
    BY <2>2, <2>5, <2>7 DEF RowFits, SchemaFits
  <2>10. /\ RowsOK' /\ \A x \in Uuids : DOMAIN recs[x] \subseteq DOMAIN recs'[x]
         /\ SavedFits /\ (row.checked => RowFits(u, row)) => SavedFits'
         /\ \A x \in Uuids, d \in Days : x # u \/ d < row.registered =>
              FilterForRegistrationDate(recs'[x], d) = FilterForRegistrationDate(recs[x], d)
    BY <1>1, <1>2, <2>2, <2>3, <2>4, <2>7, <2>8, RowAdded
  <2>11. (\E new : req' = [req EXCEPT ![r] = new]) /\ RequestOK(req[r])' /\ SettledStay
    BY <1>1, <1>2, <1>4, <2>6, Replied
  <2>12. RequestsOK'
    BY <1>1, <1>2, <2>10, <2>11, OneRequest
  <2>13. PastFixed
    BY <2>7, <2>10, <2>11 DEF PastFixed, SettledStay, DaySettled
  <2> QED BY <1>1, <2>7, <2>9, <2>10, <2>12, <2>13 DEF RecordsInv
<1>6. CASE ~valid
  <2>1. Reply(r, 200) /\ recs' = recs
    BY <1>3, <1>6
  <2>2. (\E new : req' = [req EXCEPT ![r] = new]) /\ RequestOK(req[r])' /\ SettledStay
    BY <1>1, <1>2, <1>4, <2>1, Replied
  <2> QED BY <1>1, <1>2, <2>1, <2>2, SameRecords, OneRequest DEF RecordsInv
<1> QED BY <1>5, <1>6

LEMMA NextDayInv ==
  ASSUME RecordsInv, NextDay
  PROVE  RecordsInv' /\ PastFixed
<1>1. RowsOK /\ RequestsOK /\ SavedFits
  BY DEF RecordsInv
<1>2. today \in Nat /\ today' = today + 1 /\ today' \in Days /\ UNCHANGED <<recs, req>>
  BY <1>1, InitialAssumption DEF NextDay, RowsOK, Days
<1>3. \A rows, n : RowOK(rows, n, today) => RowOK(rows, n, today')
  BY <1>2 DEF RowOK
<1>4. RowsOK'
  BY <1>1, <1>2, <1>3 DEF RowsOK
<1>5. ASSUME NEW r \in Requests
      PROVE  RequestOK(req[r])'
  <2>1. RequestOK(req[r]) /\ req'[r] = req[r]
    BY <1>1, <1>2 DEF RequestsOK
  <2>2. BodyOK(req[r]) => BodyOK(req[r])'
    BY <1>2 DEF BodyOK
  <2>3. InsertOK(req[r]) /\ req[r].pc = "saved" => InsertOK(req[r])'
    <3>1. req[r] = req[r]' /\ today' = today + 1 /\ today \in Nat /\ (Validated(req[r])' = Validated(req[r]))
      BY <1>2, <2>1 DEF Validated
    <3>2. \A x \in 1..today : x \in 1..today'
      BY <3>1
    <3> QED BY <3>1, <3>2 DEF InsertOK
  <2>4. KnownOK(req[r]) => KnownOK(req[r])'
    BY <1>2 DEF KnownOK
  <2>5. (SaveFits(req[r]) => SaveFits(req[r])') /\ (Validated(req[r])' <=> Validated(req[r]))
    BY <1>2 DEF SaveFits, Validated
  <2> QED BY <2>1, <2>2, <2>3, <2>4, <2>5 DEF RequestOK, Going
<1>6. RequestsOK'
  BY <1>1, <1>2, <1>5 DEF RequestsOK
<1>7. SavedFits => SavedFits'
  BY <1>2 DEF SavedFits
<1>8. PastFixed
  <2>1. \A d \in Days : d \in Nat
    BY InitialAssumption DEF Days
  <2>2. \A d \in Days : d < today => d < today'
    BY <1>2, <2>1
  <2> QED BY <1>2, <2>2 DEF PastFixed, DaySettled, Pending
<1> QED BY <1>1, <1>4, <1>6, <1>7, <1>8 DEF RecordsInv

LEMMA RecordsNext ==
  ASSUME RecordsInv, [Next]_vars
  PROVE  RecordsInv' /\ PastFixed
<1>1. CASE NextDay
  BY <1>1, NextDayInv
<1>2. ASSUME NEW r \in Requests, Save(r)
      PROVE  RecordsInv' /\ PastFixed
  BY <1>2, SaveInv
<1>3. ASSUME NEW r \in Requests, Commit(r)
      PROVE  RecordsInv' /\ PastFixed
  BY <1>3, CommitInv
<1>4. ASSUME NEW r \in Requests, NEW u \in Uuids, NEW b \in Bodies, BeginCreate(r, u, b)
      PROVE  RecordsInv' /\ PastFixed
  BY <1>4, BeginCreateInv
<1>5. ASSUME NEW r \in Requests, NEW u \in Uuids, NEW b \in Bodies, NEW kind \in {"put", "patch"},
             NEW where \in Wheres, BeginUpdate(r, kind, u, b, where)
      PROVE  RecordsInv' /\ PastFixed
  BY <1>5, BeginUpdateInv
<1>6. ASSUME NEW r \in Requests, NEW u \in Uuids, NEW b \in Bodies, AdminAdd(r, u, b)
      PROVE  RecordsInv' /\ PastFixed
  BY <1>6, AdminAddInv
<1>7. CASE UNCHANGED vars
  <2>1. UNCHANGED <<today, recs>> /\ req' = req
    BY <1>7 DEF vars
  <2>2. RowsOK /\ RequestsOK /\ SavedFits
    BY DEF RecordsInv
  <2>0. SettledStay
    BY <2>1 DEF SettledStay, DaySettled, Pending
  <2>3. RowsOK' /\ (SavedFits => SavedFits') /\ PastFixed
    BY <2>0, <2>1, <2>2, SameRecords
  <2>4. RequestsOK'
    BY <2>1, <2>2, RequestKept DEF RequestsOK
  <2> QED BY <2>2, <2>3, <2>4 DEF RecordsInv
<1> QED BY <1>1, <1>2, <1>3, <1>4, <1>5, <1>6, <1>7 DEF Next

LEMMA AlwaysRecords == Spec => []RecordsInv
BY InitRecords, RecordsNext, PTL DEF Spec

-----------------------------------------------------------------------------
(* What follows of it. *)

\* The types of the variables, over the days, numbers and statuses that there are.
THEOREM RecordsTypeOK == Spec => []TypeOK
<1>1. RecordsInv => TypeOK
  <2> SUFFICES ASSUME RecordsInv
               PROVE  TypeOK
    OBVIOUS
  <2>1. RowsOK /\ RequestsOK
    BY DEF RecordsInv
  <2>2. ASSUME NEW u \in Uuids, NEW n \in DOMAIN recs[u]
        PROVE  /\ recs[u][n].start \in Days /\ recs[u][n].end \in Days \cup {0}
               /\ recs[u][n].registered \in 1..today /\ recs[u][n].corrects \in 0..(n - 1)
    <3>1. PICK S : recs[u] \in Seq(S)
      BY <2>1 DEF RowsOK
    <3>2. RowOK(recs[u], n, today) /\ DOMAIN recs[u] = 1..Len(recs[u]) /\ Len(recs[u]) \in Nat /\ n \in Nat
      BY <2>1, <3>1 DEF RowsOK
    <3>3. CASE n < Len(recs[u])
      <4>1. n + 1 \in DOMAIN recs[u] /\ recs[u][n].end = recs[u][n + 1].start
        BY <3>2, <3>3 DEF RowOK
      <4>2. recs[u][n + 1].start \in Days
        BY <2>1, <4>1 DEF RowsOK, RowOK
      <4> QED BY <3>2, <4>1, <4>2 DEF RowOK
    <3>4. CASE ~(n < Len(recs[u]))
      BY <3>2, <3>4 DEF RowOK
    <3> QED BY <3>3, <3>4
  <2>3. \A r \in Requests : req[r].status \in {0, 200, 201, 302, 400, 404, 500}
    BY <2>1 DEF RequestsOK, RequestOK, Statuses
  <2> QED BY <2>1, <2>2, <2>3 DEF TypeOK, RowsOK
<1> QED BY <1>1, AlwaysRecords, PTL

\* Every record that was validated fits the schema of the version that it names, and has
\* geometry only where its type allows that, whatever objects and patches there are, and
\* whatever was saved without validation before: check_objecttype sees what save() inserts.
THEOREM RecordsFit == Spec => []SavedFits
<1>1. RecordsInv => SavedFits
  BY DEF RecordsInv
<1> QED BY <1>1, AlwaysRecords, PTL

\* What registrationDate shows for a day that is settled never changes, by any request or
\* in the admin, and a transaction that is open at midnight unsettles no day but its own.
THEOREM PastStaysFixed == Spec => FormalPastFixed
<1>1. RecordsInv /\ [Next]_vars => PastFixed
  BY RecordsNext
<1>2. PastFixed <=> (\A u \in Uuids, d \in Days : DaySettled(u, d) =>
         /\ DaySettled(u, d)'
         /\ KeepMax(FilterForRegistrationDate(recs'[u], d)) = KeepMax(FilterForRegistrationDate(recs[u], d)))
  BY DEF PastFixed
<1>3. RecordsInv /\ [Next]_vars =>
        [\A u \in Uuids, d \in Days : DaySettled(u, d) =>
           /\ DaySettled(u, d)'
           /\ KeepMax(FilterForRegistrationDate(recs'[u], d)) = KeepMax(FilterForRegistrationDate(recs[u], d))]_vars
  BY <1>1, <1>2
<1> QED BY <1>3, AlwaysRecords, PTL DEF Spec, FormalPastFixed

\* A POST that fails on its uuid lost a race: when it was validated the uuid was free.
THEOREM UuidRace == Spec => []UuidErrorNeedsRace
<1>1. RecordsInv => UuidErrorNeedsRace
  BY DEF RecordsInv, RequestsOK, RequestOK, KnownOK, UuidErrorNeedsRace
<1> QED BY <1>1, AlwaysRecords, PTL

\* A PATCH merges the data and nothing but the data: what merge_patch does to the data in
\* memory, twice, is what the patch says at every path, however deep; geometry that the
\* patch does not have is gone.
THEOREM PatchChangesItsPaths == Spec => []PatchMergesData
<1>1. ASSUME RecordsInv, NEW r \in Requests, req[r].pc = "saved", req[r].kind = "patch"
      PROVE  LET q == req[r]
                 patch == Given(q.body.data, EmptyObject)
             IN  /\ \A path \in Paths :
                      CASE Names(patch, path) -> At(q.row.data, path) = At(patch, path)
                        [] ~Names(patch, path) /\ At(patch, path) = Missing ->
                             At(q.row.data, path) = At(q.base.data, path)
                        [] OTHER -> IsObj(At(q.row.data, path))
                 /\ q.body.version = Absent => q.row.version = q.base.version
                 /\ q.body.start = Absent => q.row.start = q.base.start
                 /\ q.row.geo = Given(q.body.geo, FALSE)
  <2> DEFINE q == req[r]
             patch == Given(q.body.data, EmptyObject)
  <2>1. RequestOK(q) /\ BodyOK(q) /\ InsertOK(q)
    BY <1>1 DEF RecordsInv, RequestsOK, RequestOK, Going
  <2>2. q.body \in Bodies
    BY <2>1 DEF BodyOK
  <2>3. /\ q.row.data = DataToSave("patch", q.base, q.body.data)
        /\ q.row.version = Given(q.body.version, q.base.version)
        /\ q.row.start = Given(q.body.start, q.base.start)
        /\ q.row.geo = Given(q.body.geo, FALSE)
    <3> DEFINE version == Given(q.body.version, q.base.version)
               data == DataToSave("patch", q.base, q.body.data)
               geo == Given(q.body.geo, FALSE)
               start == Given(q.body.start, q.base.start)
               registered == q.row.registered
               corrects == Given(q.body.corrects, 0)
               checked == Validated(q)
    <3>1. q.row = Row(version, data, geo, start, registered, corrects, checked)
      BY <1>1, <2>1 DEF InsertOK
    <3> HIDE DEF version, data, geo, start, registered, corrects, checked
    <3>2. q.row.data = data /\ q.row.version = version /\ q.row.start = start /\ q.row.geo = geo
      BY <3>1 DEF Row
    <3> QED BY <3>2 DEF version, data, start, geo
  <2>4. q.row.data = MergePatch(q.base.data, patch)
    BY <2>2, <2>3, SavedIsMerged
  <2>5. IsPatch(patch) /\ patch.kind # "missing"
    BY <2>2, BodyPatch
  <2>6. /\ q.body.version = Absent => q.row.version = q.base.version
        /\ q.body.start = Absent => q.row.start = q.base.start
        /\ q.row.geo = Given(q.body.geo, FALSE)
    BY <2>3 DEF Given
  <2>7. ASSUME NEW path \in Paths
        PROVE  CASE Names(patch, path) -> At(q.row.data, path) = At(patch, path)
                 [] ~Names(patch, path) /\ At(patch, path) = Missing ->
                      At(q.row.data, path) = At(q.base.data, path)
                 [] OTHER -> IsObj(At(q.row.data, path))
    <3> DEFINE names == Names(patch, path)
               there == At(patch, path) = Missing
               new == At(q.row.data, path) = At(patch, path)
               old == At(q.row.data, path) = At(q.base.data, path)
               object == IsObj(At(q.row.data, path))
    <3>1. path \in Seq(Keys)
      BY FitsAssumption
    <3>2. (names => new) /\ (~names /\ there => old) /\ (~names /\ ~there => object)
      <4> HIDE DEF patch
      <4> QED BY <2>4, <2>5, <3>1, MergeKeeps
    <3> HIDE DEF names, there, new, old, object
    <3>3. (CASE names -> new [] ~names /\ there -> old [] OTHER -> object)
      <4>1. CASE names
        BY <3>2, <4>1
      <4>2. CASE ~names /\ there
        BY <3>2, <4>2
      <4>3. CASE ~names /\ ~there
        BY <3>2, <4>3
      <4> QED BY <4>1, <4>2, <4>3
    <3> QED BY <3>3, Zenon DEF names, there, new, old, object
  <2> QED BY <2>6, <2>7, Zenon
<1>2. RecordsInv => PatchMergesData
  BY <1>1, Zenon DEF PatchMergesData
<1> QED BY <1>2, AlwaysRecords, PTL

\* What a list or a search shows of an object is what a retrieve shows for the same days:
\* filter_queryset looks for the record before it filters on the data.
THEOREM ListedIsRetrieved == Spec => []FoundIsShown
<1>1. FoundIsShown
  <2> SUFFICES ASSUME NEW date \in Days \cup {Absent}, NEW registration \in Days \cup {Absent},
                      NEW where \in Wheres, NEW within \in {"anywhere", "inside"},
                      NEW p \in Listed(date, registration, where, within)
               PROVE  p[2] \in Retrieved(p[1], date, registration)
    BY DEF FoundIsShown
  <2>0. PICK u \in Uuids : \E n \in FilterQueryset(recs[u], date, registration, where) : p = <<u, n>>
    BY DEF Listed
  <2>1. PICK n \in FilterQueryset(recs[u], date, registration, where) : p = <<u, n>>
    BY <2>0
  <2>2. n \in KeepMax(Actual(recs[u], date, registration))
    BY DEF FilterQueryset
  <2>3. Found(recs[u][n], << >>)
    BY DEF Found
  <2> QED BY <2>1, <2>2, <2>3 DEF Retrieved, FilterQueryset
<1> QED BY <1>1, PTL

\* The place of a kind in the order of jsonb.
LEMMA Ranks ==
  ASSUME NEW v, v.kind \in {"null", "string", "number", "array", "object"}
  PROVE  /\ Rank(v) \in {1, 2, 3, 4, 5}
         /\ v.kind = "number" <=> Rank(v) = 3
<1>1. DOMAIN KindOrder = {1, 2, 3, 4, 5}
  BY DEF KindOrder
<1>2. /\ KindOrder[1] = "null" /\ KindOrder[2] = "string" /\ KindOrder[3] = "number"
      /\ KindOrder[4] = "array" /\ KindOrder[5] = "object"
  BY DEF KindOrder
<1>3. \E n \in DOMAIN KindOrder : KindOrder[n] = v.kind
  BY <1>1, <1>2
<1>4. Rank(v) \in DOMAIN KindOrder /\ KindOrder[Rank(v)] = v.kind
  BY <1>3 DEF Rank
<1> QED BY <1>1, <1>2, <1>4

\* A value is less than a number, is it, or is greater.
LEMMA NumbersInOrder ==
  ASSUME NEW v, NEW w, IsJson(v), v # Missing, IsJson(w), w.kind = "number"
  PROVE  /\ ~Less(v, w, Order) <=> (Less(w, v, Order) \/ v = w)
         /\ ~Less(w, v, Order) <=> (Less(v, w, Order) \/ v = w)
         /\ ~(Less(w, v, Order) /\ Less(v, w, Order))
<1>1. w = Number(w.n) /\ w.n \in Int
  BY DEF IsJson
<1>2. v.kind \in {"null", "string", "number", "array", "object"}
  BY DEF IsJson, Null, Missing
<1>3. Rank(w) = 3 /\ Rank(v) \in {1, 2, 3, 4, 5} /\ (v.kind = "number" <=> Rank(v) = 3)
  BY <1>2, Ranks
<1>4. CASE v.kind = "number"
  <2>1. v = Number(v.n) /\ v.n \in Int
    BY <1>4 DEF IsJson
  <2>2. v = w <=> v.n = w.n
    BY <1>1, <2>1
  <2>3. (Less(v, w, Order) <=> v.n < w.n) /\ (Less(w, v, Order) <=> w.n < v.n)
    BY <1>3, <1>4 DEF Less
  <2> QED BY <1>1, <2>1, <2>2, <2>3
<1>5. CASE v.kind # "number"
  <2>1. v # w
    BY <1>5
  <2>2. (Less(v, w, Order) <=> Rank(v) < Rank(w)) /\ (Less(w, v, Order) <=> Rank(w) < Rank(v))
    BY <1>3, <1>5 DEF Less
  <2> QED BY <1>3, <1>5, <2>1, <2>2
<1> QED BY <1>4, <1>5

\* The operators of data_attr agree with each other on every record there will be, whatever
\* the data: gte is gt or equal, lte is lt or equal, and one of the three holds.
THEOREM OperatorsAlwaysAgree == Spec => []OperatorsAgree
<1>1. ASSUME RecordsInv
      PROVE  OperatorsAgree
  <2> SUFFICES ASSUME NEW u \in Uuids, NEW n \in DOMAIN recs[u], NEW path \in Paths, NEW t \in DOMAIN Reads,
                      At(recs[u][n].data, path) # Missing, StringToValue(t, Reads).kind = "number"
               PROVE  LET data == recs[u][n].data
                          Is(op) == Matches(Expr(path, op, <<t>>), data, Reads, Order, Holds)
                          equal  == At(data, path) = StringToValue(t, Reads)
                      IN  /\ Is("exact") <=> (equal \/ At(data, path) = Str(t))
                          /\ Is("gte") <=> (Is("gt") \/ equal)
                          /\ Is("lte") <=> (Is("lt") \/ equal)
                          /\ ~(Is("gt") /\ Is("lt"))
                          /\ Is("gt") \/ Is("lt") \/ equal
                          /\ Is("in") => Is("exact")
    BY DEF OperatorsAgree
  <2> DEFINE data == recs[u][n].data
             Is(op) == Matches(Expr(path, op, <<t>>), data, Reads, Order, Holds)
             v == At(data, path)
             w == StringToValue(t, Reads)
  <2>1. IsJson(v) /\ IsJson(w)
    <3>1. data \in Values
      BY <1>1 DEF RecordsInv, RowsOK, RowOK
    <3> QED BY <3>1, ValuesAssumption, ReadsAssumption
  <2>2. /\ ~Less(v, w, Order) <=> (Less(w, v, Order) \/ v = w)
        /\ ~Less(w, v, Order) <=> (Less(v, w, Order) \/ v = w)
        /\ ~(Less(w, v, Order) /\ Less(v, w, Order))
    <3> HIDE DEF v, w
    <3> QED BY <2>1, NumbersInOrder DEF v, w
  <2>3. \A op : LET e == Expr(path, op, <<t>>) IN
          e.key = path /\ e.op = op /\ e.texts = <<t>> /\ Head(e.texts) = t
    BY DEF Expr
  <2>4. ToSet(<<t>>) = {t}
    BY DEF ToSet
  <2>5. /\ Is("exact") <=> (v = w \/ v = Str(t))
        /\ Is("in") <=> v = Str(t)
        /\ Is("gt") <=> Less(w, v, Order)
        /\ Is("gte") <=> ~Less(v, w, Order)
        /\ Is("lt") <=> Less(v, w, Order)
        /\ Is("lte") <=> ~Less(w, v, Order)
    <3>1. Is("exact") <=> (v = w \/ v = Str(t))
      BY <2>3 DEF Matches
    <3>2. Is("in") <=> v = Str(t)
      BY <2>3, <2>4 DEF Matches
    <3>3. Is("gt") <=> Less(w, v, Order)
      BY <2>3 DEF Matches
    <3>4. Is("gte") <=> ~Less(v, w, Order)
      BY <2>3 DEF Matches
    <3>5. Is("lt") <=> Less(v, w, Order)
      BY <2>3 DEF Matches
    <3>6. Is("lte") <=> ~Less(w, v, Order)
      BY <2>3 DEF Matches
    <3> QED BY <3>1, <3>2, <3>3, <3>4, <3>5, <3>6
  <2> HIDE DEF Is, v, w
  <2>6. /\ Is("exact") <=> (v = w \/ v = Str(t))
        /\ Is("gte") <=> (Is("gt") \/ v = w)
        /\ Is("lte") <=> (Is("lt") \/ v = w)
        /\ ~(Is("gt") /\ Is("lt"))
        /\ Is("gt") \/ Is("lt") \/ v = w
        /\ Is("in") => Is("exact")
    BY <2>2, <2>5
  <2> QED BY <2>6, Zenon DEF Is, v, w
<1> QED BY <1>1, AlwaysRecords, PTL

\* When the starts do not go back, a record that is shown for today and does not end today
\* is the last one.
LEMMA OneForToday ==
  ASSUME RowsOK, NEW u \in Uuids,
         \A i \in DOMAIN recs[u] : i > 1 => recs[u][i - 1].start <= recs[u][i].start,
         NEW n \in FilterForDate(recs[u], today), NEW m \in FilterForDate(recs[u], today),
         recs[u][n].end # today
  PROVE  ~(n < m)
<1> DEFINE rows == recs[u]
<1>1. SUFFICES ASSUME n < m
               PROVE  FALSE
  OBVIOUS
<1>2. PICK S : rows \in Seq(S)
  BY DEF RowsOK
<1>3. /\ Len(rows) \in Nat /\ DOMAIN rows = 1..Len(rows) /\ today \in Nat
      /\ n \in 1..Len(rows) /\ m \in 1..Len(rows)
  BY <1>2, InitialAssumption DEF RowsOK, Days, FilterForDate
<1>4. \A i \in 1..Len(rows) : rows[i].start \in Nat /\ rows[i].start # 0
  BY <1>3, InitialAssumption DEF RowsOK, RowOK, Days
<1>5. rows[n].end = rows[n + 1].start /\ n + 1 \in 1..Len(rows)
  BY <1>1, <1>3 DEF RowsOK, RowOK
<1> DEFINE T == {i \in (n + 1)..m : rows[n + 1].start <= rows[i].start}
<1>6. (n + 1)..m \subseteq T
  <2>1. n + 1 \in T /\ n + 1 \in Nat /\ m \in Nat
    BY <1>1, <1>3, <1>4, <1>5
  <2>2. ASSUME NEW i \in (n + 1)..m, i # m, i \in T
        PROVE  i + 1 \in T
    <3>1. i + 1 \in (n + 1)..m /\ i + 1 \in 1..Len(rows) /\ i + 1 > 1 /\ (i + 1) - 1 = i /\ i \in 1..Len(rows)
      BY <1>3, <2>2
    <3>2. rows[i].start <= rows[i + 1].start
      BY <1>3, <3>1
    <3>3. rows[n + 1].start <= rows[i].start
      BY <2>2
    <3> QED BY <1>4, <1>5, <3>1, <3>2, <3>3
  <2> HIDE DEF T
  <2> QED BY <2>1, <2>2, Upward
<1>7. rows[n + 1].start <= rows[m].start
  BY <1>1, <1>3, <1>6
<1>8. rows[m].start <= today /\ (rows[n].end = 0 \/ today <= rows[n].end) /\ rows[n].end # today
  BY <1>3 DEF FilterForDate
<1> QED BY <1>3, <1>4, <1>5, <1>7, <1>8

\* The record that the admin shows is the one that the API shows, or one that ends today,
\* however many records there are.
THEOREM AdminShowsTheSame == Spec => []CurrentIsShown
<1>1. ASSUME RecordsInv
      PROVE  CurrentIsShown
  <2> SUFFICES ASSUME NEW u \in Uuids,
                      \A n \in DOMAIN recs[u] : n > 1 => recs[u][n - 1].start <= recs[u][n].start,
                      NEW n \in CurrentRecord(recs[u]), recs[u][n].end # today
               PROVE  n \in Retrieved(u, Absent, Absent)
    BY DEF CurrentIsShown
  <2> DEFINE found == FilterForDate(recs[u], today)
  <2>1. n \in found
    BY DEF CurrentRecord
  <2>2. \A m \in found : ~(n < m)
    BY <1>1, <2>1, OneForToday DEF RecordsInv
  <2>3. found \subseteq Nat
    <3>1. PICK S : recs[u] \in Seq(S)
      BY <1>1 DEF RecordsInv, RowsOK
    <3>2. DOMAIN recs[u] \subseteq Nat
      BY <3>1
    <3> QED BY <3>2 DEF FilterForDate
  <2>4. Actual(recs[u], Absent, Absent) = found
    BY DEF Actual
  <2>5. Found(recs[u][n], << >>)
    BY DEF Found
  <2> HIDE DEF found
  <2>6. n \in KeepMax(found)
    <3>1. \A m \in found : m <= n
      BY <2>1, <2>2, <2>3
    <3> QED BY <2>1, <3>1 DEF KeepMax
  <2> QED BY <2>4, <2>5, <2>6 DEF Retrieved, FilterQueryset
<1> QED BY <1>1, AlwaysRecords, PTL

-----------------------------------------------------------------------------
(* Records are the entries of a history. *)

EntriesOf(u, rows) == [n \in DOMAIN rows |-> Said(u, rows[n])]
StateOf(rows)      == IF rows = <<>> THEN "unborn" ELSE "live"

\* A row that is right for its object, if it was validated, says what an entry may say.
LEMMA SaidIsEntry ==
  ASSUME NEW u \in Uuids, NEW rows, NEW n \in Nat, NEW day \in Days, RowOK(rows, n, day),
         rows[n].checked => RowFits(u, rows[n])
  PROVE  Said(u, rows[n]) \in Entry
<1> DEFINE row == rows[n]
<1>1. TypeOf[u] \in Types
  BY FitsAssumption
<1>2. /\ row.geo \in BOOLEAN /\ row.start \in Days /\ row.registered \in 1..day /\ row.corrects \in 0..(n - 1)
      /\ row.checked \in BOOLEAN /\ row.version \in Nat /\ row.data \in Values
  BY DEF RowOK
<1>3. row.registered \in Days /\ row.corrects \in Nat
  BY <1>2, InitialAssumption DEF Days
<1>4. row.checked => /\ row.version \in DOMAIN Fits[TypeOf[u]] /\ row.data \in Fits[TypeOf[u]][row.version]
                     /\ row.geo => TypeOf[u] \in WithGeometry
  BY DEF RowFits
<1> HIDE DEF row
<1>6. Said(u, row) \in Entry
  BY <1>1, <1>2, <1>3, <1>4 DEF Said, Entry
<1> QED BY <1>6 DEF row

LEMMA EntriesFit ==
  ASSUME RowsOK, SavedFits, NEW u \in Uuids
  PROVE  /\ EntriesOf(u, recs[u]) \in Seq(Entry)
         /\ Len(EntriesOf(u, recs[u])) = Len(recs[u])
<1>1. PICK S : recs[u] \in Seq(S)
  BY DEF RowsOK
<1>2. Len(recs[u]) \in Nat /\ DOMAIN recs[u] = 1..Len(recs[u])
  BY <1>1
<1>3. ASSUME NEW n \in DOMAIN recs[u]
      PROVE  Said(u, recs[u][n]) \in Entry
  <2>1. n \in Nat /\ today \in Days /\ RowOK(recs[u], n, today) /\ (recs[u][n].checked => RowFits(u, recs[u][n]))
    BY <1>2 DEF RowsOK, SavedFits
  <2> QED BY <2>1, SaidIsEntry
<1>4. EntriesOf(u, recs[u]) \in [1..Len(recs[u]) -> Entry]
  BY <1>2, <1>3 DEF EntriesOf
<1> QED BY <1>2, <1>4

\* A step adds one record to one object, or none.
AddsOne == \E u \in Uuids : \E start, row : recs' = [recs EXCEPT ![u] = Longer(@, start, row)]

LEMMA RecordsGrow ==
  ASSUME RecordsInv, [Next]_vars
  PROVE  recs' = recs \/ AddsOne
<1>1. ASSUME NEW r \in Requests, Commit(r)
      PROVE  recs' = recs \/ AddsOne
  <2>1. CASE Found(req[r].row, req[r].where)
    <3>1. recs' = [recs EXCEPT ![req[r].uuid] = Append(Closed(@, req[r].row.start), req[r].row)]
      BY <1>1, <2>1 DEF Commit
    <3>2. req[r].uuid \in Uuids
      <4>1. RowsOK /\ RequestOK(req[r]) /\ req[r].pc = "saved"
        BY <1>1 DEF RecordsInv, RequestsOK, Commit
      <4> QED BY <4>1, InsertedRow
    <3> QED BY <3>1, <3>2 DEF AddsOne, Longer
  <2>2. CASE ~Found(req[r].row, req[r].where)
    BY <1>1, <2>2 DEF Commit
  <2> QED BY <2>1, <2>2
<1>2. ASSUME NEW r \in Requests, NEW u \in Uuids, NEW b \in Bodies, AdminAdd(r, u, b)
      PROVE  recs' = recs \/ AddsOne
  <2>1. recs' = recs \/ \E row : recs' = [recs EXCEPT ![u] = Append(Closed(@, b.start), row)]
    BY <1>2, Zenon DEF AdminAdd
  <2> QED BY <2>1 DEF AddsOne, Longer
<1>3. ASSUME NextDay \/ (\E r \in Requests : Save(r)) \/ UNCHANGED vars
      PROVE  recs' = recs
  BY <1>3 DEF NextDay, Save, vars
<1>4. ASSUME NEW r \in Requests, NEW u \in Uuids, NEW b \in Bodies,
             BeginCreate(r, u, b) \/ (\E kind \in {"put", "patch"}, where \in Wheres : BeginUpdate(r, kind, u, b, where))
      PROVE  recs' = recs
  BY <1>4 DEF BeginCreate, BeginUpdate
<1> QED BY <1>1, <1>2, <1>3, <1>4 DEF Next

\* What there was of an object is what there is, and one entry more.
LEMMA OneEntryMore ==
  ASSUME RowsOK, SavedFits, RowsOK', SavedFits',
         NEW u \in Uuids, NEW start, NEW row, recs' = [recs EXCEPT ![u] = Longer(@, start, row)]
  PROVE  LET old == EntriesOf(u, recs[u])
             new == EntriesOf(u, recs'[u])
         IN  /\ new \in Seq(Entry) /\ Len(old) < Len(new)
             /\ \A n \in 1..Len(old) : new[n] = old[n]
             /\ recs'[u] # <<>>
             /\ \A x \in Uuids \ {u} : recs'[x] = recs[x]
<1> DEFINE rows == recs[u]
           later == recs'[u]
<1>1. PICK S : rows \in Seq(S)
  BY DEF RowsOK
<1>2. DOMAIN recs = Uuids /\ \A n \in DOMAIN rows : RowOK(rows, n, today)
  BY DEF RowsOK
<1>3. later = Longer(rows, start, row) /\ \A x \in Uuids \ {u} : recs'[x] = recs[x]
  BY <1>2
<1> HIDE DEF rows, later
<1>4. /\ \E X : later \in Seq(X)
      /\ Len(later) = Len(rows) + 1
      /\ \A n \in 1..Len(rows) : later[n] = IF n = Len(rows) THEN Ended(rows[n], start) ELSE rows[n]
  BY <1>1, <1>3, AddedRow
<1>5. Len(rows) \in Nat /\ DOMAIN rows = 1..Len(rows) /\ DOMAIN later = 1..(Len(rows) + 1)
  BY <1>1, <1>4
<1>6. /\ EntriesOf(u, later) \in Seq(Entry) /\ Len(EntriesOf(u, later)) = Len(later)
      /\ Len(EntriesOf(u, rows)) = Len(rows)
  <2>1. EntriesOf(u, rows) \in Seq(Entry) /\ Len(EntriesOf(u, rows)) = Len(rows)
    BY EntriesFit DEF rows
  <2>2. (EntriesOf(u, recs[u]) \in Seq(Entry) /\ Len(EntriesOf(u, recs[u])) = Len(recs[u]))'
    BY EntriesFit, PTL
  <2> QED BY <2>1, <2>2 DEF later, EntriesOf
<1>7. ASSUME NEW n \in 1..Len(rows)
      PROVE  EntriesOf(u, later)[n] = EntriesOf(u, rows)[n]
  <2>1. n \in DOMAIN rows /\ n \in DOMAIN later
    BY <1>5
  <2>2. DOMAIN rows[n] = DOMAIN NoRow
    BY <1>2, <2>1 DEF RowOK
  <2>3. Said(u, later[n]) = Said(u, rows[n])
    <3>1. later[n] = Ended(rows[n], start) \/ later[n] = rows[n]
      BY <1>4
    <3> QED BY <2>2, <3>1, ClosedRow DEF Said
  <2> QED BY <2>1, <2>3 DEF EntriesOf
<1>8. later # <<>>
  BY <1>5
<1> QED BY <1>3, <1>4, <1>5, <1>6, <1>7, <1>8 DEF rows, later

\* Every step is one of the append-only history of ObjectHistory or none: whatever is
\* created, changed, patched or corrected, by requests and in the admin, is one more entry
\* at the end, which fits its version if it was validated.
THEOREM RecordsAreHistory == Spec => ImplementsHistory
<1> DEFINE s == [u \in Uuids |-> IF recs[u] = <<>> THEN "unborn" ELSE "live"]
           h == [u \in Uuids |-> [n \in DOMAIN recs[u] |-> Said(u, recs[u][n])]]
<1>1. RecordsInv => RowsOK /\ SavedFits
  BY DEF RecordsInv
<1>2. ASSUME Init
      PROVE  History!Init
  <2>1. RowsOK /\ SavedFits
    BY <1>1, <1>2, InitRecords
  <2>2. ASSUME NEW u \in Uuids
        PROVE  h[u] \in Seq(Entry) /\ (recs[u] = <<>> => h[u] = <<>>)
    <3>1. EntriesOf(u, recs[u]) \in Seq(Entry) /\ Len(EntriesOf(u, recs[u])) = Len(recs[u])
      BY <2>1, EntriesFit
    <3> QED BY <3>1 DEF EntriesOf
  <2> QED BY <2>2 DEF History!Init
<1>3. ASSUME RecordsInv, RecordsInv', [Next]_vars
      PROVE  [History!Next]_(History!hvars)
  <2>1. CASE recs' = recs
    BY <2>1 DEF History!hvars
  <2>2. CASE AddsOne
    <3>1. PICK u \in Uuids : \E start, row : recs' = [recs EXCEPT ![u] = Longer(@, start, row)]
      BY <2>2 DEF AddsOne
    <3>2. PICK start, row : recs' = [recs EXCEPT ![u] = Longer(@, start, row)]
      BY <3>1
    <3>3. /\ h'[u] \in Seq(Entry) /\ Len(h[u]) < Len(h'[u])
          /\ \A n \in 1..Len(h[u]) : h'[u][n] = h[u][n]
          /\ recs'[u] # <<>> /\ \A x \in Uuids \ {u} : recs'[x] = recs[x]
      <4>1. RowsOK /\ SavedFits /\ RowsOK' /\ SavedFits'
        BY <1>1, <1>3, PTL
      <4> DEFINE old == EntriesOf(u, recs[u])
                 new == EntriesOf(u, recs'[u])
      <4>2. /\ new \in Seq(Entry) /\ Len(old) < Len(new)
            /\ \A n \in 1..Len(old) : new[n] = old[n]
            /\ recs'[u] # <<>> /\ \A x \in Uuids \ {u} : recs'[x] = recs[x]
        BY <3>2, <4>1, OneEntryMore
      <4>3. h[u] = old /\ h'[u] = new
        BY Zenon DEF EntriesOf
      <4> HIDE DEF h, old, new
      <4> QED BY <4>2, <4>3
    <3>4. h' = [h EXCEPT ![u] = h'[u]]
      BY <3>3
    <3>5. CASE recs[u] = <<>>
      <4>1. s[u] = "unborn" /\ s' = [s EXCEPT ![u] = "live"]
        BY <3>3, <3>5
      <4> QED BY <3>3, <3>4, <4>1 DEF History!Next, History!Create
    <3>6. CASE recs[u] # <<>>
      <4>1. s[u] = "live" /\ s' = s
        BY <3>3, <3>6
      <4> QED BY <3>3, <3>4, <4>1 DEF History!Next, History!Extend
    <3> QED BY <3>5, <3>6
  <2> QED BY <1>3, <2>1, <2>2, RecordsGrow
<1>4. RecordsInv /\ RecordsInv' /\ [Next]_vars => [History!Next]_(History!hvars)
  BY <1>3
<1> QED BY <1>2, <1>4, AlwaysRecords, PTL DEF Spec, ImplementsHistory, History!Spec
=============================================================================
