---------------------------- MODULE ObjectHistory ----------------------------
(***************************************************************************)
(* What an OBJECT promises its clients, without the machinery that keeps   *)
(* it: a history of entries that only ever grows at its end, until the     *)
(* whole object is deleted, and for every date one entry that is the one   *)
(* to show: the newest entry that had legally started by then.  There are  *)
(* no record rows, no end dates, no transactions and no locks here.        *)
(* RecordHistory has them, ObjectData has what the entries say, and each   *)
(* implements this module.                                                 *)
(***************************************************************************)
EXTENDS Naturals, Sequences

CONSTANTS
  Objects,   \* the objects (primary keys of core_object)
  Entries    \* what one entry can be: a set of records with a field start

VARIABLES
  state,     \* state[o]: "unborn", "live" or "deleted"
  hist       \* hist[o]: the entries of o, oldest first

hvars == <<state, hist>>

\* An installation may begin with objects of before.
Init ==
  /\ state \in [Objects -> {"unborn", "live"}]
  /\ hist \in [Objects -> Seq(Entries)]
  /\ \A o \in Objects : state[o] = "unborn" => hist[o] = <<>>

\* Object o comes into being, with the entries it is created with.
Create(o) ==
  /\ state[o] = "unborn"
  /\ state' = [state EXCEPT ![o] = "live"]
  /\ hist'[o] \in Seq(Entries)
  /\ hist' = [hist EXCEPT ![o] = hist'[o]]

\* Entries are added after the last one; those already there stay as they are.
Extend(o) ==
  /\ state[o] = "live"
  /\ Len(hist[o]) < Len(hist'[o])
  /\ hist'[o] \in Seq(Entries)
  /\ \A i \in 1..Len(hist[o]) : hist'[o][i] = hist[o][i]
  /\ hist' = [hist EXCEPT ![o] = hist'[o]]
  /\ UNCHANGED state

\* The object goes, and its history with it.
Delete(o) ==
  /\ state[o] = "live"
  /\ state' = [state EXCEPT ![o] = "deleted"]
  /\ hist'  = [hist EXCEPT ![o] = <<>>]

Next == \E o \in Objects : Create(o) \/ Extend(o) \/ Delete(o)

Spec == Init /\ [][Next]_hvars

-----------------------------------------------------------------------------
\* i is the entry of the history h to show for date d.
IsAsOf(h, d, i) ==
  /\ i \in DOMAIN h
  /\ h[i].start <= d
  /\ \A j \in DOMAIN h : h[j].start <= d => j <= i
=============================================================================
