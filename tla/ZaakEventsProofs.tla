-------------------------- MODULE ZaakEventsProofs --------------------------
(***************************************************************************)
(* What the subscriber believes, for any number of ZAKEN, records, workers *)
(* and requests: the types, and that the belief about every ZAAK whose     *)
(* events did not cross and were not lost is right when nothing is left to *)
(* do.                                                                     *)
(***************************************************************************)
EXTENDS ZaakEvents, TLAPS

Rec == [pk : Nat, refs : SUBSET Zaken]
Task == [pc : {"free", "read", "send"}, index : Nat, current : SUBSET Zaken,
         gekoppeld : SUBSET Zaken, ontkoppeld : SUBSET Zaken]
Stages == {"idle", "remove", "send", "kept", "send all", "delete", "gone", "failed"}
Del == [pc : Stages, zaak : Zaken \cup {None}, record : Nat, urls : SUBSET Zaken]

Types ==
  /\ state \in {"unborn", "live", "deleted"}
  /\ lastPk \in 0..MaxPk
  /\ recs \in Seq(Rec)
  /\ open \in Rec \cup {None}
  /\ queue \subseteq 1..lastPk
  /\ work \in [Workers -> Task]
  /\ del \in [Clients -> Del]
  /\ linked \subseteq Zaken
  /\ doubtful \subseteq Zaken

\* Primary keys are given out in the order of the indexes.
Keys ==
  /\ \A i \in 1..Len(recs) : recs[i].pk \in 1..lastPk
  /\ \A i, j \in 1..Len(recs) : i < j => recs[i].pk < recs[j].pk
  /\ open # None => /\ open.pk = lastPk /\ lastPk # 0
                    /\ \A i \in 1..Len(recs) : recs[i].pk < open.pk

\* A deleted object gets no records any more.
Alive ==
  /\ state = "live" <=> recs # <<>>
  /\ open # None => state # "deleted"

\* A task that is read is about a record of the object, unless that is gone, and has
\* nothing to send yet; an archiving DELETE knows the ZAAK and a record that was there.
Known ==
  /\ \A w \in Workers : work[w].pc = "read" =>
       /\ state = "deleted" \/ work[w].index \in 1..Len(recs)
       /\ work[w].gekoppeld = {} /\ work[w].ontkoppeld = {}
  /\ \A c \in Clients : del[c].pc \in {"remove", "send"} => del[c].zaak \in Zaken
  /\ \A c \in Clients : del[c].pc # "idle" => state # "unborn"
  /\ \A c \in Clients : del[c].pc = "remove" /\ recs # <<>> =>
       del[c].record <= recs[Len(recs)].pk

TypeInv == Types /\ Keys /\ Alive /\ Known

-----------------------------------------------------------------------------
(* Types. *)

\* An object without records, and nothing to do.
LEMMA TypesInit == Init => TypeInv
<1> SUFFICES ASSUME Init PROVE TypeInv
  OBVIOUS
<1>1. Idle \in Del /\ Free \in Task
  BY DEF Idle, Del, Stages, Free, Task
<1>2. Types
  BY <1>1, MaxPkAssumption DEF Init, Types
<1>3. Keys /\ Alive
  BY DEF Init, Keys, Alive
<1>4. Known
  BY DEF Init, Known, Free, Idle
<1> QED
  BY <1>2, <1>3, <1>4 DEF TypeInv

\* The references of a record are references to ZAKEN.
LEMMA RefsType ==
    ASSUME Types
    PROVE  /\ Len(recs) \in Nat /\ DOMAIN recs = 1..Len(recs)
           /\ \A i \in 1..Len(recs) : recs[i] \in Rec /\ recs[i].pk \in Nat
           /\ \A i : RefsAt(i) \in SUBSET Zaken
<1>1. recs \in Seq(Rec) /\ DOMAIN recs = 1..Len(recs) /\ Len(recs) \in Nat
  BY DEF Types
<1>2. ASSUME NEW i \in 1..Len(recs) PROVE recs[i] \in Rec /\ recs[i].refs \in SUBSET Zaken /\ recs[i].pk \in Nat
  <2>1. recs[i] \in Rec
    BY <1>1
  <2> QED
    BY <2>1 DEF Rec
<1>3. ASSUME NEW i PROVE RefsAt(i) \in SUBSET Zaken
  BY <1>1, <1>2 DEF RefsAt
<1> QED
  BY <1>1, <1>2, <1>3

LEMMA LastRefsType == ASSUME Types PROVE LastRefs \in SUBSET Zaken
  BY RefsType DEF LastRefs

\* The sets of which an action makes the ZAKEN doubtful are sets of ZAKEN.
LEMMA ChangedType == ASSUME Types, NEW i PROVE Changed(i) \in SUBSET Zaken
<1>1. RefsAt(i) \in SUBSET Zaken /\ RefsAt(i - 1) \in SUBSET Zaken
  BY RefsType, Zenon
<1> QED
  BY <1>1 DEF Changed, Added

LEMMA OrphanedType == ASSUME Types PROVE Orphaned \in SUBSET Zaken
<1> SUFFICES ASSUME NEW z \in Orphaned PROVE z \in Zaken
  OBVIOUS
<1>1. (\E i \in Waiting : z \in Changed(i)) \/ (\E w \in Workers : z \in work[w].current)
  BY DEF Orphaned
<1>2. ASSUME NEW w \in Workers, z \in work[w].current PROVE z \in Zaken
  BY <1>2 DEF Types, Task
<1> QED
  BY <1>1, <1>2, ChangedType

\* The next statement of a DELETE.
LEMMA GotoType ==
    ASSUME Types, NEW c \in Clients, NEW stmt \in Stages, Goto(c, stmt)
    PROVE  /\ del' \in [Clients -> Del]
           /\ \A d \in Clients \ {c} : del'[d] = del[d]
           /\ del'[c].pc = stmt /\ del'[c].zaak = del[c].zaak
           /\ del'[c].record = del[c].record /\ del'[c].urls = del[c].urls
<1>1. del \in [Clients -> Del] /\ del' = [del EXCEPT ![c] = [del[c] EXCEPT !.pc = stmt]]
  BY DEF Types, Goto
<1>2. [del[c] EXCEPT !.pc = stmt] \in Del
  BY <1>1 DEF Del
<1>3. del'[c] = [del[c] EXCEPT !.pc = stmt] /\ \A d \in Clients \ {c} : del'[d] = del[d]
  BY <1>1
<1>4. del[c] \in Del
  BY <1>1
<1> QED
  BY <1>1, <1>2, <1>3, <1>4 DEF Del

\* Nothing but a DELETE moves on, to a statement that needs nothing of it.
LEMMA DelMoves ==
    ASSUME TypeInv, NEW c \in Clients, NEW stmt \in Stages \ {"remove", "send"}, Goto(c, stmt),
           del[c].pc # "idle",
           linked' \in SUBSET Zaken, doubtful' \in SUBSET Zaken,
           UNCHANGED <<state, recs, open, lastPk, queue, work>>
    PROVE  TypeInv'
<1>1. Types'
  BY GotoType DEF TypeInv, Types
<1>2. Keys' /\ Alive'
  BY DEF TypeInv, Keys, Alive
<1>3. \A d \in Clients : del'[d].pc \in {"remove", "send"} => del'[d] = del[d]
  BY GotoType DEF TypeInv
<1>4. \A d \in Clients : del'[d].pc # "idle" => d = c \/ del'[d] = del[d]
  BY GotoType DEF TypeInv
<1>5. Known'
  BY <1>3, <1>4 DEF TypeInv, Known
<1> QED
  BY <1>1, <1>2, <1>5 DEF TypeInv

\* A worker goes on with a task about a record that is there.
LEMMA WorkMoves ==
    ASSUME TypeInv, NEW w \in Workers, NEW task \in Task, work' = [work EXCEPT ![w] = task],
           task.pc = "read" => /\ state = "deleted" \/ task.index \in 1..Len(recs)
                               /\ task.gekoppeld = {} /\ task.ontkoppeld = {},
           linked' \in SUBSET Zaken, doubtful' \in SUBSET Zaken, queue' \in SUBSET queue,
           UNCHANGED <<state, recs, open, lastPk, del>>
    PROVE  TypeInv'
<1>1. Types'
  BY DEF TypeInv, Types
<1>2. Keys' /\ Alive'
  BY DEF TypeInv, Keys, Alive
<1>3. \A v \in Workers : work'[v] = work[v] \/ work'[v] = task
  BY DEF TypeInv, Types
<1>4. Known'
  BY <1>3 DEF TypeInv, Known
<1> QED
  BY <1>1, <1>2, <1>4 DEF TypeInv

\* What a worker does with its task.
LEMMA TaskType == ASSUME Types, NEW w \in Workers PROVE work[w] \in Task /\ Sending(w) \in SUBSET Zaken
  BY DEF Types, Task, Sending

\* send_zaak_events finds no record, or the one with this key.
LEMMA TakeTaskType ==
    ASSUME Types, NEW w \in Workers, NEW pk, TakeTask(w, pk)
    PROVE  \/ (\A i \in 1..Len(recs) : recs[i].pk # pk) /\ UNCHANGED work
           \/ \E i \in 1..Len(recs) :
                /\ recs[i].pk = pk
                /\ work' = [work EXCEPT ![w] =
                     [pc |-> "read", index |-> i, current |-> RefsAt(i),
                      gekoppeld |-> {}, ontkoppeld |-> {}]]
<1>1. DOMAIN recs = 1..Len(recs)
  BY RefsType
<1>2. CASE \A i \in DOMAIN recs : recs[i].pk # pk
  BY <1>1, <1>2 DEF TakeTask
<1>3. CASE \E i \in DOMAIN recs : recs[i].pk = pk
  <2>1. PICK i \in DOMAIN recs :
          /\ recs[i].pk = pk
          /\ work' = [work EXCEPT ![w] = [pc |-> "read", index |-> i, current |-> recs[i].refs,
                                          gekoppeld |-> {}, ontkoppeld |-> {}]]
    BY <1>3, Zenon DEF TakeTask
  <2>2. recs[i].refs = RefsAt(i)
    BY DEF RefsAt
  <2> QED
    BY <1>1, <2>1, <2>2
<1> QED
  BY <1>2, <1>3

\* The comparison with the record before.
LEMMA SendType ==
    ASSUME Types, NEW w \in Workers, NEW previous \in SUBSET Zaken, Send(w, previous)
    PROVE  /\ work' = [work EXCEPT ![w] =
                [pc |-> "send", index |-> 0, current |-> {},
                 gekoppeld |-> work[w].current \ previous,
                 ontkoppeld |-> previous \ work[w].current]]
           /\ doubtful' = doubtful \cup
                {z \in (work[w].current \ previous) \cup (previous \ work[w].current) :
                   \/ \E v \in Workers \ {w} : z \in Sending(v)
                   \/ \E j \in WaitingAt(Workers \ {w}) : j < work[w].index /\ z \in Changed(j)}
           /\ doubtful' \in SUBSET Zaken
<1> DEFINE task == [pc |-> "send", index |-> 0, current |-> {},
                    gekoppeld |-> work[w].current \ previous,
                    ontkoppeld |-> previous \ work[w].current]
<1>1. work[w] \in Task
  BY TaskType
<1>2. task = [pc |-> "send", index |-> 0, current |-> {},
              gekoppeld |-> work[w].current \ previous,
              ontkoppeld |-> previous \ work[w].current]
  OBVIOUS
<1>3. /\ work' = [work EXCEPT ![w] = task]
      /\ doubtful' = doubtful \cup
           {z \in task.gekoppeld \cup task.ontkoppeld :
              \/ \E v \in Workers \ {w} : z \in Sending(v)
              \/ \E j \in WaitingAt(Workers \ {w}) : j < work[w].index /\ z \in Changed(j)}
  BY DEF Send, Doubt
<1>4. /\ task.gekoppeld = work[w].current \ previous
      /\ task.ontkoppeld = previous \ work[w].current
  BY <1>2
<1>5. work[w].current \in SUBSET Zaken
  BY <1>1 DEF Task
<1> HIDE DEF task
<1>6. doubtful' \in SUBSET Zaken
  BY <1>3, <1>4, <1>5 DEF Types
<1> QED
  BY <1>2, <1>3, <1>4, <1>6

\* A record is added at the end.
LEMMA Appended ==
    ASSUME Types, NEW rec \in Rec, recs' = Append(recs, rec)
    PROVE  /\ recs' \in Seq(Rec) /\ recs' # <<>>
           /\ Len(recs') = Len(recs) + 1 /\ recs'[Len(recs) + 1] = rec
           /\ \A i \in 1..Len(recs) : recs'[i] = recs[i]
           /\ \A i \in 1..Len(recs') : i \in 1..Len(recs) \/ i = Len(recs) + 1
<1>1. recs \in Seq(Rec)
  BY DEF Types
<1> QED
  BY <1>1

\* It has a key above those of the others.
LEMMA AppendedTypes ==
    ASSUME TypeInv, NEW rec \in Rec, recs' = Append(recs, rec), rec.pk \in 1..lastPk',
           lastPk' \in lastPk..MaxPk, \A i \in 1..Len(recs) : recs[i].pk < rec.pk,
           state # "deleted", state' = "live", open' = None, doubtful' \in SUBSET Zaken,
           UNCHANGED <<queue, work, del, linked>>
    PROVE  TypeInv'
<1>T. Types /\ Keys /\ Alive /\ Known
  BY DEF TypeInv
<1>1. /\ recs' \in Seq(Rec) /\ recs' # <<>>
      /\ Len(recs') = Len(recs) + 1 /\ recs'[Len(recs) + 1] = rec
      /\ \A i \in 1..Len(recs) : recs'[i] = recs[i]
      /\ \A i \in 1..Len(recs') : i \in 1..Len(recs) \/ i = Len(recs) + 1
  BY <1>T, Appended
<1>2. lastPk \in Nat /\ lastPk' \in Nat /\ lastPk <= lastPk' /\ Len(recs) \in Nat
  BY <1>T, MaxPkAssumption, RefsType DEF Types
<1>3. Types'
  BY <1>T, <1>1, <1>2 DEF Types
<1>4. \A i \in 1..Len(recs') : recs'[i].pk \in 1..lastPk'
  BY <1>T, <1>1, <1>2 DEF Keys
<1>5. ASSUME NEW i \in 1..Len(recs'), NEW j \in 1..Len(recs'), i < j
      PROVE  recs'[i].pk < recs'[j].pk
  <2>1. i \in 1..Len(recs)
    BY <1>1, <1>2, <1>5
  <2>2. recs'[i] = recs[i]
    BY <1>1, <2>1
  <2>3. CASE j \in 1..Len(recs)
    BY <1>T, <1>1, <1>5, <2>1, <2>2, <2>3 DEF Keys
  <2>4. CASE j = Len(recs) + 1
    BY <1>1, <2>1, <2>2, <2>4
  <2> QED
    BY <1>1, <2>3, <2>4
<1>6. Keys'
  BY <1>4, <1>5 DEF Keys
<1>7. Alive'
  BY <1>1 DEF Alive
<1>8. Known'
  <2>1. \A w \in Workers : work'[w].pc = "read" => work'[w].index \in 1..Len(recs')
    <3>1. \A w \in Workers : work[w].pc = "read" => work[w].index \in 1..Len(recs)
      BY <1>T DEF Known
    <3> QED
      BY <1>1, <1>2, <3>1
  <2>2. \A c \in Clients : del'[c].pc = "remove" => del'[c].record <= recs'[Len(recs')].pk
    <3> SUFFICES ASSUME NEW c \in Clients, del[c].pc = "remove" PROVE del[c].record <= rec.pk
      BY <1>1
    <3>1. CASE recs = <<>>
      <4>1. state = "unborn"
        BY <1>T, <3>1 DEF Alive, Types
      <4> QED
        BY <1>T, <4>1 DEF Known
    <3>2. CASE recs # <<>>
      <4>1. del[c].record <= recs[Len(recs)].pk
        BY <1>T, <3>2 DEF Known
      <4>2. Len(recs) \in 1..Len(recs) /\ recs[Len(recs)].pk \in Nat
        BY <1>T, <3>2, RefsType DEF Types
      <4>3. del[c].record \in Nat /\ rec.pk \in Nat
        BY <1>T DEF Types, Del, Rec
      <4> QED
        BY <4>1, <4>2, <4>3
    <3> QED
      BY <3>1, <3>2
  <2> QED
    BY <1>T, <2>1, <2>2 DEF Known
<1> QED
  BY <1>3, <1>6, <1>7, <1>8 DEF TypeInv

\* The object and its records go.
LEMMA DeletedTypes ==
    ASSUME TypeInv, open = None, state' = "deleted", recs' = <<>>, state # "unborn",
           del' \in [Clients -> Del],
           \A c \in Clients : del'[c].pc \in {"remove", "send"} => del'[c] = del[c],
           doubtful' \in SUBSET Zaken, UNCHANGED <<open, lastPk, queue, work, linked>>
    PROVE  TypeInv'
<1>1. recs' \in Seq(Rec) /\ Len(recs') = 0
  OBVIOUS
<1>2. Types'
  BY <1>1 DEF TypeInv, Types
<1>3. Keys' /\ Alive'
  BY DEF TypeInv, Keys, Alive
<1>4. Known'
  BY DEF TypeInv, Known
<1> QED
  BY <1>2, <1>3, <1>4 DEF TypeInv

\* What "zaak_references.filter(url=...).delete()" leaves of the records.
LEMMA RemovedRefs ==
    ASSUME Types, NEW c \in Clients, Remove(c)
    PROVE  /\ recs' \in Seq(Rec) /\ Len(recs') = Len(recs) /\ DOMAIN recs' = DOMAIN recs
           /\ \A i \in 1..Len(recs) : recs'[i].pk = recs[i].pk
           /\ \A i \in 1..Len(recs) : recs[i].pk # del[c].record => recs'[i].refs = recs[i].refs
           /\ \A i \in 1..Len(recs) : recs[i].pk = del[c].record =>
                recs'[i].refs = recs[i].refs \ {del[c].zaak}
<1>1. recs \in Seq(Rec) /\ DOMAIN recs = 1..Len(recs) /\ Len(recs) \in Nat
      /\ \A i \in 1..Len(recs) : recs[i] \in Rec
  BY RefsType DEF Types
<1>2. recs' = [i \in 1..Len(recs) |->
                 IF recs[i].pk = del[c].record
                 THEN [recs[i] EXCEPT !.refs = recs[i].refs \ {del[c].zaak}] ELSE recs[i]]
  BY <1>1, Zenon DEF Remove
<1>3. \A r \in Rec : \A z : /\ [r EXCEPT !.refs = r.refs \ {z}] \in Rec
                            /\ [r EXCEPT !.refs = r.refs \ {z}].pk = r.pk
                            /\ [r EXCEPT !.refs = r.refs \ {z}].refs = r.refs \ {z}
  BY DEF Rec
<1>4. ASSUME NEW i \in 1..Len(recs)
      PROVE  /\ recs'[i] \in Rec /\ recs'[i].pk = recs[i].pk
             /\ recs[i].pk # del[c].record => recs'[i].refs = recs[i].refs
             /\ recs[i].pk = del[c].record => recs'[i].refs = recs[i].refs \ {del[c].zaak}
  <2>1. CASE recs[i].pk = del[c].record
    <3>1. recs[i] \in Rec /\ recs'[i] = [recs[i] EXCEPT !.refs = recs[i].refs \ {del[c].zaak}]
      BY <1>1, <1>2, <2>1
    <3>2. /\ [recs[i] EXCEPT !.refs = recs[i].refs \ {del[c].zaak}] \in Rec
          /\ [recs[i] EXCEPT !.refs = recs[i].refs \ {del[c].zaak}].pk = recs[i].pk
          /\ [recs[i] EXCEPT !.refs = recs[i].refs \ {del[c].zaak}].refs
               = recs[i].refs \ {del[c].zaak}
      BY <1>3, <3>1, Zenon
    <3> QED
      BY <2>1, <3>1, <3>2, Zenon
  <2>2. CASE recs[i].pk # del[c].record
    <3>1. recs'[i] = recs[i]
      BY <1>2, <2>2
    <3> QED
      BY <1>1, <2>2, <3>1
  <2> QED
    BY <2>1, <2>2
<1>5. recs' = [i \in 1..Len(recs) |-> recs'[i]] /\ DOMAIN recs' = 1..Len(recs)
  BY <1>2
<1>6. recs' \in Seq(Rec) /\ Len(recs') = Len(recs)
  BY <1>1, <1>4, <1>5
<1> QED
  BY <1>1, <1>4, <1>5, <1>6

LEMMA RemoveTypes == ASSUME TypeInv, NEW c \in Clients, Remove(c) PROVE TypeInv'
<1>T. Types /\ Keys /\ Alive /\ Known
  BY DEF TypeInv
<1>U. UNCHANGED <<state, open, lastPk, queue, work, linked, doubtful>> /\ Goto(c, "send")
      /\ del[c].pc = "remove"
  BY DEF Remove
<1>1. /\ recs' \in Seq(Rec) /\ Len(recs') = Len(recs)
      /\ \A i \in 1..Len(recs) : recs'[i].pk = recs[i].pk
  BY <1>T, RemovedRefs
<1>2. Types'
  BY <1>T, <1>U, <1>1, GotoType DEF Types, Stages
<1>3. Len(recs) \in Nat /\ (recs = <<>> <=> recs' = <<>>) /\ (recs # <<>> => Len(recs) \in 1..Len(recs))
  BY <1>T, <1>1, RefsType DEF Types
<1>4. Keys'
  BY <1>T, <1>U, <1>1 DEF Keys
<1>5. Alive'
  BY <1>T, <1>U, <1>3 DEF Alive
<1>6. /\ \A d \in Clients \ {c} : del'[d] = del[d]
      /\ del'[c].pc = "send" /\ del'[c].zaak = del[c].zaak
  BY <1>T, <1>U, GotoType DEF Stages
<1>7. Known'
  BY <1>T, <1>U, <1>1, <1>3, <1>6 DEF Known
<1> QED
  BY <1>2, <1>4, <1>5, <1>7 DEF TypeInv

\* What an action makes doubtful of references and of what is still to be reported.
LEMMA AdditionsType == ASSUME Types PROVE Additions \in SUBSET Zaken
<1> SUFFICES ASSUME NEW z \in Additions PROVE z \in Zaken
  OBVIOUS
<1>1. (\E w \in Workers : z \in work[w].gekoppeld) \/ (\E i \in Waiting : z \in Added(i))
  BY DEF Additions
<1>2. ASSUME NEW w \in Workers, z \in work[w].gekoppeld PROVE z \in Zaken
  BY <1>2 DEF Types, Task
<1>3. ASSUME NEW i \in Waiting, z \in Added(i) PROVE z \in Zaken
  <2>1. z \in Changed(i)
    BY <1>3 DEF Changed
  <2> QED
    BY <2>1, ChangedType
<1> QED
  BY <1>1, <1>2, <1>3

LEMMA DestroyTypes ==
    ASSUME TypeInv, NEW c \in Clients, NEW zaak \in Zaken \cup {None}, Destroy(c, zaak)
    PROVE  TypeInv'
<1>T. Types /\ Keys /\ Alive /\ Known
  BY DEF TypeInv
<1>U. /\ UNCHANGED <<state, recs, open, lastPk, queue, work, linked>> /\ state = "live"
      /\ del' = [del EXCEPT ![c] = [pc |-> Branch(zaak, LastRefs), zaak |-> zaak,
                                    record |-> recs[Len(recs)].pk, urls |-> LastRefs]]
  BY DEF Destroy
<1>1. /\ recs # <<>> /\ Len(recs) \in 1..Len(recs) /\ recs[Len(recs)].pk \in Nat
      /\ LastRefs \in SUBSET Zaken
  BY <1>T, <1>U, LastRefsType, RefsType DEF Alive, Types
<1>2. [pc |-> Branch(zaak, LastRefs), zaak |-> zaak,
       record |-> recs[Len(recs)].pk, urls |-> LastRefs] \in Del
  BY <1>1 DEF Branch, Del, Stages
<1>3. del' \in [Clients -> Del]
  BY <1>T, <1>U, <1>2 DEF Types
<1>4. doubtful' \in SUBSET Zaken
  <2>1. /\ Additions \in SUBSET Zaken /\ OpenRefs \in SUBSET Zaken
        /\ {zaak} \cap (Additions \cup OpenRefs) \in SUBSET Zaken
    BY <1>T, AdditionsType, RefsType DEF OpenRefs, Types, Rec
  <2> QED
    BY <1>T, <2>1 DEF Destroy, Doubt, Types
<1>5. Types'
  BY <1>T, <1>U, <1>3, <1>4 DEF Types
<1>6. Keys' /\ Alive'
  BY <1>T, <1>U DEF Keys, Alive
<1>7. /\ \A d \in Clients \ {c} : del'[d] = del[d]
      /\ del'[c].pc = Branch(zaak, LastRefs) /\ del'[c].zaak = zaak
      /\ del'[c].record = recs[Len(recs)].pk
  BY <1>T, <1>U DEF Types
<1>8. del'[c].pc # "send" /\ (del'[c].pc = "remove" => zaak # None)
  BY <1>7 DEF Branch
<1>9. Known'
  BY <1>T, <1>U, <1>1, <1>7, <1>8 DEF Known
<1> QED
  BY <1>5, <1>6, <1>9 DEF TypeInv

\* Every step keeps the types and the order of the keys.
LEMMA TypesNext == ASSUME TypeInv, [Next]_vars PROVE TypeInv'
<1>T. Types /\ Keys /\ Alive /\ Known
  BY DEF TypeInv
<1>R. recs \in Seq(Rec) /\ (open # None => open \in Rec /\ open.pk \in Nat) /\ lastPk \in Nat
  BY <1>T, MaxPkAssumption DEF Types, Rec
<1>1. ASSUME NEW refs \in SUBSET Zaken, Save(refs) PROVE TypeInv'
  <2>1. open' \in Rec /\ open'.pk = lastPk + 1 /\ open' # None
    BY <1>1, <1>R, NoneAssumption DEF Save, Rec
  <2>2. doubtful' \in SUBSET Zaken
    BY <1>1, <1>T DEF Save, Doubt, Meets, Types
  <2>3. /\ lastPk' = lastPk + 1 /\ lastPk' \in 0..MaxPk /\ queue' \in SUBSET (1..lastPk')
        /\ state # "deleted" /\ UNCHANGED <<state, recs, work, del, linked>>
    BY <1>1, <1>T, <1>R, MaxPkAssumption DEF Save, Types
  <2>4. Types'
    BY <1>T, <2>1, <2>2, <2>3 DEF Types
  <2>5. Keys'
    BY <1>T, <1>R, <2>1, <2>3 DEF Keys
  <2>6. Alive' /\ Known'
    BY <1>T, <2>3 DEF Alive, Known
  <2> QED
    BY <2>4, <2>5, <2>6 DEF TypeInv
<1>2. CASE Commit
  <2>1. /\ open \in Rec /\ recs' = Append(recs, open) /\ open.pk \in 1..lastPk'
        /\ lastPk' \in lastPk..MaxPk /\ \A i \in 1..Len(recs) : recs[i].pk < open.pk
    BY <1>2, <1>T, <1>R, MaxPkAssumption DEF Commit, Keys, Types
  <2>2. /\ state # "deleted" /\ state' = "live" /\ open' = None /\ doubtful' \in SUBSET Zaken
        /\ UNCHANGED <<queue, work, del, linked>>
    BY <1>2, <1>T DEF Commit, Alive, Types
  <2> QED
    BY <2>1, <2>2, AppendedTypes
<1>3. CASE RollBack
  BY <1>3, <1>T DEF RollBack, TypeInv, Types, Keys, Alive, Known
<1>4. ASSUME NEW w \in Workers, NEW pk \in queue, TakeTask(w, pk) PROVE TypeInv'
  <2>1. doubtful' \in SUBSET Zaken /\ linked' \in SUBSET Zaken /\ queue' \in SUBSET queue
        /\ UNCHANGED <<state, recs, open, lastPk, del>>
    <3>1. LastRefs \in SUBSET Zaken /\ (open # None => open.refs \in SUBSET Zaken)
      BY <1>T, LastRefsType DEF Types, Rec
    <3> QED
      BY <1>4, <1>T, <3>1 DEF TakeTask, Doubt, Types
  <2>2. PICK task \in Task : /\ work' = [work EXCEPT ![w] = task]
                             /\ task.pc = "read" =>
                                  /\ state = "deleted" \/ task.index \in 1..Len(recs)
                                  /\ task.gekoppeld = {} /\ task.ontkoppeld = {}
    <3>1. CASE UNCHANGED work
      <4>1. work' = [work EXCEPT ![w] = work[w]] /\ work[w] \in Task
        BY <1>T, <3>1 DEF Types
      <4> QED
        BY <1>T, <4>1 DEF Known
    <3>2. CASE ~UNCHANGED work
      <4>1. PICK i \in 1..Len(recs) : work' = [work EXCEPT ![w] =
              [pc |-> "read", index |-> i, current |-> RefsAt(i),
               gekoppeld |-> {}, ontkoppeld |-> {}]]
        BY <1>4, <1>T, <3>2, TakeTaskType
      <4>2. RefsAt(i) \in SUBSET Zaken /\ i \in Nat
        BY <1>T, RefsType
      <4>3. [pc |-> "read", index |-> i, current |-> RefsAt(i),
             gekoppeld |-> {}, ontkoppeld |-> {}] \in Task
        BY <4>2 DEF Task
      <4> QED
        BY <4>1, <4>3
    <3> QED
      BY <3>1, <3>2
  <2> QED
    BY <2>1, <2>2, WorkMoves
<1>5. ASSUME NEW w \in Workers, ReadPrevious(w) PROVE TypeInv'
  <2>1. RefsAt(work[w].index - 1) \in SUBSET Zaken /\ Send(w, RefsAt(work[w].index - 1))
    BY <1>5, <1>T, RefsType, Zenon DEF ReadPrevious
  <2> DEFINE task == [pc |-> "send", index |-> 0, current |-> {},
                      gekoppeld |-> work[w].current \ RefsAt(work[w].index - 1),
                      ontkoppeld |-> RefsAt(work[w].index - 1) \ work[w].current]
  <2>2. work' = [work EXCEPT ![w] = task] /\ doubtful' \in SUBSET Zaken
    BY <1>T, <2>1, SendType
  <2>3. task \in Task
    BY <1>T, <2>1, TaskType DEF Task
  <2>4. task.pc # "read"
    OBVIOUS
  <2> HIDE DEF task
  <2> QED
    BY <1>5, <1>T, <2>2, <2>3, <2>4, WorkMoves DEF ReadPrevious, Types
<1>6. ASSUME NEW w \in Workers, NEW z \in Zaken, SendGekoppeld(w, z) PROVE TypeInv'
  <2>1. [work[w] EXCEPT !.gekoppeld = work[w].gekoppeld \ {z}] \in Task
        /\ [work[w] EXCEPT !.gekoppeld = work[w].gekoppeld \ {z}].pc = work[w].pc
        /\ [work[w] EXCEPT !.gekoppeld = work[w].gekoppeld \ {z}].index = work[w].index
    BY <1>T, TaskType DEF Task
  <2>2. work[w].pc # "read"
    BY <1>6, <1>T DEF SendGekoppeld, Known
  <2> QED
    BY <1>6, <1>T, <2>1, <2>2, WorkMoves DEF SendGekoppeld, Types
<1>7. ASSUME NEW w \in Workers, NEW z \in Zaken, SendOntkoppeld(w, z) PROVE TypeInv'
  <2>1. [work[w] EXCEPT !.ontkoppeld = work[w].ontkoppeld \ {z}] \in Task
        /\ [work[w] EXCEPT !.ontkoppeld = work[w].ontkoppeld \ {z}].pc = work[w].pc
        /\ [work[w] EXCEPT !.ontkoppeld = work[w].ontkoppeld \ {z}].index = work[w].index
    BY <1>T, TaskType DEF Task
  <2>2. work[w].pc # "read"
    BY <1>7, <1>T DEF SendOntkoppeld, Known
  <2> QED
    BY <1>7, <1>T, <2>1, <2>2, WorkMoves DEF SendOntkoppeld, Types
<1>F. Free \in Task /\ Free.pc # "read"
  BY DEF Free, Task
<1>8. ASSUME NEW w \in Workers, TaskDone(w) PROVE TypeInv'
  BY <1>8, <1>T, <1>F, WorkMoves DEF TaskDone, Types
<1>9. ASSUME NEW w \in Workers, FailTask(w) PROVE TypeInv'
  <2>1. doubtful' \in SUBSET Zaken
    BY <1>9, <1>T, TaskType, ChangedType DEF FailTask, Doubt, Types
  <2> QED
    BY <1>9, <1>T, <1>F, <2>1, WorkMoves DEF FailTask, Types
<1>10. ASSUME NEW c \in Clients, NEW zaak \in Zaken \cup {None}, Destroy(c, zaak) PROVE TypeInv'
  BY <1>10, DestroyTypes
<1>11. ASSUME NEW c \in Clients, Remove(c) PROVE TypeInv'
  BY <1>11, RemoveTypes
<1>12. ASSUME NEW c \in Clients, SendArchived(c) PROVE TypeInv'
  BY <1>12, <1>T, DelMoves DEF SendArchived, Types, Stages
<1>13. ASSUME NEW c \in Clients, SendAll(c) PROVE TypeInv'
  BY <1>13, <1>T, DelMoves DEF SendAll, Types, Stages
<1>14. ASSUME NEW c \in Clients, DeleteObject(c) PROVE TypeInv'
  <2>1. /\ del' \in [Clients -> Del]
        /\ \A d \in Clients : del'[d].pc \in {"remove", "send"} => del'[d] = del[d]
    BY <1>14, <1>T, GotoType DEF DeleteObject, Stages
  <2> QED
    BY <1>14, <1>T, <2>1, DeletedTypes, OrphanedType DEF DeleteObject, Doubt, Types, Known
<1>15. ASSUME NEW c \in Clients, FailDelete(c) PROVE TypeInv'
  <2>1. linked' \in SUBSET Zaken /\ doubtful' \in SUBSET Zaken
    <3>1. PICK sent \in SUBSET del[c].urls :
            /\ linked' = linked \ sent
            /\ Doubt(CASE del[c].pc = "remove" -> {}
                       [] del[c].pc = "send" -> {del[c].zaak}
                       [] del[c].pc = "send all" -> sent
                       [] del[c].pc = "delete" -> del[c].urls)
      BY <1>15, Zenon DEF FailDelete
    <3>2. del[c].pc \in {"remove", "send", "send all", "delete"} /\ del[c].urls \in SUBSET Zaken
          /\ (del[c].pc = "send" => del[c].zaak \in Zaken)
      BY <1>15, <1>T DEF FailDelete, InProgress, Types, Del, Known
    <3> QED
      BY <1>T, <3>1, <3>2 DEF Doubt, Types
  <2> QED
    BY <1>15, <2>1, DelMoves DEF FailDelete, InProgress, Stages
<1>16. CASE AdminAdds
  <2> DEFINE rec == [pk |-> lastPk + 1, refs |-> {}]
  <2>1. /\ rec \in Rec /\ recs' = Append(recs, rec) /\ rec.pk \in 1..lastPk'
        /\ lastPk' \in lastPk..MaxPk /\ \A i \in 1..Len(recs) : recs[i].pk < rec.pk
    <3>1. \A i \in 1..Len(recs) : recs[i].pk \in 1..lastPk
      BY <1>T DEF Keys
    <3> QED
      BY <1>16, <1>R, <3>1, MaxPkAssumption DEF AdminAdds, Rec
  <2>2. /\ state # "deleted" /\ state' = "live" /\ open' = None /\ doubtful' \in SUBSET Zaken
        /\ UNCHANGED <<queue, work, del, linked>>
    BY <1>16, <1>T, LastRefsType DEF AdminAdds, Doubt, Types
  <2> HIDE DEF rec
  <2> QED
    BY <2>1, <2>2, AppendedTypes
<1>17. CASE AdminDeletes
  BY <1>17, <1>T, DeletedTypes, OrphanedType, LastRefsType DEF AdminDeletes, Doubt, Types
<1>18. CASE UNCHANGED vars
  BY <1>18, <1>T DEF vars, TypeInv, Types, Keys, Alive, Known
<1> QED
  BY <1>1, <1>2, <1>3, <1>4, <1>5, <1>6, <1>7, <1>8, <1>9, <1>10, <1>11, <1>12, <1>13,
     <1>14, <1>15, <1>16, <1>17, <1>18 DEF Next, WorkerStep, ClientStep

\* The variables keep their types, whatever crosses, fails or is lost.
THEOREM EventsTyping == Spec => []TypeInv
<1>1. Init => TypeInv
  BY TypesInit
<1>2. TypeInv /\ [Next]_vars => TypeInv'
  BY TypesNext
<1> QED
  BY <1>1, <1>2, PTL DEF Spec

-----------------------------------------------------------------------------
(* What holds for a ZAAK z that is not doubtful. *)

Has(z, i)   == z \in RefsAt(i)
Pend(z, i)  == i \in Waiting /\ z \in Changed(i)
Stale(z, w) == work[w].pc = "read" /\ z \in work[w].current /\ ~Has(z, work[w].index)

\* One task at most has an event of it to send.
OneJob(z) ==
  \A v, w \in Workers :
    /\ z \in Sending(v) /\ z \in Sending(w) => v = w
    /\ ~(z \in work[v].gekoppeld /\ z \in work[v].ontkoppeld)

\* What a task has read is what the record says, unless the ZAAK was removed from the
\* record since, when the record before has it too.
Readers(z) ==
  \A w \in Workers : work[w].pc = "read" =>
    /\ state = "deleted" => z \notin work[w].current
    /\ state # "deleted" => /\ Has(z, work[w].index) => z \in work[w].current
                            /\ Stale(z, w) => Has(z, work[w].index - 1)

\* The task of a record that is not committed is only missed when it had nothing to say.
Early(z) == open # None /\ open.pk \notin queue => (z \in open.refs <=> z \in LastRefs)

\* What a DELETE relies on, at each of its statements.
Archiving(c, z) ==
  del[c].pc = "remove" /\ del[c].zaak = z =>
    /\ z \notin Additions /\ z \notin OpenRefs
    /\ \A i \in 1..Len(recs) : recs[i].pk > del[c].record => ~Has(z, i)
    /\ \A w \in Workers :
         work[w].pc = "read" /\ state # "deleted" /\ recs[work[w].index].pk > del[c].record =>
           z \notin work[w].current
Archived(c, z) ==
  del[c].pc = "send" /\ del[c].zaak = z =>
    z \notin Additions /\ z \notin OpenRefs /\ z \notin LastRefs
Clearing(c, z) ==
  del[c].pc \in {"send all", "delete"} =>
    /\ z \notin Additions /\ (z \in OpenRefs => z \in LastRefs)
    /\ z \notin del[c].urls => z \notin LastRefs
    /\ del[c].pc = "delete" /\ z \in del[c].urls => z \notin linked
Deletes(z) == \A c \in Clients : Archiving(c, z) /\ Archived(c, z) /\ Clearing(c, z)

\* Between the statements of a DELETE the subscriber and the records may differ.
Between(z) ==
  \E c \in Clients : \/ del[c].pc = "send" /\ del[c].zaak = z
                     \/ del[c].pc = "delete" /\ z \in del[c].urls

\* What the subscriber will believe when the tasks that run have ended.
Believes(z, b) ==
  /\ \A w \in Workers : (z \in work[w].gekoppeld => b) /\ (z \in work[w].ontkoppeld => ~b)
  /\ (\A w \in Workers : z \notin Sending(w)) => (z \in linked <=> b)

\* The tasks that wait for one of the first k records say the same as record k; from
\* there on the records change only where a task waits.
Recorded(z, k) ==
  /\ \A j \in 1..k : Pend(z, j) => (Has(z, j) <=> Has(z, k))
  /\ \A a, b \in k..Len(recs) :
       a <= b => (Has(z, a) <=> Has(z, b)) \/ \E j \in (a + 1)..b : Pend(z, j)
  /\ \A w \in Workers : state # "deleted" /\ Stale(z, w) => work[w].index <= k

Told(z) == Between(z) \/ \E k \in 0..Len(recs) : Believes(z, Has(z, k)) /\ Recorded(z, k)

Certain(z) == OneJob(z) /\ Readers(z) /\ Early(z) /\ Deletes(z) /\ Told(z)

EventsInv == TypeInv /\ \A z \in Zaken \ doubtful : Certain(z)

\* For the ZAAK, a step changes neither the records nor what waits; nor what the tasks
\* that run will say.
SameRecords(z) ==
  /\ state' = state /\ Len(recs') = Len(recs)
  /\ \A i : Has(z, i)' <=> Has(z, i)
  /\ \A i : Pend(z, i)' <=> Pend(z, i)
  /\ \A w \in Workers : Stale(z, w)' => Stale(z, w) /\ work'[w].index = work[w].index
Same(z) ==
  /\ SameRecords(z)
  /\ \A w \in Workers : /\ z \in work'[w].gekoppeld <=> z \in work[w].gekoppeld
                        /\ z \in work'[w].ontkoppeld <=> z \in work[w].ontkoppeld

-----------------------------------------------------------------------------
(* Facts about these. *)

LEMMA AdditionsAre ==
    ASSUME NEW z
    PROVE  z \in Additions <=> \/ \E w \in Workers : z \in work[w].gekoppeld
                               \/ \E i \in Waiting : Has(z, i) /\ ~Has(z, i - 1)
<1>1. z \in Additions <=> \/ \E w \in Workers : z \in work[w].gekoppeld
                         \/ \E i \in Waiting : z \in Added(i)
  BY DEF Additions
<1>2. \A i : z \in Added(i) <=> Has(z, i) /\ ~Has(z, i - 1)
  BY DEF Added, Has
<1> QED
  BY <1>1, <1>2

\* The same after a step.
LEMMA AdditionsAfter ==
    ASSUME NEW z
    PROVE  z \in Additions' <=> \/ \E w \in Workers : z \in work'[w].gekoppeld
                                \/ \E i \in Waiting' : Has(z, i)' /\ ~Has(z, i - 1)'
<1>1. z \in Additions' <=> \/ \E w \in Workers : z \in work'[w].gekoppeld
                          \/ \E i \in Waiting' : z \in Added(i)'
  BY DEF Additions
<1>2. \A i : z \in Added(i)' <=> Has(z, i)' /\ ~Has(z, i - 1)'
  BY DEF Added, Has
<1> QED
  BY <1>1, <1>2

LEMMA PendIs ==
    ASSUME NEW z, NEW i
    PROVE  Pend(z, i) <=> i \in Waiting /\ (Has(z, i) <=> ~Has(z, i - 1))
  BY DEF Pend, Changed, Added, Has

\* Additions in terms of what waits.
LEMMA AdditionsPend ==
    ASSUME NEW z
    PROVE  z \in Additions <=> \/ \E w \in Workers : z \in work[w].gekoppeld
                               \/ \E i \in Waiting : Has(z, i) /\ Pend(z, i)
  BY AdditionsAre, PendIs

LEMMA WaitingIs ==
    ASSUME NEW i
    PROVE  i \in Waiting <=> /\ i \in DOMAIN recs
                             /\ \/ recs[i].pk \in queue
                                \/ \E v \in Workers : work[v].pc = "read" /\ work[v].index = i
  BY DEF Waiting, WaitingAt

LEMMA PendWaits == ASSUME NEW z, NEW i, Pend(z, i) PROVE i \in Waiting /\ i \in DOMAIN recs
  BY WaitingIs DEF Pend

\* A step that leaves the records and the queue as they are, and reads no more.
LEMMA RefsSame ==
    ASSUME UNCHANGED recs
    PROVE  /\ \A i : RefsAt(i)' = RefsAt(i)
           /\ \A i : Changed(i)' = Changed(i)
           /\ LastRefs' = LastRefs
  BY DEF RefsAt, Changed, Added, LastRefs

LEMMA WaitingSame ==
    ASSUME UNCHANGED recs, \A i \in DOMAIN recs : recs[i].pk \in queue' <=> recs[i].pk \in queue,
           \A v \in Workers : /\ work'[v].pc = "read" <=> work[v].pc = "read"
                              /\ work[v].pc = "read" => work'[v].index = work[v].index
    PROVE  Waiting' = Waiting
  BY DEF Waiting, WaitingAt

LEMMA SameWork ==
    ASSUME NEW z, UNCHANGED <<state, recs>>, Waiting' = Waiting,
           \A w \in Workers : /\ z \in work'[w].gekoppeld <=> z \in work[w].gekoppeld
                              /\ z \in work'[w].ontkoppeld <=> z \in work[w].ontkoppeld
                              /\ work'[w].pc = "read" => /\ work[w].pc = "read"
                                                         /\ work'[w].index = work[w].index
                                                         /\ work'[w].current = work[w].current
    PROVE  Same(z)
<1>1. \A i : RefsAt(i)' = RefsAt(i) /\ Changed(i)' = Changed(i)
  BY RefsSame
<1>2. \A i : Has(z, i)' <=> Has(z, i)
  BY <1>1 DEF Has
<1>3. \A i : Pend(z, i)' <=> Pend(z, i)
  BY <1>1 DEF Pend
<1>4. \A w \in Workers : Stale(z, w)' => Stale(z, w) /\ work'[w].index = work[w].index
  BY <1>1 DEF Stale, Has
<1> QED
  BY <1>2, <1>3, <1>4 DEF Same, SameRecords

LEMMA SameJobs == ASSUME NEW z, OneJob(z), Same(z) PROVE OneJob(z)'
  BY DEF OneJob, Same, SameRecords, Sending

LEMMA SameRecorded ==
    ASSUME NEW z, NEW k, Recorded(z, k), SameRecords(z) PROVE Recorded(z, k)'
  BY DEF Recorded, SameRecords

LEMMA SameBelieves ==
    ASSUME NEW z, NEW b \in BOOLEAN, Believes(z, b), Same(z), z \in linked' <=> z \in linked
    PROVE  Believes(z, b)'
  BY DEF Believes, Same, SameRecords, Sending

LEMMA SameTold ==
    ASSUME NEW z, Told(z), Same(z), z \in linked' <=> z \in linked, Between(z) => Between(z)'
    PROVE  Told(z)'
<1>1. CASE Between(z)
  BY <1>1 DEF Told
<1>2. CASE ~Between(z)
  <2>1. PICK k \in 0..Len(recs) : Believes(z, Has(z, k)) /\ Recorded(z, k)
    BY <1>2 DEF Told
  <2>2. k \in 0..Len(recs') /\ (Has(z, k)' <=> Has(z, k)) /\ Has(z, k) \in BOOLEAN
    BY DEF Same, SameRecords, Has
  <2>3. Recorded(z, k)'
    BY <2>1, SameRecorded DEF Same
  <2>4. Believes(z, Has(z, k))'
    BY <2>1, <2>2 DEF Believes, Same, SameRecords, Sending
  <2> QED
    BY <2>2, <2>3, <2>4 DEF Told
<1> QED
  BY <1>1, <1>2

LEMMA SameAdditions ==
    ASSUME NEW z, Same(z) PROVE z \in Additions' <=> z \in Additions
<1>1. z \in Additions' <=> \/ \E w \in Workers : z \in work'[w].gekoppeld
                           \/ \E i \in Waiting' : Has(z, i)' /\ Pend(z, i)'
  <2>1. (z \in Additions <=> \/ \E w \in Workers : z \in work[w].gekoppeld
                             \/ \E i \in Waiting : Has(z, i) /\ Pend(z, i))'
    BY DEF Additions, Added, Has, Pend, Changed
  <2> QED
    BY <2>1
<1>2. z \in Additions <=> \/ \E w \in Workers : z \in work[w].gekoppeld
                          \/ \E i \in Waiting : Has(z, i) /\ Pend(z, i)
  BY AdditionsPend
<1>3. (\E i \in Waiting' : Has(z, i)' /\ Pend(z, i)') <=> (\E i \in Waiting : Has(z, i) /\ Pend(z, i))
  <2>1. \A i : (Has(z, i)' <=> Has(z, i)) /\ (Pend(z, i)' <=> Pend(z, i))
    BY DEF Same, SameRecords
  <2>2. \A i : (Pend(z, i) => i \in Waiting) /\ (Pend(z, i)' => i \in Waiting')
    BY DEF Pend
  <2> QED
    BY <2>1, <2>2
<1> QED
  BY <1>1, <1>2, <1>3 DEF Same, SameRecords

-----------------------------------------------------------------------------
(* Steps of requests that leave the records and the tasks alone. *)

LEMMA ReadersSame ==
    ASSUME NEW z, Readers(z), UNCHANGED <<state, recs, work>> PROVE Readers(z)'
<1>1. \A i : Has(z, i)' <=> Has(z, i)
  BY RefsSame DEF Has
<1>2. \A w \in Workers : Stale(z, w)' <=> Stale(z, w)
  BY <1>1 DEF Stale
<1> QED
  BY <1>1, <1>2 DEF Readers

LEMMA RequestSame ==
    ASSUME NEW z, UNCHANGED <<state, recs, work>>,
           \A i \in DOMAIN recs : recs[i].pk \in queue' <=> recs[i].pk \in queue
    PROVE  Same(z) /\ (z \in Additions' <=> z \in Additions)
<1>1. Waiting' = Waiting
  BY WaitingSame
<1>2. Same(z)
  BY <1>1, SameWork
<1> QED
  BY <1>2, SameAdditions

LEMMA RequestCertain ==
    ASSUME NEW z, Certain(z), UNCHANGED <<state, recs, work>>,
           \A i \in DOMAIN recs : recs[i].pk \in queue' <=> recs[i].pk \in queue,
           z \in linked' <=> z \in linked, Between(z) => Between(z)',
           Early(z)', Deletes(z)'
    PROVE  Certain(z)'
<1>1. Same(z)
  BY RequestSame
<1>2. OneJob(z)'
  BY <1>1, SameJobs DEF Certain
<1>3. Readers(z)'
  BY ReadersSame DEF Certain
<1>4. Told(z)'
  BY <1>1, SameTold DEF Certain
<1> QED
  BY <1>2, <1>3, <1>4 DEF Certain

\* The conditions of a DELETE that does not move.
LEMMA DeletesKept ==
    ASSUME NEW z, NEW c \in Clients, Archiving(c, z), Archived(c, z), Clearing(c, z),
           del'[c] = del[c], UNCHANGED <<state, recs>>,
           \A w \in Workers : work'[w].pc = "read" => /\ work[w].pc = "read"
                                                     /\ work'[w].index = work[w].index
                                                     /\ work'[w].current = work[w].current,
           z \in Additions' => z \in Additions,
           z \in linked' => z \in linked,
           z \in OpenRefs' => z \in OpenRefs \/ z \in LastRefs,
           del[c].pc \in {"remove", "send"} /\ del[c].zaak = z => (z \in OpenRefs' => z \in OpenRefs)
    PROVE  Archiving(c, z)' /\ Archived(c, z)' /\ Clearing(c, z)'
<1>1. LastRefs' = LastRefs /\ \A i : Has(z, i)' <=> Has(z, i)
  BY RefsSame DEF Has
<1>2. Archiving(c, z)'
  BY <1>1 DEF Archiving
<1>3. Archived(c, z)'
  BY <1>1 DEF Archived
<1>4. Clearing(c, z)'
  BY <1>1 DEF Clearing
<1> QED
  BY <1>2, <1>3, <1>4

\* POST, PUT, PATCH: a record that meets a DELETE is doubtful.
LEMMA SaveCertain ==
    ASSUME TypeInv, NEW refs \in SUBSET Zaken, Save(refs), NEW z \in Zaken \ doubtful', Certain(z)
    PROVE  Certain(z)'
<1>T. Types /\ Keys
  BY DEF TypeInv
<1>U. /\ UNCHANGED <<state, recs, work, del, linked>> /\ queue' = queue \cup {lastPk + 1}
      /\ open = None /\ open' = [pk |-> lastPk + 1, refs |-> refs]
  BY DEF Save
<1>1. z \notin Meets(refs)
  BY DEF Save, Doubt
<1>2. open' # None /\ OpenRefs' = refs /\ OpenRefs = {} /\ open'.pk \in queue'
  <2>1. open' # None
    BY <1>T, <1>U, NoneAssumption, MaxPkAssumption DEF Types
  <2> QED
    BY <1>U, <2>1 DEF OpenRefs
<1>3. \A i \in DOMAIN recs : recs[i].pk \in queue' <=> recs[i].pk \in queue
  BY <1>T, <1>U, RefsType, MaxPkAssumption DEF Types, Keys
<1>4. z \in Additions' <=> z \in Additions
  BY <1>U, <1>3, RequestSame
<1>5. Between(z)' <=> Between(z)
  BY <1>U DEF Between
<1>6. Early(z)'
  BY <1>2 DEF Early
<1>7. Deletes(z)'
  <2> SUFFICES ASSUME NEW c \in Clients PROVE Archiving(c, z)' /\ Archived(c, z)' /\ Clearing(c, z)'
    BY DEF Deletes
  <2>1. Archiving(c, z) /\ Archived(c, z) /\ Clearing(c, z)
    BY DEF Certain, Deletes
  <2>2. CASE z \notin refs
    BY <1>U, <1>2, <1>4, <2>1, <2>2, DeletesKept
  <2>3. CASE z \in refs /\ z \in LastRefs
    <3>1. ~(del[c].pc \in {"remove", "send"} /\ del[c].zaak = z)
      BY <1>1, <2>3 DEF Meets
    <3> QED
      BY <1>U, <1>4, <2>1, <2>3, <3>1, DeletesKept
  <2>4. CASE z \in refs /\ z \notin LastRefs
    <3>1. /\ ~(del[c].pc \in {"remove", "send"} /\ del[c].zaak = z)
          /\ del[c].pc \notin {"send all", "delete"}
      BY <1>1, <2>4 DEF Meets
    <3> QED
      BY <1>U, <3>1 DEF Archiving, Archived, Clearing
  <2> QED
    BY <2>2, <2>3, <2>4
<1> QED
  BY <1>U, <1>3, <1>5, <1>6, <1>7, RequestCertain

LEMMA RollBackCertain ==
    ASSUME TypeInv, RollBack, NEW z \in Zaken \ doubtful', Certain(z)
    PROVE  Certain(z)'
<1>U. /\ UNCHANGED <<state, recs, queue, work, del, linked>> /\ open' = None
  BY DEF RollBack
<1>1. z \in Additions' <=> z \in Additions
  BY <1>U, RequestSame
<1>2. Between(z)' <=> Between(z)
  BY <1>U DEF Between
<1>3. Early(z)' /\ OpenRefs' = {}
  BY <1>U DEF Early, OpenRefs
<1>4. Deletes(z)'
  BY <1>U, <1>1, <1>3, DeletesKept DEF Certain, Deletes
<1> QED
  BY <1>U, <1>2, <1>3, <1>4, RequestCertain

\* DELETE: what is still to be reported or committed is doubtful.
LEMMA DestroyCertain ==
    ASSUME TypeInv, NEW c \in Clients, NEW zaak \in Zaken \cup {None}, Destroy(c, zaak),
           NEW z \in Zaken \ doubtful', Certain(z)
    PROVE  Certain(z)'
<1>T. Types /\ Keys /\ Alive
  BY DEF TypeInv
<1>U. /\ UNCHANGED <<state, recs, open, queue, work, linked>> /\ state = "live"
      /\ del[c].pc = "idle"
      /\ del' = [del EXCEPT ![c] = [pc |-> Branch(zaak, LastRefs), zaak |-> zaak,
                                    record |-> recs[Len(recs)].pk, urls |-> LastRefs]]
  BY DEF Destroy
<1>1. /\ \A d \in Clients \ {c} : del'[d] = del[d]
      /\ del'[c] = [pc |-> Branch(zaak, LastRefs), zaak |-> zaak,
                    record |-> recs[Len(recs)].pk, urls |-> LastRefs]
  BY <1>T, <1>U DEF Types
<1>2. z \in Additions' <=> z \in Additions
  BY <1>U, RequestSame
<1>3. OpenRefs' = OpenRefs /\ LastRefs' = LastRefs /\ \A i : Has(z, i)' <=> Has(z, i)
  BY <1>U, RefsSame DEF OpenRefs, Has
<1>4. Early(z)'
  BY <1>U, <1>3 DEF Certain, Early
<1>5. Between(z) => Between(z)'
  <2>1. \A d \in Clients : \/ del[d].pc = "send" /\ del[d].zaak = z
                           \/ del[d].pc = "delete" /\ z \in del[d].urls
                           => d # c
    BY <1>U
  <2> QED
    BY <1>1, <2>1 DEF Between
<1>6. Archiving(c, z)' /\ Archived(c, z)' /\ Clearing(c, z)'
  <2>1. CASE Branch(zaak, LastRefs) = "remove"
    <3>1. zaak = z => z \notin Additions /\ z \notin OpenRefs
      BY <2>1 DEF Destroy, Doubt
    <3>2. del'[c].pc = "remove" /\ del'[c].zaak = zaak /\ del'[c].record = recs[Len(recs)].pk
      BY <1>1, <2>1
    <3>3. \A i \in 1..Len(recs) : ~(recs[i].pk > recs[Len(recs)].pk)
      <4> SUFFICES ASSUME NEW i \in 1..Len(recs) PROVE ~(recs[i].pk > recs[Len(recs)].pk)
        OBVIOUS
      <4>1. Len(recs) \in 1..Len(recs) /\ recs[i].pk \in Nat /\ recs[Len(recs)].pk \in Nat
        BY <1>T, RefsType
      <4>2. CASE i < Len(recs)
        <5>1. recs[i].pk < recs[Len(recs)].pk
          BY <1>T, <4>1, <4>2 DEF Keys
        <5> QED
          BY <4>1, <5>1
      <4>3. CASE i = Len(recs)
        BY <4>1, <4>3
      <4> QED
        BY <4>1, <4>2, <4>3
    <3>4. \A w \in Workers : work[w].pc = "read" => work[w].index \in 1..Len(recs)
      BY <1>U DEF TypeInv, Known
    <3>5. Archiving(c, z)'
      BY <1>U, <1>2, <1>3, <3>1, <3>2, <3>3, <3>4 DEF Archiving
    <3> QED
      BY <3>2, <3>5 DEF Archived, Clearing
  <2>2. CASE Branch(zaak, LastRefs) # "remove"
    <3>1. z \notin Additions /\ (z \in OpenRefs => z \in LastRefs)
      BY <2>2 DEF Destroy, Doubt
    <3>2. /\ del'[c].pc \in {"send all", "delete"} /\ del'[c].urls = LastRefs
          /\ del'[c].pc = "delete" => LastRefs = {}
      <4>1. del'[c].pc = Branch(zaak, LastRefs) /\ del'[c].urls = LastRefs
        BY <1>1
      <4> QED
        BY <2>2, <4>1 DEF Branch
    <3> QED
      BY <1>2, <1>3, <3>1, <3>2 DEF Archiving, Archived, Clearing
  <2> QED
    BY <2>1, <2>2
<1>7. ASSUME NEW d \in Clients \ {c} PROVE Archiving(d, z)' /\ Archived(d, z)' /\ Clearing(d, z)'
  <2>1. Archiving(d, z) /\ Archived(d, z) /\ Clearing(d, z) /\ del'[d] = del[d]
    BY <1>1 DEF Certain, Deletes
  <2> QED
    BY <1>U, <1>2, <1>3, <2>1, DeletesKept
<1>8. Deletes(z)'
  BY <1>6, <1>7 DEF Deletes
<1> QED
  BY <1>U, <1>4, <1>5, <1>8, RequestCertain

\* A DELETE moves on without a change of the records: for the others nothing changes.
LEMMA OthersKept ==
    ASSUME TypeInv, NEW c \in Clients, NEW stmt \in Stages, Goto(c, stmt), NEW z, Deletes(z),
           UNCHANGED <<state, recs, open, queue, work>>, z \in linked' => z \in linked
    PROVE  /\ \A d \in Clients \ {c} : Archiving(d, z)' /\ Archived(d, z)' /\ Clearing(d, z)'
           /\ (z \in Additions' <=> z \in Additions) /\ OpenRefs' = OpenRefs /\ LastRefs' = LastRefs
           /\ Early(z) => Early(z)'
<1>1. z \in Additions' <=> z \in Additions
  BY RequestSame
<1>2. OpenRefs' = OpenRefs /\ LastRefs' = LastRefs
  BY RefsSame DEF OpenRefs
<1>3. ASSUME NEW d \in Clients \ {c} PROVE Archiving(d, z)' /\ Archived(d, z)' /\ Clearing(d, z)'
  <2>1. Archiving(d, z) /\ Archived(d, z) /\ Clearing(d, z) /\ del'[d] = del[d]
    BY GotoType DEF Deletes, TypeInv
  <2> QED
    BY <1>1, <1>2, <2>1, DeletesKept
<1> QED
  BY <1>1, <1>2, <1>3 DEF Early

\* zaak-ontkoppeld for the archived ZAAK: that is what the last record says.
LEMMA SendArchivedCertain ==
    ASSUME TypeInv, NEW c \in Clients, SendArchived(c), NEW z \in Zaken \ doubtful', Certain(z)
    PROVE  Certain(z)'
<1>T. Types
  BY DEF TypeInv
<1>U. /\ UNCHANGED <<state, recs, open, queue, work>> /\ Goto(c, "kept") /\ del[c].pc = "send"
      /\ linked' = linked \ {del[c].zaak}
  BY DEF SendArchived
<1>G. /\ \A d \in Clients \ {c} : del'[d] = del[d] /\ del'[c].pc = "kept"
  BY <1>T, <1>U, GotoType DEF Stages
<1>1. /\ \A d \in Clients \ {c} : Archiving(d, z)' /\ Archived(d, z)' /\ Clearing(d, z)'
      /\ Early(z)'
  BY <1>U, OthersKept DEF Certain, Stages
<1>2. Archiving(c, z)' /\ Archived(c, z)' /\ Clearing(c, z)'
  BY <1>T, <1>U, GotoType DEF Archiving, Archived, Clearing, Stages
<1>3. Deletes(z)'
  BY <1>1, <1>2 DEF Deletes
<1>4. CASE del[c].zaak # z
  <2>1. del'[c].pc = "kept"
    BY <1>T, <1>U, GotoType DEF Stages
  <2>2. Between(z) => Between(z)'
    BY <1>U, <1>4, <1>G DEF Between
  <2> QED
    BY <1>U, <1>1, <1>3, <1>4, <2>2, RequestCertain
<1>5. CASE del[c].zaak = z
  <2>1. z \notin Additions /\ z \notin LastRefs /\ z \notin linked'
    BY <1>U, <1>5 DEF Certain, Deletes, Archived
  <2>2. Same(z)
    BY <1>U, RequestSame
  <2>3. OneJob(z)' /\ Readers(z)'
    BY <1>U, <2>2, SameJobs, ReadersSame DEF Certain
  <2>4. PICK k \in 0..Len(recs) : k = Len(recs) /\ ~Has(z, k)
    <3>1. Len(recs) \in 0..Len(recs)
      BY <1>T, RefsType
    <3>2. ~Has(z, Len(recs))
      BY <2>1 DEF Has, LastRefs
    <3> QED
      BY <3>1, <3>2
  <2>5. Recorded(z, k)
    <3>1. \A j \in 1..k : Pend(z, j) => ~Has(z, j)
      BY <2>1, AdditionsPend DEF Pend
    <3>2. \A a, b \in k..Len(recs) : Has(z, a) <=> Has(z, b)
      BY <2>4
    <3>3. \A w \in Workers : state # "deleted" /\ Stale(z, w) => work[w].index <= k
      BY <2>4 DEF TypeInv, Known, Stale
    <3> QED
      BY <2>4, <3>1, <3>2, <3>3 DEF Recorded
  <2>6. Recorded(z, k)'
    BY <2>2, <2>5, SameRecorded DEF Same
  <2>7. ~Has(z, k)'
    BY <2>2, <2>4 DEF Same, SameRecords
  <2>8. Believes(z, Has(z, k))'
    <3>1. \A w \in Workers : z \notin work[w].gekoppeld
      BY <2>1, AdditionsAre
    <3> QED
      BY <1>U, <2>1, <2>7, <3>1 DEF Believes
  <2>9. Told(z)'
    BY <1>U, <2>4, <2>6, <2>8 DEF Told
  <2> QED
    BY <1>1, <1>3, <2>3, <2>9 DEF Certain
<1> QED
  BY <1>4, <1>5

LEMMA SendAllCertain ==
    ASSUME TypeInv, NEW c \in Clients, SendAll(c), NEW z \in Zaken \ doubtful', Certain(z)
    PROVE  Certain(z)'
<1>T. Types
  BY DEF TypeInv
<1>U. /\ UNCHANGED <<state, recs, open, queue, work>> /\ Goto(c, "delete")
      /\ del[c].pc = "send all" /\ linked' = linked \ del[c].urls
  BY DEF SendAll
<1>G. /\ \A d \in Clients \ {c} : del'[d] = del[d]
      /\ del'[c].pc = "delete" /\ del'[c].urls = del[c].urls
  BY <1>T, <1>U, GotoType DEF Stages
<1>1. /\ \A d \in Clients \ {c} : Archiving(d, z)' /\ Archived(d, z)' /\ Clearing(d, z)'
      /\ (z \in Additions' <=> z \in Additions) /\ OpenRefs' = OpenRefs /\ LastRefs' = LastRefs
      /\ Early(z)'
  BY <1>U, OthersKept DEF Certain, Stages
<1>2. Clearing(c, z)
  BY DEF Certain, Deletes
<1>3. Archiving(c, z)' /\ Archived(c, z)' /\ Clearing(c, z)'
  BY <1>U, <1>G, <1>1, <1>2 DEF Archiving, Archived, Clearing
<1>4. Deletes(z)'
  BY <1>1, <1>3 DEF Deletes
<1>5. Between(z) => Between(z)'
  BY <1>U, <1>G DEF Between
<1>6. CASE z \in del[c].urls
  <2>1. Between(z)'
    BY <1>G, <1>6 DEF Between
  <2>2. OneJob(z)' /\ Readers(z)'
    BY <1>U, RequestSame, SameJobs, ReadersSame DEF Certain
  <2> QED
    BY <1>1, <1>4, <2>1, <2>2 DEF Certain, Told
<1>7. CASE z \notin del[c].urls
  BY <1>U, <1>1, <1>4, <1>5, <1>7, RequestCertain
<1> QED
  BY <1>6, <1>7

\* A DELETE that fails leaves doubtful what it told.
LEMMA FailDeleteCertain ==
    ASSUME TypeInv, NEW c \in Clients, FailDelete(c), NEW z \in Zaken \ doubtful', Certain(z)
    PROVE  Certain(z)'
<1>T. Types
  BY DEF TypeInv
<1>U. /\ UNCHANGED <<state, recs, open, queue, work>> /\ Goto(c, "failed") /\ InProgress(c)
  BY DEF FailDelete
<1>G. (\A d \in Clients \ {c} : del'[d] = del[d]) /\ del'[c].pc = "failed"
  BY <1>T, <1>U, GotoType DEF Stages
<1>S. PICK sent \in SUBSET del[c].urls :
        /\ del[c].pc # "send all" => sent = {}
        /\ linked' = linked \ sent
        /\ Doubt(CASE del[c].pc = "remove" -> {}
                   [] del[c].pc = "send" -> {del[c].zaak}
                   [] del[c].pc = "send all" -> sent
                   [] del[c].pc = "delete" -> del[c].urls)
  BY Zenon DEF FailDelete
<1>1. /\ z \notin sent
      /\ del[c].pc = "send" => del[c].zaak # z
      /\ del[c].pc = "delete" => z \notin del[c].urls
  BY <1>U, <1>S DEF Doubt, InProgress
<1>2. z \in linked' <=> z \in linked
  BY <1>S, <1>1
<1>3. /\ \A d \in Clients \ {c} : Archiving(d, z)' /\ Archived(d, z)' /\ Clearing(d, z)'
      /\ Early(z)'
  BY <1>U, <1>2, OthersKept DEF Certain, Stages
<1>4. Archiving(c, z)' /\ Archived(c, z)' /\ Clearing(c, z)'
  BY <1>G DEF Archiving, Archived, Clearing
<1>5. Deletes(z)'
  BY <1>3, <1>4 DEF Deletes
<1>6. Between(z) => Between(z)'
  BY <1>1, <1>G DEF Between
<1> QED
  BY <1>U, <1>2, <1>3, <1>5, <1>6, RequestCertain

-----------------------------------------------------------------------------
(* Steps of workers. *)

\* No task begins to read.
NoNewReader ==
  \A w \in Workers : work'[w].pc = "read" => /\ work[w].pc = "read"
                                             /\ work'[w].index = work[w].index
                                             /\ work'[w].current = work[w].current

LEMMA ReadersFewer ==
    ASSUME NEW z, Readers(z), UNCHANGED <<state, recs>>, NoNewReader PROVE Readers(z)'
<1>1. \A i : Has(z, i)' <=> Has(z, i)
  BY RefsSame DEF Has
<1>2. \A w \in Workers : Stale(z, w)' => Stale(z, w)
  BY <1>1 DEF Stale, NoNewReader
<1> QED
  BY <1>1, <1>2 DEF Readers, NoNewReader

\* Only the task of one worker changes, and no more is reported of links.
LEMMA WorkerDeletes ==
    ASSUME NEW z, Deletes(z), NoNewReader, UNCHANGED <<state, recs, open, del>>,
           z \in Additions' => z \in Additions, z \in linked' => z \in linked
    PROVE  Deletes(z)'
<1>1. OpenRefs' = OpenRefs
  BY DEF OpenRefs
<1> SUFFICES ASSUME NEW c \in Clients PROVE Archiving(c, z)' /\ Archived(c, z)' /\ Clearing(c, z)'
  BY DEF Deletes
<1>2. Archiving(c, z) /\ Archived(c, z) /\ Clearing(c, z)
  BY DEF Deletes
<1> QED
  BY <1>1, <1>2, DeletesKept DEF NoNewReader

\* As long as a link is still to be reported, no DELETE is at work that it would meet.
LEMMA AddingDeletes ==
    ASSUME NEW z, Deletes(z), z \in Additions, UNCHANGED del
    PROVE  ~Between(z) /\ Deletes(z)'
  BY DEF Deletes, Archiving, Archived, Clearing, Between

\* Only what is sent changes, not of this ZAAK.
LEMMA WorkerSame ==
    ASSUME NEW z, Certain(z), UNCHANGED <<state, recs, open, queue, del>>, NoNewReader, Same(z),
           z \in linked' <=> z \in linked
    PROVE  Certain(z)'
<1>1. z \in Additions' <=> z \in Additions
  BY SameAdditions
<1>2. OneJob(z)' /\ Readers(z)' /\ Deletes(z)'
  BY <1>1, SameJobs, ReadersFewer, WorkerDeletes DEF Certain
<1>3. Early(z)'
  BY RefsSame DEF Certain, Early
<1>4. Between(z) => Between(z)'
  BY DEF Between
<1>5. Told(z)'
  BY <1>4, SameTold DEF Certain
<1> QED
  BY <1>2, <1>3, <1>5 DEF Certain

\* A task sends an event: the one of z was the only one.
LEMMA SendingSame ==
    ASSUME Types, NEW w \in Workers, NEW task \in Task, work' = [work EXCEPT ![w] = task],
           task.pc = work[w].pc, task.index = work[w].index, task.current = work[w].current,
           UNCHANGED <<state, recs, queue>>, NEW z
    PROVE  /\ NoNewReader /\ SameRecords(z)
           /\ z \in Additions' => z \in Additions \/ z \in task.gekoppeld
           /\ \A v \in Workers \ {w} : work'[v] = work[v]
           /\ work'[w] = task
<1>1. \A v \in Workers : /\ work'[v].pc = work[v].pc /\ work'[v].index = work[v].index
                         /\ work'[v].current = work[v].current
  BY DEF Types
<1>2. Waiting' = Waiting
  BY <1>1, WaitingSame
<1>3. (\A i : RefsAt(i)' = RefsAt(i)) /\ (\A i : Changed(i)' = Changed(i))
  BY RefsSame
<1>4. SameRecords(z)
  BY <1>1, <1>2, <1>3 DEF SameRecords, Has, Pend, Stale
<1>5. (\A v \in Workers \ {w} : work'[v] = work[v]) /\ work'[w] = task
  BY DEF Types
<1>6. z \in Additions' => z \in Additions \/ z \in task.gekoppeld
  <2> SUFFICES ASSUME z \in Additions' PROVE z \in Additions \/ z \in task.gekoppeld
    OBVIOUS
  <2>1. (\E v \in Workers : z \in work'[v].gekoppeld) \/ (\E i \in Waiting' : Has(z, i)' /\ ~Has(z, i - 1)')
    BY AdditionsAfter
  <2>2. (\E v \in Workers : z \in work'[v].gekoppeld) => z \in task.gekoppeld \/ z \in Additions
    BY <1>5, AdditionsAre
  <2>3. (\E i \in Waiting' : Has(z, i)' /\ ~Has(z, i - 1)') => z \in Additions
    BY <1>2, <1>3, AdditionsAre DEF Has
  <2> QED
    BY <2>1, <2>2, <2>3
<1> QED
  BY <1>1, <1>4, <1>5, <1>6 DEF NoNewReader

LEMMA SentCertain ==
    ASSUME TypeInv, NEW w \in Workers, NEW task \in Task, work' = [work EXCEPT ![w] = task],
           task.pc = work[w].pc, task.index = work[w].index, task.current = work[w].current,
           UNCHANGED <<state, recs, open, queue, del>>, NEW z, Certain(z), NEW b \in BOOLEAN,
           IF b THEN z \in work[w].gekoppeld ELSE z \in work[w].ontkoppeld,
           z \notin task.gekoppeld, z \notin task.ontkoppeld, z \in linked' <=> b
    PROVE  Certain(z)'
<1>1. /\ NoNewReader /\ SameRecords(z)
      /\ z \in Additions' => z \in Additions
      /\ \A v \in Workers \ {w} : work'[v] = work[v]
      /\ work'[w] = task
  BY SendingSame DEF TypeInv
<1>2. \A v \in Workers : z \notin (work'[v].gekoppeld \cup work'[v].ontkoppeld)
  BY <1>1 DEF Certain, OneJob, Sending
<1>3. OneJob(z)' /\ Readers(z)' /\ Early(z)'
  BY <1>1, <1>2, ReadersFewer, RefsSame DEF Certain, OneJob, Sending, Early
<1>4. Deletes(z)'
  <2>1. CASE b
    <3>1. z \in Additions
      BY <2>1, AdditionsAre
    <3> QED
      BY <3>1, AddingDeletes DEF Certain
  <2>2. CASE ~b
    BY <1>1, <2>2, WorkerDeletes DEF Certain
  <2> QED
    BY <2>1, <2>2
<1>5. Told(z)'
  <2>1. CASE Between(z)
    <3>1. Between(z)'
      BY <2>1 DEF Between
    <3> QED
      BY <3>1 DEF Told
  <2>2. CASE ~Between(z)
    <3>1. PICK k \in 0..Len(recs) : Believes(z, Has(z, k)) /\ Recorded(z, k)
      BY <2>2 DEF Certain, Told
    <3>2. Has(z, k) <=> b
      BY <3>1 DEF Believes
    <3>3. Has(z, k)' <=> b
      BY <1>1, <3>2 DEF SameRecords
    <3>4. Believes(z, Has(z, k))'
      BY <1>2, <3>3 DEF Believes, Sending
    <3>5. Recorded(z, k)'
      BY <1>1, <3>1, SameRecorded
    <3> QED
      BY <3>4, <3>5 DEF Told
  <2> QED
    BY <2>1, <2>2
<1> QED
  BY <1>3, <1>4, <1>5 DEF Certain

\* Another ZAAK is told about.
LEMMA SentOther ==
    ASSUME TypeInv, NEW w \in Workers, NEW task \in Task, work' = [work EXCEPT ![w] = task],
           task.pc = work[w].pc, task.index = work[w].index, task.current = work[w].current,
           UNCHANGED <<state, recs, open, queue, del>>, NEW z, Certain(z),
           z \in task.gekoppeld <=> z \in work[w].gekoppeld,
           z \in task.ontkoppeld <=> z \in work[w].ontkoppeld, z \in linked' <=> z \in linked
    PROVE  Certain(z)'
<1>1. /\ NoNewReader /\ SameRecords(z)
      /\ \A v \in Workers \ {w} : work'[v] = work[v]
      /\ work'[w] = task
  BY SendingSame DEF TypeInv
<1>2. Same(z)
  BY <1>1 DEF Same
<1> QED
  BY <1>1, <1>2, WorkerSame

LEMMA SendGekoppeldCertain ==
    ASSUME TypeInv, NEW w \in Workers, NEW y \in Zaken, SendGekoppeld(w, y),
           NEW z \in Zaken \ doubtful', Certain(z)
    PROVE  Certain(z)'
<1> DEFINE task == [work[w] EXCEPT !.gekoppeld = work[w].gekoppeld \ {y}]
<1>1. /\ task \in Task /\ task.pc = work[w].pc /\ task.index = work[w].index
      /\ task.current = work[w].current /\ task.gekoppeld = work[w].gekoppeld \ {y}
      /\ task.ontkoppeld = work[w].ontkoppeld
  BY TaskType DEF TypeInv, Task
<1>2. /\ work' = [work EXCEPT ![w] = task] /\ y \in work[w].gekoppeld
      /\ UNCHANGED <<state, recs, open, queue, del>> /\ linked' = linked \cup {y}
  BY DEF SendGekoppeld
<1> HIDE DEF task
<1>3. CASE z = y
  <2>1. z \notin task.gekoppeld /\ z \notin task.ontkoppeld
    BY <1>1, <1>2, <1>3 DEF Certain, OneJob
  <2>2. z \in linked' <=> TRUE
    BY <1>2, <1>3
  <2> QED
    BY <1>1, <1>2, <1>3, <2>1, <2>2, SentCertain
<1>4. CASE z # y
  <2>1. /\ z \in task.gekoppeld <=> z \in work[w].gekoppeld
        /\ z \in task.ontkoppeld <=> z \in work[w].ontkoppeld
        /\ z \in linked' <=> z \in linked
    BY <1>1, <1>2, <1>4
  <2> QED
    BY <1>1, <1>2, <2>1, SentOther
<1> QED
  BY <1>3, <1>4

LEMMA SendOntkoppeldCertain ==
    ASSUME TypeInv, NEW w \in Workers, NEW y \in Zaken, SendOntkoppeld(w, y),
           NEW z \in Zaken \ doubtful', Certain(z)
    PROVE  Certain(z)'
<1> DEFINE task == [work[w] EXCEPT !.ontkoppeld = work[w].ontkoppeld \ {y}]
<1>1. /\ task \in Task /\ task.pc = work[w].pc /\ task.index = work[w].index
      /\ task.current = work[w].current /\ task.ontkoppeld = work[w].ontkoppeld \ {y}
      /\ task.gekoppeld = work[w].gekoppeld
  BY TaskType DEF TypeInv, Task
<1>2. /\ work' = [work EXCEPT ![w] = task] /\ y \in work[w].ontkoppeld
      /\ UNCHANGED <<state, recs, open, queue, del>> /\ linked' = linked \ {y}
  BY DEF SendOntkoppeld
<1> HIDE DEF task
<1>3. CASE z = y
  <2>1. z \notin task.gekoppeld /\ z \notin task.ontkoppeld
    BY <1>1, <1>2, <1>3 DEF Certain, OneJob
  <2>2. z \in linked' <=> FALSE
    BY <1>2, <1>3
  <2> QED
    BY <1>1, <1>2, <1>3, <2>1, <2>2, SentCertain
<1>4. CASE z # y
  <2>1. /\ z \in task.gekoppeld <=> z \in work[w].gekoppeld
        /\ z \in task.ontkoppeld <=> z \in work[w].ontkoppeld
        /\ z \in linked' <=> z \in linked
    BY <1>1, <1>2, <1>4
  <2> QED
    BY <1>1, <1>2, <2>1, SentOther
<1> QED
  BY <1>3, <1>4

\* A worker puts its task away: of z it had nothing to send, and nothing to find out.
LEMMA PutAwayCertain ==
    ASSUME TypeInv, NEW w \in Workers, work' = [work EXCEPT ![w] = Free],
           UNCHANGED <<state, recs, open, queue, del, linked>>, NEW z, Certain(z),
           z \notin Sending(w), work[w].pc = "read" => z \notin Changed(work[w].index)
    PROVE  Certain(z)'
<1>1. (\A v \in Workers \ {w} : work'[v] = work[v]) /\ work'[w] = Free
  BY DEF TypeInv, Types
<1>2. /\ Free.pc = "free" /\ Free.gekoppeld = {} /\ Free.ontkoppeld = {}
  BY DEF Free
<1>3. NoNewReader
  BY <1>1, <1>2 DEF NoNewReader
<1>4. (\A i : RefsAt(i)' = RefsAt(i)) /\ (\A i : Changed(i)' = Changed(i))
  BY RefsSame
<1>5. \A i : z \in Changed(i) => (i \in Waiting' <=> i \in Waiting)
  <2> SUFFICES ASSUME NEW i, z \in Changed(i) PROVE i \in Waiting' <=> i \in Waiting
    OBVIOUS
  <2>1. i \in Waiting' <=> /\ i \in DOMAIN recs
                           /\ \/ recs[i].pk \in queue
                              \/ \E v \in Workers : work'[v].pc = "read" /\ work'[v].index = i
    BY DEF Waiting, WaitingAt
  <2>2. \A v \in Workers : (work'[v].pc = "read" /\ work'[v].index = i)
                             <=> (work[v].pc = "read" /\ work[v].index = i)
    BY <1>1, <1>2
  <2> QED
    BY <2>1, <2>2, WaitingIs
<1>6. SameRecords(z)
  <2>1. \A i : Pend(z, i)' <=> Pend(z, i)
    BY <1>4, <1>5 DEF Pend
  <2>2. \A v \in Workers : Stale(z, v)' => Stale(z, v) /\ work'[v].index = work[v].index
    BY <1>3, <1>4 DEF Stale, Has, NoNewReader
  <2> QED
    BY <1>4, <2>1, <2>2 DEF SameRecords, Has
<1>7. Same(z)
  BY <1>1, <1>2, <1>6 DEF Same, Sending
<1> QED
  BY <1>3, <1>7, WorkerSame

LEMMA TaskDoneCertain ==
    ASSUME TypeInv, NEW w \in Workers, TaskDone(w), NEW z \in Zaken \ doubtful', Certain(z)
    PROVE  Certain(z)'
  BY PutAwayCertain DEF TaskDone

\* What a task that fails did not send is doubtful.
LEMMA FailTaskCertain ==
    ASSUME TypeInv, NEW w \in Workers, FailTask(w), NEW z \in Zaken \ doubtful', Certain(z)
    PROVE  Certain(z)'
  BY PutAwayCertain DEF FailTask, Doubt

\* send_zaak_events reads a record: it waits as it did in the queue.
LEMMA TakeTaskCertain ==
    ASSUME TypeInv, NEW w \in Workers, NEW pk \in queue, TakeTask(w, pk),
           NEW z \in Zaken \ doubtful', Certain(z)
    PROVE  Certain(z)'
<1>T. Types /\ Keys /\ Alive /\ Known
  BY DEF TypeInv
<1>U. /\ UNCHANGED <<state, recs, open, lastPk, del, linked>> /\ queue' = queue \ {pk}
      /\ work[w] = Free
  BY DEF TakeTask
<1>R. DOMAIN recs = 1..Len(recs) /\ Len(recs) \in Nat
  BY <1>T, RefsType
<1>1. Early(z)'
  <2>1. open # None /\ open.pk = pk => (z \in open.refs <=> z \in LastRefs)
    BY DEF TakeTask, Doubt
  <2>2. LastRefs' = LastRefs
    BY <1>U, RefsSame
  <2> QED
    BY <1>U, <2>1, <2>2 DEF Certain, Early
<1>2. Between(z) => Between(z)'
  BY <1>U DEF Between
<1>3. (\A i : RefsAt(i)' = RefsAt(i)) /\ (\A i : Changed(i)' = Changed(i))
  BY <1>U, RefsSame
<1>4. CASE (\A i \in 1..Len(recs) : recs[i].pk # pk) /\ UNCHANGED work
  <2>1. \A i \in DOMAIN recs : recs[i].pk \in queue' <=> recs[i].pk \in queue
    BY <1>U, <1>R, <1>4
  <2>2. Same(z) /\ (z \in Additions' <=> z \in Additions) /\ NoNewReader
    BY <1>U, <1>4, <2>1, RequestSame DEF NoNewReader
  <2>3. Deletes(z)'
    BY <1>U, <2>2, WorkerDeletes DEF Certain
  <2> QED
    BY <1>U, <1>1, <1>2, <1>4, <2>1, <2>3, RequestCertain
<1>5. ASSUME NEW n \in 1..Len(recs), recs[n].pk = pk,
             work' = [work EXCEPT ![w] = [pc |-> "read", index |-> n, current |-> RefsAt(n),
                                          gekoppeld |-> {}, ontkoppeld |-> {}]]
      PROVE  Certain(z)'
  <2>1. /\ \A v \in Workers \ {w} : work'[v] = work[v]
        /\ work'[w] = [pc |-> "read", index |-> n, current |-> RefsAt(n),
                       gekoppeld |-> {}, ontkoppeld |-> {}]
    BY <1>T, <1>5 DEF Types
  <2>2. work[w].pc = "free" /\ work[w].gekoppeld = {} /\ work[w].ontkoppeld = {}
    BY <1>U DEF Free
  <2>3. state # "deleted"
    <3>1. recs # <<>>
      BY <1>R, <1>5
    <3> QED
      BY <1>T, <3>1 DEF Alive
  <2>4. \A i \in 1..Len(recs) : recs[i].pk = pk => i = n
    <3> SUFFICES ASSUME NEW i \in 1..Len(recs), recs[i].pk = pk PROVE i = n
      OBVIOUS
    <3>1. ~(i < n) /\ ~(n < i)
      BY <1>T, <1>5, RefsType DEF Keys
    <3> QED
      BY <1>R, <3>1
  <2>5. \A i : i \in Waiting' <=> i \in Waiting
    <3> SUFFICES ASSUME NEW i PROVE i \in Waiting' <=> i \in Waiting
      OBVIOUS
    <3>1. i \in Waiting' <=> /\ i \in DOMAIN recs
                             /\ \/ recs[i].pk \in queue'
                                \/ \E v \in Workers : work'[v].pc = "read" /\ work'[v].index = i
      BY <1>U DEF Waiting, WaitingAt
    <3>2. i \in Waiting <=> /\ i \in DOMAIN recs
                            /\ \/ recs[i].pk \in queue
                               \/ \E v \in Workers : work[v].pc = "read" /\ work[v].index = i
      BY WaitingIs
    <3>3. (\E v \in Workers : work'[v].pc = "read" /\ work'[v].index = i) <=>
            i = n \/ \E v \in Workers : work[v].pc = "read" /\ work[v].index = i
      BY <2>1, <2>2
    <3>4. i \in DOMAIN recs => (recs[i].pk \in queue <=> recs[i].pk \in queue' \/ i = n)
      BY <1>U, <1>R, <1>5, <2>4
    <3> QED
      BY <3>1, <3>2, <3>3, <3>4
  <2>6. SameRecords(z)
    <3>1. \A i : Pend(z, i)' <=> Pend(z, i)
      BY <1>3, <2>5 DEF Pend
    <3>2. \A v \in Workers : Stale(z, v)' => Stale(z, v) /\ work'[v].index = work[v].index
      BY <1>3, <2>1 DEF Stale, Has
    <3> QED
      BY <1>U, <1>3, <3>1, <3>2 DEF SameRecords, Has
  <2>7. Same(z)
    BY <2>1, <2>2, <2>6 DEF Same
  <2>8. z \in Additions' <=> z \in Additions
    BY <2>7, SameAdditions
  <2>9. OneJob(z)' /\ Told(z)'
    BY <1>U, <1>2, <2>7, SameJobs, SameTold DEF Certain
  <2>10. Readers(z)'
    <3>1. \A v \in Workers : Stale(z, v)' => Stale(z, v) /\ v # w
      BY <1>3, <2>1 DEF Stale, Has
    <3> QED
      BY <1>U, <1>3, <2>1, <2>3, <3>1 DEF Certain, Readers, Has
  <2>11. Deletes(z)'
    <3> SUFFICES ASSUME NEW c \in Clients
                 PROVE  Archiving(c, z)' /\ Archived(c, z)' /\ Clearing(c, z)'
      BY DEF Deletes
    <3>1. Archiving(c, z) /\ Archived(c, z) /\ Clearing(c, z)
      BY DEF Certain, Deletes
    <3>2. OpenRefs' = OpenRefs /\ LastRefs' = LastRefs
      BY <1>U, RefsSame DEF OpenRefs
    <3>3. Archiving(c, z)'
      <4> SUFFICES ASSUME del[c].pc = "remove", del[c].zaak = z,
                          NEW v \in Workers, work'[v].pc = "read", state # "deleted",
                          recs[work'[v].index].pk > del[c].record
                   PROVE  z \notin work'[v].current
        BY <1>U, <1>3, <2>8, <3>1, <3>2 DEF Archiving, Has
      <4>1. CASE v = w
        BY <2>1, <3>1, <4>1 DEF Archiving, Has
      <4>2. CASE v # w
        BY <2>1, <3>1, <4>2 DEF Archiving
      <4> QED
        BY <4>1, <4>2
    <3> QED
      BY <1>U, <2>8, <3>1, <3>2, <3>3 DEF Archived, Clearing
  <2> QED
    BY <1>1, <2>9, <2>10, <2>11 DEF Certain
<1> QED
  BY <1>T, <1>4, <1>5, TakeTaskType

\* What the comparison of a task leaves of z, of which it found nothing to send.
LEMMA ComparedCertain ==
    ASSUME TypeInv, NEW w \in Workers, work[w].pc = "read", NEW task \in Task,
           work' = [work EXCEPT ![w] = task], task.pc = "send",
           UNCHANGED <<state, recs, open, queue, del, linked>>, NEW z, Certain(z),
           z \notin task.gekoppeld, z \notin task.ontkoppeld,
           z \notin Sending(w), Pend(z, work[w].index) => Stale(z, w)
    PROVE  Certain(z)'
<1> DEFINE n == work[w].index
<1>T. Types /\ Known
  BY DEF TypeInv
<1>1. (\A v \in Workers \ {w} : work'[v] = work[v]) /\ work'[w] = task
  BY <1>T DEF Types
<1>2. NoNewReader
  BY <1>1 DEF NoNewReader
<1>3. (\A i : RefsAt(i)' = RefsAt(i)) /\ (\A i : Changed(i)' = Changed(i))
  BY RefsSame
<1>4. \A i : (i \in Waiting' => i \in Waiting) /\ (i \in Waiting => i \in Waiting' \/ i = n)
  <2> SUFFICES ASSUME NEW i
               PROVE  (i \in Waiting' => i \in Waiting) /\ (i \in Waiting => i \in Waiting' \/ i = n)
    OBVIOUS
  <2>1. i \in Waiting' <=> /\ i \in DOMAIN recs
                           /\ \/ recs[i].pk \in queue
                              \/ \E v \in Workers : work'[v].pc = "read" /\ work'[v].index = i
    BY DEF Waiting, WaitingAt
  <2>2. \A v \in Workers : /\ work'[v].pc = "read" /\ work'[v].index = i =>
                                work[v].pc = "read" /\ work[v].index = i
                           /\ work[v].pc = "read" /\ work[v].index = i =>
                                i = n \/ (work'[v].pc = "read" /\ work'[v].index = i)
    BY <1>1
  <2> QED
    BY <2>1, <2>2, WaitingIs
<1>5. \A i : (Pend(z, i)' => Pend(z, i)) /\ (Pend(z, i) => Pend(z, i)' \/ i = n)
  BY <1>3, <1>4 DEF Pend
<1>6. \A i : Has(z, i)' <=> Has(z, i)
  BY <1>3 DEF Has
<1>7. \A v \in Workers : Stale(z, v)' => Stale(z, v) /\ work'[v].index = work[v].index
  BY <1>2, <1>6 DEF Stale, NoNewReader
<1>8. \A v \in Workers : /\ z \in work'[v].gekoppeld <=> z \in work[v].gekoppeld
                         /\ z \in work'[v].ontkoppeld <=> z \in work[v].ontkoppeld
  BY <1>1 DEF Sending
<1>9. CASE \A i : Pend(z, i)' <=> Pend(z, i)
  <2>1. Same(z)
    BY <1>6, <1>7, <1>8, <1>9 DEF Same, SameRecords
  <2> QED
    BY <1>2, <2>1, WorkerSame
<1>10. CASE Pend(z, n)
  <2>1. Stale(z, w)
    BY <1>10
  <2>2. z \in Additions' => z \in Additions
    <3>1. z \in Additions' <=> \/ \E v \in Workers : z \in work'[v].gekoppeld
                               \/ \E i \in Waiting' : Has(z, i)' /\ ~Has(z, i - 1)'
      BY AdditionsAfter
    <3> QED
      BY <1>4, <1>6, <1>8, <3>1, AdditionsAre
  <2>3. OneJob(z)'
    BY <1>8 DEF Certain, OneJob, Sending
  <2>4. Readers(z)' /\ Early(z)'
    BY <1>2, ReadersFewer, RefsSame DEF Certain, Early
  <2>5. Deletes(z)'
    BY <1>2, <2>2, WorkerDeletes DEF Certain
  <2>6. Told(z)'
    <3>1. CASE Between(z)
      <4>1. Between(z)'
        BY <3>1 DEF Between
      <4> QED
        BY <4>1 DEF Told
    <3>2. CASE ~Between(z)
      <4>1. PICK k \in 0..Len(recs) : Believes(z, Has(z, k)) /\ Recorded(z, k)
        BY <3>2 DEF Certain, Told
      <4>2. n \in 1..Len(recs) /\ state # "deleted"
        <5>1. n \in DOMAIN recs
          BY <1>10, PendWaits
        <5>2. recs # <<>> /\ n \in 1..Len(recs)
          BY <1>T, <5>1, RefsType
        <5> QED
          BY <5>2 DEF TypeInv, Alive
      <4>3. n <= k
        BY <2>1, <4>1, <4>2 DEF Recorded
      <4>4. Len(recs) \in Nat
        BY <1>T, RefsType
      <4>5. Recorded(z, k)'
        <5>1. \A j \in 1..k : Pend(z, j)' => (Has(z, j)' <=> Has(z, k)')
          BY <1>5, <1>6, <4>1 DEF Recorded
        <5>2. ASSUME NEW a \in k..Len(recs), NEW b \in k..Len(recs), a <= b
              PROVE  (Has(z, a)' <=> Has(z, b)') \/ \E j \in (a + 1)..b : Pend(z, j)'
          <6>1. (Has(z, a) <=> Has(z, b)) \/ \E j \in (a + 1)..b : Pend(z, j)
            BY <4>1, <5>2 DEF Recorded
          <6>2. \A j \in (a + 1)..b : j # n
            BY <4>2, <4>3, <4>4
          <6> QED
            BY <1>5, <1>6, <6>1, <6>2
        <5>3. \A v \in Workers : state # "deleted" /\ Stale(z, v)' => work'[v].index <= k
          BY <1>7, <4>1 DEF Recorded
        <5> QED
          BY <5>1, <5>2, <5>3 DEF Recorded
      <4>6. Believes(z, Has(z, k))'
        BY <1>6, <1>8, <4>1 DEF Believes, Sending
      <4> QED
        BY <4>5, <4>6 DEF Told
    <3> QED
      BY <3>1, <3>2
  <2> QED
    BY <2>3, <2>4, <2>5, <2>6 DEF Certain
<1> QED
  BY <1>5, <1>9, <1>10

\* The comparison makes the worker send an event of z, to say what its record says; no
\* other worker has one, and no task of a record before will have.
LEMMA ToSendCertain ==
    ASSUME TypeInv, NEW w \in Workers, work[w].pc = "read", NEW task \in Task,
           work' = [work EXCEPT ![w] = task], task.pc = "send",
           UNCHANGED <<state, recs, open, queue, del, linked>>, NEW z, Certain(z),
           NEW b \in BOOLEAN, z \in task.gekoppeld <=> b, z \in task.ontkoppeld <=> ~b,
           state # "deleted", Has(z, work[w].index) <=> b, Has(z, work[w].index - 1) <=> ~b,
           \A v \in Workers \ {w} : z \notin Sending(v),
           \A j \in WaitingAt(Workers \ {w}) : j < work[w].index => z \notin Changed(j)
    PROVE  Certain(z)'
<1> DEFINE n == work[w].index
<1>T. Types /\ Known
  BY DEF TypeInv
<1>N. n \in 1..Len(recs) /\ Len(recs) \in Nat /\ n \in Nat
  BY <1>T, RefsType DEF Known
<1>1. (\A v \in Workers \ {w} : work'[v] = work[v]) /\ work'[w] = task
  BY <1>T DEF Types
<1>2. NoNewReader
  BY <1>1 DEF NoNewReader
<1>3. (\A i : RefsAt(i)' = RefsAt(i)) /\ (\A i : Changed(i)' = Changed(i))
  BY RefsSame
<1>6. \A i : Has(z, i)' <=> Has(z, i)
  BY <1>3 DEF Has
<1>7. \A v \in Workers : Stale(z, v)' => Stale(z, v) /\ work'[v].index = work[v].index
  BY <1>2, <1>6 DEF Stale, NoNewReader
<1>P. Pend(z, n)
  <2>1. n \in Waiting
    BY <1>N, <1>T, RefsType, WaitingIs
  <2> QED
    BY <2>1, PendIs
<1>4. \A i : (i \in Waiting' => i \in WaitingAt(Workers \ {w})) /\ (i \in Waiting => i \in Waiting' \/ i = n)
  <2> SUFFICES ASSUME NEW i
               PROVE  /\ i \in Waiting' => i \in WaitingAt(Workers \ {w})
                      /\ i \in Waiting => i \in Waiting' \/ i = n
    OBVIOUS
  <2>1. i \in Waiting' <=> /\ i \in DOMAIN recs
                           /\ \/ recs[i].pk \in queue
                              \/ \E v \in Workers : work'[v].pc = "read" /\ work'[v].index = i
    BY DEF Waiting, WaitingAt
  <2>2. i \in WaitingAt(Workers \ {w}) <=>
          /\ i \in DOMAIN recs
          /\ \/ recs[i].pk \in queue
             \/ \E v \in Workers \ {w} : work[v].pc = "read" /\ work[v].index = i
    BY DEF WaitingAt
  <2>3. \A v \in Workers : /\ work'[v].pc = "read" /\ work'[v].index = i =>
                                v # w /\ work[v].pc = "read" /\ work[v].index = i
                           /\ work[v].pc = "read" /\ work[v].index = i =>
                                i = n \/ (work'[v].pc = "read" /\ work'[v].index = i)
    BY <1>1
  <2> QED
    BY <2>1, <2>2, <2>3, WaitingIs
<1>5. \A i : Pend(z, i)' => Pend(z, i) /\ ~(i < n)
  <2>1. \A i : i \in WaitingAt(Workers \ {w}) => i \in Waiting
    BY DEF Waiting, WaitingAt
  <2> QED
    BY <1>3, <1>4, <2>1 DEF Pend
<1>8. \A i : Pend(z, i) => Pend(z, i)' \/ i = n
  BY <1>3, <1>4 DEF Pend
<1>9. OneJob(z)'
  BY <1>1 DEF OneJob, Sending
<1>10. Readers(z)' /\ Early(z)'
  BY <1>2, ReadersFewer, RefsSame DEF Certain, Early
<1>11. Deletes(z)' /\ (Between(z) => Between(z)')
  <2>1. Between(z) => Between(z)'
    BY DEF Between
  <2>2. CASE b
    <3>1. z \in Additions
      BY <1>P, <2>2, AdditionsPend DEF Pend
    <3> QED
      BY <2>1, <3>1, AddingDeletes DEF Certain
  <2>3. CASE ~b
    <3>1. z \in Additions' => z \in Additions
      <4>1. \A v \in Workers : z \in work'[v].gekoppeld => z \in work[v].gekoppeld
        BY <1>1, <2>3
      <4>2. \A i \in Waiting' : i \in Waiting
        BY <1>4 DEF Waiting, WaitingAt
      <4> QED
        BY <1>6, <4>1, <4>2, AdditionsAfter, AdditionsAre
    <3> QED
      BY <1>2, <2>1, <3>1, WorkerDeletes DEF Certain
  <2> QED
    BY <2>2, <2>3
<1>12. Told(z)'
  <2>1. CASE Between(z)
    BY <1>11, <2>1 DEF Told
  <2>2. CASE ~Between(z)
    <3>1. PICK k \in 0..Len(recs) : Believes(z, Has(z, k)) /\ Recorded(z, k)
      BY <2>2 DEF Certain, Told
    <3>2. PICK m \in 0..Len(recs) : m = IF n <= k THEN k ELSE n
      BY <1>N
    <3>3. n <= m /\ k <= m
      BY <1>N, <3>2
    <3>4. Has(z, m) <=> b
      <4>1. CASE n <= k
        <5>1. n \in 1..k
          BY <1>N, <4>1
        <5> QED
          BY <1>P, <3>1, <3>2, <4>1, <5>1 DEF Recorded
      <4>2. CASE ~(n <= k)
        BY <3>2, <4>2
      <4> QED
        BY <4>1, <4>2
    <3>5. Believes(z, Has(z, m))'
      BY <1>1, <1>6, <3>4 DEF Believes, Sending
    <3>6. \A j \in 1..m : Pend(z, j)' => (Has(z, j)' <=> Has(z, m)')
      <4> SUFFICES ASSUME NEW j \in 1..m, Pend(z, j)' PROVE Has(z, j) <=> b
        BY <1>6, <3>4
      <4>1. Pend(z, j) /\ ~(j < n)
        BY <1>5
      <4>2. CASE n <= k
        <5>1. j \in 1..k
          BY <3>2, <4>2
        <5> QED
          BY <3>1, <3>2, <3>4, <4>1, <4>2, <5>1 DEF Recorded
      <4>3. CASE ~(n <= k)
        <5>1. j = n
          BY <1>N, <3>2, <4>1, <4>3
        <5> QED
          BY <5>1
      <4> QED
        BY <4>2, <4>3
    <3>7. ASSUME NEW x \in m..Len(recs), NEW y \in m..Len(recs), x <= y
          PROVE  (Has(z, x)' <=> Has(z, y)') \/ \E j \in (x + 1)..y : Pend(z, j)'
      <4>1. x \in k..Len(recs) /\ y \in k..Len(recs)
        BY <1>N, <3>3
      <4>2. (Has(z, x) <=> Has(z, y)) \/ \E j \in (x + 1)..y : Pend(z, j)
        BY <3>1, <3>7, <4>1 DEF Recorded
      <4>3. \A j \in (x + 1)..y : j # n
        BY <1>N, <3>3
      <4> QED
        BY <1>6, <1>8, <4>2, <4>3
    <3>8. \A v \in Workers : Stale(z, v)' => work'[v].index <= m
      <4> SUFFICES ASSUME NEW v \in Workers, Stale(z, v)' PROVE work'[v].index <= m
        OBVIOUS
      <4>1. Stale(z, v) /\ work'[v].index = work[v].index
        BY <1>7
      <4>2. work[v].index <= k
        BY <3>1, <4>1 DEF Recorded
      <4>3. work[v].index \in Nat
        BY <1>T, TaskType DEF Task
      <4> QED
        BY <3>3, <4>1, <4>2, <4>3
    <3>9. Recorded(z, m)'
      BY <3>6, <3>7, <3>8 DEF Recorded
    <3> QED
      BY <3>5, <3>9 DEF Told
  <2> QED
    BY <2>1, <2>2
<1> QED
  BY <1>9, <1>10, <1>11, <1>12 DEF Certain

\* The task looks at the record before.
LEMMA ReadPreviousCertain ==
    ASSUME TypeInv, NEW w \in Workers, ReadPrevious(w), NEW z \in Zaken \ doubtful', Certain(z)
    PROVE  Certain(z)'
<1>T. Types /\ Known
  BY DEF TypeInv
<1>1. RefsAt(work[w].index - 1) \in SUBSET Zaken
  BY <1>T, RefsType, Zenon
<1>2. PICK previous \in SUBSET Zaken : previous = RefsAt(work[w].index - 1)
  BY <1>1
<1>U. /\ UNCHANGED <<state, recs, open, queue, del, linked>> /\ work[w].pc = "read"
      /\ Send(w, previous)
  BY <1>2 DEF ReadPrevious
<1>3. /\ work' = [work EXCEPT ![w] =
           [pc |-> "send", index |-> 0, current |-> {},
            gekoppeld |-> work[w].current \ previous,
            ontkoppeld |-> previous \ work[w].current]]
      /\ doubtful' = doubtful \cup
           {y \in (work[w].current \ previous) \cup (previous \ work[w].current) :
              \/ \E v \in Workers \ {w} : y \in Sending(v)
              \/ \E j \in WaitingAt(Workers \ {w}) : j < work[w].index /\ y \in Changed(j)}
  BY <1>T, <1>U, SendType
<1>4. [pc |-> "send", index |-> 0, current |-> {},
       gekoppeld |-> work[w].current \ previous,
       ontkoppeld |-> previous \ work[w].current] \in Task
  BY <1>T, TaskType DEF Task
<1>5. PICK task \in Task : /\ work' = [work EXCEPT ![w] = task] /\ task.pc = "send"
                           /\ task.gekoppeld = work[w].current \ previous
                           /\ task.ontkoppeld = previous \ work[w].current
  BY <1>3, <1>4
<1>6. z \in previous <=> Has(z, work[w].index - 1)
  BY <1>2 DEF Has
<1>R. /\ state = "deleted" => z \notin work[w].current /\ ~Has(z, work[w].index - 1)
      /\ state # "deleted" => /\ Has(z, work[w].index) => z \in work[w].current
                              /\ z \in work[w].current /\ ~Has(z, work[w].index)
                                   => Has(z, work[w].index - 1)
  <2>1. state = "deleted" => recs = <<>>
    BY DEF TypeInv, Alive, Types
  <2>2. recs = <<>> => ~Has(z, work[w].index - 1)
    BY DEF Has, RefsAt
  <2> QED
    BY <1>U, <2>1, <2>2 DEF Certain, Readers, Stale
<1>7. CASE z \in work[w].current <=> z \in previous
  <2>1. z \notin task.gekoppeld /\ z \notin task.ontkoppeld
    BY <1>5, <1>7
  <2>2. z \notin Sending(w)
    BY <1>T, <1>U DEF Known, Sending
  <2>3. Pend(z, work[w].index) => Stale(z, w)
    <3> SUFFICES ASSUME Pend(z, work[w].index) PROVE Stale(z, w)
      OBVIOUS
    <3>1. Has(z, work[w].index) <=> ~Has(z, work[w].index - 1)
      BY PendIs
    <3>2. work[w].index \in DOMAIN recs
      BY PendWaits
    <3>3. state # "deleted"
      <4>1. recs # <<>>
        BY <3>2
      <4> QED
        BY <4>1 DEF TypeInv, Alive
    <3> QED
      BY <1>U, <1>R, <1>6, <1>7, <3>1, <3>3 DEF Stale
  <2> QED
    BY <1>U, <1>5, <2>1, <2>2, <2>3, ComparedCertain
<1>8. CASE ~(z \in work[w].current <=> z \in previous)
  <2>1. /\ \A v \in Workers \ {w} : z \notin Sending(v)
        /\ \A j \in WaitingAt(Workers \ {w}) : j < work[w].index => z \notin Changed(j)
    BY <1>3, <1>8
  <2>2. state # "deleted"
    BY <1>R, <1>6, <1>8
  <2>3. PICK b \in BOOLEAN : b <=> z \in work[w].current
    OBVIOUS
  <2>4. (z \in task.gekoppeld <=> b) /\ (z \in task.ontkoppeld <=> ~b)
    BY <1>5, <1>8, <2>3
  <2>5. (Has(z, work[w].index) <=> b) /\ (Has(z, work[w].index - 1) <=> ~b)
    BY <1>R, <1>6, <1>8, <2>2, <2>3
  <2> QED
    BY <1>U, <1>5, <2>1, <2>2, <2>4, <2>5, ToSendCertain
<1> QED
  BY <1>7, <1>8

-----------------------------------------------------------------------------
(* Steps that change the records. *)

\* A record at the end.  A reference that is new is one that the DELETEs know of, and
\* one that is new or gone has its task in the queue.
LEMMA AppendedCertain ==
    ASSUME TypeInv, NEW rec \in Rec, recs' = Append(recs, rec),
           state # "deleted", state' = "live", open' = None, UNCHANGED <<queue, work, del, linked>>,
           NEW z, Certain(z), z \in rec.refs => z \in OpenRefs,
           (z \in rec.refs <=> z \in LastRefs) \/ rec.pk \in queue
    PROVE  Certain(z)'
<1>T. Types /\ Known
  BY DEF TypeInv
<1>N. PICK n \in Nat, m \in Nat : n = Len(recs) /\ m = n + 1
  <2>1. Len(recs) \in Nat /\ Len(recs) + 1 \in Nat
    BY <1>T, RefsType
  <2> QED
    BY <2>1
<1>L. DOMAIN recs = 1..n /\ Len(recs) = n /\ LastRefs = RefsAt(n)
  BY <1>N, <1>T, RefsType DEF LastRefs
<1>A. /\ recs' \in Seq(Rec) /\ Len(recs') = m /\ recs'[m] = rec
      /\ \A i \in 1..n : recs'[i] = recs[i]
  BY <1>T, <1>N, Appended
<1>D. DOMAIN recs' = 1..m
  BY <1>A
<1>1. RefsAt(m)' = rec.refs /\ \A i \in 0..n : RefsAt(i)' = RefsAt(i)
  <2>1. RefsAt(m)' = rec.refs
    BY <1>N, <1>A, <1>D DEF RefsAt
  <2>2. ASSUME NEW i \in 0..n PROVE RefsAt(i)' = RefsAt(i)
    <3>1. i \in 1..m <=> i \in 1..n
      BY <1>N
    <3> QED
      BY <1>L, <1>A, <1>D, <3>1 DEF RefsAt
  <2> QED
    BY <2>1, <2>2
<1>2. /\ \A i \in 0..n : Has(z, i)' <=> Has(z, i)
      /\ Has(z, m)' <=> z \in rec.refs
      /\ Has(z, n) <=> z \in LastRefs
      /\ Has(z, n)' <=> z \in LastRefs
  <2>1. n \in 0..n
    BY <1>N
  <2>2. RefsAt(n)' = LastRefs
    BY <1>1, <1>L, <2>1
  <2> QED
    BY <1>1, <1>L, <2>1, <2>2 DEF Has
<1>3. LastRefs' = rec.refs
  <2>1. LastRefs' = RefsAt(m)'
    BY <1>A DEF LastRefs, RefsAt
  <2> QED
    BY <2>1, <1>1
<1>4. \A i \in 1..n : (Has(z, i)' <=> Has(z, i)) /\ (Has(z, i - 1)' <=> Has(z, i - 1))
  <2>1. \A i \in 1..n : i \in 0..n /\ i - 1 \in 0..n
    BY <1>N
  <2> QED
    BY <1>2, <2>1
<1>4m. m - 1 = n
  BY <1>N
<1>5. \A w \in Workers : work[w].pc = "read" => work[w].index \in 1..n
  BY <1>T, <1>L DEF Known
<1>6. \A i \in 1..n : i \in Waiting' <=> i \in Waiting
  <2>1. \A i \in 1..n : i \in 1..m
    BY <1>N
  <2> QED
    BY <1>L, <1>A, <1>D, <2>1 DEF Waiting, WaitingAt
<1>7. \A i : i \in Waiting' => i \in 1..n \/ i = m
  BY <1>N, <1>D DEF Waiting, WaitingAt
<1>8. m \in Waiting' <=> rec.pk \in queue
  <2>1. \A w \in Workers : ~(work[w].pc = "read" /\ work[w].index = m)
    BY <1>N, <1>5
  <2>2. m \in DOMAIN recs'
    BY <1>N, <1>D
  <2> QED
    BY <1>A, <2>1, <2>2 DEF Waiting, WaitingAt
<1>P. \A i : Pend(z, i)' <=> i \in Waiting' /\ (Has(z, i)' <=> ~Has(z, i - 1)')
  BY DEF Pend, Changed, Added, Has
<1>9. \A i \in 1..n : Pend(z, i)' <=> Pend(z, i)
  BY <1>P, <1>4, <1>6, PendIs
<1>10. (z \in rec.refs <=> z \in LastRefs) \/ Pend(z, m)'
  <2>1. Has(z, m - 1)' <=> Has(z, n)'
    BY <1>4m DEF Has, RefsAt
  <2> QED
    BY <1>P, <1>2, <1>8, <2>1
<1>11. \A w \in Workers : Stale(z, w)' <=> Stale(z, w)
  BY <1>4, <1>5 DEF Stale
<1>12. z \in Additions' => z \in Additions \/ (z \in rec.refs /\ z \notin LastRefs)
  <2> SUFFICES ASSUME z \in Additions', ~(z \in rec.refs /\ z \notin LastRefs) PROVE z \in Additions
    OBVIOUS
  <2>1. \/ \E w \in Workers : z \in work'[w].gekoppeld
        \/ \E i \in Waiting' : Has(z, i)' /\ ~Has(z, i - 1)'
    BY AdditionsAfter
  <2>2. CASE \E w \in Workers : z \in work'[w].gekoppeld
    BY <2>2, AdditionsAre
  <2>3. CASE \E i \in Waiting' : Has(z, i)' /\ ~Has(z, i - 1)'
    <3>1. PICK i \in Waiting' : Has(z, i)' /\ ~Has(z, i - 1)'
      BY <2>3
    <3>2. CASE i \in 1..n
      BY <1>4, <1>6, <3>1, <3>2, AdditionsAre
    <3>3. CASE i = m
      <4>1. Has(z, m)' /\ ~Has(z, m - 1)'
        BY <3>1, <3>3
      <4>2. Has(z, m - 1)' <=> Has(z, n)'
        BY <1>4m DEF Has, RefsAt
      <4> QED
        BY <1>2, <4>1, <4>2
    <3> QED
      BY <1>7, <3>1, <3>2, <3>3
  <2> QED
    BY <2>1, <2>2, <2>3
<1>13. OneJob(z)'
  BY DEF Certain, OneJob, Sending
<1>14. Readers(z)'
  <2> SUFFICES ASSUME NEW w \in Workers, work[w].pc = "read"
               PROVE  /\ Has(z, work[w].index)' => z \in work[w].current
                      /\ Stale(z, w)' => Has(z, work[w].index - 1)'
    BY DEF Readers
  <2>1. work[w].index \in 1..n
    BY <1>5
  <2> QED
    BY <1>4, <1>11, <2>1 DEF Certain, Readers
<1>15. Early(z)' /\ OpenRefs' = {}
  BY DEF Early, OpenRefs
<1>16. Deletes(z)'
  <2> SUFFICES ASSUME NEW c \in Clients PROVE Archiving(c, z)' /\ Archived(c, z)' /\ Clearing(c, z)'
    BY DEF Deletes
  <2>1. Archiving(c, z) /\ Archived(c, z) /\ Clearing(c, z)
    BY DEF Certain, Deletes
  <2>2. Archiving(c, z)'
    <3> SUFFICES ASSUME del[c].pc = "remove", del[c].zaak = z
                 PROVE  /\ z \notin Additions'
                        /\ \A i \in 1..m : recs'[i].pk > del[c].record => ~Has(z, i)'
                        /\ \A w \in Workers :
                             work[w].pc = "read" /\ recs'[work[w].index].pk > del[c].record =>
                               z \notin work[w].current
      BY <1>15, <1>A DEF Archiving
    <3>1. z \notin rec.refs /\ z \notin Additions
      BY <2>1 DEF Archiving
    <3>2. \A i \in 1..m : i \in 1..n \/ i = m
      BY <1>N, <1>A
    <3>3. \A i \in 1..m : recs'[i].pk > del[c].record => ~Has(z, i)'
      <4> SUFFICES ASSUME NEW i \in 1..m, recs'[i].pk > del[c].record PROVE ~Has(z, i)'
        OBVIOUS
      <4>1. CASE i \in 1..n
        BY <1>A, <1>L, <1>4, <2>1, <4>1 DEF Archiving
      <4>2. CASE i = m
        <5>1. ~Has(z, m)'
          BY <1>2, <3>1
        <5> QED
          BY <4>2, <5>1 DEF Has, RefsAt
      <4> QED
        BY <3>2, <4>1, <4>2
    <3>4. \A w \in Workers :
            work[w].pc = "read" /\ recs'[work[w].index].pk > del[c].record =>
              z \notin work[w].current
      BY <1>5, <1>L, <1>A, <2>1 DEF Archiving
    <3> QED
      BY <1>12, <3>1, <3>3, <3>4
  <2>3. Archived(c, z)'
    BY <1>3, <1>12, <1>15, <2>1 DEF Archived
  <2>4. Clearing(c, z)'
    BY <1>3, <1>12, <1>15, <2>1 DEF Clearing
  <2> QED
    BY <2>2, <2>3, <2>4
<1>17. Told(z)'
  <2>1. CASE Between(z)
    BY <2>1 DEF Told, Between
  <2>2. CASE ~Between(z)
    <3>1. PICK k \in 0..n : Believes(z, Has(z, k)) /\ Recorded(z, k)
      BY <2>2, <1>L DEF Certain, Told
    <3>2. k \in 0..n /\ k \in 0..m /\ \A j \in 1..k : j \in 1..n
      BY <1>N, <1>L
    <3>3. Has(z, k)' <=> Has(z, k)
      BY <1>2, <3>2
    <3>4. Believes(z, Has(z, k))'
      BY <3>1, <3>3 DEF Believes, Sending
    <3>5. \A j \in 1..k : Pend(z, j)' => (Has(z, j)' <=> Has(z, k)')
      BY <1>4, <1>9, <3>1, <3>2, <3>3 DEF Recorded
    <3>6. ASSUME NEW a \in k..n, NEW b \in k..n, a <= b
          PROVE  (Has(z, a)' <=> Has(z, b)') \/ \E j \in (a + 1)..b : Pend(z, j)'
      <4>1. (Has(z, a) <=> Has(z, b)) \/ \E j \in (a + 1)..b : Pend(z, j)
        BY <1>L, <3>1, <3>6 DEF Recorded
      <4>2. a \in 0..n /\ b \in 0..n /\ \A j \in (a + 1)..b : j \in 1..n
        BY <1>N
      <4>3. (Has(z, a)' <=> Has(z, a)) /\ (Has(z, b)' <=> Has(z, b))
        BY <1>2, <4>2
      <4> QED
        BY <1>9, <4>1, <4>2, <4>3
    <3>7. ASSUME NEW a \in k..m, NEW b \in k..m, a <= b
          PROVE  (Has(z, a)' <=> Has(z, b)') \/ \E j \in (a + 1)..b : Pend(z, j)'
      <4>1. CASE a \in k..n /\ b \in k..n
        BY <3>6, <3>7, <4>1
      <4>2. CASE a = b
        BY <4>2
      <4>3. CASE a \in k..n /\ b = m
        <5>1. n \in k..n /\ a <= n
          BY <1>N, <4>3
        <5>2. (Has(z, a)' <=> Has(z, n)') \/ \E j \in (a + 1)..n : Pend(z, j)'
          BY <3>6, <4>3, <5>1
        <5>3. b \in (a + 1)..b /\ \A j \in (a + 1)..n : j \in (a + 1)..b
          BY <1>N, <4>3
        <5>4. Has(z, n)' <=> z \in LastRefs
          BY <1>2
        <5>5. Has(z, b)' <=> z \in rec.refs
          BY <1>2, <4>3 DEF Has, RefsAt
        <5> QED
          BY <1>10, <4>3, <5>2, <5>3, <5>4, <5>5
      <4> QED
        BY <1>N, <1>A, <3>7, <4>1, <4>2, <4>3
    <3>8. \A w \in Workers : Stale(z, w)' => work'[w].index <= k
      BY <1>11, <3>1 DEF Recorded
    <3>9. Recorded(z, k)'
      BY <1>A, <3>5, <3>7, <3>8 DEF Recorded
    <3> QED
      BY <1>A, <3>2, <3>4, <3>9 DEF Told
  <2> QED
    BY <2>1, <2>2
<1> QED
  BY <1>13, <1>14, <1>15, <1>16, <1>17 DEF Certain

LEMMA CommitCertain ==
    ASSUME TypeInv, Commit, NEW z \in Zaken \ doubtful', Certain(z)
    PROVE  Certain(z)'
<1>1. /\ open # None /\ open \in Rec /\ recs' = Append(recs, open) /\ state # "deleted"
      /\ state' = "live" /\ open' = None /\ UNCHANGED <<queue, work, del, linked>>
  BY DEF Commit, TypeInv, Types, Alive
<1>2. z \in open.refs => z \in OpenRefs
  BY <1>1 DEF OpenRefs
<1>3. (z \in open.refs <=> z \in LastRefs) \/ open.pk \in queue
  BY <1>1 DEF Certain, Early
<1> QED
  BY <1>1, <1>2, <1>3, AppendedCertain

\* The admin's record refers to nothing; only what the one before refers to is doubtful.
LEMMA AdminAddsCertain ==
    ASSUME TypeInv, AdminAdds, NEW z \in Zaken \ doubtful', Certain(z)
    PROVE  Certain(z)'
<1>1. PICK rec \in Rec : rec.refs = {} /\ recs' = Append(recs, rec)
  <2>1. [pk |-> lastPk + 1, refs |-> {}] \in Rec
    BY MaxPkAssumption DEF TypeInv, Types, Rec
  <2>2. recs' = Append(recs, [pk |-> lastPk + 1, refs |-> {}])
    BY DEF AdminAdds
  <2> QED
    BY <2>1, <2>2
<1>2. /\ state # "deleted" /\ state' = "live" /\ open' = None
      /\ UNCHANGED <<queue, work, del, linked>> /\ z \notin LastRefs
  BY DEF AdminAdds, Doubt
<1> QED
  BY <1>1, <1>2, AppendedCertain

\* "zaak_references.filter(url=archiving_zaak_url).delete()": nothing but the record
\* that the DELETE read, and perhaps ones before it, refers to the ZAAK.
LEMMA RemoveCertain ==
    ASSUME TypeInv, NEW c \in Clients, Remove(c), NEW z \in Zaken \ doubtful', Certain(z)
    PROVE  Certain(z)'
<1>T. Types /\ Keys /\ Alive /\ Known
  BY DEF TypeInv
<1>U. /\ UNCHANGED <<state, open, queue, work, linked>> /\ Goto(c, "send") /\ del[c].pc = "remove"
  BY DEF Remove
<1>G. /\ \A d \in Clients \ {c} : del'[d] = del[d]
      /\ del'[c].pc = "send" /\ del'[c].zaak = del[c].zaak
  BY <1>T, <1>U, GotoType DEF Stages
<1>R. /\ Len(recs') = Len(recs) /\ DOMAIN recs' = DOMAIN recs /\ DOMAIN recs = 1..Len(recs)
      /\ \A i \in 1..Len(recs) : recs'[i].pk = recs[i].pk
      /\ \A i \in 1..Len(recs) : recs[i].pk # del[c].record => recs'[i].refs = recs[i].refs
      /\ \A i \in 1..Len(recs) : recs[i].pk = del[c].record =>
           recs'[i].refs = recs[i].refs \ {del[c].zaak}
  BY <1>T, RemovedRefs, RefsType
<1>N. Len(recs) \in Nat
  BY <1>T, RefsType
<1>W. Waiting' = Waiting
  BY <1>U, <1>R DEF Waiting, WaitingAt
<1>J. OneJob(z)'
  BY <1>U DEF Certain, OneJob, Sending
<1>1. CASE del[c].zaak # z
  <2>1. \A i : Has(z, i)' <=> Has(z, i)
    <3> SUFFICES ASSUME NEW i \in 1..Len(recs) PROVE z \in recs'[i].refs <=> z \in recs[i].refs
      BY <1>R DEF Has, RefsAt
    <3> QED
      BY <1>R, <1>1
  <2>2. \A i : Pend(z, i)' <=> Pend(z, i)
    <3>1. \A i : Pend(z, i)' <=> i \in Waiting' /\ (Has(z, i)' <=> ~Has(z, i - 1)')
      BY DEF Pend, Changed, Added, Has
    <3> QED
      BY <1>W, <2>1, <3>1, PendIs
  <2>3. \A w \in Workers : Stale(z, w)' <=> Stale(z, w)
    BY <1>U, <2>1 DEF Stale
  <2>4. Same(z)
    BY <1>U, <1>R, <2>1, <2>2, <2>3 DEF Same, SameRecords
  <2>5. /\ z \in Additions' <=> z \in Additions
        /\ z \in LastRefs' <=> z \in LastRefs
        /\ OpenRefs' = OpenRefs
    <3>1. z \in LastRefs' <=> z \in LastRefs
      <4>1. (z \in LastRefs <=> Has(z, Len(recs))) /\ (z \in LastRefs' <=> Has(z, Len(recs))')
        BY DEF LastRefs, Has
      <4>2. Has(z, Len(recs))' <=> Has(z, Len(recs))
        BY <1>R, <2>1 DEF Has, RefsAt
      <4> QED
        BY <4>1, <4>2
    <3> QED
      BY <1>U, <2>4, <3>1, SameAdditions DEF OpenRefs
  <2>6. Readers(z)'
    BY <1>U, <2>1, <2>3 DEF Certain, Readers
  <2>7. Early(z)'
    BY <1>U, <2>5 DEF Certain, Early
  <2>8. Deletes(z)'
    <3> SUFFICES ASSUME NEW d \in Clients PROVE Archiving(d, z)' /\ Archived(d, z)' /\ Clearing(d, z)'
      BY DEF Deletes
    <3>1. CASE d = c
      BY <1>1, <1>G, <3>1 DEF Archiving, Archived, Clearing
    <3>2. CASE d # c
      <4>1. Archiving(d, z) /\ Archived(d, z) /\ Clearing(d, z) /\ del'[d] = del[d]
        BY <1>G, <3>2 DEF Certain, Deletes
      <4>2. \A w \in Workers : work[w].pc = "read" /\ state # "deleted" =>
              work[w].index \in 1..Len(recs)
        BY <1>T DEF Known
      <4>3. Archiving(d, z)'
        BY <1>U, <1>R, <2>1, <2>5, <4>1, <4>2 DEF Archiving
      <4>4. Archived(d, z)' /\ Clearing(d, z)'
        BY <1>U, <2>5, <4>1 DEF Archived, Clearing
      <4> QED
        BY <4>3, <4>4
    <3> QED
      BY <3>1, <3>2
  <2>9. Told(z)'
    <3>1. Between(z) => Between(z)'
      BY <1>U, <1>G DEF Between
    <3> QED
      BY <1>U, <2>4, <3>1, SameTold DEF Certain
  <2> QED
    BY <1>J, <2>6, <2>7, <2>8, <2>9 DEF Certain
<1>2. CASE del[c].zaak = z
  <2>1. /\ z \notin Additions /\ z \notin OpenRefs
        /\ \A i \in 1..Len(recs) : recs[i].pk > del[c].record => ~Has(z, i)
        /\ \A w \in Workers :
             work[w].pc = "read" /\ state # "deleted" /\ recs[work[w].index].pk > del[c].record =>
               z \notin work[w].current
    BY <1>U, <1>2 DEF Certain, Deletes, Archiving
  <2>2. \A i : Has(z, i)' <=> Has(z, i) /\ ~(i \in 1..Len(recs) /\ recs[i].pk = del[c].record)
    <3> SUFFICES ASSUME NEW i \in 1..Len(recs)
                 PROVE  z \in recs'[i].refs <=> z \in recs[i].refs /\ recs[i].pk # del[c].record
      BY <1>R DEF Has, RefsAt
    <3> QED
      BY <1>R, <1>2
  <2>3. \A i : Has(z, i) /\ i \in Waiting => Has(z, i - 1)
    BY <2>1, AdditionsAre
  <2>4. \A i \in 1..Len(recs) : Has(z, i - 1) /\ ~Has(z, i - 1)' => recs[i].pk > del[c].record
    <3> SUFFICES ASSUME NEW i \in 1..Len(recs), Has(z, i - 1), ~Has(z, i - 1)'
                 PROVE  recs[i].pk > del[c].record
      OBVIOUS
    <3>1. i - 1 \in 1..Len(recs) /\ recs[i - 1].pk = del[c].record
      BY <2>2
    <3>2. recs[i - 1].pk < recs[i].pk
      BY <1>T, <1>N, <3>1 DEF Keys
    <3>3. recs[i - 1].pk \in Nat /\ recs[i].pk \in Nat
      BY <1>T, <3>1, RefsType
    <3> QED
      BY <3>1, <3>2, <3>3
  <2>5. z \notin Additions'
    <3> SUFFICES ASSUME z \in Additions' PROVE FALSE
      OBVIOUS
    <3>1. \A w \in Workers : z \notin work'[w].gekoppeld
      BY <1>U, <2>1, AdditionsAre
    <3>2. PICK i \in Waiting' : Has(z, i)' /\ ~Has(z, i - 1)'
      BY <3>1, AdditionsAfter
    <3>3. Has(z, i) /\ i \in Waiting /\ i \in 1..Len(recs)
      BY <1>R, <1>W, <2>2, <3>2, WaitingIs
    <3>4. recs[i].pk > del[c].record
      BY <2>3, <2>4, <3>2, <3>3
    <3> QED
      BY <2>1, <3>3, <3>4
  <2>6. z \notin LastRefs'
    <3> SUFFICES ASSUME z \in LastRefs' PROVE FALSE
      OBVIOUS
    <3>1. Has(z, Len(recs))'
      BY DEF LastRefs, Has
    <3>2. Has(z, Len(recs')) /\ ~(Len(recs') \in 1..Len(recs) /\ recs[Len(recs')].pk = del[c].record)
      <4>1. Has(z, Len(recs))' => z \in (IF Len(recs') \in DOMAIN recs' THEN recs'[Len(recs')].refs ELSE {})
        BY DEF Has, RefsAt
      <4>2. Len(recs) \in 1..Len(recs) /\ z \in recs'[Len(recs)].refs
        BY <1>R, <3>1, <4>1
      <4> QED
        BY <1>R, <1>2, <4>2 DEF Has, RefsAt
    <3>3. Has(z, Len(recs)) /\ Len(recs) \in 1..Len(recs) /\ recs[Len(recs)].pk # del[c].record
      <4>1. Has(z, Len(recs)) => Len(recs) \in 1..Len(recs)
        BY <1>R DEF Has, RefsAt
      <4> QED
        BY <1>R, <3>2, <4>1
    <3>4. recs # <<>>
      BY <3>3
    <3>5. del[c].record <= recs[Len(recs)].pk
      BY <1>T, <1>U, <3>4 DEF Known
    <3>6. recs[Len(recs)].pk \in Nat /\ del[c].record \in Nat
      BY <1>T, <3>3, RefsType DEF Types, Del
    <3> QED
      BY <2>1, <3>3, <3>5, <3>6
  <2>7. Readers(z)'
    <3> SUFFICES ASSUME NEW w \in Workers, work[w].pc = "read", NEW i, i = work[w].index
                 PROVE  /\ state = "deleted" => z \notin work[w].current
                        /\ state # "deleted" =>
                             /\ Has(z, i)' => z \in work[w].current
                             /\ z \in work[w].current /\ ~Has(z, i)' => Has(z, i - 1)'
      BY <1>U DEF Readers, Stale, Has, RefsAt
    <3>1. /\ state = "deleted" => z \notin work[w].current
          /\ state # "deleted" => /\ Has(z, i) => z \in work[w].current
                                  /\ z \in work[w].current /\ ~Has(z, i) => Has(z, i - 1)
      BY DEF Certain, Readers, Stale
    <3>2. ASSUME state # "deleted", z \in work[w].current, ~Has(z, i)' PROVE Has(z, i - 1)'
      <4>1. i \in 1..Len(recs) /\ i \in Waiting
        BY <1>T, <1>R, <3>2, WaitingIs DEF Known
      <4>2. Has(z, i - 1)
        BY <2>3, <3>1, <3>2, <4>1
      <4>3. ~(recs[i].pk > del[c].record)
        BY <2>1, <3>2
      <4> QED
        BY <2>4, <4>1, <4>2, <4>3
    <3> QED
      BY <2>2, <3>1, <3>2
  <2>8. Early(z)'
    <3> SUFFICES ASSUME open # None PROVE z \notin open.refs /\ z \notin LastRefs'
      BY <1>U DEF Early
    <3> QED
      BY <2>1, <2>6 DEF OpenRefs
  <2>9. Deletes(z)'
    <3> SUFFICES ASSUME NEW d \in Clients PROVE Archiving(d, z)' /\ Archived(d, z)' /\ Clearing(d, z)'
      BY DEF Deletes
    <3>1. z \notin OpenRefs'
      BY <1>U, <2>1 DEF OpenRefs
    <3>2. CASE d = c
      BY <1>G, <2>5, <2>6, <3>1, <3>2 DEF Archiving, Archived, Clearing
    <3>3. CASE d # c
      <4>1. Archiving(d, z) /\ Archived(d, z) /\ Clearing(d, z) /\ del'[d] = del[d]
        BY <1>G, <3>3 DEF Certain, Deletes
      <4>2. \A w \in Workers : work[w].pc = "read" /\ state # "deleted" =>
              work[w].index \in 1..Len(recs)
        BY <1>T DEF Known
      <4>3. Archiving(d, z)'
        BY <1>U, <1>R, <2>2, <2>5, <3>1, <4>1, <4>2 DEF Archiving
      <4>4. Archived(d, z)' /\ Clearing(d, z)'
        BY <1>U, <2>5, <2>6, <3>1, <4>1 DEF Archived, Clearing
      <4> QED
        BY <4>3, <4>4
    <3> QED
      BY <3>2, <3>3
  <2>10. Told(z)'
    <3>1. Between(z)'
      BY <1>2, <1>G DEF Between
    <3> QED
      BY <3>1 DEF Told
  <2> QED
    BY <1>J, <2>7, <2>8, <2>9, <2>10 DEF Certain
<1> QED
  BY <1>1, <1>2

\* Without a DELETE in between and without a task that waits, the belief will be what
\* the last record says.
LEMMA WillBelieve ==
    ASSUME TypeInv, NEW z, Told(z), ~Between(z), \A i \in Waiting : z \notin Changed(i)
    PROVE  Believes(z, z \in LastRefs)
<1>1. PICK k \in 0..Len(recs) : Believes(z, Has(z, k)) /\ Recorded(z, k)
  BY DEF Told
<1>2. Len(recs) \in k..Len(recs) /\ k \in k..Len(recs) /\ k <= Len(recs)
  BY RefsType DEF TypeInv
<1>3. (Has(z, k) <=> Has(z, Len(recs))) \/ \E j \in (k + 1)..Len(recs) : Pend(z, j)
  BY <1>1, <1>2 DEF Recorded
<1>4. Has(z, k) <=> z \in LastRefs
  BY <1>3 DEF Pend, Has, LastRefs
<1> QED
  BY <1>1, <1>4 DEF Believes

\* The object goes: what the tasks that are left would have sent is doubtful.
LEMMA GoneCertain ==
    ASSUME TypeInv, open = None, state' = "deleted", recs' = <<>>,
           UNCHANGED <<open, queue, work, linked>>,
           \A c \in Clients : del'[c] = del[c] \/ del'[c].pc = "gone",
           NEW z, Certain(z), z \notin Orphaned,
           Between(z)' \/ Believes(z, FALSE)
    PROVE  Certain(z)'
<1>1. OneJob(z)'
  BY DEF Certain, OneJob, Sending
<1>2. Readers(z)'
  <2>1. \A w \in Workers : z \notin work[w].current
    BY DEF Orphaned
  <2> QED
    BY <2>1 DEF Readers
<1>3. Early(z)' /\ OpenRefs' = {}
  BY DEF Early, OpenRefs
<1>4. \A i : ~Has(z, i)' /\ i \notin Waiting'
  BY DEF Has, RefsAt, Waiting, WaitingAt
<1>5. z \in Additions' => z \in Additions
  BY <1>4, AdditionsAfter, AdditionsAre
<1>6. z \notin LastRefs'
  BY DEF LastRefs, RefsAt
<1>7. Deletes(z)'
  <2> SUFFICES ASSUME NEW c \in Clients PROVE Archiving(c, z)' /\ Archived(c, z)' /\ Clearing(c, z)'
    BY DEF Deletes
  <2>1. Archiving(c, z) /\ Archived(c, z) /\ Clearing(c, z)
    BY DEF Certain, Deletes
  <2>2. CASE del'[c] = del[c]
    BY <1>3, <1>4, <1>5, <1>6, <2>1, <2>2 DEF Archiving, Archived, Clearing
  <2>3. CASE del'[c].pc = "gone"
    BY <2>3 DEF Archiving, Archived, Clearing
  <2> QED
    BY <2>2, <2>3
<1>8. Told(z)'
  <2>1. CASE Between(z)'
    BY <2>1 DEF Told
  <2>2. CASE Believes(z, FALSE)
    <3>1. Len(recs') = 0 /\ 0 \in 0..Len(recs')
      OBVIOUS
    <3>2. ~Has(z, 0)'
      BY <1>4
    <3>3. Believes(z, Has(z, 0))'
      BY <2>2, <3>2 DEF Believes, Sending
    <3>4. Recorded(z, 0)'
      <4>1. \A a, b \in 0..Len(recs') : Has(z, a)' <=> Has(z, b)'
        BY <1>4
      <4> QED
        BY <3>1, <4>1 DEF Recorded
    <3> QED
      BY <3>1, <3>3, <3>4 DEF Told
  <2> QED
    BY <2>1, <2>2
<1> QED
  BY <1>1, <1>2, <1>3, <1>7, <1>8 DEF Certain

\* "obj.delete()"
LEMMA DeleteObjectCertain ==
    ASSUME TypeInv, NEW c \in Clients, DeleteObject(c), NEW z \in Zaken \ doubtful', Certain(z)
    PROVE  Certain(z)'
<1>T. Types
  BY DEF TypeInv
<1>U. /\ open = None /\ state' = "deleted" /\ recs' = <<>> /\ UNCHANGED <<open, queue, work, linked>>
      /\ Goto(c, "gone") /\ del[c].pc = "delete" /\ z \notin Orphaned
  BY DEF DeleteObject, Doubt
<1>G. /\ \A d \in Clients \ {c} : del'[d] = del[d]
      /\ del'[c].pc = "gone"
  BY <1>T, <1>U, GotoType DEF Stages
<1>1. /\ z \notin Additions /\ (z \notin del[c].urls => z \notin LastRefs)
      /\ z \in del[c].urls => z \notin linked
  BY <1>U DEF Certain, Deletes, Clearing
<1>2. CASE z \in del[c].urls
  <2>1. \A w \in Workers : z \notin work[w].gekoppeld
    BY <1>1, AdditionsAre
  <2>2. Believes(z, FALSE)
    BY <1>1, <1>2, <2>1 DEF Believes
  <2> QED
    BY <1>U, <1>G, <2>2, GoneCertain
<1>3. CASE z \notin del[c].urls /\ Between(z)
  <2>1. Between(z)'
    BY <1>U, <1>G, <1>3 DEF Between
  <2> QED
    BY <1>U, <1>G, <2>1, GoneCertain
<1>4. CASE z \notin del[c].urls /\ ~Between(z)
  <2>1. \A i \in Waiting : z \notin Changed(i)
    BY <1>U DEF Orphaned
  <2>2. Believes(z, z \in LastRefs)
    BY <1>4, <2>1, WillBelieve DEF Certain
  <2>3. Believes(z, FALSE)
    BY <1>1, <1>4, <2>2 DEF Believes
  <2> QED
    BY <1>U, <1>G, <2>3, GoneCertain
<1> QED
  BY <1>2, <1>3, <1>4

LEMMA AdminDeletesCertain ==
    ASSUME TypeInv, AdminDeletes, NEW z \in Zaken \ doubtful', Certain(z)
    PROVE  Certain(z)'
<1>U. /\ open = None /\ state' = "deleted" /\ recs' = <<>>
      /\ UNCHANGED <<open, queue, work, del, linked>> /\ z \notin Orphaned /\ z \notin LastRefs
  BY DEF AdminDeletes, Doubt
<1>1. CASE Between(z)
  <2>1. Between(z)'
    BY <1>U, <1>1 DEF Between
  <2> QED
    BY <1>U, <2>1, GoneCertain
<1>2. CASE ~Between(z)
  <2>1. \A i \in Waiting : z \notin Changed(i)
    BY <1>U DEF Orphaned
  <2>2. Believes(z, z \in LastRefs)
    BY <1>2, <2>1, WillBelieve DEF Certain
  <2>3. Believes(z, FALSE)
    BY <1>U, <2>2 DEF Believes
  <2> QED
    BY <1>U, <2>3, GoneCertain
<1> QED
  BY <1>1, <1>2

LEMMA StutterCertain ==
    ASSUME UNCHANGED vars, NEW z, Certain(z) PROVE Certain(z)'
<1>1. /\ UNCHANGED <<state, recs, open, queue, work, del, linked>>
  BY DEF vars
<1>2. (z \in Additions' <=> z \in Additions) /\ LastRefs' = LastRefs /\ OpenRefs' = OpenRefs
  BY <1>1, RequestSame, RefsSame DEF OpenRefs
<1>3. Early(z)'
  BY <1>1, <1>2 DEF Certain, Early
<1>4. Deletes(z)'
  BY <1>1, <1>2, DeletesKept DEF Certain, Deletes
<1>5. Between(z) => Between(z)'
  BY <1>1 DEF Between
<1> QED
  BY <1>1, <1>3, <1>4, <1>5, RequestCertain

-----------------------------------------------------------------------------
(* The invariant. *)

LEMMA EventsInit == Init => EventsInv
<1> SUFFICES ASSUME Init, NEW z \in Zaken PROVE Certain(z)
  BY TypesInit DEF EventsInv
<1>1. /\ recs = <<>> /\ open = None /\ queue = {} /\ linked = {} /\ state = "unborn"
      /\ work = [w \in Workers |-> Free] /\ del = [c \in Clients |-> Idle]
  BY DEF Init
<1>2. \A w \in Workers : work[w].pc = "free" /\ work[w].gekoppeld = {} /\ work[w].ontkoppeld = {}
  BY <1>1 DEF Free
<1>3. \A c \in Clients : del[c].pc = "idle"
  BY <1>1 DEF Idle
<1>4. OneJob(z) /\ Readers(z) /\ Early(z) /\ Deletes(z)
  BY <1>1, <1>2, <1>3 DEF OneJob, Sending, Readers, Early, Deletes, Archiving, Archived, Clearing
<1>5. Told(z)
  <2>1. Len(recs) = 0 /\ 0 \in 0..Len(recs) /\ ~Has(z, 0)
    BY <1>1 DEF Has, RefsAt
  <2>2. Believes(z, Has(z, 0))
    BY <1>1, <1>2, <2>1 DEF Believes, Sending
  <2>3. Recorded(z, 0)
    <3>1. \A a, b \in 0..Len(recs) : Has(z, a) <=> Has(z, b)
      BY <1>1 DEF Has, RefsAt
    <3>2. \A w \in Workers : ~Stale(z, w)
      BY <1>2 DEF Stale
    <3> QED
      BY <2>1, <3>1, <3>2 DEF Recorded
  <2> QED
    BY <2>1, <2>2, <2>3 DEF Told
<1> QED
  BY <1>4, <1>5 DEF Certain

\* What is doubtful stays so.
LEMMA DoubtfulGrows == ASSUME [Next]_vars PROVE doubtful \in SUBSET doubtful'
BY DEF Next, WorkerStep, ClientStep, Doubt, vars, Save, Commit, RollBack, TakeTask, ReadPrevious,
       Send, SendGekoppeld, SendOntkoppeld, TaskDone, FailTask, Destroy, Remove, SendArchived,
       SendAll, DeleteObject, FailDelete, AdminAdds, AdminDeletes

LEMMA EventsNext == ASSUME EventsInv, [Next]_vars PROVE EventsInv'
<1>1. TypeInv /\ TypeInv'
  BY TypesNext DEF EventsInv
<1> SUFFICES ASSUME NEW z \in Zaken \ doubtful' PROVE Certain(z)'
  BY <1>1 DEF EventsInv
<1>2. Certain(z)
  BY DoubtfulGrows DEF EventsInv
<1>3. ASSUME NEW refs \in SUBSET Zaken, Save(refs) PROVE Certain(z)'
  BY <1>1, <1>2, <1>3, SaveCertain
<1>4. ASSUME NEW w \in Workers, WorkerStep(w) \/ FailTask(w) PROVE Certain(z)'
  <2>1. ASSUME NEW pk \in queue, TakeTask(w, pk) PROVE Certain(z)'
    BY <1>1, <1>2, <2>1, TakeTaskCertain
  <2>2. CASE ReadPrevious(w)
    BY <1>1, <1>2, <2>2, ReadPreviousCertain
  <2>3. ASSUME NEW y \in Zaken, SendGekoppeld(w, y) PROVE Certain(z)'
    BY <1>1, <1>2, <2>3, SendGekoppeldCertain
  <2>4. ASSUME NEW y \in Zaken, SendOntkoppeld(w, y) PROVE Certain(z)'
    BY <1>1, <1>2, <2>4, SendOntkoppeldCertain
  <2>5. CASE TaskDone(w)
    BY <1>1, <1>2, <2>5, TaskDoneCertain
  <2>6. CASE FailTask(w)
    BY <1>1, <1>2, <2>6, FailTaskCertain
  <2> QED
    BY <1>4, <2>1, <2>2, <2>3, <2>4, <2>5, <2>6 DEF WorkerStep
<1>5. ASSUME NEW c \in Clients,
             (\E zaak \in Zaken \cup {None} : Destroy(c, zaak)) \/ ClientStep(c) \/ FailDelete(c)
      PROVE  Certain(z)'
  <2>1. ASSUME NEW zaak \in Zaken \cup {None}, Destroy(c, zaak) PROVE Certain(z)'
    BY <1>1, <1>2, <2>1, DestroyCertain
  <2>2. CASE Remove(c)
    BY <1>1, <1>2, <2>2, RemoveCertain
  <2>3. CASE SendArchived(c)
    BY <1>1, <1>2, <2>3, SendArchivedCertain
  <2>4. CASE SendAll(c)
    BY <1>1, <1>2, <2>4, SendAllCertain
  <2>5. CASE DeleteObject(c)
    BY <1>1, <1>2, <2>5, DeleteObjectCertain
  <2>6. CASE FailDelete(c)
    BY <1>1, <1>2, <2>6, FailDeleteCertain
  <2> QED
    BY <1>5, <2>1, <2>2, <2>3, <2>4, <2>5, <2>6 DEF ClientStep
<1>6. CASE Commit
  BY <1>1, <1>2, <1>6, CommitCertain
<1>7. CASE RollBack
  BY <1>1, <1>2, <1>7, RollBackCertain
<1>8. CASE AdminAdds
  BY <1>1, <1>2, <1>8, AdminAddsCertain
<1>9. CASE AdminDeletes
  BY <1>1, <1>2, <1>9, AdminDeletesCertain
<1>10. CASE UNCHANGED vars
  BY <1>2, <1>10, StutterCertain
<1> QED
  BY <1>3, <1>4, <1>5, <1>6, <1>7, <1>8, <1>9, <1>10 DEF Next

\* For every ZAAK whose events did not cross and were not lost: one task at most has an
\* event of it to send, and when the tasks that run have ended the subscriber believes
\* what one of the records says, all tasks of the later records being still to come.
THEOREM EventsInvariant == Spec => []EventsInv
<1>1. Init => EventsInv
  BY EventsInit
<1>2. EventsInv /\ [Next]_vars => EventsInv'
  BY EventsNext
<1> QED
  BY <1>1, <1>2, PTL DEF Spec

\* When no request and no task is left, the subscriber knows of every such ZAAK whether
\* the object refers to it.
THEOREM BelievedInTheEnd == Spec => []BelievedWhenQuiet
<1>1. EventsInv => BelievedWhenQuiet
  <2> SUFFICES ASSUME EventsInv, Quiet, NEW z \in Zaken \ doubtful
               PROVE  z \in linked <=> z \in LastRefs
    BY DEF BelievedWhenQuiet
  <2>1. TypeInv /\ Told(z)
    BY DEF EventsInv, Certain
  <2>2. ~Between(z)
    BY DEF Quiet, NoRequests, InProgress, Between
  <2>3. \A w \in Workers : work[w] = Free
    BY DEF Quiet, NoTasks
  <2>4. \A w \in Workers : work[w].pc # "read" /\ z \notin Sending(w)
    BY <2>3 DEF Free, Sending
  <2>5. Waiting = {}
    BY <2>4 DEF Quiet, NoTasks, Waiting, WaitingAt
  <2>6. Believes(z, z \in LastRefs)
    BY <2>1, <2>2, <2>5, WillBelieve
  <2> QED
    BY <2>4, <2>6 DEF Believes
<1> QED
  BY <1>1, EventsInvariant, PTL
=============================================================================
