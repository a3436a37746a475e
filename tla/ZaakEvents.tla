----------------------------- MODULE ZaakEvents -----------------------------
(***************************************************************************)
(* One OBJECT, the ZAKEN that its records refer to, and the cloud events   *)
(* that tell a subscriber which ZAKEN it is linked to (ENABLE_CLOUD_EVENTS *)
(* is on).  A record that is saved queues a task, which compares the       *)
(* record with the one before it; a DELETE sends its events itself.  The   *)
(* requests themselves are those of RecordHistory: the lock on the last    *)
(* record lets one transaction at a time add a record.                     *)
(*                                                                         *)
(* Workers take the tasks in any order and at any time, also before the    *)
(* transaction that queued them has ended, and lose one that fails halfway.*)
(* Requests, tasks and the admin overlap as they like.  The events reach   *)
(* the subscriber in the order in which they are sent.                     *)
(*                                                                         *)
(* Nothing orders the tasks of two records, or a task and a DELETE, so the *)
(* events of one ZAAK may cross.  doubtful is a history variable, which no *)
(* action reads: the ZAKEN to which that, or a loss, ever happened.        *)
(***************************************************************************)
EXTENDS Integers, Sequences

CONSTANTS
  Zaken,      \* URLs of ZAKEN
  Workers,    \* Celery workers
  Clients,    \* requests to DELETE the object
  None,       \* null
  MaxPk       \* how many records are ever inserted (a bound)

ASSUME MaxPkAssumption == MaxPk \in Nat
ASSUME NoneAssumption == None \notin Zaken \cup [pk : Nat, refs : SUBSET Zaken]

VARIABLES
  state,    \* "unborn", "live" or "deleted"
  recs,     \* the committed records, by index: primary key and references to ZAKEN
  open,     \* the record that is inserted and not committed, or None
  lastPk,   \* the last primary key given to a record
  queue,    \* the records for which send_zaak_events is queued
  work,     \* work[w]: the task of worker w
  del,      \* del[c]: the DELETE of client c
  linked,   \* the ZAKEN that the subscriber takes to be linked to the object
  doubtful  \* the ZAKEN whose events crossed or were lost

vars == <<state, recs, open, lastPk, queue, work, del, linked, doubtful>>

-----------------------------------------------------------------------------
Free == [pc |-> "free", index |-> 0, current |-> {}, gekoppeld |-> {}, ontkoppeld |-> {}]
Idle == [pc |-> "idle", zaak |-> None, record |-> 0, urls |-> {}]

RefsAt(i) == IF i \in DOMAIN recs THEN recs[i].refs ELSE {}
LastRefs  == RefsAt(Len(recs))

InProgress(c) == del[c].pc \in {"remove", "send", "send all", "delete"}

NoRequests == open = None /\ \A c \in Clients : ~InProgress(c)
NoTasks    == queue = {} /\ \A w \in Workers : work[w] = Free
Quiet      == NoRequests /\ NoTasks

Goto(c, stmt) == del' = [del EXCEPT ![c].pc = stmt]

(* What makes the belief about a ZAAK doubtful. *)

Added(i)   == RefsAt(i) \ RefsAt(i - 1)
Changed(i) == Added(i) \cup (RefsAt(i - 1) \ RefsAt(i))

\* The records whose task is queued, or has been taken and has not looked at the
\* record before.
WaitingAt(workers) ==
  {i \in DOMAIN recs : \/ recs[i].pk \in queue
                       \/ \E v \in workers : work[v].pc = "read" /\ work[v].index = i}
Waiting == WaitingAt(Workers)

Sending(w) == work[w].gekoppeld \cup work[w].ontkoppeld

\* The links that a task will still report, and those of the record that is inserted
\* and not committed.
Additions ==
  UNION ({work[w].gekoppeld : w \in Workers} \cup {Added(i) : i \in Waiting})
OpenRefs == IF open = None THEN {} ELSE open.refs

Doubt(zaken) == doubtful' = doubtful \cup zaken

-----------------------------------------------------------------------------
Init ==
  /\ state = "unborn"
  /\ recs = <<>>
  /\ open = None
  /\ lastPk = 0
  /\ queue = {}
  /\ work = [w \in Workers |-> Free]
  /\ del = [c \in Clients |-> Idle]
  /\ linked = {}
  /\ doubtful = {}

\* What a record with these references upsets: the DELETE for one of them, and the
\* DELETE of the object that it links to another ZAAK.
Meets(refs) ==
  {z \in refs : \/ \E c \in Clients : del[c].pc \in {"remove", "send"} /\ del[c].zaak = z
                \/ z \notin LastRefs /\ \E c \in Clients : del[c].pc \in {"send all", "delete"}}

\* A variant: no task is queued for the record.
SaveUnqueued(refs) ==
  /\ state # "deleted" /\ open = None
  /\ lastPk < MaxPk
  /\ lastPk' = lastPk + 1
  /\ open' = [pk |-> lastPk + 1, refs |-> refs]
  /\ Doubt(Meets(refs))
  /\ UNCHANGED <<state, recs, queue, work, del, linked>>

\* POST, PUT or PATCH: the record is inserted and its task is queued, both before
\* the transaction that is around create() and update() has ended.
Save(refs) ==
  /\ state # "deleted" /\ open = None
  /\ lastPk < MaxPk
  /\ lastPk' = lastPk + 1
  /\ open' = [pk |-> lastPk + 1, refs |-> refs]
  /\ queue' = queue \cup {lastPk + 1}
  /\ Doubt(Meets(refs))
  /\ UNCHANGED <<state, recs, work, del, linked>>

Commit ==
  /\ open # None
  /\ state' = "live"
  /\ recs' = Append(recs, open)
  /\ open' = None
  /\ UNCHANGED <<lastPk, queue, work, del, linked, doubtful>>

\* The notification that follows may fail; the task stays queued.
RollBack ==
  /\ open # None
  /\ open' = None
  /\ UNCHANGED <<state, recs, lastPk, queue, work, del, linked, doubtful>>

\* send_zaak_events: the record and its references.  A record that is not there (yet,
\* or any more) is no concern.
TakeTask(w, pk) ==
  /\ work[w] = Free /\ pk \in queue
  /\ queue' = queue \ {pk}
  /\ IF \E i \in DOMAIN recs : recs[i].pk = pk
     THEN \E i \in DOMAIN recs :
            /\ recs[i].pk = pk
            /\ work' = [work EXCEPT ![w] = [pc |-> "read", index |-> i, current |-> recs[i].refs,
                                            gekoppeld |-> {}, ontkoppeld |-> {}]]
     ELSE UNCHANGED work
  /\ Doubt(IF open # None /\ open.pk = pk
           THEN (open.refs \ LastRefs) \cup (LastRefs \ open.refs) ELSE {})
  /\ UNCHANGED <<state, recs, open, lastPk, del, linked>>

\* What the two sets of references make worker w send.  An event of the same ZAAK may
\* be on its way, or may follow, from the task of a record before.
Send(w, previous) ==
  LET task == [pc |-> "send", index |-> 0, current |-> {},
               gekoppeld |-> work[w].current \ previous,
               ontkoppeld |-> previous \ work[w].current]
  IN  /\ work' = [work EXCEPT ![w] = task]
      /\ Doubt({z \in task.gekoppeld \cup task.ontkoppeld :
                  \/ \E v \in Workers \ {w} : z \in Sending(v)
                  \/ \E j \in WaitingAt(Workers \ {w}) : j < work[w].index /\ z \in Changed(j)})

\* A variant: the record before is not looked at.
ReadNothing(w) ==
  /\ work[w].pc = "read"
  /\ Send(w, {})
  /\ UNCHANGED <<state, recs, open, lastPk, queue, del, linked>>

\* The references that the record with the index before has by now.
ReadPrevious(w) ==
  /\ work[w].pc = "read"
  /\ Send(w, RefsAt(work[w].index - 1))
  /\ UNCHANGED <<state, recs, open, lastPk, queue, del, linked>>

\* zaak-gekoppeld for each new ZAAK, then zaak-ontkoppeld for each that is gone.
SendGekoppeld(w, z) ==
  /\ z \in work[w].gekoppeld
  /\ work' = [work EXCEPT ![w].gekoppeld = @ \ {z}]
  /\ linked' = linked \cup {z}
  /\ UNCHANGED <<state, recs, open, lastPk, queue, del, doubtful>>

SendOntkoppeld(w, z) ==
  /\ work[w].gekoppeld = {} /\ z \in work[w].ontkoppeld
  /\ work' = [work EXCEPT ![w].ontkoppeld = @ \ {z}]
  /\ linked' = linked \ {z}
  /\ UNCHANGED <<state, recs, open, lastPk, queue, del, doubtful>>

TaskDone(w) ==
  /\ work[w].pc = "send" /\ Sending(w) = {}
  /\ work' = [work EXCEPT ![w] = Free]
  /\ UNCHANGED <<state, recs, open, lastPk, queue, del, linked, doubtful>>

\* A query or process_cloudevent raises, or the worker is killed: nobody runs the rest.
FailTask(w) ==
  /\ work[w] # Free
  /\ work' = [work EXCEPT ![w] = Free]
  /\ Doubt(Sending(w) \cup Changed(work[w].index))
  /\ UNCHANGED <<state, recs, open, lastPk, queue, del, linked>>

\* The branches of destroy: one of many ZAKEN is archived, the object goes with its
\* links, it goes without any.
Branch(zaak, urls) ==
  IF zaak # None /\ \E y, z \in urls : y # z THEN "remove"
  ELSE IF urls # {} THEN "send all" ELSE "delete"

\* DELETE, with ?zaak= for the archiving of a ZAAK: get_object(), and the references
\* of obj.last_record.  Links that are still to be reported may be reported later.
Destroy(c, zaak) ==
  /\ del[c].pc = "idle"
  /\ state = "live"
  /\ del' = [del EXCEPT ![c] = [pc |-> Branch(zaak, LastRefs), zaak |-> zaak,
                                record |-> recs[Len(recs)].pk, urls |-> LastRefs]]
  /\ Doubt(IF Branch(zaak, LastRefs) = "remove"
           THEN {zaak} \cap (Additions \cup OpenRefs)
           ELSE Additions \cup (OpenRefs \ LastRefs))
  /\ UNCHANGED <<state, recs, open, lastPk, queue, work, linked>>

\* "zaak_references.filter(url=archiving_zaak_url).delete()"
Remove(c) ==
  /\ del[c].pc = "remove"
  /\ recs' = [i \in DOMAIN recs |->
                IF recs[i].pk = del[c].record
                THEN [recs[i] EXCEPT !.refs = @ \ {del[c].zaak}]
                ELSE recs[i]]
  /\ Goto(c, "send")
  /\ UNCHANGED <<state, open, lastPk, queue, work, linked, doubtful>>

\* zaak-ontkoppeld for the archived ZAAK; the object is kept.
SendArchived(c) ==
  /\ del[c].pc = "send"
  /\ linked' = linked \ {del[c].zaak}
  /\ Goto(c, "kept")
  /\ UNCHANGED <<state, recs, open, lastPk, queue, work, doubtful>>

\* transaction.on_commit(send_events), which runs at once: there is no transaction.
\* The events go out one after another; no two of them are for the same ZAAK.
SendAll(c) ==
  /\ del[c].pc = "send all"
  /\ linked' = linked \ del[c].urls
  /\ Goto(c, "delete")
  /\ UNCHANGED <<state, recs, open, lastPk, queue, work, doubtful>>

\* The tasks that wait find no records to compare, and those that have read one find
\* none before it.
Orphaned ==
  UNION ({Changed(i) : i \in Waiting} \cup {work[w].current : w \in Workers})

\* "obj.delete()", which waits for a transaction that adds a record.
DeleteObject(c) ==
  /\ del[c].pc = "delete"
  /\ open = None
  /\ state' = "deleted"
  /\ recs' = <<>>
  /\ Goto(c, "gone")
  /\ Doubt(Orphaned)
  /\ UNCHANGED <<open, lastPk, queue, work, linked>>

\* A DELETE can fail at any statement, and between two of its events.
FailDelete(c) ==
  /\ InProgress(c)
  /\ Goto(c, "failed")
  /\ \E sent \in SUBSET del[c].urls :
       /\ del[c].pc # "send all" => sent = {}
       /\ linked' = linked \ sent
       /\ Doubt(CASE del[c].pc = "remove" -> {}
                  [] del[c].pc = "send" -> {del[c].zaak}
                  [] del[c].pc = "send all" -> sent
                  [] del[c].pc = "delete" -> del[c].urls)
  /\ UNCHANGED <<state, recs, open, lastPk, queue, work>>

\* The admin adds a record, which has no references, and deletes an object; neither
\* sends events.
AdminAdds ==
  /\ state = "live" /\ open = None
  /\ lastPk < MaxPk
  /\ lastPk' = lastPk + 1
  /\ recs' = Append(recs, [pk |-> lastPk + 1, refs |-> {}])
  /\ Doubt(LastRefs)
  /\ UNCHANGED <<state, open, queue, work, del, linked>>

AdminDeletes ==
  /\ state = "live" /\ open = None
  /\ state' = "deleted"
  /\ recs' = <<>>
  /\ Doubt(LastRefs \cup Orphaned)
  /\ UNCHANGED <<open, lastPk, queue, work, del, linked>>

WorkerStep(w) ==
  \/ \E pk \in queue : TakeTask(w, pk)
  \/ ReadPrevious(w)
  \/ \E z \in Zaken : SendGekoppeld(w, z) \/ SendOntkoppeld(w, z)
  \/ TaskDone(w)

ClientStep(c) == Remove(c) \/ SendArchived(c) \/ SendAll(c) \/ DeleteObject(c)

Next ==
  \/ \E refs \in SUBSET Zaken : Save(refs)
  \/ Commit \/ RollBack
  \/ \E w \in Workers : WorkerStep(w) \/ FailTask(w)
  \/ \E c \in Clients : (\E zaak \in Zaken \cup {None} : Destroy(c, zaak)) \/ ClientStep(c) \/ FailDelete(c)
  \/ AdminAdds \/ AdminDeletes

Spec == Init /\ [][Next]_vars

\* Transactions end, workers take what is queued and finish it, requests are handled
\* to their end.
FairSpec ==
  /\ Spec
  /\ WF_vars(Commit \/ RollBack)
  /\ \A w \in Workers : WF_vars(WorkerStep(w))
  /\ \A c \in Clients : WF_vars(ClientStep(c))
-----------------------------------------------------------------------------
(* Correctness. *)

\* When no request and no task is left, the subscriber knows of every ZAAK whose
\* events did not cross and were not lost whether the object refers to it, although
\* the tasks of several records run in any order, see the records as they are later,
\* and run too for transactions that were rolled back.
BelievedWhenQuiet == Quiet => \A z \in Zaken \ doubtful : z \in linked <=> z \in LastRefs

\* Every such ZAAK that is linked or unlinked is reported in the end, unless the
\* object changes again before.
Reported ==
  \A z \in Zaken :
    /\ z \in LastRefs ~> (z \in linked \/ z \notin LastRefs \/ z \in doubtful)
    /\ z \notin LastRefs ~> (z \notin linked \/ z \in LastRefs \/ z \in doubtful)

\* "If this OBJECT's current RECORD has other ZAAK references, then object destruction
\* is cancelled": archiving a ZAAK never deletes an object that refers to another.
KeptForOthers ==
  [][\A c \in Clients :
       del[c].zaak # None /\ DeleteObject(c) => LastRefs \subseteq {del[c].zaak}]_vars
=============================================================================
