------------------------- MODULE ObjectTypeVersions -------------------------
(***************************************************************************)
(* The versions of one OBJECTTYPE under concurrent requests: how the API   *)
(* and the admin draft, publish, change and destroy them, and the records  *)
(* that are validated against them.                                        *)
(*                                                                         *)
(* The API's requests for versions are not transactions: each statement    *)
(* commits.  A request of the admin is one, and begins by saving the       *)
(* object type itself, whose row stays locked until the end; it writes one *)
(* row of a version, last, so that the write is one step with the COMMIT.  *)
(* Both save the whole row of an instance that they read before.           *)
(*                                                                         *)
(* A schema is a model value; of published_at only whether it is set       *)
(* matters.  Versions of different object types do not meet.               *)
(***************************************************************************)
EXTENDS Naturals, FiniteSets

CONSTANTS
  Txns,        \* requests, each handled once
  Schemas,     \* JSON schemas
  MaxVersion,  \* the largest version number (32767 in the code)
  None,        \* null
  Kinds        \* the kinds of request that are made

AllKinds == {"post", "patch", "delete", "edit", "publish", "new version", "record", "delete type"}
AdminKinds == {"edit", "publish", "new version"}

ASSUME TxnsAssumption == IsFiniteSet(Txns)
ASSUME SchemasAssumption == Schemas # {}
ASSUME NoneAssumption == None \notin Schemas \cup Nat
ASSUME MaxVersionAssumption == MaxVersion \in Nat \ {0}
ASSUME KindsAssumption == Kinds \subseteq AllKinds

VARIABLES
  alive,    \* the object type exists
  ver,      \* ver[n]: the row of version n
  lastPk,   \* the last primary key given to a version
  records,  \* the records of the type: the version number each one names, the row that
            \* its data was validated against, and whether it was settled then
  pc,       \* pc[t]: the statement t executes next
  kind,     \* kind[t]: what t is
  copy,     \* copy[t]: the instance t has in memory, its version number, and whether that
            \* version was settled when t began
  rivals    \* history: the primary keys of the rows that two requests were publishing at
            \* the same time

dbvars == <<alive, ver, lastPk, records>>
vars   == <<alive, ver, lastPk, records, pc, kind, copy, rivals>>

-----------------------------------------------------------------------------
Numbers  == 1..MaxVersion
Statuses == {"draft", "published", "deprecated"}
Row == [pk : Nat, status : Statuses, schema : Schemas, dated : BOOLEAN]
NoCopy == [number |-> None, row |-> None, settled |-> FALSE]

\* ObjectType.last_version
LastNumber == CHOOSE n \in DOMAIN ver : \A m \in DOMAIN ver : m <= n

\* The rows f, with n set to the row r, or without n.
With(f, n, r) == [m \in DOMAIN f \cup {n} |-> IF m = n THEN r ELSE f[m]]
Without(f, n) == [m \in DOMAIN f \ {n} |-> f[m]]

\* The version numbers whose row has the primary key of t's instance: one or none.
Found(t) == {n \in DOMAIN ver : ver[n].pk = copy[t].row.pk}

Idle(t)   == pc[t] = "idle"
Ended(t)  == pc[t] \in {"done", "failed"}
Active(t) == ~Idle(t) /\ ~Ended(t)

\* t is a request of the admin that has saved the object type.
HoldsType(t) == kind[t] \in AdminKinds /\ Active(t) /\ pc[t] # "save type"

\* t is going to write, or to remove, the row of its instance.
HasRow(t) ==
  \/ pc[t] \in {"previous", "update", "delete row"}
  \/ kind[t] = "edit" /\ pc[t] = "save type" /\ copy[t].row.pk # None

Holds(t, n) == HasRow(t) /\ copy[t].row.pk = ver[n].pk

\* t can still change version n: it removes it, or its instance is another than the row.
Disturbs(t, n) ==
  \/ pc[t] = "cascade"
  \/ Holds(t, n) /\ (pc[t] = "delete row" \/ copy[t].row # ver[n])

\* Version n is published, and no request is under way that read it as it was before.
Settled(n) ==
  /\ n \in DOMAIN ver /\ ver[n].status = "published"
  /\ \A t \in Txns : ~Disturbs(t, n)

\* t is publishing the row of its instance.
Publishing(t) == pc[t] \in {"previous", "update"} /\ copy[t].row.status = "published"

\* The rows that two requests are publishing.
Overlapping ==
  {pk \in 1..lastPk : \E t, u \in Txns : /\ t # u /\ Publishing(t) /\ Publishing(u)
                                       /\ copy[t].row.pk = pk /\ copy[u].row.pk = pk}

Goto(t, stmt) == pc' = [pc EXCEPT ![t] = stmt]
End(t, how) == Goto(t, how) /\ copy' = [copy EXCEPT ![t] = NoCopy] /\ UNCHANGED kind
Abort(t) == End(t, "failed") /\ UNCHANGED dbvars

-----------------------------------------------------------------------------
\* The add page of the admin has made the object type and its first draft.
Init ==
  /\ alive = TRUE
  /\ ver \in [{1} -> [pk : {1}, status : {"draft"}, schema : Schemas, dated : {FALSE}]]
  /\ lastPk = 1
  /\ records = {}
  /\ pc = [t \in Txns |-> "idle"]
  /\ kind = [t \in Txns |-> None]
  /\ copy = [t \in Txns |-> NoCopy]
  /\ rivals = {}

\* A request of kind k arrives, has the instance row of version n in memory and
\* goes on with stmt.
Begin(t, k, n, row, stmt) ==
  /\ Idle(t) /\ alive
  /\ k \in Kinds
  /\ kind' = [kind EXCEPT ![t] = k]
  /\ copy' = [copy EXCEPT ![t] = [number |-> n, row |-> row, settled |-> Settled(n)]]
  /\ Goto(t, stmt)
  /\ UNCHANGED dbvars

\* POST a version, with any status.
Post(t, schema, status) ==
  Begin(t, "post", None, [pk |-> None, status |-> status, schema |-> schema, dated |-> FALSE],
        "number")

\* A variant: no VersionUpdateValidator.
PatchUnvalidated(t, n, schema, status) ==
  /\ n \in DOMAIN ver
  /\ Begin(t, "patch", n, [ver[n] EXCEPT !.schema = schema, !.status = status], "previous")

\* PUT or PATCH a version: get_object(), VersionUpdateValidator, and the changes of
\* the request are made to the instance.
Patch(t, n, schema, status) ==
  /\ n \in DOMAIN ver
  /\ ver[n].status = "draft"
  /\ Begin(t, "patch", n, [ver[n] EXCEPT !.schema = schema, !.status = status], "previous")

\* A variant: no test of the status.
DeleteUnvalidated(t, n) ==
  /\ n \in DOMAIN ver
  /\ Begin(t, "delete", n, ver[n], "delete row")

\* DELETE a version: get_object() and perform_destroy's test of the status.
Delete(t, n) ==
  /\ n \in DOMAIN ver
  /\ ver[n].status = "draft"
  /\ Begin(t, "delete", n, ver[n], "delete row")

\* The change page of the object type is saved: the inline form of the last version
\* changes its schema, as long as can_change finds it a draft, or makes the first
\* version of a type that has none.
Edit(t, schema) ==
  \/ /\ DOMAIN ver # {}
     /\ ver[LastNumber].status = "draft"
     /\ Begin(t, "edit", LastNumber, [ver[LastNumber] EXCEPT !.schema = schema], "save type")
  \/ /\ DOMAIN ver = {}
     /\ Begin(t, "edit", None, [pk |-> None, status |-> "draft", schema |-> schema, dated |-> FALSE],
              "save type")

\* The buttons "Publish" and "New version" of that page.
Publish(t)    == Begin(t, "publish", None, None, "save type")
NewVersion(t) == Begin(t, "new version", None, None, "save type")

\* A record is written with the version number n: check_objecttype reads the version
\* and validates the data.
Validate(t, n) ==
  /\ n \in DOMAIN ver
  /\ Begin(t, "record", n, ver[n], "save record")

\* DELETE the object type: get_object() and "instance.versions.exists()".
DeleteType(t) ==
  /\ DOMAIN ver = {}
  /\ Begin(t, "delete type", None, None, "cascade")

\* The admin saves the object type first, and waits for its row.
SaveType(t) ==
  /\ pc[t] = "save type"
  /\ alive
  /\ \A u \in Txns \ {t} : ~HoldsType(u)
  /\ Goto(t, IF kind[t] # "edit" THEN "read last"
             ELSE IF copy[t].row.pk = None THEN "number" ELSE "previous")
  /\ UNCHANGED <<dbvars, kind, copy>>

\* publish() and add_new_version() read obj.last_version and change the instance:
\* the status, and for a new version the primary key and the number, so that save()
\* makes another row of it.
ReadLast(t) ==
  /\ pc[t] = "read last"
  /\ DOMAIN ver # {}
  /\ LET last == ver[LastNumber] IN
     IF kind[t] = "publish"
     THEN /\ copy' = [copy EXCEPT ![t] = [number |-> LastNumber, settled |-> FALSE,
                                          row |-> [last EXCEPT !.status = "published"]]]
          /\ Goto(t, "previous")
     ELSE /\ copy' = [copy EXCEPT ![t] = [number |-> None, settled |-> FALSE,
                                          row |-> [last EXCEPT !.pk = None, !.status = "draft"]]]
          /\ Goto(t, "number")
  /\ UNCHANGED <<dbvars, kind>>

\* A variant: any number above the last one, however large.
NumberUnlimited(t) ==
  /\ pc[t] = "number"
  /\ copy' = [copy EXCEPT ![t].number = IF DOMAIN ver = {} THEN 1 ELSE LastNumber + 1]
  /\ Goto(t, "insert")
  /\ UNCHANGED <<dbvars, kind>>

\* ObjectTypeVersion.generate_version_number, "racing other queries".
Number(t) ==
  LET n == IF DOMAIN ver = {} THEN 1 ELSE LastNumber + 1 IN
  /\ pc[t] = "number"
  /\ IF n > MaxVersion
     THEN Abort(t)
     ELSE copy' = [copy EXCEPT ![t].number = n] /\ Goto(t, "insert") /\ UNCHANGED <<dbvars, kind>>

\* INSERT, under the unique constraint on (object_type, version).  A version that is
\* published from the start gets its date.
Insert(t) ==
  LET n   == copy[t].number
      row == copy[t].row
  IN  /\ pc[t] = "insert"
      /\ IF n \in DOMAIN ver \/ ~alive
         THEN Abort(t)
         ELSE /\ lastPk' = lastPk + 1
              /\ ver' = With(ver, n, [row EXCEPT !.pk = lastPk + 1,
                                                 !.dated = row.dated \/ row.status = "published"])
              /\ End(t, "done")
              /\ UNCHANGED <<alive, records>>

\* A variant: save() does not set published_at on a version that exists.
PreviousUndated(t) ==
  /\ pc[t] = "previous"
  /\ Found(t) # {}
  /\ Goto(t, "update")
  /\ UNCHANGED <<dbvars, kind, copy>>

\* ObjectTypeVersion.save(): "previous_status = ObjectTypeVersion.objects.get(id=
\* self.id).status"; published_at is set when the status becomes published.
Previous(t) ==
  /\ pc[t] = "previous"
  /\ IF Found(t) = {}
     THEN Abort(t)
     ELSE /\ copy' = [copy EXCEPT ![t].row.dated =
                        @ \/ (copy[t].row.status = "published"
                              /\ \A n \in Found(t) : ver[n].status # "published")]
          /\ Goto(t, "update")
          /\ UNCHANGED <<dbvars, kind>>

\* "super().save()": an UPDATE of every column by primary key, or an INSERT when
\* there is no such row any more.
Update(t) ==
  LET n == copy[t].number IN
  /\ pc[t] = "update"
  /\ IF Found(t) = {} /\ (n \in DOMAIN ver \/ ~alive)
     THEN Abort(t)
     ELSE /\ ver' = With(ver, n, copy[t].row)
          /\ End(t, "done")
          /\ UNCHANGED <<alive, lastPk, records>>

\* "super().perform_destroy(instance)": a DELETE by primary key.
DeleteRow(t) ==
  /\ pc[t] = "delete row"
  /\ ver' = IF Found(t) = {} THEN ver ELSE Without(ver, copy[t].number)
  /\ End(t, "done")
  /\ UNCHANGED <<alive, lastPk, records>>

\* The record is saved with the number of the version, which is no foreign key; its
\* object has one to the object type.
SaveRecord(t) ==
  /\ pc[t] = "save record"
  /\ IF alive
     THEN records' = records \cup {copy[t]} /\ End(t, "done") /\ UNCHANGED <<alive, ver, lastPk>>
     ELSE Abort(t)

\* "super().perform_destroy(instance)" of the object type: its versions go with it,
\* its objects protect it.
Cascade(t) ==
  /\ pc[t] = "cascade"
  /\ IF records # {}
     THEN Abort(t)
     ELSE /\ alive' = FALSE
          /\ ver' = [n \in {} |-> None]
          /\ End(t, "done")
          /\ UNCHANGED <<lastPk, records>>

\* A request can fail before its last statement: an error, a lost connection.
Fail(t) == Active(t) /\ Abort(t)

Step(t) ==
  \/ SaveType(t) \/ ReadLast(t) \/ Number(t) \/ Insert(t) \/ Previous(t) \/ Update(t)
  \/ DeleteRow(t) \/ SaveRecord(t) \/ Cascade(t)

Arrive(t) ==
  \/ \E schema \in Schemas, status \in Statuses : Post(t, schema, status)
  \/ \E n \in Numbers, schema \in Schemas, status \in Statuses : Patch(t, n, schema, status)
  \/ \E n \in Numbers : Delete(t, n) \/ Validate(t, n)
  \/ \E schema \in Schemas : Edit(t, schema)
  \/ Publish(t) \/ NewVersion(t) \/ DeleteType(t)

Next ==
  /\ \E t \in Txns : Arrive(t) \/ Step(t) \/ Fail(t)
  /\ rivals' = rivals \cup Overlapping'

Spec == Init /\ [][Next]_vars
-----------------------------------------------------------------------------
(* Correctness. *)

\* The rows are numbered within the range of the column and have different keys.
TypeOK ==
  /\ alive \in BOOLEAN /\ lastPk \in Nat
  /\ DOMAIN ver \subseteq Numbers /\ \A n \in DOMAIN ver : ver[n] \in Row /\ ver[n].pk \in 1..lastPk
  /\ \A m, n \in DOMAIN ver : ver[m].pk = ver[n].pk => m = n
  /\ \A r \in records : r.number \in Numbers /\ r.row \in Row
  /\ \A t \in Txns : kind[t] \in AllKinds \cup {None} /\ copy[t].number \in Numbers \cup {None}

\* "Once the version is set to 'published' you can't change it anymore": the row of a
\* published version stays as it is from the moment that no request is under way which
\* read it before it was published, and no request can come any more that is able to.
PublishedFrozen ==
  [][\A n \in DOMAIN ver :
       Settled(n) => /\ n \in DOMAIN ver' /\ ver'[n] = ver[n]
                     /\ Settled(n)']_vars

\* A published version has the date of its publication, unless two requests were
\* publishing it at the same time.
PublishedDated ==
  \A n \in DOMAIN ver :
    ver[n].status = "published" => ver[n].dated \/ ver[n].pk \in rivals

\* A record that was validated against a settled version still names that very version,
\* with the schema that its data fits, however late it is saved: the number is not a
\* foreign key, and numbers of destroyed versions are given out again.
PublishedFits ==
  \A r \in records :
    r.settled =>
      /\ r.number \in DOMAIN ver
      /\ ver[r.number].pk = r.row.pk
      /\ ver[r.number].schema = r.row.schema
=============================================================================
