------------------------------ MODULE ObjectData ------------------------------
(***************************************************************************)
(* What a record says: how the body of a POST, PUT or PATCH is validated   *)
(* against what was read before and then saved, and which record is shown  *)
(* for a date, a registration date and filters on the data.                *)
(*                                                                         *)
(* How the statements of save() meet is the subject of RecordHistory: here *)
(* a record is inserted in one step and committed in another.  A request   *)
(* is made once.  A row of an object is found by its place, which is its   *)
(* index and the order of its primary key.                                 *)
(***************************************************************************)
EXTENDS JsonData, FiniteSets

CONSTANTS
  Uuids,
  TypeOf,       \* TypeOf[u]: the type that a POST names for the object u
  Fits,         \* Fits[t][v]: the data that fits the schema of version v of type t
  WithGeometry, \* the types with allow_geometry
  Requests,
  Bodies,       \* what requests say; see Body
  Wheres,       \* values of data_attr: sequences of expressions
  Paths,        \* paths of keys
  Reads, Order, Holds,   \* what is known of texts; see JsonData
  Values,       \* the data there can be
  Initial,      \* the records there are at first: a set of values of recs
  MaxDay,       \* days are 1..MaxDay (a bound)
  MaxRecords,   \* records of an object (a bound)
  Absent

VARIABLES
  today,
  recs,  \* recs[u]: the committed records of the object u; none is no object
  req    \* req[r]: the request r

vars == <<today, recs, req>>

Days  == 1..MaxDay
Types == DOMAIN Fits

\* A request's body; a field that it does not have is Absent, "corrects" and "geo" may be
\* null.
Body(type, version, data, geo, start, corrects) ==
  [type |-> type, version |-> version, data |-> data, geo |-> geo, start |-> start,
   corrects |-> corrects]

\* "checked" is history: what was validated is what was saved.
Row(version, data, geo, start, registered, corrects, checked) ==
  [version |-> version, data |-> data, geo |-> geo, start |-> start, end |-> 0,
   registered |-> registered, corrects |-> corrects, checked |-> checked]
NoRow == Row(0, EmptyObject, FALSE, 1, 0, 0, TRUE)

\* A record of rows on a day: each ends where the next one starts, and corrects only
\* an earlier one.
RowOK(rows, n, day) == LET row == rows[n] IN
  /\ DOMAIN row = DOMAIN NoRow /\ row.geo \in BOOLEAN /\ row.checked \in BOOLEAN
  /\ row.version \in Nat /\ row.data \in Values
  /\ row.start \in Days /\ row.end = (IF n < Len(rows) THEN rows[n + 1].start ELSE 0)
  /\ row.registered \in 1..day /\ row.corrects \in 0..(n - 1)

\* A record that is right for the type of its object.
RowFits(u, row) ==
  /\ row.version \in DOMAIN Fits[TypeOf[u]]
  /\ row.data \in Fits[TypeOf[u]][row.version]
  /\ row.geo => TypeOf[u] \in WithGeometry

ASSUME FitsAssumption ==
  /\ Paths \subseteq Seq(Keys) /\ \A u \in Uuids : TypeOf[u] \in Types
  /\ \A t \in Types : \A v \in DOMAIN Fits[t] : v # 0 /\ Fits[t][v] \subseteq Values

\* Data is JSON, and merging makes data.
ASSUME ValuesAssumption ==
  /\ EmptyObject \in Values
  /\ \A d \in Values, path \in Paths \cup {<<>>} : IsJson(At(d, path))
  /\ \A b \in Bodies : b.data # Absent =>
       b.data \in Values /\ \A d \in Values : MergePatch(d, b.data) \in Values
  /\ \A d \in Values : MergePatch(d, EmptyObject) \in Values

ASSUME ReadsAssumption ==
  \A t \in DOMAIN Reads : StringToValue(t, Reads).kind = "number" => IsJson(StringToValue(t, Reads))

ASSUME BodiesAssumption ==
  /\ \A b \in Bodies :
       /\ b.data # Absent => IsPatch(b.data) /\ b.data.kind # "missing"
       /\ b.version \in Nat \cup {Absent}
       /\ b.start \in Days \cup {Absent} /\ b.corrects \in Nat \cup {Absent} /\ b.geo \in BOOLEAN \cup {Absent}

ASSUME InitialAssumption ==
  /\ MaxDay \in Nat \ {0} /\ MaxRecords \in Nat
  /\ \A rows \in Initial : DOMAIN rows = Uuids /\ \A u \in Uuids :
       /\ rows[u] \in Seq(Range(rows[u]))
       /\ \A n \in DOMAIN rows[u] : RowOK(rows[u], n, 1) /\ RowFits(u, rows[u][n])

NoRequest == [pc |-> "new", kind |-> "none", uuid |-> Absent, body |-> Absent, where |-> <<>>,
              base |-> NoRow, row |-> NoRow, since |-> 0, known |-> {}, status |-> 0]

Init ==
  /\ today = 1
  /\ recs \in Initial
  /\ req = [r \in Requests |-> NoRequest]

Given(x, otherwise) == IF x = Absent THEN otherwise ELSE x

-----------------------------------------------------------------------------
(* Reading. *)

\* A fault: the end is not looked at.
FilterForStart(rows, d) == {n \in DOMAIN rows : rows[n].start <= d}

\* An end of 0 is null.
FilterForDate(rows, d) ==
  {n \in DOMAIN rows : rows[n].start <= d /\ (rows[n].end = 0 \/ d <= rows[n].end)}
FilterForRegistrationDate(rows, d) == {n \in DOMAIN rows : rows[n].registered <= d}

KeepMax(found) == {n \in found : \A m \in found : m <= n}

Found(row, where) ==
  \A k \in DOMAIN where : Matches(where[k], row.data, Reads, Order, Holds)

\* The query: the days of "date" and "registrationDate" as the view reads them (it takes
\* only those in ISO format), and the expressions.
Actual(rows, date, registration) ==
  CASE date # Absent -> FilterForDate(rows, date)
    [] date = Absent /\ registration # Absent -> FilterForRegistrationDate(rows, registration)
    [] OTHER -> FilterForDate(rows, today)

\* A fault: the filters come first, so that an older record is found.
FilteredFirst(rows, date, registration, where) ==
  KeepMax({n \in Actual(rows, date, registration) : Found(rows[n], where)})

\* filter_queryset of a list, a search or a retrieve.
FilterQueryset(rows, date, registration, where) ==
  {n \in KeepMax(Actual(rows, date, registration)) : Found(rows[n], where)}

\* Both dates at once are refused, a search needs what its geometry lies within.
QueryStatus(date, registration, where, within) ==
  IF (date # Absent /\ registration # Absent) \/ \E k \in DOMAIN where : ~ExprValid(where[k], Reads) THEN 400
  ELSE IF within = "unknown" \/ \E k \in DOMAIN where : ExprFails(where[k], Reads) THEN 500
  ELSE 200

\* The objects that a list or a search shows, each with its record.
Listed(date, registration, where, within) ==
  UNION {{<<u, n>> : n \in {m \in FilterQueryset(recs[u], date, registration, where) :
                             within = "anywhere" \/ recs[u][m].geo}} : u \in Uuids}

\* The record of a retrieve; no such record is 404.
Retrieved(u, date, registration) == FilterQueryset(recs[u], date, registration, <<>>)

\* Object.current_record, which the admin shows: the first by its primary key.
CurrentRecord(rows) ==
  LET found == FilterForDate(rows, today) IN {n \in found : \A m \in found : n <= m}

-----------------------------------------------------------------------------
(* Validation. *)

\* check_objecttype: a version that is 0, or none, is not validated at all.
SchemaFits(type, version, data) ==
  version = 0 \/ (version \in DOMAIN Fits[type] /\ data \in Fits[type][version])

GeometryFits(type, geo) == geo \notin {Absent, FALSE} => type \in WithGeometry

\* What a PATCH or PUT is validated with, and what is merged again when it is saved: the
\* data in memory has been changed when it and the patch are objects.
Patched(old, data) == IF data = Absent THEN old ELSE MergePatch(old, data)
InMemory(old, data) ==
  IF data # Absent /\ IsObj(data) /\ IsObj(old) THEN MergePatch(old, data) ELSE old

\* A fault: the patch is validated and not the result.
ValidatedAlone(kind, old, data) == Given(data, old.data)

DataToValidate(kind, old, data) ==
  IF kind = "patch" THEN Patched(old.data, data) ELSE Given(data, old.data)

DataToSave(kind, old, data) ==
  IF kind = "patch"
  THEN MergePatch(InMemory(old.data, data), Given(data, EmptyObject))
  ELSE Given(data, EmptyObject)

\* A fault: the uuid is left to the database.
UuidUnchecked(u, b) ==
  /\ b.type # Absent /\ b.version # Absent /\ b.start # Absent
  /\ b.corrects \in {Absent, 0}
  /\ SchemaFits(b.type, b.version, Given(b.data, EmptyObject))
  /\ GeometryFits(b.type, b.geo)

\* A POST: the uuid must be new, and there is nothing that could be corrected.
CreateValid(u, b) ==
  /\ recs[u] = <<>>
  /\ b.type # Absent /\ b.version # Absent /\ b.start # Absent
  /\ b.corrects \in {Absent, 0}
  /\ SchemaFits(b.type, b.version, Given(b.data, EmptyObject))
  /\ GeometryFits(b.type, b.geo)

\* A fault: a record of another object may be corrected.
CorrectsAny(kind, u, b, old) ==
  /\ kind = "patch" \/ (b.type # Absent /\ b.version # Absent /\ b.start # Absent)
  /\ b.type \in {Absent, TypeOf[u]}
  /\ b.corrects \in {Absent, 0} \cup 1..MaxRecords
  /\ SchemaFits(TypeOf[u], Given(b.version, old.version), DataToValidate(kind, old, b.data))
  /\ GeometryFits(TypeOf[u], b.geo)

\* A PUT or PATCH: the type is immutable (the uuid too); only records of this object are
\* corrected.
UpdateValid(kind, u, b, old) ==
  /\ kind = "patch" \/ (b.type # Absent /\ b.version # Absent /\ b.start # Absent)
  /\ b.type \in {Absent, TypeOf[u]}
  /\ b.corrects \in {Absent, 0} \cup DOMAIN recs[u]
  /\ SchemaFits(TypeOf[u], Given(b.version, old.version), DataToValidate(kind, old, b.data))
  /\ GeometryFits(TypeOf[u], b.geo)

\* What decides whether the data and the geometry that are saved were validated: a version
\* of 0 is not; a PUT without data, and a PATCH without data of what is no object, are
\* validated with the data of the last record and save an empty object; the form of the
\* admin lets geometry through.
Validated(q) ==
  /\ Given(q.body.version, q.base.version) # 0
  /\ q.body.data = Absent => q.kind = "create" \/ (q.kind = "patch" /\ IsObj(q.base.data))
  /\ q.kind = "admin" => GeometryFits(TypeOf[q.uuid], q.body.geo)

-----------------------------------------------------------------------------
(* Requests. *)

Reply(r, status) == req' = [req EXCEPT ![r] = [NoRequest EXCEPT !.pc = "done", !.kind = @, !.status = status]]
Pending(u) == {r \in Requests : req[r].pc = "saved" /\ req[r].uuid = u}

BeginCreate(r, u, b) ==
  /\ req[r].pc = "new"
  /\ b.type \in {Absent, TypeOf[u]}
  /\ IF CreateValid(u, b)
     THEN req' = [req EXCEPT ![r] =
                    [NoRequest EXCEPT !.pc = "valid", !.kind = "create", !.uuid = u, !.body = b,
                       !.since = today, !.known = {x \in Uuids : recs[x] # <<>>}]]
     ELSE Reply(r, 400)
  /\ UNCHANGED <<today, recs>>

\* get_object takes the last record, whatever its dates, if the filters of the query find it.
BeginUpdate(r, kind, u, b, where) ==
  LET old == Last(recs[u])
      status == QueryStatus(Absent, Absent, where, "anywhere")
  IN  /\ req[r].pc = "new"
      /\ recs[u] # <<>>
      /\ CASE status # 200 -> Reply(r, status)
           [] status = 200 /\ ~Found(old, where) -> Reply(r, 404)
           [] status = 200 /\ Found(old, where) /\ ~UpdateValid(kind, u, b, old) -> Reply(r, 400)
           [] OTHER ->
                req' = [req EXCEPT ![r] =
                          [NoRequest EXCEPT !.pc = "valid", !.kind = kind, !.uuid = u, !.body = b,
                             !.where = where, !.base = old, !.since = today]]
      /\ UNCHANGED <<today, recs>>

\* A fault: the day on which the request came.
RegisteredWhenAsked(q, day) == q.since
\* The default of registration_at.
RegistrationDay(q, day) == day

NewRow(q) ==
  LET b == q.body IN
  Row(Given(b.version, q.base.version), DataToSave(q.kind, q.base, b.data), Given(b.geo, FALSE),
      Given(b.start, q.base.start), RegistrationDay(q, today), Given(b.corrects, 0), Validated(q))

\* The insert: a uuid that is taken, or a record that is corrected already, is an error that
\* nothing turns into an answer.
Save(r) ==
  LET q == req[r]
      taken     == q.kind = "create" /\ recs[q.uuid] # <<>>
      corrected == Given(q.body.corrects, 0) # 0 /\
                     \E n \in DOMAIN recs[q.uuid] : recs[q.uuid][n].corrects = q.body.corrects
  IN  /\ q.pc = "valid"
      /\ Pending(q.uuid) = {}
      /\ Len(recs[q.uuid]) < MaxRecords
      /\ IF taken \/ corrected
         THEN req' = [req EXCEPT ![r] =
                        [NoRequest EXCEPT !.pc = "done", !.kind = q.kind, !.uuid = q.uuid,
                           !.known = q.known, !.status = 500]]
         ELSE req' = [req EXCEPT ![r].pc = "saved", ![r].row = NewRow(q)]
      /\ UNCHANGED <<today, recs>>

\* A fault: registration_at as the day of the last save (auto_now).
ClosedAnew(rows, start) ==
  IF rows = <<>> THEN rows
  ELSE [rows EXCEPT ![Len(rows)].end = start, ![Len(rows)].registered = today]

Closed(rows, start) ==
  IF rows = <<>> THEN rows ELSE [rows EXCEPT ![Len(rows)].end = start]

\* After an update the view gets the object again, with the filters of the query: when they
\* do not find the new record, the answer is 404 and everything is rolled back.
Commit(r) ==
  LET q == req[r] IN
  /\ q.pc = "saved"
  /\ IF Found(q.row, q.where)
     THEN /\ recs' = [recs EXCEPT ![q.uuid] = Append(Closed(@, q.row.start), q.row)]
          /\ Reply(r, IF q.kind = "create" THEN 201 ELSE 200)
     ELSE Reply(r, 404) /\ UNCHANGED recs
  /\ UNCHANGED today

\* A record that is added in the admin: the form wants data, and offers only records that
\* are not corrected; nothing looks at the geometry.
AdminAdd(r, u, b) ==
  /\ req[r].pc = "new"
  /\ recs[u] # <<>> /\ Len(recs[u]) < MaxRecords /\ Pending(u) = {}
  /\ Absent \notin {b.version, b.data, b.start}
  /\ IF /\ b.data \notin {EmptyObject, Arr(<<>>)}
        /\ SchemaFits(TypeOf[u], b.version, b.data)
        /\ b.corrects \in {Absent, 0} \cup {n \in DOMAIN recs[u] : \A m \in DOMAIN recs[u] : recs[u][m].corrects # n}
     THEN /\ recs' = [recs EXCEPT ![u] =
               Append(Closed(@, b.start), NewRow([kind |-> "admin", uuid |-> u, body |-> b, base |-> NoRow, since |-> today]))]
          /\ Reply(r, 302)
     ELSE Reply(r, 200) /\ UNCHANGED recs
  /\ UNCHANGED today

\* Days end, also while a transaction is open.
NextDay ==
  /\ today < MaxDay
  /\ today' = today + 1
  /\ UNCHANGED <<recs, req>>

Next ==
  \/ NextDay
  \/ \E r \in Requests :
       \/ Save(r) \/ Commit(r)
       \/ \E u \in Uuids, b \in Bodies :
            \/ BeginCreate(r, u, b)
            \/ \E kind \in {"put", "patch"}, where \in Wheres : BeginUpdate(r, kind, u, b, where)
            \/ AdminAdd(r, u, b)

Spec == Init /\ [][Next]_vars

-----------------------------------------------------------------------------
(* Properties. *)

TypeOK ==
  /\ today \in Days
  /\ \A u \in Uuids : \A n \in DOMAIN recs[u] : LET row == recs[u][n] IN
       /\ row.start \in Days /\ row.end \in Days \cup {0}
       /\ row.registered \in 1..today
       /\ row.corrects \in 0..(n - 1)
  /\ \A r \in Requests : req[r].status \in {0, 200, 201, 302, 400, 404, 500}

\* The data of every record that was validated fits the schema of the version it names, and
\* there is geometry only where the type allows it: what a request saves is what its
\* validation saw, after two merges into the data in memory, also when it is merged into a
\* record that was not validated.
SavedFits ==
  \A u \in Uuids : \A n \in DOMAIN recs[u] : recs[u][n].checked => RowFits(u, recs[u][n])

\* What a record says for good: all but its end, with the type it is validated against.
Said(u, row) ==
  [type |-> TypeOf[u], version |-> row.version, data |-> row.data, geo |-> row.geo,
   start |-> row.start, registered |-> row.registered, corrects |-> row.corrects,
   checked |-> row.checked]

Entry ==
  {e \in [type : Types, version : Nat, data : Values, geo : BOOLEAN, start : Days,
          registered : Days, corrects : Nat, checked : BOOLEAN] :
     e.checked => /\ e.version \in DOMAIN Fits[e.type] /\ e.data \in Fits[e.type][e.version]
                  /\ e.geo => e.type \in WithGeometry}

History == INSTANCE ObjectHistory
             WITH Objects <- Uuids, Entries <- Entry,
                  state <- [u \in Uuids |-> IF recs[u] = <<>> THEN "unborn" ELSE "live"],
                  hist  <- [u \in Uuids |-> [n \in DOMAIN recs[u] |-> Said(u, recs[u][n])]]

\* Records are the entries of the append-only history of ObjectHistory, each of which fits
\* its version when it appears, if it was validated, and stays what it says: a correction
\* too is one more entry, that of the record before it changes in nothing but its end.
ImplementsHistory == History!Spec

\* "An almost standard JSON Merge PATCH algorithm is applied, but *only* on record.data, not
\* on the record itself": at every path the new data has the patch's value, null too, or
\* else the one that was there; where the patch has an object there is one.  The version
\* and the start that it does not name are those of the record that it read; geometry is
\* not: a PATCH that has none drops it.
PatchMergesData ==
  \A r \in Requests : LET q == req[r] IN
    q.pc = "saved" /\ q.kind = "patch" =>
      LET patch == Given(q.body.data, EmptyObject) IN
      /\ \A path \in Paths :
           CASE Names(patch, path) -> At(q.row.data, path) = At(patch, path)
             [] ~Names(patch, path) /\ At(patch, path) = Missing ->
                  At(q.row.data, path) = At(q.base.data, path)
             [] OTHER -> IsObj(At(q.row.data, path))
      /\ q.body.version = Absent => q.row.version = q.base.version
      /\ q.body.start = Absent => q.row.start = q.base.start
      /\ q.row.geo = Given(q.body.geo, FALSE)

\* A day of the formal history is settled for an object when it is over and no transaction
\* is open that was registered on it.
DaySettled(u, d) == d < today /\ \A r \in Pending(u) : d < req[r].row.registered

\* The formal history: once a day is settled it stays so, and what registrationDate shows
\* for it stays the same record.  A transaction that is open at midnight still changes
\* what is shown for the day before.
FormalPastFixed ==
  [][\A u \in Uuids, d \in Days : DaySettled(u, d) =>
       /\ DaySettled(u, d)'
       /\ KeepMax(FilterForRegistrationDate(recs'[u], d)) = KeepMax(FilterForRegistrationDate(recs[u], d))]_vars

\* A list or search shows of an object what a retrieve for the same day shows: a filter
\* never finds an older record instead.
FoundIsShown ==
  \A date, registration \in Days \cup {Absent}, where \in Wheres :
    QueryStatus(date, registration, where, "inside") = 200 =>
      \A within \in {"anywhere", "inside"} : \A p \in Listed(date, registration, where, within) :
        p[2] \in Retrieved(p[1], date, registration)

\* The operators agree with each other on every record: a value is less than a number,
\* equal to it or greater, and "in" finds nothing that "exact" does not.
OperatorsAgree ==
  \A u \in Uuids : \A n \in DOMAIN recs[u] : \A path \in Paths, t \in DOMAIN Reads :
    LET data == recs[u][n].data
        Is(op) == Matches(Expr(path, op, <<t>>), data, Reads, Order, Holds)
        equal  == At(data, path) = StringToValue(t, Reads)
    IN  At(data, path) # Missing /\ StringToValue(t, Reads).kind = "number" =>
          /\ Is("exact") <=> (equal \/ At(data, path) = Str(t))
          /\ Is("gte") <=> (Is("gt") \/ equal)
          /\ Is("lte") <=> (Is("lt") \/ equal)
          /\ ~(Is("gt") /\ Is("lt"))
          /\ Is("gt") \/ Is("lt") \/ equal
          /\ Is("in") => Is("exact")

\* When the start dates have not gone back, the record that the admin shows of an object is
\* the one the API shows, or one that ends today: on that day both it and the next one are
\* found, the admin takes the first and the API the last.
CurrentIsShown ==
  \A u \in Uuids : LET rows == recs[u] IN
    (\A n \in DOMAIN rows : n > 1 => rows[n - 1].start <= rows[n].start)
    => \A n \in CurrentRecord(rows) : n \in Retrieved(u, Absent, Absent) \/ rows[n].end = today

\* A POST fails on its uuid only when another request used it in the meantime.
UuidErrorNeedsRace ==
  \A r \in Requests : req[r].kind = "create" /\ req[r].status = 500 => req[r].uuid \notin req[r].known
=============================================================================
