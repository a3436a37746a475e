----------------------------- MODULE FieldAccess -----------------------------
(***************************************************************************)
(* Which fields an answer shows, and by which fields it may be sorted: the *)
(* pure functions of DynamicFieldsMixin and OrderingBackend.               *)
(*                                                                         *)
(* A field is a path: "record__data__name" is <<"record","data","name">>.  *)
(* A body is the set of the paths that are in it, those of its objects     *)
(* included.  A list of fields is a sequence of paths: its order matters.  *)
(***************************************************************************)
EXTENDS Naturals, Sequences, SequencesExt

AllFields == <<<<"*">>>>

DataPath   == <<"record", "data">>
Objects    == {<<"record">>, DataPath}     \* the paths whose value is an object
IsData(f)  == IsStrictPrefix(DataPath, f)
FieldNames(body) == body \ Objects

Parts(body, f)   == {g \in body : IsPrefix(f, g)}
Parents(f)       == {SubSeq(f, 1, n) : n \in 1..(Len(f) - 1)}

\* The answer to a request: the status, what is shown, and what the header
\* X-Unauthorized-Fields says is left out.
Answer(status, shown, withheld) ==
  [status |-> status, shown |-> shown, withheld |-> withheld]
Failed(status) == Answer(status, {}, {})

\* build_spec puts "index" of "record__index" into the entry of "record": when that
\* holds the whole of "record" already it is a string, which takes no items.
Clash(fields) ==
  \E i, j \in DOMAIN fields : i < j /\ IsStrictPrefix(fields[i], fields[j])

\* The fields that are left in the specification: a later "record" replaces its parts.
Spec(fields) ==
  {fields[i] : i \in {j \in DOMAIN fields :
                        \A k \in DOMAIN fields : k > j => ~IsStrictPrefix(fields[k], fields[j])}}

\* glom(body, build_spec(fields)): an attribute of the data that is not there is skipped,
\* any other field that is not there is an error.
Glom(body, fields, error) ==
  CASE Clash(fields) -> Failed(500)
    [] ~Clash(fields) /\ (\E f \in Spec(fields) : ~IsData(f) /\ f \notin body) -> Failed(error)
    [] OTHER -> Answer(200, UNION {Parts(body, f) \cup Parents(f) : f \in Spec(fields)}, {})

\* to_representation of one record, for the list of allowed fields and the list of the
\* query parameter "fields" (empty when it is not given).
Represent(body, allowed, query) ==
  LET limited == IF allowed = AllFields THEN Answer(200, body, {}) ELSE Glom(body, allowed, 400)
      result  == Glom(limited.shown, query, 400)
      asked   == Glom(body, query, 400)
  IN  CASE limited.status # 200 -> limited
        [] limited.status = 200 /\ query = <<>> ->
             Answer(200, limited.shown, FieldNames(body) \ FieldNames(limited.shown))
        [] limited.status = 200 /\ query # <<>> /\ result.status # 200 -> result
        [] OTHER ->
             Answer(200, result.shown, FieldNames(asked.shown) \ FieldNames(result.shown))

\* get_query_fields makes a list of a set: its order is that of this process.
QueryOrders(query) == SetToSeqs(query)

\* get_allowed_fields, for the row of a permission.  "No fields" is null.
AllowedFields(row, version, NoFields) ==
  CASE ~(row.mode = "read_only" /\ row.use) -> AllFields
    [] row.mode = "read_only" /\ row.use /\ row.fields = NoFields -> NoFields
    [] OTHER -> IF version \in DOMAIN row.fields THEN row.fields[version] ELSE <<>>

-----------------------------------------------------------------------------
(* Sorting. *)

\* A term is a field of the serializer, or an attribute of the data; any other is dropped.
TermValid(term, fields) == term \in fields \/ IsData(term)

\* A fault: one list is enough.
TermAllowedBySome(term, lists) ==
  lists = {} \/ \E l \in lists : term \in ToSet(l) \/ (Len(term) > 1 /\ Front(term) \in ToSet(l))

\* Every list of fields of every permission with field-based authorization must have the
\* term, or every one its parent.
TermAllowed(term, lists) ==
  \/ \A l \in lists : term \in ToSet(l)
  \/ Len(term) > 1 /\ \A l \in lists : Front(term) \in ToSet(l)
=============================================================================
