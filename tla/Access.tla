-------------------------------- MODULE Access --------------------------------
(***************************************************************************)
(* Tokens, their permissions for object types, and a request that is       *)
(* authorized by them while the admin, generate_token or the setup         *)
(* configuration changes them.  A request reads the permissions in several *)
(* statements, each of which sees what is committed then.                  *)
(*                                                                         *)
(* A token is known by its identifier.  Of the objects each type has at    *)
(* most one, the record of which does not change here.                     *)
(***************************************************************************)
EXTENDS FieldAccess, FiniteSets

CONSTANTS
  Ids,         \* identifiers of tokens; Blank is the empty one
  Blank,
  Keys,        \* the secrets that are sent in the header Authorization
  Types,       \* uuids of object types
  Stored,      \* Stored[t]: version and body of the record of the object of type t
  Written,     \* version and body of a record that a request saves
  Tokens,      \* the tokens there are at first
  Given,       \* their permissions then: a set of functions from pairs of Ids and Types
  FieldRules,  \* values of Permission.fields: lists of fields by version, or None
  None,        \* null, no row
  Queries,     \* values of the query parameter "fields": sets of fields
  Terms,       \* fields to sort by; None is no sorting
  Configs,     \* setup configurations: sequences of items
  MaxChanges   \* how many changes of tokens and permissions happen (a bound)

VARIABLES
  types,    \* the object types there are
  token,    \* token[i]: the row of TokenAuth with identifier i, or None
  perm,     \* perm[i, t]: the row of Permission of token i for type t, or None
  req,      \* the request
  seen,     \* history: seen[t], the permissions for t of the request's token so far
  changes

vars == <<types, token, perm, req, seen, changes>>
db   == <<types, token, perm>>

Row(mode, use, fields) == [mode |-> mode, use |-> use, fields |-> fields]
Rows == {Row(m, u, f) : m \in {"read_only", "read_and_write"}, u \in BOOLEAN, f \in FieldRules}

ASSUME TokensAssumption ==
  /\ IsFiniteSet(Ids) /\ Blank \in Ids
  /\ DOMAIN Stored \subseteq Types
  /\ Tokens \in [Ids -> [key : Keys, super : BOOLEAN] \cup {None}]
  /\ \A given \in Given : \A p \in DOMAIN given :
       given[p] = None \/ (given[p] \in Rows /\ p[1] \in Ids /\ Tokens[p[1]] # None /\ p[2] \in DOMAIN Stored)
  /\ MaxChanges \in Nat

\* The form offers the fields of the serializer and the properties of the schema, not
\* those inside of a property; a client that asks for one is not considered.
ASSUME FieldsAssumption ==
  /\ <<>> \in FieldRules
  /\ \A rule \in FieldRules \ {None} : \A v \in DOMAIN rule :
       rule[v] \in Seq(Seq(STRING)) /\ \A f \in ToSet(rule[v]) : Parents(f) \subseteq Objects
  /\ \A query \in Queries : IsFiniteSet(query) /\ \A f \in query : Parents(f) \subseteq Objects
  /\ {} \in Queries
  /\ \A term \in Terms \ {None} : term \in Seq(STRING)
  /\ None \in Terms

\* null is none of the values that it stands in for.
ASSUME NoneAssumption ==
  /\ None \notin Rows \cup [key : Keys, super : BOOLEAN] \cup {AllFields, <<>>}
  /\ \A rule \in FieldRules \ {None} : \A v \in DOMAIN rule : rule[v] # None

\* TokenAuthGroupConfigurationModel and ObjectTypesConfigurationModel.
ASSUME ConfigsAssumption ==
  \A config \in Configs :
    /\ config.types \subseteq Types
    /\ config.items \in Seq([id : Ids, key : Keys, super : BOOLEAN,
                              permissions : Seq([type : Types, mode : {"read_only", "read_and_write"}])])

\* Permission.clean, and: the fields are given only where they are used.
Clean(row) == ~(row.mode = "read_and_write" /\ row.use)
Entered    == {r \in Rows : Clean(r) /\ (r.use \/ r.fields = <<>>)}

\* A search is authorized like a list, a partial_update like an update.
Actions  == {"list", "retrieve", "history", "history_detail", "create", "update",
             "destroy", "permissions", "types"}
History  == {"history", "history_detail"}
Reading  == History \cup {"list", "retrieve"}

NoRequest ==
  [pc |-> "idle", action |-> "list", id |-> Blank, super |-> FALSE, gone |-> FALSE, type |-> None,
   query |-> {}, term |-> None, rows |-> {}, pre |-> <<>>, round |-> 1,
   status |-> 0, shown |-> <<>>, withheld |-> <<>>, saved |-> FALSE]

Init ==
  /\ types = DOMAIN Stored
  /\ token = Tokens
  /\ \E given \in Given :
       perm = [p \in Ids \X Types |-> IF p \in DOMAIN given THEN given[p] ELSE None]
  /\ req = NoRequest
  /\ seen = [t \in Types |-> {}]
  /\ changes = 0

-----------------------------------------------------------------------------
(* The request. *)

Reply(status) == req' = [req EXCEPT !.pc = "done", !.status = status]
Read == UNCHANGED <<db, seen, changes>>

\* TokenAuthentication, and what has_permission does without reading permissions.
Begin(key, action, t, query, term) ==
  LET found   == {i \in Ids : token[i] # None /\ token[i].key = key}
      First(i) == CASE action = "create"      -> IF token[i].super THEN "write" ELSE "type"
                    [] action = "permissions" -> "permissions"
                    [] action = "types"       -> "types"
                    [] OTHER                  -> IF term = None THEN "fetch" ELSE "sort"
  IN  /\ req.pc = "idle"
      /\ action \in {"list", "retrieve"} \/ query = {}
      /\ action \in Reading \ {"history_detail"} \/ term = None
      /\ query = {} \/ term = None
      /\ req' = IF found = {}
                THEN [NoRequest EXCEPT !.pc = "done", !.action = action, !.status = 401]
                ELSE LET i == CHOOSE x \in found : TRUE
                     IN [NoRequest EXCEPT !.pc = First(i), !.action = action, !.id = i,
                           !.super = token[i].super, !.query = query, !.term = term,
                           !.type = IF action \in {"list", "permissions"} THEN None ELSE t]
      /\ seen' = [u \in Types |-> {perm[i, u] : i \in found}]
      /\ UNCHANGED <<db, changes>>

\* A token that was deleted has no permissions, whatever its identifier is given to.
Mine(t) == IF req.gone THEN None ELSE perm[req.id, t]

\* has_permission of a create: the type in the body must be there.
FindType ==
  /\ req.pc = "type"
  /\ IF req.type \in types THEN req' = [req EXCEPT !.pc = "exists"] ELSE Reply(403)
  /\ Read

\* remove_invalid_fields of OrderingBackend.  A term that is no field is dropped.
SortLists == LET restricted == {t \in Types : Mine(t) # None /\ Mine(t).use}
             IN UNION {{Mine(t).fields[v] : v \in DOMAIN Mine(t).fields} : t \in restricted}
SortFields == UNION {FieldNames(Stored[t].body) : t \in DOMAIN Stored}
Sort ==
  /\ req.pc = "sort"
  /\ IF \E t \in Types : Mine(t) # None /\ Mine(t).use /\ Mine(t).fields = None
     THEN Reply(500)
     ELSE IF ~TermValid(req.term, SortFields) THEN req' = [req EXCEPT !.pc = "fetch", !.term = None]
     ELSE IF TermAllowed(req.term, SortLists) THEN req' = [req EXCEPT !.pc = "fetch"]
     ELSE Reply(400)
  /\ Read

\* filter_for_token, for the page of a list and of a search.
FilterForToken(i, super) == {t \in DOMAIN Stored : super \/ perm[i, t] # None}

Fetch ==
  /\ req.pc = "fetch"
  /\ IF req.action = "list"
     THEN req' = [req EXCEPT !.pc = "prefetch",
                    !.rows = {t \in FilterForToken(req.id, req.super) : req.super \/ ~req.gone}]
     ELSE IF req.type \in DOMAIN Stored
          THEN req' = [req EXCEPT !.pc = "prefetch", !.rows = {req.type}]
          ELSE Reply(404)
  /\ Read

\* token_permissions of the types on the page: a statement of its own.
Prefetch ==
  /\ req.pc = "prefetch"
  /\ req' = [req EXCEPT !.pre = [t \in req.rows |-> Mine(t)],
               !.pc = IF req.action = "list" THEN "respond"
                      ELSE IF req.super THEN (IF req.action = "update" THEN "write" ELSE "respond")
                      ELSE "exists"]
  /\ Read

\* get_permission_for_object_type asks whether there is one, and gets it then.
Exists ==
  /\ req.pc = "exists"
  /\ IF Mine(req.type) # None THEN req' = [req EXCEPT !.pc = "get"]
     ELSE IF req.round = 2 THEN Reply(500) ELSE Reply(403)
  /\ Read

\* Faults: the history is not forbidden; the mode is not looked at.
GrantsHistory(row, action) == action \in Reading \/ row.mode = "read_and_write"
GrantsAnyMode(row, action) == ~(action \in History /\ row.mode = "read_only" /\ row.use)

\* has_object_permission; of a create, has_permission.
Grants(row, action) ==
  /\ ~(action \in History /\ row.mode = "read_only" /\ row.use)
  /\ action \in Reading \/ row.mode = "read_and_write"

AfterGet == CASE req.round = 1 /\ req.action \in {"create", "update"} -> "write"
              [] req.round = 1 /\ req.action \notin {"create", "update"} -> "respond"
              [] req.round = 3 -> "commit"

CheckPermission ==
  /\ req.pc = "get"
  /\ req.round # 2
  /\ LET row == Mine(req.type)
     IN CASE row = None -> Reply(500)
          [] row # None /\ Grants(row, req.action) -> req' = [req EXCEPT !.pc = AfterGet]
          [] OTHER -> Reply(403)
  /\ Read

\* The transaction that saves the record is open from here to Commit; whatever answers
\* with an error rolls it back.
Write ==
  /\ req.pc = "write"
  /\ req' = [req EXCEPT !.pc = IF req.super THEN "commit" ELSE "exists", !.round = 2]
  /\ Read

\* The answer to what was written is made of the new record, without prefetching.
SerializeWritten ==
  /\ req.pc = "get"
  /\ req.round = 2
  /\ LET row     == Mine(req.type)
         allowed == AllowedFields(row, Written.version, None)
         made    == Represent(Written.body, allowed, <<>>)
     IN CASE row = None -> Reply(500)
          [] row # None /\ allowed = None -> Reply(500)
          [] row # None /\ allowed # None /\ made.status # 200 -> Reply(made.status)
          [] OTHER -> req' = [req EXCEPT !.shown = (req.type :> made.shown), !.round = 3,
                                !.pc = IF req.action = "create" THEN "commit" ELSE "exists"]
  /\ Read

Commit ==
  /\ req.pc = "commit"
  /\ req' = [req EXCEPT !.pc = "done", !.status = 200, !.saved = TRUE]
  /\ Read

\* get_allowed_fields: the prefetched permission or, when there is none, another read
\* (its two statements are one step here).
RowFor(t) == IF req.pre[t] # None THEN req.pre[t] ELSE Mine(t)
Allowed(t) ==
  IF req.super \/ req.action \in History THEN AllFields
  ELSE AllowedFields(RowFor(t), Stored[t].version, None)
\* A fault: a superuser needs a permission too.
NoPermissionAtAll(t) == req.action \notin History /\ RowFor(t) = None

NoPermission(t) == ~req.super /\ req.action \notin History /\ RowFor(t) = None

\* The answer to a list, a search, a retrieve or a history; that of a destroy is made
\* for the notification, before the object is deleted.
Respond ==
  /\ req.pc = "respond"
  /\ \E order \in QueryOrders(req.query) :
       IF \E t \in req.rows : NoPermission(t) \/ Allowed(t) = None
       THEN Reply(500)
       ELSE LET made   == [t \in req.rows |-> Represent(Stored[t].body, Allowed(t), order)]
                failed == {t \in req.rows : made[t].status # 200}
            IN  IF failed # {} THEN \E t \in failed : Reply(made[t].status)
                ELSE req' = [req EXCEPT !.pc = "done", !.status = 200,
                               !.shown = [t \in req.rows |-> made[t].shown],
                               !.withheld = [t \in req.rows |-> made[t].withheld],
                               !.saved = (req.action = "destroy")]
  /\ Read

\* The list of the permissions of the token.
ListPermissions ==
  /\ req.pc = "permissions"
  /\ req' = [req EXCEPT !.pc = "done", !.status = 200,
               !.shown = [t \in {u \in Types : Mine(u) # None} |-> Mine(t)]]
  /\ Read

\* Any token may change object types: DELETE of one without versions and objects takes
\* the permissions for it along.
ChangeType ==
  /\ req.pc = "types"
  /\ \/ req.type \notin types /\ Reply(404) /\ UNCHANGED db
     \/ req.type \in DOMAIN Stored /\ Reply(400) /\ UNCHANGED db
     \/ /\ req.type \in types \ DOMAIN Stored
        /\ types' = types \ {req.type}
        /\ perm' = [p \in DOMAIN perm |-> IF p[2] = req.type THEN None ELSE perm[p]]
        /\ UNCHANGED token
        /\ Reply(204)
  /\ UNCHANGED <<seen, changes>>

-----------------------------------------------------------------------------
(* Changes of tokens and permissions during the request. *)

Changed ==
  /\ changes < MaxChanges
  /\ changes' = changes + 1
  /\ req.pc \notin {"idle", "done"}
  /\ seen' = [t \in Types |-> seen[t] \cup {IF req'.gone THEN None ELSE perm'[req.id, t]}]

\* PermissionAdmin: the form validates with Permission.clean; row None is a deletion.
SavePermission(i, t, row) ==
  /\ token[i] # None /\ t \in types
  /\ perm' = [perm EXCEPT ![<<i, t>>] = row]
  /\ UNCHANGED <<types, token, req>>
  /\ Changed

\* TokenAuthAdmin shows the permissions without changing them; a new token gets a key of
\* its own from save().
Taken(i) == {token[j].key : j \in {x \in Ids \ {i} : token[x] # None}}
AddToken(i, super) ==
  /\ token[i] = None
  /\ \E key \in Keys \ Taken(i) : token' = [token EXCEPT ![i] = [key |-> key, super |-> super]]
  /\ UNCHANGED <<types, perm, req>>
  /\ Changed

\* A fault: the permissions stay.
DeleteTokenAlone(i) ==
  /\ token[i] # None
  /\ token' = [token EXCEPT ![i] = None]
  /\ UNCHANGED <<types, perm, req>>
  /\ Changed

DeleteToken(i) ==
  /\ token[i] # None
  /\ token' = [token EXCEPT ![i] = None]
  /\ perm' = [p \in DOMAIN perm |-> IF p[1] = i THEN None ELSE perm[p]]
  /\ req' = [req EXCEPT !.gone = @ \/ req.id = i]
  /\ UNCHANGED types
  /\ Changed

\* generate_token gives no identifier: there can be one such token, and the command
\* fails (and changes nothing) while it is there.
GenerateToken == AddToken(Blank, FALSE)

-----------------------------------------------------------------------------
(* The setup configuration: a run of all steps is one transaction. *)

Rejected(base) == [base EXCEPT !.ok = FALSE]

\* ObjectTypesConfigurationStep.execute: update_or_create by uuid.
ConfigureTypes(names, base) == [base EXCEPT !.types = @ \cup names]

\* A fault: a token that is there stays as it is.
ConfigureNewToken(item, base) ==
  IF base.token[item.id] # None THEN base
  ELSE [base EXCEPT !.token[item.id] = [key |-> item.key, super |-> item.super]]

\* TokenAuthConfigurationStep: update_or_create of the token by its identifier, which
\* fails when another has the key; and of each permission by token and type, of which
\* only the mode is given.
ConfigureToken(item, base) ==
  IF \E j \in Ids \ {item.id} : base.token[j] # None /\ base.token[j].key = item.key
  THEN Rejected(base)
  ELSE [base EXCEPT !.token[item.id] = [key |-> item.key, super |-> item.super]]

ConfigurePermission(id, p, base) ==
  IF ~base.ok \/ p.type \notin base.types THEN Rejected(base)
  ELSE LET old == base.perm[id, p.type]
       IN [base EXCEPT !.perm[<<id, p.type>>] =
             IF old = None THEN Row(p.mode, FALSE, <<>>) ELSE [old EXCEPT !.mode = p.mode]]

ConfigureItem(base, item) ==
  FoldLeft(LAMBDA b, p : ConfigurePermission(item.id, p, b), ConfigureToken(item, base), item.permissions)

Configured(config, base) ==
  FoldLeft(ConfigureItem, ConfigureTypes(config.types, base), config.items)

Database == [ok |-> TRUE, types |-> types, token |-> token, perm |-> perm]

RunConfiguration(config) ==
  LET result == Configured(config, Database)
  IN  /\ result.ok
      /\ types' = result.types
      /\ token' = result.token
      /\ perm' = result.perm
      /\ UNCHANGED req
      /\ Changed

-----------------------------------------------------------------------------
RequestStep ==
  \/ FindType \/ Sort \/ Fetch \/ Prefetch \/ Exists \/ CheckPermission
  \/ Write \/ SerializeWritten \/ Commit \/ Respond \/ ListPermissions \/ ChangeType

Next ==
  \/ \E key \in Keys, action \in Actions, t \in Types, query \in Queries, term \in Terms :
       Begin(key, action, t, query, term)
  \/ RequestStep
  \/ \E t \in Types, row \in Entered \cup {None} : SavePermission(req.id, t, row)
  \/ \E i \in Ids \ {Blank}, super \in BOOLEAN : AddToken(i, super)
  \/ \E i \in Ids : DeleteToken(i)
  \/ GenerateToken
  \/ \E config \in Configs : RunConfiguration(config)

AccessSpec == Init /\ [][Next]_vars
-----------------------------------------------------------------------------
(* Correctness. *)

TypeOK ==
  /\ types \subseteq Types
  /\ token \in [Ids -> [key : Keys, super : BOOLEAN] \cup {None}]
  /\ \A p \in Ids \X Types :
       perm[p] = None \/ (perm[p] \in Rows /\ token[p[1]] # None /\ p[2] \in types)
  /\ req.status \in {0, 200, 204, 400, 401, 403, 404, 500}
  /\ changes \in 0..MaxChanges

Answered == req.pc = "done" /\ req.status = 200

\* A permission of the row lets the body show these fields.
Shows(row, t, fields) ==
  /\ row # None
  /\ LET allowed == AllowedFields(row, Stored[t].version, None)
     IN  \/ allowed = AllFields
         \/ allowed # None /\ \A f \in FieldNames(fields) : \E g \in ToSet(allowed) : IsPrefix(g, f)

\* Whatever the admin changes during the request: what is shown of an object, in a list as
\* alone, was allowed by one permission the token had for its type since the request came.
ShownWasGranted ==
  Answered /\ req.action \in Reading /\ ~req.super =>
    \A t \in req.rows : \E row \in seen[t] : Shows(row, t, req.shown[t])

\* Whatever the admin changes during the request: what was saved or deleted was allowed by
\* a permission to write for that very type, which the token had since the request came.
WriteWasGranted ==
  req.saved /\ ~req.super =>
    \E row \in seen[req.type] \ {None} : row.mode = "read_and_write"

\* A list is sorted only by what every object in it shows, or by an attribute whose parent
\* it shows; of the versions that a permission does not name it shows nothing at all.
SortedByShown ==
  Answered /\ req.action = "list" /\ req.term # None /\ changes = 0 /\ req.query = {} =>
    \A t \in req.rows : LET v == Stored[t].version IN
      \/ req.term \notin Stored[t].body
      \/ req.term \in req.shown[t]
      \/ ~req.super /\ v \notin DOMAIN perm[req.id, t].fields

\* A request is answered with 500 only when its permissions change meanwhile, when the
\* fields of one are null, or when a list of fields has a field after the whole of it.
ErrorNeedsChange ==
  req.status = 500 =>
    \/ \E t \in Types : Cardinality(seen[t]) > 1
    \/ \E t \in Types : \E row \in seen[t] \ {None} :
         row.use /\ (row.fields = None \/ \E v \in DOMAIN row.fields : Clash(row.fields[v]))
    \/ \E f, g \in req.query : IsStrictPrefix(f, g)

\* After a run of the setup configuration the tokens and modes are those that it names,
\* nothing else has changed, and running it again changes nothing.
NamedBy(config, i, t) ==
  \E n \in DOMAIN config.items : config.items[n].id = i
    /\ (t = None \/ \E k \in DOMAIN config.items[n].permissions : config.items[n].permissions[k].type = t)
Converges ==
  \A config \in Configs :
    LET after == Configured(config, Database) IN
    after.ok =>
      /\ Configured(config, after) = after
      /\ \A n \in DOMAIN config.items : LET item == config.items[n] IN
           /\ after.token[item.id] = [key |-> item.key, super |-> item.super]
           /\ \A k \in DOMAIN item.permissions :
                LET p == item.permissions[k] IN after.perm[item.id, p.type].mode = p.mode
      /\ \A i \in Ids : NamedBy(config, i, None) \/ after.token[i] = token[i]
      /\ \A i \in Ids, t \in Types : NamedBy(config, i, t) \/ after.perm[i, t] = perm[i, t]
=============================================================================
