------------------------------ MODULE Upgrades ------------------------------
(***************************************************************************)
(* The database of an installation through its releases: `migrate` runs     *)
(* what a release has more than the database, and the app of the release    *)
(* then adds objects, records, tokens and permissions.  What was entered is *)
(* kept as the app of that moment tells it, to compare with what the app of *)
(* a later release tells.                                                   *)
(***************************************************************************)
EXTENDS Migrations

CONSTANTS
    Releases,   \* the last migrations of core and of token in each, <<c, t>>
    Urls,       \* of object types
    Secrets,    \* the tokens that clients send
    Dates,      \* on which records start
    MaxWrites,  \* bounds what is entered
    Upsets      \* what the rows of the past may be, see below

Latest == <<Len(Core), Len(Token)>>

\* Data, versions, indexes, object types, and then tokens, are half moved in between;
\* the permissions of token 0002 are for object types with a table (its dependencies).
ASSUME ReleaseAssumption ==
    /\ Latest \in Releases
    /\ \A r \in Releases : /\ r[1] \in 1..40 \ ({3, 9, 18} \cup 21..25)
                          /\ r[2] \in 0..17 \ 11..15
                          /\ (r[2] >= 2 => r[1] >= 26)
                          /\ (r[2] >= 11 => r[1] >= 28)

ASSUME UrlAssumption == \A url \in Urls : url.path \in Seq(STRING) /\ url.path # Null

ASSUME BoundAssumption == Dates \subseteq Nat /\ MaxWrites \in Nat

(***************************************************************************)
(* "twins": two services have a type with one uuid.                         *)
(* "double": a token has two permissions for a type, before token 0006.     *)
(* "lists": a permission has fields between token 0005 and 0007.            *)
(***************************************************************************)
ASSUME UpsetAssumption == Upsets \subseteq {"twins", "double", "lists"}

ASSUME TwinAssumption ==
    "twins" \in Upsets
    \/ \A u \in Urls, v \in Urls :
         HasType(u) /\ HasType(v) /\ u.uuid = v.uuid => Root(u) = Root(v)

VARIABLES
    db,
    applied,    \* the last migrations of core and of token that are recorded
    target,     \* the release that is installed
    said,       \* what the app told of each object when something was entered
    granted,    \* and the grants of each token
    writes

vars == <<db, applied, target, said, granted, writes>>

-----------------------------------------------------------------------------
(* What the API tells. *)

Has(table, column) == table \in DOMAIN db.columns /\ column \in DOMAIN db.columns[table]

Rows(table) == IF table \in DOMAIN db.columns THEN db.rows[table] ELSE {}

\* An object has a URL until object types have a table, and the URL of an
\* object type is that of its service until those are gone.
TypeOf(id) ==
    IF Has("objecttype", "service")
    THEN [path |-> RowWith(db, "objecttype", id).service, uuid |-> RowWith(db, "objecttype", id).uuid]
    ELSE [path |-> Null, uuid |-> RowWith(db, "objecttype", id).uuid]

UrlOf(object) ==
    IF Has("objecttype", "id") THEN TypeOf(object.object_type) ELSE object.object_type

StartOf(record) ==
    record[CHOOSE c \in {"material_date", "start_date", "start_at"} : c \in DOMAIN record]

Before(record, other) ==
    IF Has("objectrecord", "index") THEN record.index <= other.index
    ELSE \/ StartOf(record) < StartOf(other)
         \/ StartOf(record) = StartOf(other) /\ record.id <= other.id

Told(object, record) ==
    [data    |-> record.data,
     version |-> IF Has("objectrecord", "version") THEN record.version ELSE object.version]

\* The number of a record among those of its object.
Place(record) ==
    Cardinality({r \in Rows("objectrecord") : r.object = record.object /\ Before(r, record)})

History(object) ==
    IF Has("objectrecord", "id")
    THEN {<<Place(r), Told(object, r)>> :
            r \in {record \in Rows("objectrecord") : record.object = object.id}}
    ELSE {<<1, [data |-> object.data, version |-> object.version]>>}

Says ==
    [id \in {object.id : object \in Rows("object")} |->
        LET object == RowWith(db, "object", id)
        IN [url |-> UrlOf(object), history |-> History(object)]]

\* Permissions point to the key of a token, which was the token itself.
KeyOf(token) == IF Has("tokenauth", "id") THEN token.id ELSE token.token

Grant(permission) ==
    [uuid   |-> RowWith(db, "objecttype", permission.object_type).uuid,
     mode   |-> permission.mode,
     fields |-> IF Has("permission", "fields") THEN permission.fields ELSE Default]

Grants ==
    [secret \in {token.token : token \in Rows("tokenauth")} |->
        {Grant(p) : p \in {q \in Rows("permission") :
            \E token \in Rows("tokenauth") :
                token.token = secret /\ KeyOf(token) = q.token_auth}}]

Init ==
    /\ db = NoTables
    /\ applied = <<0, 0>>
    /\ target \in Releases
    /\ said = <<>> /\ granted = <<>>
    /\ writes = 0

-----------------------------------------------------------------------------
(* migrate: core before token, each migration in a transaction; one that      *)
(* violates a constraint is rolled back, and is first again the next time.   *)

\* The release of this repository has a squash, for a database without tables.
Squashes == applied[1] = 0 /\ target = Latest

Commit(operations, done) ==
    /\ db' = Migrated(db, operations)
    /\ Valid(db')
    /\ applied' = done
    /\ UNCHANGED <<target, said, granted, writes>>

MigrateSquash ==
    /\ Squashes
    /\ Commit(Squash, <<Squashed, applied[2]>>)

MigrateCore ==
    /\ ~Squashes
    /\ applied[1] < target[1]
    /\ Commit(Core[applied[1] + 1], <<applied[1] + 1, applied[2]>>)

MigrateToken ==
    /\ applied[1] = target[1]
    /\ applied[2] < target[2]
    /\ Commit(Token[applied[2] + 1], <<applied[1], applied[2] + 1>>)

Migrate == MigrateSquash \/ MigrateCore \/ MigrateToken

\* The migrations of the release are done, and its app serves.
Runs == applied = target

\* The operator installs a later release.
Install(release) ==
    /\ Runs
    /\ release[1] >= target[1] /\ release[2] >= target[2] /\ release # target
    /\ target' = release
    /\ UNCHANGED <<db, applied, said, granted, writes>>

-----------------------------------------------------------------------------
(* The app of the release, whose tables are as it expects them. *)

Insert(table, given) ==
    [db EXCEPT !.rows[table] = @ \cup {RowOf(db, table, given)}]

\* Data, versions and keys of what is entered differ.
Entry == writes + 1

Enter(new) ==
    /\ writes < MaxWrites
    /\ db' = new
    /\ Valid(db')
    /\ said' = Says'
    /\ granted' = Grants'
    /\ writes' = Entry
    /\ UNCHANGED <<applied, target>>

\* The object type of a URL, if need be added (by the admin).
TypeAdded(url) ==
    IF Has("objecttype", "id") /\ ~\E type \in Rows("objecttype") : type.uuid = url.uuid
    THEN [db EXCEPT !.rows["objecttype"] = @ \cup {TypeRow(db, TypeId(url))}]
    ELSE db

TypeKey(url) == (CHOOSE type \in TypeAdded(url).rows["objecttype"] : type.uuid = url.uuid).id

FirstRecord(object, date) ==
    [id |-> Entry, object |-> Entry, data |-> Entry, version |-> Entry, uuid |-> Entry,
     material_date |-> date, start_date |-> date, start_at |-> date, index |-> 1,
     _object_type |-> object.object_type]

AddObject(url, date) ==
    LET typed  == Has("objecttype", "id")
        given  == [id |-> Entry, uuid |-> Entry, data |-> Entry, version |-> Entry,
                   object_type |-> IF typed THEN TypeKey(url) ELSE url]
        object == RowOf(db, "object", given)
        base   == [TypeAdded(url) EXCEPT !.rows["object"] = @ \cup {object}]
    IN /\ Runs
       /\ typed => HasType(url)
       /\ Enter(IF Has("objectrecord", "id")
                THEN [base EXCEPT !.rows["objectrecord"] =
                        @ \cup {RowOf(db, "objectrecord", FirstRecord(given, date))}]
                ELSE base)

AddRecord(object, date) ==
    LET records == {r \in Rows("objectrecord") : r.object = object.id}
        given   == [FirstRecord(object, date) EXCEPT
                      !.object = object.id, !.index = Cardinality(records) + 1]
    IN /\ Runs /\ Has("objectrecord", "id")
       /\ Enter(Insert("objectrecord", given))

\* A permission, of a token that may be new.
AddPermission(secret, url, mode, fields) ==
    LET row   == [id |-> NewId(secret), token |-> secret, identifier |-> secret]
        token == IF \E t \in Rows("tokenauth") : t.token = secret
                 THEN CHOOSE t \in Rows("tokenauth") : t.token = secret
                 ELSE RowOf(db, "tokenauth", row)
        given == [id |-> Entry, token_auth |-> KeyOf(token), object_type |-> TypeKey(url),
                  mode |-> mode, fields |-> fields]
    IN /\ Runs /\ Has("permission", "id") /\ HasType(url)
       /\ fields # Default =>
            Has("permission", "fields") /\ (target[2] < 7 => "lists" \in Upsets)
       /\ ("double" \notin Upsets) =>
            \A p \in Rows("permission") :
                p.token_auth # given.token_auth \/ p.object_type # given.object_type
       /\ Enter([TypeAdded(url) EXCEPT
                   !.rows["tokenauth"] = @ \cup {token},
                   !.rows["permission"] = @ \cup {RowOf(db, "permission", given)}])

-----------------------------------------------------------------------------
Next ==
    \/ Migrate
    \/ \E release \in Releases : Install(release)
    \/ \E date \in Dates :
         \/ \E url \in Urls : AddObject(url, date)
         \/ \E object \in Rows("object") : AddRecord(object, date)
    \/ \E secret \in Secrets, url \in Urls, mode \in {"read_only", "read_and_write"},
         fields \in {Default, "some"} : AddPermission(secret, url, mode, fields)

Spec == Init /\ [][Next]_vars

\* A container that ends is started again, and goes on with migrate.
FairSpec == Spec /\ WF_vars(Migrate)

-----------------------------------------------------------------------------
\* The URL that an object had has a service, and a uuid.
Survives(url) == url.path = Null \/ (RootsOf(url) # {} /\ url.uuid # Null)

\* The API kept the URL, if a service has exactly its root.
SameUrl(url, before) ==
    /\ url.uuid = before.uuid
    /\ url.path = before.path \/ url.path = Null \/ before.path \notin Roots

\* The app of a release tells the data and the versions of every object, in
\* the order of before, and its type as before; of what was entered only the
\* objects are gone whose type had no service or no uuid when object types got
\* a table of their own (core migrations 0004 to 0033).
HistoryKept ==
    Runs =>
        /\ DOMAIN Says = {id \in DOMAIN said :
                            Has("objecttype", "id") => Survives(said[id].url)}
        /\ \A id \in DOMAIN Says :
             /\ Says[id].history = said[id].history
             /\ SameUrl(Says[id].url, said[id].url)

\* Every token that a client has opens what it opened, with the mode and the
\* fields it had, although tokens got another key and permissions another
\* column (token migrations 0005 to 0017).
GrantsKept == Runs => Grants = granted

\* An upgrade to the release of this repository, from any other and from
\* nothing, ends, with the tables that its models describe: no migration finds
\* rows that violate what it adds, and the squash leaves out nothing.
UpgradeEnds ==
    (target = Latest) ~> (applied = Latest /\ Schema(db) = Models)
=============================================================================
