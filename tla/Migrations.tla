----------------------------- MODULE Migrations -----------------------------
(***************************************************************************)
(* The migrations of the apps core and token, the squash of those of core,  *)
(* and the tables that the models describe.  Choices, lengths, texts and    *)
(* validators of a field are left out: a column here may be null or unique. *)
(***************************************************************************)
EXTENDS Tables

CONSTANTS
    Roots,      \* the api_root of each service
    Today       \* when 0004 is run

ASSUME DateAssumption == Today \in Nat
ASSUME RootAssumption == Roots \subseteq Seq(STRING)

Required == {}
Optional == {"null"}
Unique   == {"unique"}
OneToOne == {"null", "unique"}

\* The rows of another table that a foreign key points to.
RowWith(db, table, id) == CHOOSE row \in db.rows[table] : row.id = id

-----------------------------------------------------------------------------
(* core, 0001 to 0020: records with an index. *)

Core01 == <<CreateModel("object", Columns({"object_type", "version", "data"}, {}, {"uuid"}))>>
Core02 == <<AlterField("object", "data", Required), AlterField("object", "version", Required)>>
Core03 == <<CreateModel("objectrecord",
              Columns({"data", "record_type", "material_date", "registration_date", "object"},
                      {}, {}))>>

\* A record for each object; there are no records yet.
MoveData(db) ==
    [db EXCEPT !.rows["objectrecord"] = @ \cup
        {RowOf(db, "objectrecord",
               [id |-> object.id, object |-> object.id, data |-> object.data,
                material_date |-> Today]) :
           object \in db.rows["object"]}]

Core04 == <<RunPython("move_data_to_record")>>
Core05 == <<RemoveField("object", "data")>>
Core06 == <<RenameField("objectrecord", "material_date", "start_date"),
            RemoveField("objectrecord", "record_type"),
            AddField("objectrecord", "end_date", Optional),
            AlterField("objectrecord", "registration_date", Required)>>
Core07 == <<AlterField("objectrecord", "start_date", Required)>>
Core08 == <<AddField("objectrecord", "correct", OneToOne)>>
Core09 == <<AddFieldAs("objectrecord", "version", Required, 0)>>

MoveVersion(db) ==
    [db EXCEPT !.rows["objectrecord"] =
        {[record EXCEPT !.version = RowWith(db, "object", record.object).version] :
           record \in @}]

Core10 == <<RunPython("move_version_to_record")>>
Core11 == <<RemoveField("object", "version")>>
Core12 == <<AddFieldAs("objectrecord", "uuid", Optional, Default)>>

\* Another uuid for each.
GenerateUuids(db) ==
    [db EXCEPT !.rows["objectrecord"] = {[record EXCEPT !.uuid = record.id] : record \in @}]

Core13 == <<RunPython("generate_record_uuids")>>
Core14 == <<AlterField("objectrecord", "uuid", Unique)>>
Core15 == <<AddField("objectrecord", "geometry", Optional)>>
Core16 == <<RenameField("objectrecord", "end_date", "end_at"),
            RenameField("objectrecord", "registration_date", "registration_at"),
            RenameField("objectrecord", "start_date", "start_at")>>
Core17 == <<AlterField("objectrecord", "correct", OneToOne),
            AlterField("objectrecord", "end_at", Optional),
            AlterField("objectrecord", "registration_at", Required),
            AlterField("objectrecord", "start_at", Required)>>
Core18 == <<RemoveField("objectrecord", "uuid"), AddFieldAs("objectrecord", "index", Required, 1)>>

\* A fault: in the order in which the records were added.
UpToById(db, record) ==
    {r \in db.rows["objectrecord"] : r.object = record.object /\ r.id <= record.id}

\* ROW_NUMBER() OVER (PARTITION BY object ORDER BY start_at, id).
UpTo(db, record) ==
    {r \in db.rows["objectrecord"] :
        /\ r.object = record.object
        /\ r.start_at < record.start_at
           \/ (r.start_at = record.start_at /\ r.id <= record.id)}

FillIndex(db) ==
    [db EXCEPT !.rows["objectrecord"] =
        {[record EXCEPT !.index = Cardinality(UpTo(db, record))] : record \in @}]

Core19 == <<RunPython("fill_record_index")>>
Core20 == <<AlterUniqueTogether("objectrecord", {{"object", "index"}})>>

-----------------------------------------------------------------------------
(* core, 0021 to 0029: object types have a table. *)

Core21 == <<AlterField("objectrecord", "correct", OneToOne),
            CreateModel("objecttype", Columns({"uuid", "_name", "service"}, {}, {})),
            AlterUniqueTogether("objecttype", {{"service", "uuid"}}),
            AddField("object", "object_type_fk", Optional)>>

\* A URL is [path, uuid], where the uuid is Null when it is not one.  The
\* longest api_root that it starts with counts.
RootsOf(url) == {root \in Roots : IsPrefix(root, url.path)}
Root(url)    == CHOOSE root \in RootsOf(url) : \A r \in RootsOf(url) : Len(r) <= Len(root)
HasType(url) == RootsOf(url) # {} /\ url.uuid # Null
TypeId(url)  == <<Root(url), url.uuid>>

TypeRow(db, id) ==
    RowOf(db, "objecttype", [id |-> id, service |-> id[1], uuid |-> id[2]])

MoveTypes(db) ==
    LET urls == {object.object_type : object \in db.rows["object"]}
        ids  == {TypeId(url) : url \in {u \in urls : HasType(u)}}
    IN [db EXCEPT
          !.rows["objecttype"] = @ \cup {TypeRow(db, id) : id \in ids},
          !.rows["object"] =
              {IF HasType(object.object_type)
               THEN [object EXCEPT !.object_type_fk = TypeId(object.object_type)]
               ELSE object : object \in @}]

Core22 == <<RunPython("move_objecttypes_to_model")>>
Core23 == <<RemoveField("object", "object_type")>>
Core24 == <<RenameField("object", "object_type_fk", "object_type")>>

\* With their records (on_delete=CASCADE).
RemoveUntyped(db) ==
    LET kept == {object \in db.rows["object"] : object.object_type # Null}
    IN [db EXCEPT !.rows["object"] = kept,
                  !.rows["objectrecord"] =
                      {record \in @ : \E object \in kept : object.id = record.object}]

Core25 == <<RunPython("remove_objects_with_empty_object_type")>>
Core26 == <<AlterField("object", "object_type", Required)>>
Core27 == <<AlterField("objectrecord", "data", Required),
            AlterField("objectrecord", "geometry", Optional)>>
Core28 == <<AlterField("objectrecord", "data", Required)>>
Core29 == <<AlterField("object", "object_type", Required)>>

-----------------------------------------------------------------------------
(* core, 0030 to 0040.  StartUp has the steps of 0033 and 0034. *)

Core30 == <<AddIndex("objectrecord", "idx_objectrecord_data_gin")>>
Core31 == <<AddField("object", "created_on", Required), AddField("object", "modified_on", Required),
            AddField("objectrecord", "created_on", Required),
            AddField("objectrecord", "modified_on", Required)>>
Core32 == <<AddField("objectrecord", "_object_type", Optional)>>

Backfill(db) ==
    [db EXCEPT !.rows["objectrecord"] =
        {[record EXCEPT !._object_type = RowWith(db, "object", record.object).object_type] :
           record \in @}]

Core33 == <<RunPython("forward")>>
Core34 == <<AlterField("objectrecord", "_object_type", Required),
            AddIndex("objectrecord", "idx_objectrecord_type_index"),
            AddIndex("objectrecord", "idx_objectrecord_type_id"),
            AddIndex("objectrecord", "idx_type_start_end_object_idx")>>

FirstTexts == <<"allow_geometry", "contact_email", "contact_person", "data_classification",
                "description", "documentation_url", "labels">>
LastTexts  == <<"maintainer_department", "maintainer_organization", "name", "name_plural",
                "provider_organization", "source", "update_frequency">>
TypeTexts  == FirstTexts \o <<"linkable_to_zaken">> \o LastTexts
VersionColumns == Columns({"version", "json_schema", "status", "object_type"},
                          {"created_at", "modified_at", "published_at"}, {})

Core35 == Each(TypeTexts, LAMBDA c : AddField("objecttype", c, Required))
          \o <<AddField("objecttype", "created_at", Optional),
               AddField("objecttype", "modified_at", Optional),
               CreateModel("objecttypeversion", VersionColumns),
               AlterUniqueTogether("objecttypeversion", {{"object_type", "version"}})>>
Core36 == <<AddField("objecttype", "is_imported", Required)>>
Core37 == <<CreateModel("reference", Columns({"type", "url", "record"}, {}, {})),
            AddIndex("reference", "core_refere_url_a2dbbb_idx"),
            AlterUniqueTogether("reference", {{"record", "url"}})>>
Core38 == <<RemoveField("objecttype", "linkable_to_zaken")>>
Core39 == <<AlterUniqueTogether("objecttype", {}),
            AlterField("object", "object_type", Required),
            AlterField("objectrecord", "_object_type", Required),
            AlterFieldAs("objecttype", "created_at", Required, Default),
            AlterFieldAs("objecttype", "modified_at", Required, Default),
            AlterField("objecttype", "name", Required),
            AlterField("objecttype", "name_plural", Required),
            AlterField("objecttype", "uuid", Unique),
            AlterFieldAs("objecttypeversion", "created_at", Required, Default),
            AlterFieldAs("objecttypeversion", "modified_at", Required, Default),
            RemoveField("objecttype", "_name"), RemoveField("objecttype", "service")>>
Core40 == <<AddField("objecttypeversion", "strict_format_checker", Required),
            AlterField("objecttypeversion", "strict_format_checker", Required)>>

Core == <<Core01, Core02, Core03, Core04, Core05, Core06, Core07, Core08, Core09, Core10,
          Core11, Core12, Core13, Core14, Core15, Core16, Core17, Core18, Core19, Core20,
          Core21, Core22, Core23, Core24, Core25, Core26, Core27, Core28, Core29, Core30,
          Core31, Core32, Core33, Core34, Core35, Core36, Core37, Core38, Core39, Core40>>

-----------------------------------------------------------------------------
(* The squash, 0001_initial_to_v360, which replaces 0001 to 0038. *)

Squashed == 38

SquashRecords ==
    Core01 \o Core03 \o Core05
    \o <<RenameField("objectrecord", "material_date", "start_date"),
         RemoveField("objectrecord", "record_type"),
         AddField("objectrecord", "end_date", Optional),
         AlterField("objectrecord", "registration_date", Required),
         AlterField("objectrecord", "start_date", Required)>>
SquashIndexes ==
    Core08 \o Core09 \o Core11 \o Core12 \o <<RemoveField("objectrecord", "uuid")>>
    \o Core15 \o Core16 \o Core17
    \o <<AddField("objectrecord", "index", Required),
         AlterUniqueTogether("objectrecord", {{"object", "index"}})>>
SquashTypes ==
    Core21 \o <<RemoveField("object", "object_type"),
                RenameField("object", "object_type_fk", "object_type"),
                AlterField("objectrecord", "geometry", Optional),
                AlterField("objectrecord", "data", Required),
                AlterField("object", "object_type", Required)>>
\* A fault: the squash without the operations of 0034.
SquashLookupsAdded == Core30 \o Core31 \o Core32

SquashLookups ==
    Core30 \o Core31 \o Core32
    \o <<AlterField("objectrecord", "_object_type", Required),
         AddIndex("objectrecord", "idx_objectrecord_type_index"),
         AddIndex("objectrecord", "idx_objectrecord_type_id"),
         AddIndex("objectrecord", "idx_type_start_end_object_idx")>>
SquashTypeTexts ==
    Each(FirstTexts \o LastTexts, LAMBDA c : AddField("objecttype", c, Required))
    \o <<AddField("objecttype", "created_at", Optional), AddField("objecttype", "modified_at", Optional)>>
SquashTables ==
    <<CreateModel("objecttypeversion", VersionColumns),
      AlterUniqueTogether("objecttypeversion", {{"object_type", "version"}}),
      AddField("objecttype", "is_imported", Required),
      CreateModel("reference", Columns({"type", "url", "record"}, {}, {})),
      AddIndex("reference", "core_refere_url_a2dbbb_idx"),
      AlterUniqueTogether("reference", {{"record", "url"}})>>

Squash == SquashRecords \o SquashIndexes \o SquashTypes
          \o SquashLookups \o SquashTypeTexts \o SquashTables

-----------------------------------------------------------------------------
(* token: its key was the token itself until 0012. *)

Contact == {"contact_person", "email", "organization", "last_modified", "created"}

Token01 == <<CreateModel("tokenauth", Fields(Contact, {}, {"token"}))>>
Token02 == <<CreateModel("permission", Columns({"mode", "object_type", "token_auth"}, {}, {}))>>
Token03 == <<AddField("tokenauth", "administration", Required),
             AddField("tokenauth", "application", Required)>>
Token04 == <<AlterField("tokenauth", "administration", Required),
             AlterField("tokenauth", "application", Required),
             AlterField("tokenauth", "organization", Required)>>
Token05 == <<AddField("permission", "fields", Required), AddField("permission", "use_fields", Required)>>
Token06 == <<AlterUniqueTogether("permission", {{"token_auth", "object_type"}})>>
Token07 == <<RemoveField("permission", "fields")>>
Token08 == <<AddFieldAs("permission", "fields", Optional, Default)>>
Token09 == <<AlterField("permission", "fields", Optional)>>
Token10 == <<AddField("tokenauth", "is_superuser", Required)>>
Token11 == <<RenameModel("tokenauth", "oldtokenauth"),
             RenameField("permission", "token_auth", "old_token_auth"),
             AlterUniqueTogether("permission", {{"old_token_auth", "object_type"}})>>
Token12 == <<CreateModel("tokenauth",
               Columns(Contact \cup {"token", "application", "administration", "is_superuser"},
                       {}, {})),
             AddField("permission", "new_token_auth", Optional)>>

\* A new row, with a key of its own, for each; none is there yet.
NewId(token) == <<"id", token>>

\* A fault: the permissions of all tokens move each time.
KeyOfOne(db, permission) == NewId((CHOOSE old \in db.rows["oldtokenauth"] : TRUE).token)

NewKey(db, permission) == NewId(permission.old_token_auth)

CopyTokens(db) ==
    [db EXCEPT
       !.rows["tokenauth"] = @ \cup
           {RowOf(db, "tokenauth", [id |-> NewId(old.token), token |-> old.token]) :
              old \in db.rows["oldtokenauth"]},
       !.rows["permission"] =
           {[p EXCEPT !.new_token_auth = NewKey(db, p)] : p \in @}]

Token13 == <<RunPython("switch_to_new_token_model")>>
Token14 == <<AlterUniqueTogether("permission", {{"new_token_auth", "object_type"}}),
             RemoveField("permission", "old_token_auth"), DeleteModel("oldtokenauth")>>
Token15 == <<RenameField("permission", "new_token_auth", "token_auth"),
             AlterUniqueTogether("permission", {{"token_auth", "object_type"}})>>
Token16 == <<AlterField("permission", "token_auth", Required), AlterField("tokenauth", "token", Unique)>>

\* token-1, token-2, ...: another one for each, and no token has one yet.
GenerateIdentifiers(db) ==
    [db EXCEPT !.rows["tokenauth"] = {[token EXCEPT !.identifier = token.id] : token \in @}]

Token17 == <<AddField("tokenauth", "identifier", Optional),
             RunPython("_generate_unique_identifiers"),
             AlterField("tokenauth", "identifier", Unique), AlterField("tokenauth", "identifier", Unique),
             AlterField("tokenauth", "token", Unique)>>

Token == <<Token01, Token02, Token03, Token04, Token05, Token06, Token07, Token08, Token09,
           Token10, Token11, Token12, Token13, Token14, Token15, Token16, Token17>>

-----------------------------------------------------------------------------
Python(code, db) ==
    CASE code = "move_data_to_record"                  -> MoveData(db)
      [] code = "move_version_to_record"               -> MoveVersion(db)
      [] code = "generate_record_uuids"                -> GenerateUuids(db)
      [] code = "fill_record_index"                    -> FillIndex(db)
      [] code = "move_objecttypes_to_model"            -> MoveTypes(db)
      [] code = "remove_objects_with_empty_object_type" -> RemoveUntyped(db)
      [] code = "forward"                              -> Backfill(db)
      [] code = "switch_to_new_token_model"            -> CopyTokens(db)
      [] code = "_generate_unique_identifiers"         -> GenerateIdentifiers(db)

\* The operations of a migration, in order.
Migrated(db, operations) ==
    FoldLeft(LAMBDA d, op : IF op.do = "run" THEN Python(op.code, d) ELSE Apply(d, op),
             db, operations)

-----------------------------------------------------------------------------
(* The tables that the models describe. *)

TypeModel ==
    Columns({"is_imported", "name", "name_plural", "description", "data_classification",
             "maintainer_organization", "maintainer_department", "contact_person",
             "contact_email", "source", "update_frequency", "provider_organization",
             "documentation_url", "labels", "created_at", "modified_at", "allow_geometry"},
            {}, {"uuid"})
VersionModel ==
    Columns({"object_type", "version", "created_at", "modified_at", "json_schema",
             "strict_format_checker", "status"}, {"published_at"}, {})
ObjectModel == Columns({"object_type", "created_on", "modified_on"}, {}, {"uuid"})
RecordModel ==
    With(Columns({"index", "object", "version", "data", "start_at", "registration_at",
                  "created_on", "modified_on", "_object_type"},
                 {"end_at", "geometry"}, {}),
         "correct", OneToOne)
RecordIndexes ==
    {"idx_objectrecord_data_gin", "idx_objectrecord_type_index", "idx_objectrecord_type_id",
     "idx_type_start_end_object_idx"}
ReferenceModel == Columns({"record", "type", "url"}, {}, {})
TokenModel ==
    Columns(Contact \cup {"application", "administration", "is_superuser"},
            {}, {"identifier", "token"})
PermissionModel ==
    Columns({"token_auth", "object_type", "mode", "use_fields"}, {"fields"}, {})

Models ==
    [columns |-> [objecttype |-> TypeModel, objecttypeversion |-> VersionModel,
                  object |-> ObjectModel, objectrecord |-> RecordModel,
                  reference |-> ReferenceModel, tokenauth |-> TokenModel,
                  permission |-> PermissionModel],
     together |-> [objecttype |-> {}, objecttypeversion |-> {{"object_type", "version"}},
                   object |-> {}, objectrecord |-> {{"object", "index"}},
                   reference |-> {{"record", "url"}}, tokenauth |-> {},
                   permission |-> {{"token_auth", "object_type"}}],
     indexes |-> RecordIndexes \cup {"core_refere_url_a2dbbb_idx"}]
=============================================================================
