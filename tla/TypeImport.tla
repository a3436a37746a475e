----------------------------- MODULE TypeImport -----------------------------
(***************************************************************************)
(* The ways in which object types come into the database: the command       *)
(* import_objecttypes, which reads an Objecttypes API that goes on          *)
(* changing, the export and the import of a file, the import of a JSON      *)
(* schema; and the upgrade to 4.0.0, which check_for_external_objecttypes   *)
(* refuses while a type has not been imported. The previous release goes on *)
(* using the API, before and after the import, until the new one serves.    *)
(*                                                                          *)
(* The fields of a type but its uuid, is_imported and versions are one      *)
(* value, as are the fields of a version but its number and status.         *)
(***************************************************************************)
EXTENDS Naturals, FiniteSets, SequencesExt

CONSTANTS
    Order,          \* uuids as the API lists them, the newest first
    Fields, Schemas,
    MaxVersion, PageSize,
    InitialRemote, InitialTypes,
    MaxChanges,     \* bounds what happens besides the imports
    MaxImports,
    Absent,
    Gone            \* a uuid that the API had and will not have again

ASSUME PageAssumption == PageSize \in Nat \ {0} /\ MaxVersion \in Nat

VARIABLES
    remote,     \* the types of the API
    types,      \* the committed types
    used,       \* <<type, number>> named by records
    job,        \* the command
    file,       \* an export
    half,       \* the type create_from_schema made, without a version yet
    release,    \* "old", "deployed", "checked", "unchecked", "new"
    changes, imports,
    had, came, sure \* history: see Brings

vars == <<remote, types, used, job, file, half, release, changes, imports, had, came, sure>>

Types    == Range(Order)
Numbers  == 1..MaxVersion
Version  == [schema : Schemas, status : {"draft", "published"}]
Versions == [Numbers -> Version \cup {Absent}]
Row      == [fields : Fields, imported : BOOLEAN, versions : Versions]
NoVersions == [n \in Numbers |-> Absent]

\* Absent and Gone are none of the values they stand in for.
ASSUME AbsentAssumption ==
    /\ Absent # Gone /\ Absent \notin Types \cup Version
    /\ {Absent, Gone} \cap (Row \cup [fields : Fields, versions : Versions]) = {}

ASSUME InitialAssumption ==
    /\ InitialRemote \subseteq [Types -> [fields : Fields, versions : Versions] \cup {Absent, Gone}]
    /\ InitialTypes \subseteq [Types -> Row \cup {Absent}]

There(db)  == {t \in Types : db[t] \notin {Absent, Gone}}
Taken(row) == {n \in Numbers : row.versions[n] # Absent}
NewRow(f, imported, versions) == [fields |-> f, imported |-> imported, versions |-> versions]
Draft(s)   == [schema |-> s, status |-> "draft"]

\* generate_version_number: the last number and one.
Follows(n, row) == n \in Numbers /\ n - 1 \in Taken(row) \cup {0} /\ \A m \in Taken(row) : m < n

NoJob == [at |-> "idle", page |-> 1, listed |-> <<>>, twice |-> FALSE, todo |-> {},
          read |-> NoVersions, added |-> [t \in Types |-> NoVersions]]

Init ==
    /\ remote \in InitialRemote
    /\ types \in InitialTypes
    /\ used = {} /\ half = Absent
    /\ job = NoJob
    /\ file = [at |-> "none", rows |-> [t \in Types |-> Absent]]
    /\ release = "old"
    /\ changes = 0 /\ imports = 0
    /\ had = {} /\ came = {t \in There(types) : types[t].imported} /\ sure = {}

\* listed[t]: the fields that a page had of t.
Listed == DOMAIN job.listed

\* Rows the transaction has written: others wait for its end.
Staged == IF job.at \in {"versions", "insert"} THEN Listed ELSE {}

Change == changes < MaxChanges /\ changes' = changes + 1

(***************************************************************************)
(* History. had: the versions that the API has had since the command        *)
(* started, without those that moved to an earlier page when one with a     *)
(* higher number was destroyed. came: the types that an import or a file    *)
(* has brought. sure: the versions that had to come with them, and were not *)
(* destroyed here.                                                          *)
(***************************************************************************)
Lose(lost) == had' = had \ lost /\ UNCHANGED <<came, sure>>
Brings(ts, vs) == came' = came \cup ts /\ sure' = sure \cup vs
Kept == UNCHANGED <<had, came, sure>>

-----------------------------------------------------------------------------
(* The Objecttypes API, whose views are those of this repository, and release *)
(* 3.6.1, which validates with it.                                             *)

RemoteAdd(t) ==
    /\ remote[t] = Absent /\ Change
    /\ \A u \in There(remote) : \E i, j \in DOMAIN Order : i < j /\ Order[i] = t /\ Order[j] = u
    /\ \E f \in Fields :
         remote' = [remote EXCEPT ![t] = [fields |-> f, versions |-> NoVersions]]
    /\ UNCHANGED <<types, used, job, file, half, release, imports>> /\ Kept

RemoteRemove(t) ==
    /\ t \in There(remote) /\ Change
    /\ remote' = [remote EXCEPT ![t] = Gone]
    /\ Lose({t} \X Numbers)
    /\ UNCHANGED <<types, used, job, file, half, release, imports>>

RemoteDescribe(t, f) ==
    /\ t \in There(remote) /\ remote[t].fields # f /\ Change
    /\ remote' = [remote EXCEPT ![t].fields = f]
    /\ UNCHANGED <<types, used, job, file, half, release, imports>> /\ Kept

RemoteVersion(t, n, s) ==
    /\ t \in There(remote) /\ Follows(n, remote[t]) /\ Change
    /\ remote' = [remote EXCEPT ![t].versions[n] = Draft(s)]
    /\ UNCHANGED <<types, used, job, file, half, release, imports>> /\ Kept

RemotePublish(t, n, s) ==
    /\ t \in There(remote) /\ n \in Taken(remote[t])
    /\ remote[t].versions[n].status = "draft" /\ Change
    /\ remote' = [remote EXCEPT ![t].versions[n] = [schema |-> s, status |-> "published"]]
    /\ UNCHANGED <<types, used, job, file, half, release, imports>> /\ Kept

\* perform_destroy of a version: the versions below it move up in the pages.
RemoteDestroy(t, n) ==
    /\ t \in There(remote) /\ n \in Taken(remote[t])
    /\ remote[t].versions[n].status = "draft" /\ Change
    /\ remote' = [remote EXCEPT ![t].versions[n] = Absent]
    /\ Lose({<<t, m>> : m \in 1..n})
    /\ UNCHANGED <<types, used, job, file, half, release, imports>>

\* Containers of the previous release go on until the new one serves.
OldRuns == release # "new"

\* A type is referred to before records of it are saved.
Refer(t) ==
    /\ OldRuns /\ t \in There(remote) /\ types[t] = Absent /\ t \notin Staged
    /\ types' = [types EXCEPT ![t] = NewRow(remote[t].fields, FALSE, NoVersions)]
    /\ UNCHANGED <<remote, used, job, file, half, release, changes, imports>> /\ Kept

OldRecord(t, n) ==
    /\ OldRuns /\ types[t] # Absent /\ t \in There(remote) /\ n \in Taken(remote[t])
    /\ <<t, n>> \notin used /\ Change
    /\ used' = used \cup {<<t, n>>}
    /\ UNCHANGED <<remote, types, job, file, half, release, imports>> /\ Kept

-----------------------------------------------------------------------------
(* import_objecttypes: one transaction, and a request for each page and type. *)

Place(t) == Cardinality({u \in There(remote) :
                           \E i, j \in DOMAIN Order : i <= j /\ Order[i] = u /\ Order[j] = t})
OnPage(k) == ((k - 1) * PageSize + 1)..(k * PageSize)
Page(k) == {t \in There(remote) : Place(t) \in OnPage(k)}

StartImport ==
    /\ job.at = "idle" /\ imports < MaxImports
    /\ job' = [NoJob EXCEPT !.at = "pages"]
    /\ imports' = imports + 1
    /\ had' = {x \in Types \X Numbers : x[1] \in There(remote) /\ x[2] \in Taken(remote[x[1]])}
    /\ UNCHANGED <<remote, types, used, file, half, release, changes, came, sure>>

\* A page beyond the first that is not there any more is answered with 404.
ReadPage ==
    /\ job.at = "pages"
    /\ LET page == Page(job.page)
           read == [t \in Listed \cup page |->
                      IF t \in page THEN remote[t].fields ELSE job.listed[t]]
           gone == job.page > 1 /\ page = {}
           more == Cardinality(There(remote)) > job.page * PageSize
       IN job' = IF gone THEN NoJob
                 ELSE [job EXCEPT !.listed = read, !.twice = @ \/ page \cap Listed # {},
                                  !.page = @ + 1, !.at = IF more THEN @ ELSE "upsert"]
    /\ UNCHANGED <<remote, types, used, file, half, release, changes, imports>> /\ Kept

\* INSERT ... ON CONFLICT (uuid) DO UPDATE fails on a uuid that comes twice.
Upsert ==
    /\ job.at = "upsert"
    /\ job' = IF job.twice THEN NoJob
              ELSE [job EXCEPT !.at = "versions", !.todo = Listed, !.page = 1]
    /\ UNCHANGED <<remote, types, used, file, half, release, changes, imports>> /\ Kept

\* The types are taken in the order in which they were listed.
Current == CHOOSE t \in job.todo :
             \A u \in job.todo : \E i, j \in DOMAIN Order : i <= j /\ Order[i] = t /\ Order[j] = u

\* The newest version is on the first page.
VersionPlace(t, n) == Cardinality({m \in Taken(remote[t]) : m >= n})
VersionPage(t, k) == {n \in Taken(remote[t]) : VersionPlace(t, n) \in OnPage(k)}

\* Of a version that comes twice, the insert keeps the first.
ReadAlso(t, page) ==
    [n \in Numbers |-> IF job.read[n] = Absent /\ n \in page THEN remote[t].versions[n]
                       ELSE job.read[n]]

\* A fault: the first page is taken for all.
ReadFirstPage(t) ==
    /\ job.at = "versions" /\ t \in job.todo /\ t = Current
    /\ job' = IF t \notin There(remote) THEN NoJob
              ELSE [job EXCEPT !.read = ReadAlso(t, VersionPage(t, 1)), !.at = "insert"]
    /\ UNCHANGED <<remote, types, used, file, half, release, changes, imports>> /\ Kept

\* A type that was removed since it was listed is answered with 404.
ReadVersions(t) ==
    /\ job.at = "versions" /\ t \in job.todo /\ t = Current
    /\ LET page == VersionPage(t, job.page)
           gone == t \notin There(remote) \/ (job.page > 1 /\ page = {})
           more == Cardinality(Taken(remote[t])) > job.page * PageSize
       IN job' = IF gone THEN NoJob
                 ELSE [job EXCEPT !.read = ReadAlso(t, page), !.page = @ + 1,
                                  !.at = IF more THEN @ ELSE "insert"]
    /\ UNCHANGED <<remote, types, used, file, half, release, changes, imports>> /\ Kept

\* A fault: the versions are updated, as the types are.
AddedAll(t) == job.read

\* INSERT ... ON CONFLICT DO NOTHING: a version that is there stays as it is.
Added(t) ==
    [n \in Numbers |-> IF types[t] # Absent /\ n \in Taken(types[t]) THEN Absent ELSE job.read[n]]

InsertVersions(t) ==
    /\ job.at = "insert" /\ t \in job.todo /\ t = Current
    /\ job' = [job EXCEPT !.at = "versions", !.page = 1, !.read = NoVersions,
                          !.added[t] = Added(t), !.todo = @ \ {t}]
    /\ UNCHANGED <<remote, types, used, file, half, release, changes, imports>> /\ Kept

Merged(row, added) == [n \in Numbers |-> IF added[n] = Absent THEN row.versions[n] ELSE added[n]]

Imported(t) ==
    LET before == IF types[t] = Absent THEN NoVersions ELSE types[t].versions
    IN [fields |-> job.listed[t], imported |-> TRUE,
        versions |-> Merged([versions |-> before], job.added[t])]

CommitImport ==
    /\ job.at = "versions" /\ job.todo = {}
    /\ types' = [t \in Types |-> IF t \in Listed THEN Imported(t) ELSE types[t]]
    /\ job' = NoJob
    /\ Brings(Listed, {x \in had : x[1] \in Listed})
    /\ UNCHANGED <<remote, used, file, half, release, changes, imports, had>>

\* A fault: without transaction.atomic, the types stay.
FailHalfway ==
    /\ job.at # "idle"
    /\ types' = [t \in Types |-> IF t \in Staged THEN Imported(t) ELSE types[t]]
    /\ job' = NoJob
    /\ UNCHANGED <<remote, used, file, half, release, changes, imports>> /\ Kept

\* RequestException, a lost connection or a killed container.
FailImport ==
    /\ job.at # "idle"
    /\ job' = NoJob
    /\ UNCHANGED <<remote, types, used, file, half, release, changes, imports>> /\ Kept

-----------------------------------------------------------------------------
(* The upgrade. *)

\* The new image is deployed: its container checks first.
Deploy ==
    /\ release = "old"
    /\ release' = "deployed"
    /\ UNCHANGED <<remote, types, used, job, file, half, changes, imports>> /\ Kept

\* check_for_external_objecttypes; when it fails, the operator goes back.
Check ==
    /\ release = "deployed"
    /\ release' = IF \A t \in There(types) : types[t].imported THEN "checked" ELSE "old"
    /\ UNCHANGED <<remote, types, used, job, file, half, changes, imports>> /\ Kept

\* UPGRADE_CHECK_PATHS has no entry for an instance that is on "latest".
SkipCheck ==
    /\ release = "deployed"
    /\ release' = "unchecked"
    /\ UNCHANGED <<remote, types, used, job, file, half, changes, imports>> /\ Kept

Serve ==
    /\ release \in {"checked", "unchecked"}
    /\ release' = "new"
    /\ UNCHANGED <<remote, types, used, job, file, half, changes, imports>> /\ Kept

-----------------------------------------------------------------------------
(* The API and the admin of the new release. *)

Local(t) == release = "new" /\ t \notin Staged /\ Change

PostType(t, f) ==
    /\ Local(t) /\ types[t] = Absent
    /\ types' = [types EXCEPT ![t] = NewRow(f, FALSE, NoVersions)]
    /\ UNCHANGED <<remote, used, job, file, half, release, imports>> /\ Kept

DescribeType(t, f) ==
    /\ Local(t) /\ types[t] # Absent /\ types[t].fields # f
    /\ types' = [types EXCEPT ![t].fields = f]
    /\ UNCHANGED <<remote, used, job, file, half, release, imports>> /\ Kept

\* perform_destroy: a type without versions; PROTECT: and without objects.
DestroyType(t) ==
    /\ Local(t) /\ types[t] # Absent /\ Taken(types[t]) = {}
    /\ \A n \in Numbers : <<t, n>> \notin used
    /\ types' = [types EXCEPT ![t] = Absent]
    /\ UNCHANGED <<remote, used, job, file, half, release, imports>> /\ Kept

\* A fault: the number is not unique.
PostVersionTwice(t, n, s) ==
    /\ release = "new" /\ Change
    /\ types[t] # Absent /\ Follows(n, types[t])
    /\ types' = [types EXCEPT ![t].versions[n] = Draft(s)]
    /\ UNCHANGED <<remote, used, job, file, half, release, imports>> /\ Kept

\* The row of a type that is being imported may be referred to, but a number that
\* is being inserted waits, and is then taken or free again.
PostVersion(t, n, s) ==
    /\ release = "new" /\ Change
    /\ types[t] # Absent /\ Follows(n, types[t])
    /\ job.added[t][n] = Absent
    /\ types' = [types EXCEPT ![t].versions[n] = Draft(s)]
    /\ UNCHANGED <<remote, used, job, file, half, release, imports>> /\ Kept

\* PUT and PATCH, and the change page: a draft gets another schema, or is published.
EditVersion(t, n, v) ==
    /\ release = "new" /\ types[t] # Absent /\ n \in Taken(types[t])
    /\ types[t].versions[n].status = "draft" /\ v # types[t].versions[n] /\ Change
    /\ types' = [types EXCEPT ![t].versions[n] = v]
    /\ UNCHANGED <<remote, used, job, file, half, release, imports>> /\ Kept

\* perform_destroy of a version.
DestroyVersion(t, n) ==
    /\ release = "new" /\ types[t] # Absent /\ n \in Taken(types[t])
    /\ types[t].versions[n].status = "draft" /\ Change
    /\ types' = [types EXCEPT ![t].versions[n] = Absent]
    /\ had' = had \ {<<t, n>>} /\ sure' = sure \ {<<t, n>>} /\ came' = came
    /\ UNCHANGED <<remote, used, job, file, half, release, imports>>

\* What clean_objecttype_url lets through: the URL answered, with a JSON schema.
Fetched == Schemas

\* create_from_schema, in the view without a transaction: the type, then its
\* version, when the type is still there.
UrlType(t, f) ==
    /\ Local(t) /\ half = Absent /\ types[t] = Absent
    /\ types' = [types EXCEPT ![t] = NewRow(f, FALSE, NoVersions)]
    /\ half' = t
    /\ UNCHANGED <<remote, used, job, file, release, imports>> /\ Kept

UrlVersion(s) ==
    /\ half # Absent
    /\ types' = IF types[half] # Absent /\ \E n \in Numbers : Follows(n, types[half]) /\ job.added[half][n] = Absent
                THEN [types EXCEPT ![half].versions =
                        [n \in Numbers |-> IF Follows(n, types[half]) THEN Draft(s) ELSE @[n]]]
                ELSE types
    /\ half' = Absent
    /\ UNCHANGED <<remote, used, job, file, release, changes, imports>> /\ Kept

-----------------------------------------------------------------------------
(* Files. *)

\* export_data reads the types that were selected, and then their versions.
ExportTypes(S) ==
    /\ release = "new" /\ file.at = "none"
    /\ S # {} /\ S \subseteq There(types)
    /\ file' = [at |-> "types",
                rows |-> [t \in Types |-> IF t \in S THEN NewRow(types[t].fields, TRUE, NoVersions)
                                          ELSE Absent]]
    /\ UNCHANGED <<remote, types, used, job, half, release, changes, imports>> /\ Kept

ExportVersions ==
    /\ file.at = "types"
    /\ file' = [at |-> "done",
                rows |-> [t \in Types |->
                            IF file.rows[t] = Absent \/ types[t] = Absent THEN file.rows[t]
                            ELSE [file.rows[t] EXCEPT !.versions = types[t].versions]]]
    /\ UNCHANGED <<remote, types, used, job, half, release, changes, imports>> /\ Kept

\* import_data with keep_uuid: a uuid that is there makes the whole file invalid.
ImportFile ==
    /\ release = "new" /\ file.at = "done"
    /\ There(file.rows) \cap (There(types) \cup Staged) = {}
    /\ types' = [t \in Types |-> IF file.rows[t] # Absent THEN file.rows[t] ELSE types[t]]
    /\ Brings(There(file.rows), {}) /\ had' = had
    /\ UNCHANGED <<remote, used, job, file, half, release, changes, imports>>

\* Without: every type gets a uuid of its own.
ImportCopy ==
    /\ release = "new" /\ file.at = "done" /\ Change
    /\ \E new \in [There(file.rows) -> Types \ (There(types) \cup Staged)] :
         /\ \A t, u \in DOMAIN new : new[t] = new[u] => t = u
         /\ Brings(Range(new), {})
         /\ types' = [t \in Types |->
                        IF t \in Range(new)
                        THEN file.rows[CHOOSE u \in DOMAIN new : new[u] = t] ELSE types[t]]
    /\ had' = had
    /\ UNCHANGED <<remote, used, job, file, half, release, imports>>

-----------------------------------------------------------------------------
Api == \E t \in Types :
    \/ RemoteAdd(t) \/ RemoteRemove(t) \/ Refer(t)
    \/ \E f \in Fields : RemoteDescribe(t, f)
    \/ \E n \in Numbers : OldRecord(t, n) \/ RemoteDestroy(t, n)
    \/ \E n \in Numbers, s \in Schemas : RemoteVersion(t, n, s) \/ RemotePublish(t, n, s)

Command ==
    \/ StartImport \/ ReadPage \/ Upsert \/ CommitImport \/ FailImport
    \/ \E t \in Types : ReadVersions(t) \/ InsertVersions(t)

Upgrade == Deploy \/ Check \/ SkipCheck \/ Serve

Release4 ==
    \/ \E t \in Types, f \in Fields : PostType(t, f) \/ DescribeType(t, f) \/ UrlType(t, f)
    \/ \E t \in Types : DestroyType(t)
    \/ \E t \in Types, n \in Numbers :
         \/ DestroyVersion(t, n) \/ \E s \in Schemas : PostVersion(t, n, s)
         \/ \E v \in Version : EditVersion(t, n, v)
    \/ \E s \in Fetched : UrlVersion(s)
    \/ \E S \in SUBSET Types : ExportTypes(S)
    \/ ExportVersions \/ ImportFile \/ ImportCopy

Next == Api \/ Command \/ Upgrade \/ Release4

Spec == Init /\ [][Next]_vars

-----------------------------------------------------------------------------
\* The values of the variables; a version that the command inserted still has
\* its number for itself when the transaction ends, whatever is posted meanwhile.
TypeOK ==
    /\ remote \in [Types -> [fields : Fields, versions : Versions] \cup {Absent, Gone}]
    /\ types \in [Types -> Row \cup {Absent}]
    /\ used \subseteq Types \X Numbers
    /\ half \in Types \cup {Absent}
    /\ job.at \in {"idle", "pages", "upsert", "versions", "insert"}
    /\ Listed \cup job.todo \subseteq Types
    /\ job.added \in [Types -> Versions]
    /\ file.rows \in [Types -> Row \cup {Absent}]
    /\ release \in {"old", "deployed", "checked", "unchecked", "new"}
    /\ \A t \in There(types) : \A n \in Taken(types[t]) : job.added[t][n] = Absent

\* A type counts as imported only when an import that listed it was committed as a
\* whole, and then every version is there that the API had from the start of that
\* import to its end, whatever else changed in the API and here meanwhile: only a
\* version below one that was destroyed may have been on no page that was read
\* (transaction.atomic, is_imported and the pages of import_objecttypes).
ImportedIsThere ==
    /\ \A t \in There(types) : types[t].imported => t \in came
    /\ \A x \in sure : types[x[1]] # Absent /\ x[2] \in Taken(types[x[1]])

\* No import and no request rewrites a version that is published, and an import
\* rewrites none at all: a draft that was changed here stays as it is
\* (ignore_conflicts of import_objecttypes, the uuid of import_data).
VersionsKept ==
    [][\A t \in There(types) : \A n \in Taken(types[t]) :
         types[t].versions[n].status = "published" \/ job' # job
         => types'[t] # Absent /\ types'[t].versions[n] = types[t].versions[n]]_vars

=============================================================================
