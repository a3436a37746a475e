-------------------------- MODULE TypeImportProofs --------------------------
(***************************************************************************)
(* Proofs about TypeImport: whatever happens to the API, to the command,   *)
(* in the previous release and in the new one, and however often, a type   *)
(* that counts as imported has the versions that the API had all along,    *)
(* and no version that is published is rewritten.                          *)
(***************************************************************************)
EXTENDS TypeImport, FiniteSetTheorems, TLAPS

RemoteRow == [fields : Fields, versions : Versions]
Stages    == {"idle", "pages", "upsert", "versions", "insert"}
Inserting == {"versions", "insert"}
Releases  == {"old", "deployed", "checked", "unchecked", "new"}
JobFields == {"at", "page", "listed", "twice", "todo", "read", "added"}
Pairs     == Types \X Numbers

\* What the command has read is of types that there may be, and what it has added is of
\* the types whose versions it has read in this transaction.
JobOK ==
  /\ DOMAIN job = JobFields
  /\ job.at \in Stages /\ job.page \in Nat \ {0}
  /\ Listed \subseteq Types /\ \A t \in Listed : job.listed[t] \in Fields
  /\ job.todo \subseteq Listed
  /\ job.read \in Versions
  /\ job.added \in [Types -> Versions]
  /\ \A t \in Types, n \in Numbers :
       job.added[t][n] # Absent => job.at \in Inserting /\ t \in Listed \ job.todo

TablesOK ==
  /\ remote \in [Types -> RemoteRow \cup {Absent, Gone}]
  /\ types \in [Types -> Row \cup {Absent}]
  /\ used \subseteq Pairs
  /\ half \in Types \cup {Absent}
  /\ file \in [at : {"none", "types", "done"}, rows : [Types -> Row \cup {Absent}]]
  /\ release \in Releases
  /\ had \subseteq Pairs /\ came \subseteq Types /\ sure \subseteq Pairs

\* A version that the command has inserted is in no committed row.
AddedFree ==
  \A t \in Types : types[t] # Absent => \A n \in Taken(types[t]) : job.added[t][n] = Absent

TypeInv == TablesOK /\ JobOK /\ AddedFree

Has(row, n) == row # Absent /\ n \in Taken(row)

\* What the API has had since the command started it still has, ...
HadRemote == \A x \in had : x[1] \in There(remote) /\ x[2] \in Taken(remote[x[1]])
\* ... and of a type that was taken it is here or was added; of the type whose pages are
\* being read it has been read, or is on a page that comes.
HadRead ==
  \A t \in Types, n \in Numbers : <<t, n>> \in had =>
    /\ job.at \in Inserting /\ t \in Listed \ job.todo =>
         Has(types[t], n) \/ job.added[t][n] # Absent
    /\ job.at \in Inserting /\ t \in job.todo /\ t = Current =>
         \/ job.read[n] # Absent
         \/ job.at = "versions" /\ VersionPlace(t, n) > (job.page - 1) * PageSize
SureHere ==
  /\ \A t \in Types : types[t] # Absent /\ types[t].imported => t \in came
  /\ \A t \in Types, n \in Numbers : <<t, n>> \in sure => Has(types[t], n)

ImportInv == TypeInv /\ HadRemote /\ HadRead /\ SureHere

\* What a step writes of a version that is published, or that an import finds: nothing.
Unwritten ==
  \A t \in There(types) : \A n \in Taken(types[t]) :
    types[t].versions[n].status = "published" \/ job' # job
    => types'[t] # Absent /\ types'[t].versions[n] = types[t].versions[n]

-----------------------------------------------------------------------------
(* The values there are. *)

LEMMA Values ==
  /\ Absent # Gone /\ Absent \notin Types /\ Absent \notin Version
  /\ Absent \notin Row /\ Gone \notin Row /\ Absent \notin RemoteRow /\ Gone \notin RemoteRow
BY AbsentAssumption DEF RemoteRow

LEMMA NoVersionsFit == NoVersions \in Versions /\ \A n \in Numbers : NoVersions[n] = Absent
BY DEF NoVersions, Versions

LEMMA RowFields ==
  ASSUME NEW row \in Row
  PROVE  /\ row.fields \in Fields /\ row.imported \in BOOLEAN /\ row.versions \in Versions
         /\ row # Absent /\ row # Gone
         /\ Taken(row) = {n \in Numbers : row.versions[n] # Absent}
BY Values DEF Row, Taken

LEMMA NewRowFits ==
  ASSUME NEW f \in Fields, NEW imported \in BOOLEAN, NEW versions \in Versions
  PROVE  /\ NewRow(f, imported, versions) \in Row
         /\ NewRow(f, imported, versions).versions = versions
         /\ NewRow(f, imported, versions).imported = imported
BY DEF NewRow, Row

LEMMA ThereRows ==
  ASSUME TablesOK
  PROVE  /\ There(types) = {t \in Types : types[t] # Absent}
         /\ \A t \in Types : types[t] # Absent => types[t] \in Row
         /\ \A t \in There(remote) : remote[t] \in RemoteRow
BY Values DEF TablesOK, There

-----------------------------------------------------------------------------
(* Steps that change rows of types one by one. *)

\* The row keeps its versions, the published ones as they were, but for some that history
\* does not ask for; it gets none that the command has inserted.
Grows(t, row, new) ==
  /\ row # Absent /\ new \in Row /\ new.imported = row.imported
  /\ \A n \in Taken(row) :
       /\ n \in Taken(new) \/ <<t, n>> \notin had' \cup sure'
       /\ row.versions[n].status = "published" => new.versions[n] = row.versions[n]
  /\ \A n \in Taken(new) \ Taken(row) : job.added[t][n] = Absent

\* The type is left alone, changed, added, or removed with no versions.
Moves(t) ==
  \/ types'[t] = types[t]
  \/ Grows(t, types[t], types'[t])
  \/ /\ types[t] = Absent /\ t \notin Staged /\ types'[t] \in Row
     /\ types'[t].imported => t \in came'
  \/ types[t] # Absent /\ types'[t] = Absent /\ Taken(types[t]) = {}

LEMMA MovesInv ==
  ASSUME ImportInv, UNCHANGED <<remote, used, job, release>>,
         DOMAIN types' = Types, types' = [t \in Types |-> types'[t]], \A t \in Types : Moves(t),
         half' \in Types \cup {Absent},
         file' \in [at : {"none", "types", "done"}, rows : [Types -> Row \cup {Absent}]],
         had' \subseteq had, sure' \subseteq sure, came \subseteq came', came' \subseteq Types
  PROVE  ImportInv' /\ Unwritten
<1>1. TablesOK /\ JobOK /\ AddedFree /\ HadRemote /\ HadRead /\ SureHere
  BY DEF ImportInv, TypeInv
<1>2. \A t \in Types : types[t] # Absent => types[t] \in Row
  BY <1>1, ThereRows
<1>3. \A t \in Types : types'[t] \in Row \cup {Absent}
  BY <1>1, <1>2 DEF Moves, Grows, TablesOK
<1>4. types' \in [Types -> Row \cup {Absent}]
  BY <1>3
<1>5. TablesOK'
  BY <1>1, <1>4 DEF TablesOK
<1>6. JobOK'
  BY <1>1 DEF JobOK, Listed
<1>7. AddedFree'
  <2> SUFFICES ASSUME NEW t \in Types, types'[t] # Absent, NEW n \in Taken(types'[t])
               PROVE  job.added[t][n] = Absent
    BY DEF AddedFree
  <2>1. n \in Numbers
    BY DEF Taken
  <2>2. CASE types'[t] = types[t]
    BY <1>1, <2>2 DEF AddedFree
  <2>3. CASE Grows(t, types[t], types'[t])
    BY <1>1, <2>3 DEF AddedFree, Grows
  <2>4. CASE types[t] = Absent /\ t \notin Staged
    BY <1>1, <2>1, <2>4 DEF JobOK, Staged, Inserting
  <2> QED BY <2>2, <2>3, <2>4 DEF Moves
<1>8. Unwritten
  <2> SUFFICES ASSUME NEW t \in There(types), NEW n \in Taken(types[t]),
                      types[t].versions[n].status = "published"
               PROVE  types'[t] # Absent /\ types'[t].versions[n] = types[t].versions[n]
    BY DEF Unwritten
  <2>1. t \in Types /\ types[t] # Absent
    BY DEF There
  <2>2. CASE Grows(t, types[t], types'[t])
    BY <2>1, <2>2, Values DEF Grows
  <2> QED BY <2>1, <2>2 DEF Moves
<1>9. ASSUME NEW t \in Types, NEW n \in Numbers, Has(types[t], n), <<t, n>> \in had' \cup sure'
      PROVE  Has(types'[t], n)
  <2>1. CASE Grows(t, types[t], types'[t])
    BY <1>9, <2>1, Values DEF Grows, Has
  <2> QED BY <1>9, <2>1 DEF Moves, Has
<1>10. HadRemote'
  BY <1>1 DEF HadRemote, There, Taken
<1>11. HadRead'
  <2>1. Current' = Current /\ \A t \in Types, n \in Numbers : VersionPlace(t, n)' = VersionPlace(t, n)
    BY DEF Current, VersionPlace, Taken
  <2> SUFFICES ASSUME NEW t \in Types, NEW n \in Numbers, <<t, n>> \in had'
               PROVE  /\ job.at \in Inserting /\ t \in Listed \ job.todo =>
                           Has(types'[t], n) \/ job.added[t][n] # Absent
                      /\ job.at \in Inserting /\ t \in job.todo /\ t = Current =>
                           \/ job.read[n] # Absent
                           \/ job.at = "versions" /\ VersionPlace(t, n) > (job.page - 1) * PageSize
    BY <2>1 DEF HadRead, Listed, Has, Taken
  <2>2. <<t, n>> \in had
    OBVIOUS
  <2> QED BY <1>1, <1>9, <2>2 DEF HadRead
<1>12. SureHere'
  <2>1. ASSUME NEW t \in Types, types'[t] # Absent, types'[t].imported
        PROVE  t \in came'
    <3>1. types[t] # Absent /\ types[t].imported => t \in came
      BY <1>1 DEF SureHere
    <3> QED BY <2>1, <3>1 DEF Moves, Grows
  <2>2. ASSUME NEW t \in Types, NEW n \in Numbers, <<t, n>> \in sure'
        PROVE  Has(types'[t], n)
    <3>1. Has(types[t], n)
      BY <1>1, <2>2 DEF SureHere
    <3> QED BY <1>9, <2>2, <3>1
  <2> QED BY <2>1, <2>2 DEF SureHere, Has, Taken
<1> QED BY <1>5, <1>6, <1>7, <1>8, <1>10, <1>11, <1>12 DEF ImportInv, TypeInv

-----------------------------------------------------------------------------
(* Steps of the API, and of the command until it commits. *)

LEMMA InitInv ==
  ASSUME Init
  PROVE  ImportInv
<1> USE DEF Init
<1>1. NoVersions \in Versions /\ \A n \in Numbers : NoVersions[n] = Absent
  BY NoVersionsFit
<1>2. TablesOK
  BY InitialAssumption DEF TablesOK, RemoteRow, Releases, There
<1>3. /\ job.at = "idle" /\ job.todo = {} /\ DOMAIN job = JobFields /\ job.listed = << >>
      /\ job.page = 1 /\ job.read = NoVersions /\ job.added = [t \in Types |-> NoVersions]
  BY DEF NoJob, JobFields
<1>4. Listed = {}
  BY <1>3 DEF Listed
<1>5. JobOK
  BY <1>1, <1>3, <1>4 DEF JobOK, Stages
<1>6. AddedFree
  BY <1>1, <1>3 DEF AddedFree, Taken
<1>7. HadRemote /\ HadRead
  BY DEF HadRemote, HadRead
<1>8. SureHere
  BY <1>2, ThereRows DEF SureHere
<1> QED BY <1>2, <1>5, <1>6, <1>7, <1>8 DEF ImportInv, TypeInv

LEMMA SameTypes ==
  ASSUME TablesOK, types' = types
  PROVE  Unwritten
BY DEF Unwritten, There

LEMMA NumbersNat == Numbers \subseteq Nat /\ \A n \in Numbers : n >= n /\ n >= 1
BY PageAssumption DEF Numbers

\* The versions that come no later than n.
Above(row, n) == {m \in Taken(row) : m >= n}

LEMMA AboveFinite ==
  ASSUME NEW row, NEW n
  PROVE  /\ IsFiniteSet(Above(row, n)) /\ Cardinality(Above(row, n)) \in Nat
         /\ IsFiniteSet(Taken(row)) /\ Cardinality(Taken(row)) \in Nat
         /\ Cardinality(Above(row, n)) <= Cardinality(Taken(row))
<1>1. IsFiniteSet(Numbers)
  BY PageAssumption, FS_Interval DEF Numbers
<1>2. Taken(row) \in SUBSET Numbers /\ Above(row, n) \in SUBSET Taken(row)
  BY DEF Taken, Above
<1>3. IsFiniteSet(Taken(row))
  BY <1>1, <1>2, FS_Subset
<1>4. IsFiniteSet(Above(row, n)) /\ Cardinality(Above(row, n)) <= Cardinality(Taken(row))
  BY <1>2, <1>3, FS_Subset
<1> QED BY <1>3, <1>4, FS_CardinalityType

LEMMA PagesNat ==
  ASSUME NEW p \in Nat \ {0}
  PROVE  /\ (p - 1) * PageSize \in Nat /\ p * PageSize \in Nat
         /\ (p - 1) * PageSize + 1 \in Nat /\ (p + 1 - 1) * PageSize = p * PageSize
<1>1. \A a, b \in Nat : a * b \in Nat
  OBVIOUS
<1>2. PageSize \in Nat /\ p - 1 \in Nat /\ p + 1 - 1 = p
  BY PageAssumption
<1> QED BY <1>1, <1>2

\* What the API has had it keeps, and no version moves to an earlier page.
LEMMA RemoteInv ==
  ASSUME ImportInv, UNCHANGED <<types, used, job, file, half, release, came, sure>>,
         remote' \in [Types -> RemoteRow \cup {Absent, Gone}], had' \subseteq had,
         \A t \in Types, n \in Numbers : <<t, n>> \in had' =>
            remote'[t] \in RemoteRow /\ Above(remote[t], n) \subseteq Above(remote'[t], n)
  PROVE  ImportInv' /\ Unwritten
<1>1. TablesOK /\ JobOK /\ AddedFree /\ HadRemote /\ HadRead /\ SureHere
  BY DEF ImportInv, TypeInv
<1>2. TablesOK'
  BY <1>1 DEF TablesOK
<1>3. JobOK' /\ AddedFree' /\ SureHere'
  BY <1>1 DEF JobOK, AddedFree, Listed, SureHere, Has, Taken
<1>4. ASSUME NEW t \in Types, NEW n \in Numbers, <<t, n>> \in had'
      PROVE  /\ t \in There(remote)' /\ n \in Taken(remote'[t])
             /\ VersionPlace(t, n) \in Nat /\ VersionPlace(t, n)' \in Nat
             /\ VersionPlace(t, n) <= VersionPlace(t, n)'
  <2>1. t \in There(remote) /\ n \in Taken(remote[t])
    BY <1>1, <1>4 DEF HadRemote
  <2>2. n \in Above(remote[t], n)
    BY <2>1, NumbersNat DEF Above
  <2>3. /\ IsFiniteSet(Above(remote[t], n)) /\ IsFiniteSet(Above(remote'[t], n))
        /\ Cardinality(Above(remote[t], n)) \in Nat /\ Cardinality(Above(remote'[t], n)) \in Nat
    BY AboveFinite
  <2>4. Cardinality(Above(remote[t], n)) <= Cardinality(Above(remote'[t], n))
    BY <1>4, <2>3, FS_Subset
  <2>5. VersionPlace(t, n) = Cardinality(Above(remote[t], n))
        /\ VersionPlace(t, n)' = Cardinality(Above(remote'[t], n))
    BY DEF VersionPlace, Above, Taken
  <2>6. remote'[t] \notin {Absent, Gone}
    BY <1>4, Values
  <2> QED BY <1>4, <2>2, <2>3, <2>4, <2>5, <2>6 DEF Above, There
<1>5. HadRemote'
  <2> SUFFICES ASSUME NEW x \in had'
               PROVE  x[1] \in There(remote)' /\ x[2] \in Taken(remote'[x[1]])
    BY DEF HadRemote, Taken
  <2>1. x[1] \in Types /\ x[2] \in Numbers /\ x = <<x[1], x[2]>>
    BY <1>1 DEF TablesOK, Pairs
  <2> QED BY <1>4, <2>1
<1>6. HadRead'
  <2>1. Current' = Current /\ Listed' = Listed
    BY DEF Current, Listed
  <2> SUFFICES ASSUME NEW t \in Types, NEW n \in Numbers, <<t, n>> \in had'
               PROVE  /\ job.at \in Inserting /\ t \in Listed \ job.todo =>
                           Has(types[t], n) \/ job.added[t][n] # Absent
                      /\ job.at \in Inserting /\ t \in job.todo /\ t = Current =>
                           \/ job.read[n] # Absent
                           \/ job.at = "versions" /\ VersionPlace(t, n)' > (job.page - 1) * PageSize
    BY <2>1 DEF HadRead, Has, Taken
  <2>2. <<t, n>> \in had
    OBVIOUS
  <2>3. (job.page - 1) * PageSize \in Nat
    BY <1>1, PagesNat DEF JobOK
  <2> QED BY <1>1, <1>4, <2>2, <2>3 DEF HadRead
<1>7. Unwritten
  BY <1>1, SameTypes
<1> QED BY <1>2, <1>3, <1>5, <1>6, <1>7 DEF ImportInv, TypeInv

LEMMA FollowsFree ==
  ASSUME NEW row, NEW n, Follows(n, row)
  PROVE  /\ n \in Numbers /\ n \notin Taken(row)
         /\ \A m \in Numbers : Follows(m, row) => m = n
<1>1. n \in Numbers /\ Taken(row) \subseteq Numbers /\ Numbers \subseteq Nat
  BY PageAssumption DEF Follows, Taken, Numbers
<1>2. n \notin Taken(row)
  BY <1>1 DEF Follows
<1>3. ASSUME NEW m \in Numbers, Follows(m, row)
      PROVE  m = n
  <2>1. n - 1 \in Taken(row) => n - 1 < m
    BY <1>3 DEF Follows
  <2>2. m - 1 \in Taken(row) => m - 1 < n
    BY DEF Follows
  <2>3. n - 1 \in Taken(row) \/ n = 1
    BY <1>1 DEF Follows
  <2>4. m - 1 \in Taken(row) \/ m = 1
    BY <1>1, <1>3 DEF Follows
  <2>5. n >= 1 /\ m >= 1 /\ n \in Nat /\ m \in Nat
    BY <1>1, PageAssumption DEF Numbers
  <2> QED BY <2>1, <2>2, <2>3, <2>4, <2>5
<1> QED BY <1>1, <1>2, <1>3

\* A row whose version n is set has the versions it had, and n.
LEMMA SetVersion ==
  ASSUME NEW old \in Versions, NEW n \in Numbers, NEW v \in Version
  PROVE  LET new == [old EXCEPT ![n] = v]
         IN  /\ new \in Versions /\ new[n] = v /\ v # Absent
             /\ \A m \in Numbers : m # n => new[m] = old[m]
BY Values DEF Versions

\* The row of one type is written, and had keeps what the row keeps.
LEMMA RemoteRowInv ==
  ASSUME ImportInv, UNCHANGED <<types, used, job, file, half, release, came, sure>>,
         NEW t \in Types, NEW row \in RemoteRow \cup {Gone}, remote' = [remote EXCEPT ![t] = row],
         had' \subseteq had,
         \A n \in Numbers : <<t, n>> \in had' => row # Gone /\ Above(remote[t], n) \subseteq Above(row, n)
  PROVE  ImportInv' /\ Unwritten
<1>1. remote \in [Types -> RemoteRow \cup {Absent, Gone}] /\ TablesOK /\ HadRemote
  BY DEF ImportInv, TypeInv, TablesOK
<1>2. remote' \in [Types -> RemoteRow \cup {Absent, Gone}]
  BY <1>1
<1>3. remote'[t] = row /\ \A u \in Types \ {t} : remote'[u] = remote[u]
  BY <1>1
<1>4. ASSUME NEW u \in Types, NEW n \in Numbers, <<u, n>> \in had'
      PROVE  remote'[u] \in RemoteRow /\ Above(remote[u], n) \subseteq Above(remote'[u], n)
  <2>1. u \in There(remote)
    BY <1>1, <1>4 DEF HadRemote
  <2>2. remote[u] \in RemoteRow
    BY <1>1, <2>1, ThereRows
  <2>3. CASE u = t
    BY <1>3, <1>4, <2>3
  <2>4. CASE u # t
    BY <1>3, <2>2, <2>4
  <2> QED BY <2>3, <2>4
<1> QED BY <1>2, <1>4, RemoteInv

LEMMA RemoteSteps ==
  ASSUME ImportInv, NEW t \in Types,
         \/ RemoteAdd(t) \/ RemoteRemove(t) \/ \E f \in Fields : RemoteDescribe(t, f)
         \/ \E n \in Numbers, s \in Schemas : RemoteVersion(t, n, s) \/ RemotePublish(t, n, s)
         \/ \E n \in Numbers : RemoteDestroy(t, n)
  PROVE  ImportInv' /\ Unwritten
<1>1. TablesOK /\ HadRemote
  BY DEF ImportInv, TypeInv
<1>2. remote \in [Types -> RemoteRow \cup {Absent, Gone}]
  BY <1>1 DEF TablesOK
<1>3. t \in There(remote) => remote[t] \in RemoteRow
  BY <1>1, ThereRows
<1>4. CASE RemoteAdd(t)
  <2>1. PICK f \in Fields : remote' = [remote EXCEPT ![t] = [fields |-> f, versions |-> NoVersions]]
    BY <1>4 DEF RemoteAdd
  <2>2. [fields |-> f, versions |-> NoVersions] \in RemoteRow
    BY NoVersionsFit DEF RemoteRow
  <2>3. remote[t] = Absent /\ UNCHANGED <<types, used, job, file, half, release, had, came, sure>>
    BY <1>4 DEF RemoteAdd, Kept
  <2>4. \A n \in Numbers : <<t, n>> \notin had
    BY <1>1, <2>3 DEF HadRemote, There
  <2> QED BY <2>1, <2>2, <2>3, <2>4, RemoteRowInv
<1>5. CASE RemoteRemove(t)
  <2>1. /\ remote' = [remote EXCEPT ![t] = Gone] /\ had' = had \ ({t} \X Numbers)
        /\ UNCHANGED <<types, used, job, file, half, release, came, sure>>
    BY <1>5 DEF RemoteRemove, Lose
  <2> QED BY <2>1, RemoteRowInv
<1>6. ASSUME NEW f \in Fields, RemoteDescribe(t, f)
      PROVE  ImportInv' /\ Unwritten
  <2>1. remote[t] \in RemoteRow /\ t \in There(remote)
    BY <1>3, <1>6 DEF RemoteDescribe
  <2> DEFINE row == [remote[t] EXCEPT !.fields = f]
  <2>2. row \in RemoteRow /\ row.versions = remote[t].versions
    BY <2>1 DEF RemoteRow
  <2>3. remote' = [remote EXCEPT ![t] = row]
    BY <1>6 DEF RemoteDescribe
  <2>4. \A n \in Numbers : Above(row, n) = Above(remote[t], n)
    BY <2>2 DEF Taken, Above
  <2>5. UNCHANGED <<types, used, job, file, half, release, had, came, sure>>
    BY <1>6 DEF RemoteDescribe, Kept
  <2>6. row # Gone
    BY <2>2, Values
  <2> HIDE DEF row
  <2>7. row \in RemoteRow \cup {Gone}
    BY <2>2
  <2>8. \A n \in Numbers : <<t, n>> \in had' => row # Gone /\ Above(remote[t], n) \subseteq Above(row, n)
    BY <2>4, <2>6
  <2>9. had' \subseteq had
    BY <2>5
  <2> QED BY <2>3, <2>5, <2>7, <2>8, <2>9, RemoteRowInv
<1>7. ASSUME NEW n \in Numbers, NEW v \in Version \cup {Absent}, t \in There(remote),
             remote' = [remote EXCEPT ![t].versions[n] = v], had' \subseteq had,
             v = Absent => had' \cap {<<t, m>> : m \in 1..n} = {},
             UNCHANGED <<types, used, job, file, half, release, came, sure>>
      PROVE  ImportInv' /\ Unwritten
  <2>1. remote[t] \in RemoteRow
    BY <1>3, <1>7
  <2>2. remote[t].versions \in Versions
    BY <2>1 DEF RemoteRow
  <2> DEFINE new == [remote[t].versions EXCEPT ![n] = v]
             row == [remote[t] EXCEPT !.versions = new]
  <2>3. remote' = [remote EXCEPT ![t] = row]
    BY <1>7, Zenon
  <2>4. /\ new \in Versions /\ new[n] = v
        /\ \A m \in Numbers : m # n => new[m] = remote[t].versions[m]
    BY <1>7, <2>2 DEF Versions
  <2> HIDE DEF new
  <2>5. row \in RemoteRow /\ row.versions = new /\ row # Gone
    BY <2>1, <2>4, Values DEF RemoteRow
  <2> HIDE DEF row
  <2>6. ASSUME NEW m \in Numbers, <<t, m>> \in had'
        PROVE  Above(remote[t], m) \subseteq Above(row, m)
    <3>1. v = Absent => m > n
      <4> SUFFICES ASSUME v = Absent, m <= n
                   PROVE  FALSE
        BY NumbersNat
      <4>1. m \in 1..n
        BY NumbersNat
      <4> QED BY <1>7, <2>6, <4>1
    <3> SUFFICES ASSUME NEW k \in Taken(remote[t]), k >= m
                 PROVE  k \in Taken(row)
      BY DEF Above
    <3>2. k \in Numbers /\ remote[t].versions[k] # Absent
      BY DEF Taken
    <3>3. v = Absent => k # n
      BY <3>1, <3>2, NumbersNat
    <3>4. new[k] # Absent
      BY <1>7, <2>4, <3>2, <3>3, Values
    <3> QED BY <2>5, <3>2, <3>4 DEF Taken
  <2> QED BY <1>7, <2>3, <2>5, <2>6, RemoteRowInv
<1>8. ASSUME NEW n \in Numbers, NEW s \in Schemas, RemoteVersion(t, n, s) \/ RemotePublish(t, n, s)
      PROVE  ImportInv' /\ Unwritten
  <2>1. Draft(s) \in Version /\ [schema |-> s, status |-> "published"] \in Version
    BY DEF Draft, Version
  <2>2. /\ t \in There(remote) /\ had' = had
        /\ UNCHANGED <<types, used, job, file, half, release, came, sure>>
    BY <1>8 DEF RemoteVersion, RemotePublish, Kept
  <2>3. Draft(s) # Absent /\ [schema |-> s, status |-> "published"] # Absent
    BY <2>1, Values
  <2>4. \/ remote' = [remote EXCEPT ![t].versions[n] = Draft(s)]
        \/ remote' = [remote EXCEPT ![t].versions[n] = [schema |-> s, status |-> "published"]]
    BY <1>8, Zenon DEF RemoteVersion, RemotePublish
  <2>5. CASE remote' = [remote EXCEPT ![t].versions[n] = Draft(s)]
    BY <1>7, <2>1, <2>2, <2>3, <2>5, Zenon
  <2>6. CASE remote' = [remote EXCEPT ![t].versions[n] = [schema |-> s, status |-> "published"]]
    BY <1>7, <2>1, <2>2, <2>3, <2>6, Zenon
  <2> QED BY <2>4, <2>5, <2>6
<1>9. ASSUME NEW n \in Numbers, RemoteDestroy(t, n)
      PROVE  ImportInv' /\ Unwritten
  <2>1. /\ t \in There(remote) /\ remote' = [remote EXCEPT ![t].versions[n] = Absent]
        /\ UNCHANGED <<types, used, job, file, half, release, came, sure>>
        /\ had' = had \ {<<t, m>> : m \in 1..n}
    BY <1>9, Zenon DEF RemoteDestroy, Lose
  <2>2. had' \subseteq had /\ had' \cap {<<t, m>> : m \in 1..n} = {}
    BY <2>1
  <2> QED BY <1>7, <2>1, <2>2
<1> QED BY <1>4, <1>5, <1>6, <1>8, <1>9

\* A step that leaves the tables of the types, the API and the command alone.
LEMMA SameInv ==
  ASSUME ImportInv, UNCHANGED <<remote, types, job, had, came, sure>>, TablesOK'
  PROVE  ImportInv' /\ Unwritten
<1>1. TablesOK /\ JobOK /\ AddedFree /\ HadRemote /\ HadRead /\ SureHere
  BY DEF ImportInv, TypeInv
<1>2. JobOK' /\ AddedFree' /\ HadRemote' /\ SureHere'
  BY <1>1 DEF JobOK, AddedFree, Listed, Taken, There, HadRemote, SureHere, Has
<1>3. HadRead'
  <2>1. Current' = Current /\ Listed' = Listed
    BY DEF Current, Listed
  <2>2. \A t \in Types, n \in Numbers : VersionPlace(t, n)' = VersionPlace(t, n)
    BY DEF VersionPlace, Taken
  <2> QED BY <1>1, <2>1, <2>2 DEF HadRead, Has, Taken
<1>4. Unwritten
  BY <1>1, SameTypes
<1> QED BY <1>2, <1>3, <1>4 DEF ImportInv, TypeInv

\* A type is referred to, or a record names one of its versions.
LEMMA ReferSteps ==
  ASSUME ImportInv, NEW t \in Types, Refer(t) \/ \E n \in Numbers : OldRecord(t, n)
  PROVE  ImportInv' /\ Unwritten
<1>1. TablesOK /\ JobOK /\ AddedFree /\ HadRemote /\ HadRead /\ SureHere
  BY DEF ImportInv, TypeInv
<1>2. CASE Refer(t)
  <2> DEFINE row == NewRow(remote[t].fields, FALSE, NoVersions)
  <2>1. remote[t] \in RemoteRow
    BY <1>1, <1>2, ThereRows DEF Refer
  <2>2. row \in Row /\ row.imported = FALSE
    BY <2>1, NoVersionsFit, NewRowFits DEF RemoteRow
  <2>3. types' = [types EXCEPT ![t] = row] /\ types[t] = Absent /\ t \notin Staged
    BY <1>2 DEF Refer
  <2> HIDE DEF row
  <2>4. \A u \in Types : Moves(u)
    BY <1>1, <2>2, <2>3 DEF Moves, TablesOK
  <2>5. DOMAIN types' = Types /\ types' = [u \in Types |-> types'[u]]
    BY <1>1, <2>3 DEF TablesOK
  <2>6. UNCHANGED <<remote, used, job, release, half, file, had, came, sure>>
    BY <1>2 DEF Refer, Kept
  <2> QED BY <1>1, <2>4, <2>5, <2>6, MovesInv DEF TablesOK
<1>3. ASSUME NEW n \in Numbers, OldRecord(t, n)
      PROVE  ImportInv' /\ Unwritten
  <2>1. /\ UNCHANGED <<remote, types, job, file, half, release, had, came, sure>>
        /\ used' = used \cup {<<t, n>>}
    BY <1>3 DEF OldRecord, Kept
  <2>2. TablesOK'
    BY <1>1, <2>1 DEF TablesOK, Pairs
  <2> QED BY <2>1, <2>2, SameInv
<1> QED BY <1>2, <1>3

\* The command starts again, or gives up: what it has read is forgotten.
LEMMA JobEnds ==
  ASSUME job' = NoJob \/ job' = [NoJob EXCEPT !.at = "pages"]
  PROVE  JobOK' /\ AddedFree' /\ HadRead'
<1>1. /\ job'.at \in Stages \ Inserting /\ job'.todo = {} /\ DOMAIN job' = JobFields
      /\ job'.listed = << >> /\ job'.page = 1 /\ job'.read = NoVersions
      /\ job'.added = [t \in Types |-> NoVersions]
  BY DEF NoJob, JobFields, Stages, Inserting
<1>2. Listed' = {}
  BY <1>1 DEF Listed
<1>3. \A t \in Types, n \in Numbers : job'.added[t][n] = Absent
  BY <1>1, NoVersionsFit
<1>4. job'.added \in [Types -> Versions] /\ job'.read \in Versions
  BY <1>1, NoVersionsFit
<1>5. JobOK'
  BY <1>1, <1>2, <1>3, <1>4 DEF JobOK
<1>6. AddedFree'
  BY <1>3 DEF AddedFree, Taken
<1>7. HadRead'
  BY <1>1 DEF HadRead
<1> QED BY <1>5, <1>6, <1>7

\* A step of the command that writes nothing for others to see.
LEMMA JobSteps ==
  ASSUME ImportInv, UNCHANGED <<remote, types, used, file, half, release, had, came, sure>>,
         JobOK', AddedFree', HadRead'
  PROVE  ImportInv' /\ Unwritten
<1>1. TablesOK /\ HadRemote /\ SureHere
  BY DEF ImportInv, TypeInv
<1>2. TablesOK'
  BY <1>1 DEF TablesOK
<1>3. HadRemote' /\ SureHere'
  BY <1>1 DEF HadRemote, SureHere, There, Taken, Has
<1> QED BY <1>1, <1>2, <1>3, SameTypes DEF ImportInv, TypeInv

LEMMA StartInv ==
  ASSUME ImportInv, StartImport
  PROVE  ImportInv' /\ Unwritten
<1>1. TablesOK /\ SureHere
  BY DEF ImportInv, TypeInv
<1>2. /\ UNCHANGED <<remote, types, used, file, half, release, came, sure>>
      /\ job' = [NoJob EXCEPT !.at = "pages"]
      /\ had' = {x \in Types \X Numbers : x[1] \in There(remote) /\ x[2] \in Taken(remote[x[1]])}
  BY DEF StartImport
<1>3. JobOK' /\ AddedFree' /\ HadRead'
  BY <1>2, JobEnds
<1>4. had' \subseteq Pairs
  BY <1>2 DEF Pairs
<1>5. TablesOK'
  BY <1>1, <1>2, <1>4 DEF TablesOK
<1>6. ASSUME NEW x \in had'
      PROVE  x[1] \in There(remote) /\ x[2] \in Taken(remote[x[1]])
  BY <1>2, <1>6
<1>7. HadRemote' /\ SureHere'
  BY <1>1, <1>2, <1>6 DEF HadRemote, SureHere, There, Taken, Has
<1> QED BY <1>1, <1>2, <1>3, <1>5, <1>7, SameTypes DEF ImportInv, TypeInv

LEMMA FailInv ==
  ASSUME ImportInv, FailImport
  PROVE  ImportInv' /\ Unwritten
<1>1. job' = NoJob /\ UNCHANGED <<remote, types, used, file, half, release, had, came, sure>>
  BY DEF FailImport, Kept
<1>2. JobOK' /\ AddedFree' /\ HadRead'
  BY <1>1, JobEnds
<1> QED BY <1>1, <1>2, JobSteps

LEMMA ReadPageInv ==
  ASSUME ImportInv, ReadPage
  PROVE  ImportInv' /\ Unwritten
<1> DEFINE page == Page(job.page)
           read == [t \in Listed \cup page |-> IF t \in page THEN remote[t].fields ELSE job.listed[t]]
<1>1. TablesOK /\ JobOK
  BY DEF ImportInv, TypeInv
<1>2. job.at = "pages" /\ UNCHANGED <<remote, types, used, file, half, release, had, came, sure>>
  BY DEF ReadPage, Kept
<1>3. page \subseteq There(remote) /\ There(remote) \subseteq Types
  BY DEF Page, There
<1>4. \A t \in There(remote) : remote[t].fields \in Fields
  BY <1>1, ThereRows DEF RemoteRow
<1>5. \/ job' = NoJob
      \/ /\ DOMAIN job' = JobFields /\ job'.listed = read /\ job'.at \in {"pages", "upsert"}
         /\ job'.page = job.page + 1 /\ job'.read = job.read
         /\ job'.todo = job.todo /\ job'.added = job.added
  BY <1>1, <1>2, Zenon DEF ReadPage, JobOK, JobFields
<1>6. CASE job' = NoJob
  BY <1>2, <1>6, JobEnds, JobSteps
<1>7. CASE /\ DOMAIN job' = JobFields /\ job'.listed = read /\ job'.at \in {"pages", "upsert"}
           /\ job'.page = job.page + 1 /\ job'.read = job.read
           /\ job'.todo = job.todo /\ job'.added = job.added
  <2>1. DOMAIN read = Listed \cup page /\ \A t \in Listed \cup page : read[t] \in Fields
    BY <1>1, <1>3, <1>4 DEF JobOK
  <2> HIDE DEF read, page
  <2>2. Listed' = Listed \cup page /\ \A t \in Listed' : job'.listed[t] \in Fields
    BY <1>7, <2>1 DEF Listed
  <2>3. \A t \in Types, n \in Numbers : job.added[t][n] = Absent
    BY <1>1, <1>2 DEF JobOK, Inserting
  <2>4. job'.page \in Nat \ {0}
    BY <1>1, <1>7 DEF JobOK
  <2>5. JobOK'
    BY <1>1, <1>3, <1>7, <2>2, <2>3, <2>4 DEF JobOK, Stages
  <2>6. AddedFree'
    BY <1>7, <2>3 DEF AddedFree, Taken
  <2>7. HadRead'
    BY <1>7 DEF HadRead, Inserting
  <2> QED BY <1>2, <2>5, <2>6, <2>7, JobSteps
<1> QED BY <1>5, <1>6, <1>7

LEMMA PlaceBounds ==
  ASSUME NEW t \in Types, NEW n \in Taken(remote[t])
  PROVE  /\ n \in Numbers /\ VersionPlace(t, n) \in Nat /\ VersionPlace(t, n) >= 1
         /\ Cardinality(Taken(remote[t])) \in Nat
         /\ VersionPlace(t, n) <= Cardinality(Taken(remote[t]))
<1>1. VersionPlace(t, n) = Cardinality(Above(remote[t], n))
  BY DEF VersionPlace, Above
<1>2. n \in Numbers /\ n \in Above(remote[t], n)
  BY NumbersNat DEF Above, Taken
<1>3. /\ IsFiniteSet(Above(remote[t], n)) /\ Cardinality(Above(remote[t], n)) \in Nat
      /\ Cardinality(Taken(remote[t])) \in Nat
      /\ Cardinality(Above(remote[t], n)) <= Cardinality(Taken(remote[t]))
  BY AboveFinite
<1>4. Cardinality(Above(remote[t], n)) # 0
  BY <1>2, <1>3, FS_EmptySet
<1> QED BY <1>1, <1>2, <1>3, <1>4

\* Before a page of a type is read, none has been.
LEMMA FirstPage ==
  ASSUME HadRemote, NEW t \in Types, NEW n \in Numbers, <<t, n>> \in had
  PROVE  VersionPlace(t, n) > (1 - 1) * PageSize
<1>1. n \in Taken(remote[t])
  BY DEF HadRemote
<1>2. VersionPlace(t, n) \in Nat /\ VersionPlace(t, n) >= 1
  BY <1>1, PlaceBounds
<1>3. (1 - 1) * PageSize = 0
  BY PageAssumption
<1> QED BY <1>2, <1>3

LEMMA UpsertInv ==
  ASSUME ImportInv, Upsert
  PROVE  ImportInv' /\ Unwritten
<1>1. JobOK /\ HadRemote
  BY DEF ImportInv, TypeInv
<1>2. job.at = "upsert" /\ UNCHANGED <<remote, types, used, file, half, release, had, came, sure>>
  BY DEF Upsert, Kept
<1>3. CASE job' = NoJob
  BY <1>2, <1>3, JobEnds, JobSteps
<1>4. CASE job' = [job EXCEPT !.at = "versions", !.todo = Listed, !.page = 1]
  <2>1. /\ DOMAIN job' = JobFields /\ job'.listed = job.listed /\ job'.at = "versions"
        /\ job'.todo = Listed /\ job'.page = 1 /\ job'.read = job.read /\ job'.added = job.added
    BY <1>1, <1>4 DEF JobOK, JobFields
  <2>2. Listed' = Listed
    BY <2>1 DEF Listed
  <2>3. \A t \in Types, n \in Numbers : job.added[t][n] = Absent
    BY <1>1, <1>2 DEF JobOK, Inserting
  <2>4. JobOK'
    BY <1>1, <2>1, <2>2, <2>3 DEF JobOK, Stages
  <2>5. AddedFree'
    BY <2>1, <2>3 DEF AddedFree, Taken
  <2>6. HadRead'
    <3> SUFFICES ASSUME NEW t \in Types, NEW n \in Numbers, <<t, n>> \in had
                 PROVE  VersionPlace(t, n)' > (job'.page - 1) * PageSize
      BY <1>2, <2>1, <2>2 DEF HadRead
    <3>1. VersionPlace(t, n)' = VersionPlace(t, n)
      BY <1>2 DEF VersionPlace, Taken
    <3>2. VersionPlace(t, n) > (1 - 1) * PageSize
      BY <1>1, FirstPage
    <3> QED BY <2>1, <3>1, <3>2
  <2> QED BY <1>2, <2>4, <2>5, <2>6, JobSteps
<1> QED BY <1>3, <1>4 DEF Upsert

\* What has been read stays, and a version on the page is read.
LEMMA ReadFits ==
  ASSUME TablesOK, JobOK, NEW t \in There(remote), NEW page \in SUBSET Taken(remote[t])
  PROVE  /\ ReadAlso(t, page) \in Versions
         /\ \A n \in Numbers : job.read[n] # Absent \/ n \in page => ReadAlso(t, page)[n] # Absent
<1>1. remote[t].versions \in Versions /\ job.read \in Versions
  BY ThereRows DEF RemoteRow, JobOK
<1>2. \A n \in page : remote[t].versions[n] # Absent
  BY DEF Taken
<1> QED BY <1>1, <1>2 DEF ReadAlso, Versions

LEMMA ReadVersionsInv ==
  ASSUME ImportInv, NEW t \in Types, ReadVersions(t)
  PROVE  ImportInv' /\ Unwritten
<1> DEFINE page == VersionPage(t, job.page)
           read == ReadAlso(t, page)
           more == Cardinality(Taken(remote[t])) > job.page * PageSize
<1>1. TablesOK /\ JobOK /\ AddedFree /\ HadRemote /\ HadRead
  BY DEF ImportInv, TypeInv
<1>2. /\ job.at = "versions" /\ t \in job.todo /\ t = Current
      /\ UNCHANGED <<remote, types, used, file, half, release, had, came, sure>>
  BY DEF ReadVersions, Kept
<1>3. CASE job' = NoJob
  BY <1>2, <1>3, JobEnds, JobSteps
<1>4. CASE t \in There(remote) /\ job' = [job EXCEPT !.read = read, !.page = @ + 1,
                                                  !.at = IF more THEN @ ELSE "insert"]
  <2>1. /\ DOMAIN job' = JobFields /\ job'.listed = job.listed /\ job'.todo = job.todo
        /\ job'.added = job.added /\ job'.read = read /\ job'.page = job.page + 1
        /\ job'.at = IF more THEN "versions" ELSE "insert"
    BY <1>1, <1>2, <1>4 DEF JobOK, JobFields
  <2>2. page \in SUBSET Taken(remote[t])
    BY DEF VersionPage
  <2>3. /\ read \in Versions
        /\ \A n \in Numbers : job.read[n] # Absent \/ n \in page => read[n] # Absent
    BY <1>1, <1>4, <2>2, ReadFits
  <2>4. Listed' = Listed /\ Current' = Current
    BY <2>1 DEF Listed, Current
  <2>5. JobOK'
    <3>1. job'.at \in Stages /\ job'.at \in Inserting /\ job.at \in Inserting
      BY <1>2, <2>1 DEF Stages, Inserting
    <3>2. job'.page \in Nat \ {0}
      BY <1>1, <2>1 DEF JobOK
    <3> HIDE DEF read
    <3> QED BY <1>1, <2>1, <2>3, <2>4, <3>1, <3>2 DEF JobOK
  <2>6. AddedFree'
    BY <1>1, <1>2, <2>1 DEF AddedFree, Taken
  <2>7. HadRead'
    <3> HIDE DEF read, more
    <3>0. /\ \A u \in Types, n \in Numbers : VersionPlace(u, n)' = VersionPlace(u, n)
          /\ job'.at = "versions" <=> more
      BY <1>2, <2>1 DEF VersionPlace, Taken
    <3> SUFFICES ASSUME NEW u \in Types, NEW n \in Numbers, <<u, n>> \in had
                 PROVE  /\ u \in Listed \ job.todo => Has(types[u], n) \/ job.added[u][n] # Absent
                        /\ u \in job.todo /\ u = Current =>
                             \/ read[n] # Absent
                             \/ more /\ VersionPlace(u, n) > (job.page + 1 - 1) * PageSize
      <4>1. /\ types' = types /\ had' = had /\ Listed' = Listed /\ Current' = Current
            /\ job'.todo = job.todo /\ job'.added = job.added /\ job'.read = read
            /\ job'.page = job.page + 1
        BY <1>2, <2>1, <2>4
      <4>2. \A u \in Types, n \in Numbers : Has(types[u], n)' = Has(types[u], n)
        BY <4>1 DEF Has, Taken
      <4> SUFFICES ASSUME NEW w \in Types, NEW m \in Numbers, <<w, m>> \in had'
                   PROVE  /\ job'.at \in Inserting /\ w \in Listed' \ job'.todo =>
                               Has(types[w], m)' \/ job'.added[w][m] # Absent
                          /\ job'.at \in Inserting /\ w \in job'.todo /\ w = Current' =>
                               \/ job'.read[m] # Absent
                               \/ job'.at = "versions" /\ VersionPlace(w, m)' > (job'.page - 1) * PageSize
        BY DEF HadRead
      <4>3. /\ w \in Listed \ job.todo => Has(types[w], m) \/ job.added[w][m] # Absent
            /\ w \in job.todo /\ w = Current =>
                 \/ read[m] # Absent
                 \/ more /\ VersionPlace(w, m) > (job.page + 1 - 1) * PageSize
        BY <4>1
      <4>4. Has(types[w], m)' = Has(types[w], m) /\ VersionPlace(w, m)' = VersionPlace(w, m)
        BY <3>0, <4>2
      <4>5. job'.at \in Inserting /\ w \in Listed' \ job'.todo =>
              Has(types[w], m)' \/ job'.added[w][m] # Absent
        BY <4>1, <4>3, <4>4
      <4>6. ASSUME w \in job'.todo, w = Current', job'.read[m] = Absent
            PROVE  job'.at = "versions" /\ VersionPlace(w, m)' > (job'.page - 1) * PageSize
        <5>1. more /\ VersionPlace(w, m) > (job.page + 1 - 1) * PageSize
          BY <4>1, <4>3, <4>6
        <5>2. job.page \in Nat /\ job'.page - 1 = job.page + 1 - 1
          BY <1>1, <4>1 DEF JobOK
        <5> QED BY <3>0, <4>4, <5>1, <5>2
      <4> QED BY <4>5, <4>6
    <3>1. u \in Listed \ job.todo => Has(types[u], n) \/ job.added[u][n] # Absent
      BY <1>1, <1>2 DEF HadRead, Inserting
    <3>2. ASSUME u = t, read[n] = Absent
          PROVE  more /\ VersionPlace(t, n) > (job.page + 1 - 1) * PageSize
      <4>1. n \in Taken(remote[t])
        BY <1>1, <3>2 DEF HadRemote
      <4>2. job.read[n] = Absent /\ n \notin page
        BY <2>3, <3>2
      <4>3. VersionPlace(t, n) > (job.page - 1) * PageSize
        BY <1>1, <1>2, <3>2, <4>2 DEF HadRead, Inserting
      <4>4. VersionPlace(t, n) \notin OnPage(job.page)
        BY <4>1, <4>2 DEF VersionPage
      <4>5. /\ VersionPlace(t, n) \in Nat /\ Cardinality(Taken(remote[t])) \in Nat
            /\ VersionPlace(t, n) <= Cardinality(Taken(remote[t]))
        BY <4>1, PlaceBounds
      <4>6. /\ (job.page - 1) * PageSize \in Nat /\ job.page * PageSize \in Nat
            /\ (job.page + 1 - 1) * PageSize = job.page * PageSize
        BY <1>1, PagesNat DEF JobOK
      <4>7. VersionPlace(t, n) > job.page * PageSize
        BY <4>3, <4>4, <4>5, <4>6 DEF OnPage
      <4> QED BY <4>5, <4>6, <4>7 DEF more
    <3> QED BY <1>2, <3>1, <3>2
  <2> QED BY <1>2, <2>5, <2>6, <2>7, JobSteps
<1> QED BY <1>3, <1>4 DEF ReadVersions

\* A version that is there already is not added; every other that was read is.
LEMMA AddedFits ==
  ASSUME JobOK, NEW t
  PROVE  /\ Added(t) \in Versions
         /\ \A n \in Numbers : Has(types[t], n) => Added(t)[n] = Absent
         /\ \A n \in Numbers : job.read[n] # Absent => Has(types[t], n) \/ Added(t)[n] # Absent
BY DEF Added, Versions, Has, JobOK

LEMMA InsertInv ==
  ASSUME ImportInv, NEW t \in Types, InsertVersions(t)
  PROVE  ImportInv' /\ Unwritten
<1>1. TablesOK /\ JobOK /\ AddedFree /\ HadRemote /\ HadRead
  BY DEF ImportInv, TypeInv
<1>2. /\ job.at = "insert" /\ t \in job.todo /\ t = Current
      /\ UNCHANGED <<remote, types, used, file, half, release, had, came, sure>>
  BY DEF InsertVersions, Kept
<1> DEFINE new == Added(t)
<1>3. /\ new \in Versions
      /\ \A n \in Numbers : Has(types[t], n) => new[n] = Absent
      /\ \A n \in Numbers : job.read[n] # Absent => Has(types[t], n) \/ new[n] # Absent
  BY <1>1, AddedFits
<1>4. job' = [job EXCEPT !.at = "versions", !.page = 1, !.read = NoVersions,
                        !.added = [job.added EXCEPT ![t] = new], !.todo = job.todo \ {t}]
  BY Zenon DEF InsertVersions
<1> HIDE DEF new
<1>5. /\ DOMAIN job' = JobFields /\ job'.listed = job.listed /\ job'.at = "versions"
      /\ job'.page = 1 /\ job'.read = NoVersions
      /\ job'.todo = job.todo \ {t} /\ job'.added = [job.added EXCEPT ![t] = new]
  BY <1>1, <1>4 DEF JobOK, JobFields
<1>6. /\ job'.added[t] = new /\ \A u \in Types \ {t} : job'.added[u] = job.added[u]
      /\ job'.added \in [Types -> Versions]
  BY <1>1, <1>3, <1>5 DEF JobOK
<1>7. Listed' = Listed
  BY <1>5 DEF Listed
<1>8. \A u \in Types, n \in Numbers :
        job'.added[u][n] # Absent => job'.at \in Inserting /\ u \in Listed' \ job'.todo
  BY <1>1, <1>2, <1>5, <1>6, <1>7 DEF JobOK, Inserting
<1>9. JobOK'
  BY <1>1, <1>5, <1>6, <1>7, <1>8, NoVersionsFit DEF JobOK, Stages
<1>10. AddedFree'
  BY <1>1, <1>2, <1>3, <1>6 DEF AddedFree, Taken, Has
<1>11. HadRead'
  <2> SUFFICES ASSUME NEW u \in Types, NEW n \in Numbers, <<u, n>> \in had
               PROVE  /\ u \in Listed \ job'.todo => Has(types[u], n) \/ job'.added[u][n] # Absent
                      /\ VersionPlace(u, n) > (1 - 1) * PageSize
    <3>1. \A u \in Types, n \in Numbers : VersionPlace(u, n)' = VersionPlace(u, n)
      BY <1>2 DEF VersionPlace, Taken
    <3> QED BY <1>2, <1>5, <1>7, <3>1 DEF HadRead, Has, Taken
  <2>1. VersionPlace(u, n) > (1 - 1) * PageSize
    BY <1>1, FirstPage
  <2>2. ASSUME u = t
        PROVE  Has(types[u], n) \/ job'.added[u][n] # Absent
    <3>1. job.read[n] # Absent
      BY <1>1, <1>2, <2>2 DEF HadRead, Inserting
    <3> QED BY <1>3, <1>6, <2>2, <3>1
  <2>3. ASSUME u # t, u \in Listed \ job'.todo
        PROVE  Has(types[u], n) \/ job'.added[u][n] # Absent
    <3>1. u \in Listed \ job.todo
      BY <1>5, <2>3
    <3>2. Has(types[u], n) \/ job.added[u][n] # Absent
      BY <1>1, <1>2, <3>1 DEF HadRead, Inserting
    <3> QED BY <1>6, <2>3, <3>2
  <2> QED BY <2>1, <2>2, <2>3
<1> QED BY <1>2, <1>9, <1>10, <1>11, JobSteps

\* What the command commits of a type: the versions that were there, and those it added.
LEMMA ImportedFits ==
  ASSUME TablesOK, JobOK, AddedFree, NEW t \in Listed
  PROVE  /\ Imported(t) \in Row
         /\ \A n \in Numbers :
              /\ types[t] # Absent /\ n \in Taken(types[t])
                 => n \in Taken(Imported(t)) /\ Imported(t).versions[n] = types[t].versions[n]
              /\ job.added[t][n] # Absent => n \in Taken(Imported(t))
<1>1. /\ t \in Types /\ job.listed[t] \in Fields /\ job.added[t] \in Versions
  BY DEF JobOK
<1> DEFINE before == IF types[t] = Absent THEN NoVersions ELSE types[t].versions
<1>2. before \in Versions
  BY <1>1, NoVersionsFit, ThereRows DEF Row
<1>3. Imported(t) = [fields |-> job.listed[t], imported |-> TRUE,
                     versions |-> Merged([versions |-> before], job.added[t])]
  BY DEF Imported
<1>4. types[t] # Absent => before = types[t].versions
  OBVIOUS
<1> HIDE DEF before
<1> DEFINE all == Merged([versions |-> before], job.added[t])
<1>5. all = [n \in Numbers |-> IF job.added[t][n] = Absent THEN before[n] ELSE job.added[t][n]]
  BY DEF Merged
<1> HIDE DEF all
<1>6. all \in Versions
  BY <1>1, <1>2, <1>5 DEF Versions
<1>7. Imported(t).versions = all /\ Imported(t) \in Row
  BY <1>1, <1>3, <1>6 DEF Row, all
<1>8. Taken(Imported(t)) = {n \in Numbers : all[n] # Absent}
  BY <1>7 DEF Taken
<1>9. ASSUME NEW n \in Numbers, types[t] # Absent, n \in Taken(types[t])
      PROVE  n \in Taken(Imported(t)) /\ Imported(t).versions[n] = types[t].versions[n]
  <2>1. job.added[t][n] = Absent
    BY <1>1, <1>9 DEF AddedFree
  <2>2. types[t].versions[n] # Absent
    BY <1>9 DEF Taken
  <2> QED BY <1>4, <1>5, <1>7, <1>8, <1>9, <2>1, <2>2
<1> QED BY <1>5, <1>7, <1>8, <1>9

LEMMA CommitInv ==
  ASSUME ImportInv, CommitImport
  PROVE  ImportInv' /\ Unwritten
<1>1. TablesOK /\ JobOK /\ AddedFree /\ HadRemote /\ HadRead /\ SureHere
  BY DEF ImportInv, TypeInv
<1>2. /\ job.at = "versions" /\ job.todo = {} /\ job' = NoJob
      /\ UNCHANGED <<remote, used, file, half, release, had>>
      /\ types' = [t \in Types |-> IF t \in Listed THEN Imported(t) ELSE types[t]]
      /\ came' = came \cup Listed /\ sure' = sure \cup {x \in had : x[1] \in Listed}
  BY DEF CommitImport, Brings
<1>3. JobOK' /\ AddedFree' /\ HadRead'
  BY <1>2, JobEnds
<1>4. \A t \in Types : types'[t] = IF t \in Listed THEN Imported(t) ELSE types[t]
  BY <1>2
<1>5. \A t \in Types : types'[t] \in Row \cup {Absent}
  BY <1>1, <1>4, ImportedFits DEF TablesOK
<1>6. came' \subseteq Types /\ sure' \subseteq Pairs
  BY <1>1, <1>2 DEF TablesOK, JobOK
<1>7. TablesOK'
  BY <1>1, <1>2, <1>5, <1>6 DEF TablesOK
<1>8. Unwritten
  <2> SUFFICES ASSUME NEW t \in There(types), NEW n \in Taken(types[t])
               PROVE  types'[t] # Absent /\ types'[t].versions[n] = types[t].versions[n]
    BY DEF Unwritten
  <2>1. t \in Types /\ types[t] # Absent /\ n \in Numbers
    BY DEF There, Taken
  <2> QED BY <1>1, <1>4, <2>1, ImportedFits, Values
<1>9. HadRemote'
  BY <1>1, <1>2 DEF HadRemote, There, Taken
<1>10. SureHere'
  <2>1. ASSUME NEW t \in Types, types'[t] # Absent, types'[t].imported
        PROVE  t \in came'
    BY <1>1, <1>2, <1>4, <2>1 DEF SureHere
  <2>2. ASSUME NEW t \in Types, NEW n \in Numbers, Has(types[t], n)
        PROVE  Has(types'[t], n)
    BY <1>1, <1>4, <2>2, ImportedFits, Values DEF Has
  <2>3. ASSUME NEW t \in Listed, NEW n \in Numbers, <<t, n>> \in had
        PROVE  Has(types'[t], n)
    <3>1. t \in Types
      BY <1>1 DEF JobOK
    <3>2. Has(types[t], n) \/ job.added[t][n] # Absent
      BY <1>1, <1>2, <2>3, <3>1 DEF HadRead, Inserting
    <3>3. CASE job.added[t][n] # Absent
      BY <1>1, <1>4, <3>1, <3>3, ImportedFits, Values DEF Has
    <3> QED BY <2>2, <3>1, <3>2, <3>3
  <2>4. ASSUME NEW t \in Types, NEW n \in Numbers, <<t, n>> \in sure'
        PROVE  Has(types'[t], n)
    <3>1. <<t, n>> \in sure \/ (<<t, n>> \in had /\ t \in Listed)
      BY <1>2, <2>4
    <3> QED BY <1>1, <2>2, <2>3, <3>1 DEF SureHere
  <2> QED BY <2>1, <2>4 DEF SureHere, Has, Taken
<1> QED BY <1>3, <1>7, <1>8, <1>9, <1>10 DEF ImportInv, TypeInv

-----------------------------------------------------------------------------
(* The check and the new release. *)

LEMMA UpgradeSteps ==
  ASSUME ImportInv, Upgrade
  PROVE  ImportInv' /\ Unwritten
<1>1. UNCHANGED <<remote, types, used, job, file, half, had, came, sure>> /\ release' \in Releases
  BY DEF Upgrade, Deploy, Check, SkipCheck, Serve, Kept, Releases
<1>2. TablesOK'
  BY <1>1 DEF ImportInv, TypeInv, TablesOK
<1> QED BY <1>1, <1>2, SameInv

\* One row is written, and the rest is left alone.
LEMMA RowInv ==
  ASSUME ImportInv, UNCHANGED <<remote, used, job, file, release, came>>, half' \in Types \cup {Absent},
         had' \subseteq had, sure' \subseteq sure,
         NEW t \in Types, NEW row \in Row \cup {Absent}, types' = [types EXCEPT ![t] = row],
         \/ Grows(t, types[t], row)
         \/ types[t] = Absent /\ t \notin Staged /\ row # Absent /\ row.imported = FALSE
         \/ types[t] # Absent /\ row = Absent /\ Taken(types[t]) = {}
  PROVE  ImportInv' /\ Unwritten
<1>1. TablesOK
  BY DEF ImportInv, TypeInv
<1>2. types \in [Types -> Row \cup {Absent}]
  BY <1>1 DEF TablesOK
<1>3. types'[t] = row /\ \A u \in Types \ {t} : types'[u] = types[u]
  BY <1>2
<1>4. DOMAIN types' = Types /\ types' = [u \in Types |-> types'[u]]
  BY <1>2
<1>5. \A u \in Types : Moves(u)
  BY <1>3 DEF Moves
<1>6. /\ file' \in [at : {"none", "types", "done"}, rows : [Types -> Row \cup {Absent}]]
      /\ came \subseteq came' /\ came' \subseteq Types
  BY <1>1 DEF TablesOK
<1> QED BY <1>4, <1>5, <1>6, MovesInv

\* A new type has no versions yet.
LEMMA NewTypes ==
  ASSUME ImportInv, NEW t \in Types, NEW f \in Fields, PostType(t, f) \/ UrlType(t, f)
  PROVE  ImportInv' /\ Unwritten
<1> DEFINE row == NewRow(f, FALSE, NoVersions)
<1>1. row \in Row /\ row # Absent /\ row.imported = FALSE
  BY NoVersionsFit, NewRowFits, Values
<1>2. /\ UNCHANGED <<remote, used, job, file, release, had, came, sure>> /\ half' \in {half, t}
      /\ types' = [types EXCEPT ![t] = row] /\ types[t] = Absent /\ t \notin Staged
  BY DEF PostType, UrlType, Local, Kept
<1>3. half' \in Types \cup {Absent}
  BY <1>2 DEF ImportInv, TypeInv, TablesOK
<1> HIDE DEF row
<1> QED BY <1>1, <1>2, <1>3, RowInv

LEMMA DescribeInv ==
  ASSUME ImportInv, NEW t \in Types, NEW f \in Fields, DescribeType(t, f)
  PROVE  ImportInv' /\ Unwritten
<1>1. TablesOK
  BY DEF ImportInv, TypeInv
<1> DEFINE row == [types[t] EXCEPT !.fields = f]
<1>2. /\ UNCHANGED <<remote, used, job, file, half, release, had, came, sure>> /\ types[t] # Absent
      /\ types' = [types EXCEPT ![t] = row]
  BY Zenon DEF DescribeType, Kept
<1>3. types[t] \in Row
  BY <1>1, <1>2, ThereRows
<1>4. row \in Row /\ row.versions = types[t].versions /\ row.imported = types[t].imported
  BY <1>3 DEF Row
<1> HIDE DEF row
<1>5. Grows(t, types[t], row)
  BY <1>2, <1>4 DEF Grows, Taken
<1> QED BY <1>1, <1>2, <1>4, <1>5, RowInv DEF TablesOK

LEMMA DestroyInv ==
  ASSUME ImportInv, NEW t \in Types, DestroyType(t)
  PROVE  ImportInv' /\ Unwritten
<1>1. TablesOK
  BY DEF ImportInv, TypeInv
<1>2. /\ UNCHANGED <<remote, used, job, file, half, release, had, came, sure>> /\ types[t] # Absent
      /\ types' = [types EXCEPT ![t] = Absent] /\ Taken(types[t]) = {}
  BY DEF DestroyType, Local, Kept
<1> QED BY <1>1, <1>2, RowInv DEF TablesOK

\* A version is written that was not there or was a draft, or a draft is removed that
\* history does not ask for.
LEMMA VersionInv ==
  ASSUME ImportInv, UNCHANGED <<remote, used, job, file, release, came>>, half' \in Types \cup {Absent},
         had' \subseteq had, sure' \subseteq sure,
         NEW t \in Types, types[t] # Absent, NEW n \in Numbers, NEW v \in Version \cup {Absent},
         types' = [types EXCEPT ![t].versions = [types[t].versions EXCEPT ![n] = v]],
         v = Absent => <<t, n>> \notin had' \cup sure',
         \/ n \in Taken(types[t]) /\ types[t].versions[n].status = "draft"
         \/ n \notin Taken(types[t]) /\ job.added[t][n] = Absent
  PROVE  ImportInv' /\ Unwritten
<1>1. TablesOK /\ types[t] \in Row
  BY ThereRows DEF ImportInv, TypeInv
<1> DEFINE new == [types[t].versions EXCEPT ![n] = v]
           row == [types[t] EXCEPT !.versions = new]
<1>2. types' = [types EXCEPT ![t] = row]
  BY Zenon
<1>3. /\ new \in Versions /\ new[n] = v
      /\ \A m \in Numbers : m # n => new[m] = types[t].versions[m]
  BY <1>1 DEF Row, Versions
<1> HIDE DEF new
<1>4. row \in Row /\ row.versions = new /\ row.imported = types[t].imported
  BY <1>1, <1>3 DEF Row
<1> HIDE DEF row
<1>5. Grows(t, types[t], row)
  <2>1. ASSUME NEW m \in Taken(types[t])
        PROVE  /\ m \in Taken(row) \/ <<t, m>> \notin had' \cup sure'
               /\ types[t].versions[m].status = "published" => row.versions[m] = types[t].versions[m]
    BY <1>3, <1>4, <2>1 DEF Taken
  <2>2. ASSUME NEW m \in Taken(row) \ Taken(types[t])
        PROVE  job.added[t][m] = Absent
    BY <1>3, <1>4, <2>2 DEF Taken
  <2> QED BY <1>4, <2>1, <2>2 DEF Grows
<1> QED BY <1>2, <1>4, <1>5, RowInv

LEMMA PostVersionInv ==
  ASSUME ImportInv, NEW t \in Types, NEW n \in Numbers, NEW s \in Schemas, PostVersion(t, n, s)
  PROVE  ImportInv' /\ Unwritten
<1>1. /\ UNCHANGED <<remote, used, job, file, half, release, had, came, sure>>
      /\ types[t] # Absent /\ Follows(n, types[t]) /\ job.added[t][n] = Absent
  BY DEF PostVersion, Kept
<1>2. n \notin Taken(types[t])
  BY <1>1, FollowsFree
<1>3. types' = [types EXCEPT ![t].versions = [types[t].versions EXCEPT ![n] = Draft(s)]]
  BY Zenon DEF PostVersion
<1>4. Draft(s) \in Version /\ half' \in Types \cup {Absent}
  BY <1>1 DEF Draft, Version, ImportInv, TypeInv, TablesOK
<1>5. Draft(s) # Absent
  BY <1>4, Values
<1> QED BY <1>1, <1>2, <1>3, <1>4, <1>5, VersionInv

LEMMA DraftSteps ==
  ASSUME ImportInv, NEW t \in Types, NEW n \in Numbers,
         DestroyVersion(t, n) \/ \E v \in Version : EditVersion(t, n, v)
  PROVE  ImportInv' /\ Unwritten
<1>1. half \in Types \cup {Absent}
  BY DEF ImportInv, TypeInv, TablesOK
<1>2. CASE DestroyVersion(t, n)
  <2>1. /\ UNCHANGED <<remote, used, job, file, half, release, came>>
        /\ types[t] # Absent /\ n \in Taken(types[t]) /\ types[t].versions[n].status = "draft"
        /\ had' = had \ {<<t, n>>} /\ sure' = sure \ {<<t, n>>}
    BY <1>2 DEF DestroyVersion
  <2>2. types' = [types EXCEPT ![t].versions = [types[t].versions EXCEPT ![n] = Absent]]
    BY <1>2, Zenon DEF DestroyVersion
  <2> QED BY <1>1, <2>1, <2>2, VersionInv
<1>3. ASSUME NEW v \in Version, EditVersion(t, n, v)
      PROVE  ImportInv' /\ Unwritten
  <2>1. /\ UNCHANGED <<remote, used, job, file, half, release, had, came, sure>>
        /\ types[t] # Absent /\ n \in Taken(types[t]) /\ types[t].versions[n].status = "draft"
    BY <1>3 DEF EditVersion, Kept
  <2>2. types' = [types EXCEPT ![t].versions = [types[t].versions EXCEPT ![n] = v]]
    BY <1>3, Zenon DEF EditVersion
  <2>3. v # Absent
    BY Values
  <2> QED BY <1>1, <2>1, <2>2, <2>3, VersionInv
<1> QED BY <1>2, <1>3

\* The type of create_from_schema gets the version that follows its last.
LEMMA UrlVersionInv ==
  ASSUME ImportInv, NEW s \in Schemas, UrlVersion(s)
  PROVE  ImportInv' /\ Unwritten
<1>1. /\ half \in Types /\ half' = Absent /\ UNCHANGED <<remote, used, job, file, release, had, came, sure>>
  BY DEF UrlVersion, Kept, ImportInv, TypeInv, TablesOK
<1>2. TablesOK
  BY DEF ImportInv, TypeInv
<1>3. CASE types' = types
  <2>1. \A t \in Types : Moves(t)
    BY <1>3 DEF Moves
  <2>2. DOMAIN types' = Types /\ types' = [t \in Types |-> types'[t]]
    BY <1>2, <1>3 DEF TablesOK
  <2> QED BY <1>1, <1>2, <2>1, <2>2, MovesInv DEF TablesOK
<1>4. ASSUME types[half] # Absent, NEW n \in Numbers, Follows(n, types[half]), job.added[half][n] = Absent,
             types' = [types EXCEPT ![half].versions =
                         [m \in Numbers |-> IF Follows(m, types[half]) THEN Draft(s) ELSE @[m]]]
      PROVE  ImportInv' /\ Unwritten
  <2>1. types[half].versions \in Versions
    BY <1>1, <1>2, <1>4, ThereRows DEF Row
  <2>2. Draft(s) \in Version /\ Draft(s) # Absent
    BY Values DEF Draft, Version
  <2>3. n \notin Taken(types[half]) /\ \A m \in Numbers : Follows(m, types[half]) => m = n
    BY <1>4, FollowsFree
  <2> DEFINE new == [m \in Numbers |-> IF Follows(m, types[half]) THEN Draft(s) ELSE types[half].versions[m]]
  <2>4. new = [types[half].versions EXCEPT ![n] = Draft(s)]
    BY <1>4, <2>1, <2>3 DEF Versions
  <2>5. types' = [types EXCEPT ![half].versions = new]
    BY <1>4, Zenon
  <2> HIDE DEF new
  <2>6. types' = [types EXCEPT ![half].versions = [types[half].versions EXCEPT ![n] = Draft(s)]]
    BY <2>4, <2>5, Zenon
  <2> QED BY <1>1, <1>4, <2>2, <2>3, <2>6, VersionInv
<1> QED BY <1>3, <1>4, Zenon DEF UrlVersion

-----------------------------------------------------------------------------
(* Files. *)

LEMMA ExportSteps ==
  ASSUME ImportInv, ExportVersions \/ \E S \in SUBSET Types : ExportTypes(S)
  PROVE  ImportInv' /\ Unwritten
<1>1. TablesOK
  BY DEF ImportInv, TypeInv
<1>2. UNCHANGED <<remote, types, used, job, half, release, had, came, sure>>
  BY DEF ExportTypes, ExportVersions, Kept
<1>3. file' \in [at : {"none", "types", "done"}, rows : [Types -> Row \cup {Absent}]]
  <2>1. ASSUME NEW S \in SUBSET Types, ExportTypes(S)
        PROVE  file' \in [at : {"none", "types", "done"}, rows : [Types -> Row \cup {Absent}]]
    <3>1. \A t \in S : types[t] \in Row
      BY <1>1, <2>1, ThereRows DEF ExportTypes
    <3>2. \A t \in S : NewRow(types[t].fields, TRUE, NoVersions) \in Row
      BY <3>1, NoVersionsFit, NewRowFits DEF Row
    <3> QED BY <2>1, <3>2 DEF ExportTypes
  <2>2. CASE ExportVersions
    <3>1. \A t \in Types : types[t] \in Row \cup {Absent} /\ file.rows[t] \in Row \cup {Absent}
      BY <1>1 DEF TablesOK
    <3>2. ASSUME NEW t \in Types, file.rows[t] # Absent, types[t] # Absent
          PROVE  [file.rows[t] EXCEPT !.versions = types[t].versions] \in Row
      BY <3>1, <3>2 DEF Row
    <3> QED BY <2>2, <3>1, <3>2 DEF ExportVersions
  <2> QED BY <2>1, <2>2
<1>4. TablesOK'
  BY <1>1, <1>2, <1>3 DEF TablesOK
<1> QED BY <1>2, <1>4, SameInv

\* Types of a file are added only where there is none.
LEMMA FileSteps ==
  ASSUME ImportInv, ImportFile \/ ImportCopy
  PROVE  ImportInv' /\ Unwritten
<1>1. TablesOK
  BY DEF ImportInv, TypeInv
<1>2. UNCHANGED <<remote, used, job, file, half, release, had>> /\ sure' = sure
  BY DEF ImportFile, ImportCopy, Brings
<1>3. \A t \in Types : types[t] = Absent \/ t \in There(types)
  BY <1>1, ThereRows
<1>4. /\ There(file.rows) \subseteq Types /\ \A t \in There(file.rows) : file.rows[t] \in Row
      /\ \A t \in Types : file.rows[t] # Absent => t \in There(file.rows)
  BY <1>1, Values DEF TablesOK, There
<1>5. CASE ImportFile
  <2>1. types' = [t \in Types |-> IF file.rows[t] # Absent THEN file.rows[t] ELSE types[t]]
    BY <1>5 DEF ImportFile
  <2>2. \A t \in There(file.rows) : t \notin There(types) /\ t \notin Staged
    BY <1>5 DEF ImportFile
  <2>3. came' = came \cup There(file.rows) /\ came' \subseteq Types
    BY <1>1, <1>4, <1>5 DEF ImportFile, Brings, TablesOK
  <2>4. \A t \in Types : Moves(t)
    BY <1>3, <1>4, <2>1, <2>2, <2>3 DEF Moves
  <2> QED BY <1>1, <1>2, <2>1, <2>3, <2>4, MovesInv DEF TablesOK
<1>6. CASE ImportCopy
  <2>1. PICK new \in [There(file.rows) -> Types \ (There(types) \cup Staged)] :
          came' = came \cup Range(new) /\ types' = [t \in Types |-> IF t \in Range(new)
                                    THEN file.rows[CHOOSE u \in DOMAIN new : new[u] = t] ELSE types[t]]
    BY <1>6 DEF ImportCopy, Brings
  <2>2. ASSUME NEW t \in Range(new)
        PROVE  /\ t \notin There(types) /\ t \notin Staged
               /\ file.rows[CHOOSE u \in DOMAIN new : new[u] = t] \in Row
    <3>1. \E u \in DOMAIN new : new[u] = t
      BY <2>2 DEF Range
    <3>2. (CHOOSE u \in DOMAIN new : new[u] = t) \in DOMAIN new
      BY <3>1
    <3> QED BY <1>4, <2>1, <3>1, <3>2
  <2>3. came' \subseteq Types
    BY <1>1, <2>1 DEF Range, TablesOK
  <2>4. \A t \in Types : Moves(t)
    BY <1>3, <2>1, <2>2 DEF Moves
  <2> QED BY <1>1, <1>2, <2>1, <2>3, <2>4, MovesInv DEF TablesOK
<1> QED BY <1>5, <1>6

-----------------------------------------------------------------------------
LEMMA NextInv ==
  ASSUME ImportInv, [Next]_vars
  PROVE  ImportInv' /\ Unwritten
<1>1. CASE Api
  BY <1>1, RemoteSteps, ReferSteps DEF Api
<1>2. CASE Command
  BY <1>2, StartInv, FailInv, ReadPageInv, UpsertInv, CommitInv, ReadVersionsInv, InsertInv DEF Command
<1>3. CASE Upgrade
  BY <1>3, UpgradeSteps
<1>4. CASE Release4
  BY <1>4, NewTypes, DescribeInv, DestroyInv, PostVersionInv, DraftSteps, UrlVersionInv,
     ExportSteps, FileSteps DEF Release4, Fetched
<1>5. CASE UNCHANGED vars
  <2>1. UNCHANGED <<remote, types, used, job, file, half, release, had, came, sure>>
    BY <1>5 DEF vars
  <2>2. TablesOK'
    BY <2>1 DEF ImportInv, TypeInv, TablesOK
  <2> QED BY <2>1, <2>2, SameInv
<1> QED BY <1>1, <1>2, <1>3, <1>4, <1>5 DEF Next

LEMMA AlwaysImport == Spec => []ImportInv
<1>1. Init => ImportInv
  BY InitInv
<1>2. ImportInv /\ [Next]_vars => ImportInv'
  BY NextInv
<1> QED BY <1>1, <1>2, PTL DEF Spec

\* The values of the variables; a version that the command inserted keeps its number for
\* itself, so that its transaction can end (the unique constraint on a type and a number).
THEOREM ImportTypeOK == Spec => []TypeOK
<1>1. ASSUME ImportInv
      PROVE  TypeOK
  <2>1. TablesOK /\ JobOK /\ AddedFree
    BY <1>1 DEF ImportInv, TypeInv
  <2>2. \A t \in There(types) : types[t] # Absent /\ t \in Types
    BY DEF There
  <2>3. \A t \in There(types) : \A n \in Taken(types[t]) : job.added[t][n] = Absent
    BY <2>1, <2>2 DEF AddedFree
  <2>4. file.rows \in [Types -> Row \cup {Absent}] /\ Listed \cup job.todo \subseteq Types
    BY <2>1 DEF TablesOK, JobOK
  <2> QED BY <2>1, <2>3, <2>4 DEF TypeOK, TablesOK, JobOK, RemoteRow, Stages, Releases, Pairs
<1>2. ImportInv => TypeOK
  BY <1>1
<1> QED BY <1>2, AlwaysImport, PTL

\* A type that counts as imported was brought by an import, or a file, as a whole, with
\* every version that the API had from the start of the import to its end: for any number
\* of types and versions, any size of the pages, whatever changes in the API, and whatever
\* the two releases do meanwhile (transaction.atomic and the pages of import_objecttypes).
THEOREM ImportedStaysThere == Spec => []ImportedIsThere
<1>1. ASSUME ImportInv
      PROVE  ImportedIsThere
  <2>1. TablesOK /\ SureHere
    BY <1>1 DEF ImportInv, TypeInv
  <2>2. \A t \in There(types) : types[t].imported => t \in came
    BY <2>1 DEF SureHere, There
  <2>3. ASSUME NEW x \in sure
        PROVE  types[x[1]] # Absent /\ x[2] \in Taken(types[x[1]])
    <3>1. x[1] \in Types /\ x[2] \in Numbers /\ x = <<x[1], x[2]>>
      BY <2>1, <2>3 DEF TablesOK, Pairs
    <3> QED BY <2>1, <2>3, <3>1 DEF SureHere, Has
  <2> QED BY <2>2, <2>3 DEF ImportedIsThere
<1>2. ImportInv => ImportedIsThere
  BY <1>1
<1> QED BY <1>2, AlwaysImport, PTL

\* No import and no request rewrites a version that is published, and an import rewrites
\* none at all, whatever else happens (ignore_conflicts of import_objecttypes, import_data).
THEOREM VersionsStay == Spec => VersionsKept
<1>1. ImportInv /\ [Next]_vars => [Unwritten]_vars
  BY NextInv
<1>2. [Unwritten]_vars <=>
        [\A t \in There(types) : \A n \in Taken(types[t]) :
           types[t].versions[n].status = "published" \/ job' # job
           => types'[t] # Absent /\ types'[t].versions[n] = types[t].versions[n]]_vars
  BY DEF Unwritten
<1> QED BY <1>1, <1>2, AlwaysImport, PTL DEF Spec, VersionsKept
=============================================================================
