---------------------------- MODULE MCTypeImport ----------------------------
(* The API has a type with two published versions and a draft on top of      *)
(* them, which the previous release refers to, and a newer one with a draft: *)
(* with pages of one, a list of three pages can change while it is read.     *)
EXTENDS TypeImport

CONSTANTS t1, t2, t3, f1, f2, s1

MCOrder == <<t3, t2, t1>>

Published(s) == [schema |-> s, status |-> "published"]

MCRemote == {
    [t \in Types |->
       CASE t = t1 -> [fields |-> f1,
                       versions |-> [n \in Numbers |-> IF n = 3 THEN Draft(s1) ELSE Published(s1)]]
         [] t = t2 -> [fields |-> f1,
                       versions |-> [n \in Numbers |-> IF n = 1 THEN Draft(s1) ELSE Absent]]
         [] OTHER  -> Absent]}

MCTypes == {[t \in Types |-> IF t = t1 THEN NewRow(f1, FALSE, NoVersions) ELSE Absent]}

=============================================================================
