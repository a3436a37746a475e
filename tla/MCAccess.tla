------------------------------- MODULE MCAccess -------------------------------
(* Access on a small instance. *)
EXTENDS Access

CONSTANTS i1, i2, k1, k2, k3, t1, t2, t3

Url   == <<"url">>
Rec   == <<"record">>
Index == <<"record", "index">>
Data  == <<"record", "data">>
A     == <<"record", "data", "a">>
B     == <<"record", "data", "b">>
Whole == {Url, Rec, Index, Data, A}

MCStored  == (t1 :> [version |-> 1, body |-> Whole \cup {B}]) @@ (t2 :> [version |-> 2, body |-> Whole])
MCWritten == [version |-> 2, body |-> Whole]

\* Fields of both versions, of one of them, a field that a body lacks, nested fields in an
\* order that cannot be built, none, null.
OneVersion == <<<<Url, Data>>>>
Both       == <<<<Url, Index, B>>, <<Url, Index>>>>
Broken     == <<<<Index, Rec, <<"status">>>>, <<Rec, Index>>>>
MCFieldRules == {<<>>, None, OneVersion, Both, Broken}

MCTokens == (i1 :> [key |-> k1, super |-> FALSE]) @@ (i2 :> [key |-> k2, super |-> TRUE]) @@ (Blank :> None)
First  == Entered \cup {Row("read_and_write", TRUE, Both), None}
Second == {None, Row("read_only", FALSE, <<>>), Row("read_only", TRUE, Both)}
MCGiven == {(<<i1, t1>> :> r1) @@ (<<i1, t2>> :> r2) @@ (<<i2, t2>> :> None) : r1 \in First, r2 \in Second}
           \cup {<<i2, t1>> :> Row("read_only", TRUE, OneVersion)}
MCQueries == {{}, {Url, A}, {Rec, Index}}
MCTerms   == {None, Url, A, <<"status">>}

Permit(t, mode) == [type |-> t, mode |-> mode]
Item(id, key, super, permissions) ==
  [id |-> id, key |-> key, super |-> super, permissions |-> permissions]
MCConfigs ==
  {[types |-> {t3}, items |-> <<Item(i1, k3, FALSE, <<Permit(t1, "read_and_write"), Permit(t3, "read_only")>>)>>],
   [types |-> {}, items |-> <<Item(i1, k1, FALSE, <<Permit(t3, "read_only")>>), Item(i2, k2, TRUE, <<>>)>>],
   [types |-> {}, items |-> <<Item(i2, k1, TRUE, <<>>), Item(i1, k2, FALSE, <<Permit(t2, "read_only")>>)>>]}
=============================================================================
