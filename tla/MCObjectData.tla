----------------------------- MODULE MCObjectData -----------------------------
(* ObjectData on a small instance. *)
EXTENDS ObjectData

CONSTANTS u1, u2, t1, t2, r1, r2

\* "2" is read as a number, "2020" as a number and not as a year, "x" as no more than a text.
MCReads == ("1" :> [number |-> Number(1)]) @@ ("2" :> [number |-> Number(2)])
        @@ ("2020" :> [number |-> Number(2020), date |-> Str("2020-01-01")])
        @@ ("2020-01-01" :> [date |-> Str("2020-01-01"), datetime |-> Str("2020-01-01T00:00:00")])
        @@ ("nan" :> [number |-> NotANumber]) @@ ("x" :> <<>>)
MCOrder == ("1" :> 1) @@ ("2" :> 2) @@ ("2020" :> 3) @@ ("2020-01-01" :> 4) @@ ("2020-01-01T00:00:00" :> 5) @@ ("nan" :> 6) @@ ("x" :> 7)
MCHolds == [t \in DOMAIN MCReads |-> IF t = "2" THEN {"2", "2020", "2020-01-01"} ELSE {t}]

Leaves  == {Number(1), Number(2), Str("2"), Str("x"), Str("2020-01-01"), Null}
A(v)    == Obj("a" :> v)
AB(v, w) == Obj(("a" :> v) @@ ("b" :> w))
Inner   == {Obj(f) : f \in [{"a"} -> Leaves]} \cup {EmptyObject}
Flat    == Inner \cup {Obj("b" :> w) : w \in Inner} \cup {AB(v, w) : v \in Leaves, w \in Leaves \cup Inner}
List    == Arr(<<Number(1)>>)
MCValues == Flat \cup {Obj("b" :> w) : w \in Leaves} \cup {List}

\* Version 1 wants a number in a; version 2 a list, or an object in b and not 2 in a.
MCFits == (t1 :> <<{d \in Flat : At(d, <<"a">>).kind = "number"},
                   {List} \cup {d \in Flat : At(d, <<"b">>).kind = "object" /\ At(d, <<"a">>) # Number(2)}>>)
       @@ (t2 :> <<Flat>>)

Patch(version, data, start) == Body(Absent, version, data, Absent, start, Absent)
MCBodies ==
  {Body(t1, 1, A(Number(1)), Absent, 1, Absent),
   Body(t1, 2, List, TRUE, 2, 1),
   Body(t1, 2, AB(Str("2"), A(Number(2))), FALSE, 3, 0),
   Body(t1, 0, A(Str("x")), Absent, 2, Absent),
   Body(t2, 1, Absent, TRUE, 1, Absent),
   Body(t1, 1, Absent, Absent, 2, Absent),
   Patch(Absent, A(Null), Absent),
   Patch(2, Obj("b" :> A(Number(1))), 1),
   Patch(Absent, Absent, 2),
   Body(Absent, Absent, Obj("b" :> EmptyObject), TRUE, Absent, 1),
   Body(Absent, Absent, A(Number(1)), Absent, Absent, 2)}

MCInitial ==
  {(u1 :> <<row>>) @@ (u2 :> <<>>) :
     row \in {Row(1, A(Number(2)), FALSE, 1, 1, 0, TRUE), Row(2, List, FALSE, 2, 1, 0, TRUE)}}

MCWheres == {<<>>, <<Expr(<<"a">>, "gt", <<"1">>)>>, <<Expr(<<"a">>, "exact", <<"2">>)>>,
             <<Expr(<<"b", "a">>, "in", <<"2", "x">>)>>, <<Expr(<<"a">>, "exact", <<"1">>), Expr(<<"a">>, "lte", <<"2020">>)>>,
             <<Expr(<<"a">>, "gte", <<"x">>)>>, <<Expr(<<"a">>, "lt", <<"nan">>)>>}
MCTypeOf == (u1 :> t1) @@ (u2 :> t2)
MCSymmetry == Permutations(Requests)
MCPaths == {<<"a">>, <<"b">>, <<"b", "a">>}
=============================================================================
