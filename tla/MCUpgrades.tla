----------------------------- MODULE MCUpgrades -----------------------------
(* One service below another, and an object type of each; one of no service *)
(* and one without a uuid.                                                  *)
EXTENDS Upgrades

CONSTANTS a, b, c

MCRoots == {<<"ot">>, <<"ot", "api">>}
MCUrls  == {[path |-> <<"ot", "api">>, uuid |-> a],
            [path |-> <<"ot", "old">>, uuid |-> b],
            [path |-> <<"elsewhere">>, uuid |-> c],
            [path |-> <<"ot">>, uuid |-> Null]}
MCReleases == {<<2, 0>>, <<15, 1>>, <<29, 10>>, <<40, 17>>}

=============================================================================
