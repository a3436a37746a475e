----------------------------- MODULE MCStartUp -----------------------------
(* Two objects with two records each. *)
EXTENDS StartUpProofs, TLC

CONSTANTS r1, r2, r3, r4, o1, o2

MCObjectOf == (r1 :> o1) @@ (r2 :> o1) @@ (r3 :> o2) @@ (r4 :> o2)

=============================================================================
