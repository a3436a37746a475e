---------------------------- MODULE MCZaakEvents ----------------------------
(* ZaakEvents on small instances. *)
EXTENDS ZaakEvents

CONSTANTS z1, z2, w1, w2, c1
=============================================================================
