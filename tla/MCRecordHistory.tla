--------------------------- MODULE MCRecordHistory ---------------------------
(* RecordHistory on small instances, with the invariant its proofs rest on. *)
EXTENDS RecordHistoryProofs, TLC

CONSTANTS o1, o2, t1, t2, t3

\* The API changes and deletes an object.
ApiRequests == {o1} \X {"put", "patch", "delete"}

\* The API changes and deletes one object and the admin changes another: every kind
\* of lock is held and waited for, without a circle.
LockRequests == {<<o1, "patch">>, <<o1, "delete">>, <<o2, "admin">>}

\* The admin saves an object that the API deletes.
MixedRequests == {o1} \X {"put", "admin", "delete"}

\* The transactions are interchangeable.
Symmetry == Permutations(Txns)
=============================================================================
