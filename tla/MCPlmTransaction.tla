-------------------------- MODULE MCPlmTransaction --------------------------
(***************************************************************************)
(* Model values and symmetry for checking PlmTransaction with TLC.  Users,  *)
(* nodes and the non-empty contents are interchangeable; Admins is empty or *)
(* all users wherever users are permuted.                                   *)
(***************************************************************************)
EXTENDS PlmRefinement, TLC

CONSTANTS u1, u2, n1, n2, c0, c1

TwoUsers == {u1, u2}
TwoNodes == {n1, n2}
TwoContents == {c0, c1}
NoDeviations == {}

(* What VersionedItems tolerates. *)
HistorySafe == AllDeviations \ {ClosedTx, CommittedLink}

SymUsersNodes == Permutations({u1, u2}) \cup Permutations({n1, n2})
=============================================================================
