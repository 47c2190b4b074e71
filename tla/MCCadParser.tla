---------------------------- MODULE MCCadParser ----------------------------
(* Requests, jobs and parts for checking CadParser with TLC. *)
EXTENDS CadParser

CONSTANTS r1, r2, j1, p1, p2
TwoRequests == {r1, r2}
OneJob == {j1}
TwoParts == {p1, p2}
=============================================================================
