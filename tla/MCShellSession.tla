--------------------------- MODULE MCShellSession ---------------------------
(* Users and spaces for checking ShellSession with TLC. *)
EXTENDS ShellSession

CONSTANTS alice, bob, ps1, ps2
TwoUsers == {alice, bob}
TwoSpaces == {ps1, ps2}
Homes == [u \in TwoUsers |-> IF u = alice THEN ps1 ELSE ps2]
=============================================================================
