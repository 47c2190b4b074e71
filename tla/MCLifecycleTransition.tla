----------------------- MODULE MCLifecycleTransition -----------------------
(***************************************************************************)
(* The lifecycle seeded for parts (In Work, Frozen, Released), its freeze,  *)
(* unfreeze, release and revise transitions, and instances of the           *)
(* environment for checking LifecycleTransition with TLC.                   *)
(***************************************************************************)
EXTENDS LifecycleTransition, TLC

CONSTANTS u1, u2, n1, c0, c1

TwoUsers == {u1, u2}
OneNode == {n1}
TwoContents == {c0, c1}
PartStates == {"InWork", "Frozen", "Released"}
PartFrozen == {"Frozen", "Released"}
PartTransitions == {
    [from |-> "InWork",   to |-> "Frozen",   notCheckedOut |-> TRUE],
    [from |-> "Frozen",   to |-> "InWork",   notCheckedOut |-> FALSE],
    [from |-> "Frozen",   to |-> "Released", notCheckedOut |-> FALSE],
    [from |-> "Released", to |-> "InWork",   notCheckedOut |-> FALSE]}
(* A node starts in work and cannot be revised within three versions. *)
FirstTransitions == {tr \in PartTransitions : tr.from # "Released"}
NoDeviations == {}

SymUsers == Permutations({u1, u2})
=============================================================================
