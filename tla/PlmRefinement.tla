---------------------------- MODULE PlmRefinement ----------------------------
(***************************************************************************)
(* PlmTransaction implements VersionedItems: a node's history is what its  *)
(* committed versions say, in version_number order, and its draft is what  *)
(* its version in progress says.                                           *)
(***************************************************************************)
EXTENDS PlmTransaction

historyOf(n) ==
    [i \in {v.num : v \in CommittedRows(n)} |->
        fingerprint(CHOOSE v \in CommittedRows(n) : v.num = i)]

NoDraft == <<>>
draftOf(n) ==
    IF hasOpenVersion(n)
    THEN fingerprint(CHOOSE v \in OpenRows : v.node = n)
    ELSE NoDraft

Abstract == INSTANCE VersionedItems WITH
    Items   <- Nodes,
    Values  <- (States \cup {NoState}) \X Contents,
    history <- [n \in Nodes |-> historyOf(n)],
    draft   <- [n \in Nodes |-> draftOf(n)]

(* Whatever is locked, deferred, released, rolled back or cleaned up, by    *)
(* administrators too, the tables behave like append-only histories with    *)
(* one draft per node.  (Requests that carry a committed transaction's id   *)
(* and link deletions on committed versions break this.)                    *)
ImplementsVersionedItems == Abstract!Spec
=============================================================================
