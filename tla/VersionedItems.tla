--------------------------- MODULE VersionedItems ---------------------------
(***************************************************************************)
(* What the authoring core promises, without transactions, locks or        *)
(* tables: every item has a published history that only grows, and at most *)
(* one draft, whose publication appends exactly one entry that differs     *)
(* from the one before it.                                                 *)
(***************************************************************************)
EXTENDS Naturals, Sequences

CONSTANTS Items,    \* the things that are versioned
          Values,   \* what a version says: lifecycle state and content
          NoDraft

VARIABLES history,  \* the published values of each item, oldest first
          draft     \* the value in progress, or NoDraft

itemVars == <<history, draft>>

Init ==
    /\ history = [i \in Items |-> <<>>]
    /\ draft = [i \in Items |-> NoDraft]

(* Work on an item starts, or goes on. *)
Write(i, x) ==
    /\ draft' = [draft EXCEPT ![i] = x]
    /\ UNCHANGED history

(* Some drafts are published together. *)
Publishable(i) ==
    /\ draft[i] # NoDraft
    /\ history[i] # <<>> => draft[i] # history[i][Len(history[i])]
Publish(S) ==
    /\ \A i \in S : Publishable(i)
    /\ history' = [i \in Items |->
                      IF i \in S THEN Append(history[i], draft[i]) ELSE history[i]]
    /\ draft' = [i \in Items |-> IF i \in S THEN NoDraft ELSE draft[i]]

(* Some drafts are given up. *)
Discard(S) ==
    /\ draft' = [i \in Items |-> IF i \in S THEN NoDraft ELSE draft[i]]
    /\ UNCHANGED history

Next ==
    \/ \E i \in Items, x \in Values : Write(i, x)
    \/ \E S \in (SUBSET Items) \ {{}} : Publish(S) \/ Discard(S)

Spec == Init /\ [][Next]_itemVars
=============================================================================
