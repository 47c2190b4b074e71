------------------------ MODULE LifecycleTransition ------------------------
(***************************************************************************)
(* Lifecycle transitions as the action dispatcher runs them, on top of the *)
(* authoring operations of PlmTransaction.                                 *)
(*                                                                         *)
(* The action "transition" is wrapped twice: LockWrapper, then             *)
(* TransactionWrapper in mode ISOLATED.  One request is therefore five     *)
(* database transactions (lock, open, apply, commit or roll back, unlock), *)
(* between which anything else may happen, the end of the server process   *)
(* included.                                                               *)
(***************************************************************************)
EXTENDS PlmTransaction

CONSTANTS
    Transitions,       \* [from, to, notCheckedOut]: the lifecycle graph, and
                       \*   whether the transition carries that guard
    StaleScreens,      \* may a transition be asked for a checked-out node?
    ParallelRequests,  \* may a user act while a transition of theirs runs?
    Crashes            \* may the server process end?

ASSUME TransitionsAssumption ==
    \A tr \in Transitions :
        tr.from \in States /\ tr.to \in States /\ tr.notCheckedOut \in BOOLEAN
ASSUME EnvironmentAssumption ==
    StaleScreens \in BOOLEAN /\ ParallelRequests \in BOOLEAN /\ Crashes \in BOOLEAN

VARIABLES
    req        \* the transition request of each user, as the thread sees it

allVars == <<vars, req>>

Idle == [phase |-> "idle"]
InPhase(u, p) == req[u].phase = p
GoTo(u, p) == req' = [req EXCEPT ![u].phase = p]

LInit == Init /\ req = [u \in Users |-> Idle]

-----------------------------------------------------------------------------
(* LockWrapper.wrap: tryLock before anything else *)
RequestTransition(u, n, tr) ==
    /\ InPhase(u, "idle")
    /\ StaleScreens \/ lockedBy[n] = NoUser
    /\ CanLock(n, u)
    /\ Lock(n, u)
    /\ req' = [req EXCEPT ![u] = [phase |-> "locked", node |-> n, tr |-> tr, tx |-> NoTx]]
    /\ UNCHANGED <<txVars, nodes, versions, comments>>

(* TransactionWrapper, ISOLATED: openTransaction *)
OpenIsolated(u) ==
    /\ InPhase(u, "locked")
    /\ Opened(u)
    /\ req' = [req EXCEPT ![u].phase = "opened", ![u].tx = nextTx]
    /\ UNCHANGED <<nodes, lockedBy, versions, comments>>

(* Fault: the lock is not released when the INSERT fails. *)
OpenIsolatedFailsLocked(u) ==
    /\ InPhase(u, "locked")
    /\ GoTo(u, "idle")
    /\ UNCHANGED vars

(* The INSERT fails before the wrapper's try block: only the lock is undone. *)
OpenIsolatedFails(u) ==
    /\ InPhase(u, "locked")
    /\ GoTo(u, "ending")
    /\ UNCHANGED vars

(* The guards that block; administrators skip them. *)
GuardHolds(u, n, tr) == u \in Admins \/ (tr.notCheckedOut => ~ hasOpenVersion(n))

(* Fault: the transition is not checked against the current state. *)
applyAnyTransition(u) ==
    LET n == req[u].node  tr == req[u].tr  t == req[u].tx IN
    /\ InPhase(u, "opened")
    /\ GuardHolds(u, n, tr)
    /\ txStatus[t] = "OPEN"
    /\ createVersion(n, t, tr.to, getCurrentVersionForTx(n, t).content)
    /\ CanLock(n, u)
    /\ Lock(n, u)
    /\ GoTo(u, "applied")
    /\ UNCHANGED <<txVars, nodes, comments>>

(* applyTransition: a new version in the target state *)
applyTransition(u) ==
    LET n == req[u].node  tr == req[u].tr  t == req[u].tx IN
    /\ InPhase(u, "opened")
    /\ GuardHolds(u, n, tr)
    /\ getLastCommittedVersion(n).state = tr.from
    /\ txStatus[t] = "OPEN"
    /\ createVersion(n, t, tr.to, getCurrentVersionForTx(n, t).content)
    /\ CanLock(n, u)
    /\ Lock(n, u)
    /\ GoTo(u, "applied")
    /\ UNCHANGED <<txVars, nodes, comments>>

(* A guard, a rule of the lifecycle or the database refuses.  Guards on     *)
(* signatures and on required attributes are not modelled, so any           *)
(* transition may be refused.                                               *)
RefuseTransition(u) ==
    /\ InPhase(u, "opened")
    /\ GoTo(u, "failed")
    /\ UNCHANGED vars

(* ISOLATED: commitTransaction(tx, null); it throws when the transaction    *)
(* is not committable, and when a pre-commit validator or the database      *)
(* refuses, so it may always fail.                                          *)
CommitIsolated(u) ==
    /\ InPhase(u, "applied")
    /\ Commit(u, req[u].tx, {})
    /\ GoTo(u, "ending")
CommitIsolatedFails(u) ==
    /\ InPhase(u, "applied")
    /\ GoTo(u, "failed")
    /\ UNCHANGED vars

(* ISOLATED: rollbackTransaction; whatever it throws is logged, no more: a  *)
(* comment on the version, a transaction ended meanwhile, the database.     *)
RollbackIsolated(u) ==
    /\ InPhase(u, "failed")
    /\ rollbackTransaction(u, req[u].tx)
    /\ GoTo(u, "ending")
RollbackIsolatedFails(u) ==
    /\ InPhase(u, "failed")
    /\ GoTo(u, "ending")
    /\ UNCHANGED vars

(* LockWrapper.wrap, finally: unlock whoever holds the lock by now *)
EndTransition(u) ==
    /\ InPhase(u, "ending")
    /\ Unlock({req[u].node})
    /\ req' = [req EXCEPT ![u] = Idle]
    /\ UNCHANGED <<txVars, nodes, versions, comments>>
(* The unlock throws: it is logged, the request ends and the lock stays. *)
EndTransitionFails(u) ==
    /\ InPhase(u, "ending")
    /\ req' = [req EXCEPT ![u] = Idle]
    /\ UNCHANGED vars

(* The server process ends; running requests are gone, the tables remain. *)
Crash ==
    /\ Crashes
    /\ \E u \in Users : ~ InPhase(u, "idle")
    /\ req' = [u \in Users |-> Idle]
    /\ UNCHANGED vars

TransitionStep(u) ==
    \/ OpenIsolated(u) \/ OpenIsolatedFails(u)
    \/ applyTransition(u) \/ RefuseTransition(u)
    \/ CommitIsolated(u) \/ CommitIsolatedFails(u)
    \/ RollbackIsolated(u) \/ RollbackIsolatedFails(u)
    \/ EndTransition(u) \/ EndTransitionFails(u)

AuthoringStep(u) ==
    /\ ParallelRequests \/ InPhase(u, "idle")
    /\ UserStep(u)
    /\ UNCHANGED req

LNext ==
    \/ \E u \in Users :
         \/ AuthoringStep(u)
         \/ \E n \in Nodes, tr \in Transitions : RequestTransition(u, n, tr)
         \/ TransitionStep(u)
    \/ \E v \in versions : AddComment(v) /\ UNCHANGED req
    \/ \E cutoff \in TxIds : cleanStaleTransactions(cutoff) /\ UNCHANGED req
    \/ Crash

LSpec == LInit /\ [][LNext]_allVars

(* A request thread that runs keeps running: the servlet container does not *)
(* suspend it, and only a crash ends it early.                              *)
FairLSpec == LSpec /\ \A u \in Users : WF_allVars(TransitionStep(u))

-----------------------------------------------------------------------------
(* The phase and the transaction of a running request agree. *)
LTypeOK ==
    /\ TypeOK
    /\ \A u \in Users : InPhase(u, "idle") \/
         /\ req[u].phase \in {"locked", "opened", "applied", "failed", "ending"}
         /\ req[u].node \in Nodes /\ req[u].tr \in Transitions
         /\ req[u].tx \in TxIds \/ (req[u].tx = NoTx /\ req[u].phase \in {"locked", "ending"})

(* previous_version_id forms one chain per node without gap or fork, to     *)
(* which one transaction at a time adds, also when a request slips into the *)
(* isolated transaction of a transition, which then adds a second version:  *)
(* a predecessor is committed, or is committed with its successor.          *)
OneChain ==
    /\ \A v \in versions :
          /\ v.num = v.prev + 1
          /\ v.prev # 0 => \E w \in versions :
                /\ w.node = v.node /\ w.num = v.prev
                /\ w.tx = v.tx \/ txStatus[w.tx] = "COMMITTED"
          /\ \A w \in versions : v.node = w.node /\ v.num = w.num => v = w
    /\ \A v, w \in OpenRows : v.node = w.node => v.tx = w.tx

(* A frozen node's content is fixed: a version that follows a frozen one    *)
(* carries the same content, so only the state changes, also when editing   *)
(* requests interleave with a freezing transition.                          *)
FrozenContentFixed == \A v, w \in versions :
    (w.node = v.node /\ w.num = v.prev /\ w.state \in FrozenStates)
        => v.content = w.content

(* The lifecycle graph is respected by the committed history: consecutive   *)
(* versions have the same state or the ends of a transition, and no second  *)
(* request can act on a state that another one has left meanwhile.          *)
HistoryFollowsLifecycle == \A v, w \in versions :
    (w.node = v.node /\ w.num = v.prev /\ v.state # w.state)
        => \E tr \in Transitions : tr.from = w.state /\ tr.to = v.state

(* What nobody will clear up: a lock without a version in progress and      *)
(* without a transition running on the node, or a node row without version. *)
Unexplained(n) ==
    /\ n \in nodes
    /\ \/ /\ lockedBy[n] # NoUser
          /\ ~ hasOpenVersion(n)
          /\ ~ \E u \in Users : ~ InPhase(u, "idle") /\ req[u].node = n
       \/ \A v \in versions : v.node # n

(* The paths of a transition, those on which opening, applying, committing  *)
(* or rolling back fails included, and the requests beside it leave no lock *)
(* without a reason.  Only three events do: the unlock of LockWrapper       *)
(* throws, the server process ends within a transition, the clean-up job    *)
(* deletes the version in progress.                                         *)
LocksKeepReasons ==
    [][\A n \in Nodes : Unexplained(n)' =>
          \/ Unexplained(n)
          \/ \E u \in Users : EndTransitionFails(u)
          \/ Crash
          \/ \E cutoff \in TxIds : cleanStaleTransactions(cutoff)]_allVars

-----------------------------------------------------------------------------
(* What the comments and the documentation promise of the lock *)

(* LockWrapper "releases it after (regardless of success/failure)": a lock  *)
(* without a version in progress does not last.  It does not hold, because  *)
(* of EndTransitionFails (see README.md).                                   *)
LockReleased == \A n \in Nodes :
    (lockedBy[n] # NoUser /\ ~ hasOpenVersion(n)) ~> (lockedBy[n] = NoUser \/ hasOpenVersion(n))

(* The lock is exclusive: no step of one user's transition takes away the   *)
(* lock that another user holds.                                            *)
ExclusiveLock ==
    [][\A u \in Users : TransitionStep(u) => \A n \in Nodes :
          lockedBy[n] \in {NoUser, u} \/ lockedBy'[n] = lockedBy[n]]_allVars
=============================================================================
