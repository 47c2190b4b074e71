--------------------------- MODULE PlmTransaction ---------------------------
(***************************************************************************)
(* The authoring core of psm-api: PLM transactions, check-out locks and    *)
(* node versions, as they stand in the tables plm_transaction, node and    *)
(* node_version.                                                           *)
(*                                                                         *)
(* Every operation is a Spring @Transactional method, hence one database   *)
(* transaction: it happens completely or, when it throws, not at all.  An  *)
(* action below is the successful outcome of one such method; its guard is *)
(* the conjunction of the conditions under which the method does not       *)
(* throw.  The action wrappers (AUTO_OPEN, ISOLATED, lock) run several     *)
(* methods in separate database transactions, so they are sequences of     *)
(* actions here.                                                           *)
(*                                                                         *)
(* A node row is identified with its logical id.  Transaction ids are      *)
(* UUIDs in the code; here they are numbers given out in created_at order. *)
(***************************************************************************)
EXTENDS Naturals, FiniteSets

CONSTANTS
    Users,          \* user ids that issue requests
    Admins,         \* the users for which SecurityContext.isAdmin() holds
    NoUser,         \* SQL NULL in node.locked_by
    Nodes,          \* logical ids
    Contents,       \* what a stored fingerprint tells apart beyond the state:
                    \*   attribute values and domains of the version, and the
                    \*   links of its node up to and including it
    EmptyContent,   \* a version without attributes, links or domains
    States,         \* lifecycle states
    InitialState,   \* the state whose isInitial flag is set
    FrozenStates,   \* the states whose metadata key "frozen" is "true"
    NoState,        \* SQL NULL in node_version.lifecycle_state_id
    Deviations,     \* what requests do beyond the check-out discipline
    StaleCleanup,   \* does the hourly clean-up job run?
    MaxTx,          \* bound: transactions ever opened
    MaxVersion,     \* bound: version_number
    MaxComments     \* bound: commented versions

(***************************************************************************)
(* A disciplined client names, in X-PLM-Tx or in the path, a transaction   *)
(* that is its own and still open, releases only nodes of that             *)
(* transaction, deletes only links of versions that are checked out, and   *)
(* leaves links and domains of a frozen node alone.  These are the actions *)
(* a user interface offers; the services do not enforce them, and each     *)
(* deviation is one way out.                                               *)
(***************************************************************************)
ClosedTx      == "closedTx"       \* a request carries the id of a committed tx
OtherTx       == "otherTx"        \* a request carries somebody else's tx id
OtherNodes    == "otherNodes"     \* a release lists nodes outside the tx
CommittedLink == "committedLink"  \* a link of a committed version is deleted
FrozenEdit    == "frozenEdit"     \* links or domains of a frozen node change
AllDeviations == {ClosedTx, OtherTx, OtherNodes, CommittedLink, FrozenEdit}

ASSUME UsersAssumption      == Admins \subseteq Users /\ NoUser \notin Users
ASSUME ContentAssumption    == EmptyContent \in Contents
ASSUME StateAssumption      ==
    /\ InitialState \in States
    /\ FrozenStates \subseteq States
    /\ NoState \notin States
    /\ InitialState \notin FrozenStates
ASSUME DeviationsAssumption == Deviations \subseteq AllDeviations
ASSUME CleanupAssumption    == StaleCleanup \in BOOLEAN
ASSUME BoundsAssumption     ==
    MaxTx \in Nat /\ MaxVersion \in Nat /\ MaxComments \in Nat

VARIABLES
    txStatus,   \* plm_transaction.status, "none" when there is no such row
    txOwner,    \* plm_transaction.owner_id
    nextTx,     \* the id the next transaction gets
    nodes,      \* rows of table node
    lockedBy,   \* node.locked_by (NoUser also for nodes without a row)
    versions,   \* rows of table node_version
    comments    \* <<node, num>> of the versions node_version_comment refers to

vars == <<txStatus, txOwner, nextTx, nodes, lockedBy, versions, comments>>
txVars == <<txStatus, txOwner, nextTx>>

TxIds == 1..MaxTx
NoTx == 0           \* a request without a transaction id

(* A row of node_version.  prev is the number of the row that              *)
(* previous_version_id refers to, 0 for NULL.                              *)
Version == [node : Nodes, num : 1..MaxVersion, tx : TxIds, prev : 0..MaxVersion,
            state : States \cup {NoState}, content : Contents]

-----------------------------------------------------------------------------
(* Queries *)

RowsIn(t) == {v \in versions : v.tx = t}
RowsOf(n, t) == {v \in RowsIn(t) : v.node = n}
OpenRows == {v \in versions : txStatus[v.tx] = "OPEN"}
CommittedRows(n) == {v \in versions : v.node = n /\ txStatus[v.tx] = "COMMITTED"}
OpenTxs(u) == {t \in TxIds : txStatus[t] = "OPEN" /\ txOwner[t] = u}

(* ORDER BY version_number DESC LIMIT 1; no row reads as NoVersion, whose  *)
(* fields are the defaults createVersion uses when current is null.        *)
NoVersion == [num |-> 0, state |-> NoState, content |-> EmptyContent]
Latest(rows) ==
    IF rows = {} THEN NoVersion
    ELSE CHOOSE v \in rows : \A w \in rows : w.num <= v.num

getLastCommittedVersion(n) == Latest(CommittedRows(n))
getCurrentVersionForTx(n, t) ==
    IF RowsOf(n, t) # {} THEN Latest(RowsOf(n, t)) ELSE getLastCommittedVersion(n)

hasOpenVersion(n) == \E v \in OpenRows : v.node = n
assertNotFrozen(n) == getLastCommittedVersion(n).state \notin FrozenStates

(* SHA-256 over state, attributes, links and domains; not over the          *)
(* predecessor, so that an unchanged copy has its predecessor's value: it   *)
(* has the same attributes and domains, and inherits the links.  The value  *)
(* is stored with the row and recomputed for that row only.                 *)
fingerprint(v) == <<v.state, v.content>>
NoOp(v) == \E w \in versions :
    w.node = v.node /\ w.num = v.prev /\ fingerprint(w) = fingerprint(v)

(* Faults: the status, or the owner, of the transaction is not tested. *)
OwnsAnyTx(u, t) == txStatus[t] # "none" /\ (u \in Admins \/ txOwner[t] = u)
AnyOpenTx(u, t) == txStatus[t] = "OPEN"

(* loadAndVerifyOwnership *)
OwnsOpenTx(u, t) == txStatus[t] = "OPEN" /\ (u \in Admins \/ txOwner[t] = u)

(* findOpenTransaction: jOOQ's fetchOne throws when two rows match.         *)
AtMostOneOpenTx(u) == \A s, t \in OpenTxs(u) : s = t

(* Links and domains are changed without a test for frozen states. *)
MayEditStructure(n) == assertNotFrozen(n) \/ FrozenEdit \in Deviations

(* The transaction ids a content request of user u may carry. *)
NamesTx(u, t) ==
    /\ txStatus[t] = "OPEN" \/ (ClosedTx \in Deviations /\ txStatus[t] = "COMMITTED")
    /\ txOwner[t] = u \/ OtherTx \in Deviations

-----------------------------------------------------------------------------
(* Effects shared by several operations *)

(* LockService.tryLock and unlock *)
CanLock(n, u) == n \in nodes /\ lockedBy[n] \in {NoUser, u}
Lock(n, u) == lockedBy' = [lockedBy EXCEPT ![n] = u]
Unlock(S) == lockedBy' = [n \in Nodes |-> IF n \in S THEN NoUser ELSE lockedBy[n]]

(* openTransaction: a plain INSERT, whatever the user already has open. *)
Opened(u) ==
    /\ nextTx <= MaxTx
    /\ txStatus' = [txStatus EXCEPT ![nextTx] = "OPEN"]
    /\ txOwner' = [txOwner EXCEPT ![nextTx] = u]
    /\ nextTx' = nextTx + 1

(* find the user's open transaction, or open one; t is the one used *)
FoundOrOpened(u, t) ==
    \/ t \in OpenTxs(u) /\ AtMostOneOpenTx(u) /\ UNCHANGED txVars
    \/ OpenTxs(u) = {} /\ t = nextTx /\ Opened(u)

(* Fault: UNIQUE (node_id, version_number) is missing. *)
InsertedUnchecked(row) == row.num <= MaxVersion /\ versions' = versions \cup {row}

(* INSERT INTO node_version under UNIQUE (node_id, version_number) *)
Inserted(row) ==
    /\ row.num <= MaxVersion
    /\ ~ \E v \in versions : v.node = row.node /\ v.num = row.num
    /\ versions' = versions \cup {row}

(* Faults: the number is not raised, or is raised above every row's. *)
SuccessorSameNumber(n, t, newState, content) ==
    LET cur == getCurrentVersionForTx(n, t) IN
    [node |-> n, num |-> cur.num, tx |-> t, prev |-> cur.num,
     state |-> IF newState # NoState THEN newState ELSE cur.state,
     content |-> content]
SuccessorOfMax(n, t, newState, content) ==
    LET cur == getCurrentVersionForTx(n, t) IN
    [node |-> n, num |-> Latest({v \in versions : v.node = n}).num + 1, tx |-> t,
     prev |-> cur.num,
     state |-> IF newState # NoState THEN newState ELSE cur.state,
     content |-> content]

(* VersionService.createVersion: the successor, in t, of the version that  *)
(* t sees; newState = NoState keeps the state.                             *)
Successor(n, t, newState, content) ==
    LET cur == getCurrentVersionForTx(n, t) IN
    [node |-> n, num |-> cur.num + 1, tx |-> t, prev |-> cur.num,
     state |-> IF newState # NoState THEN newState ELSE cur.state,
     content |-> content]
createVersion(n, t, newState, content) == Inserted(Successor(n, t, newState, content))

(* updateVersionAttributes, and every other rewrite of one row's content *)
Rewritten(v, content) ==
    versions' = (versions \ {v}) \cup {[v EXCEPT !.content = content]}

(* DELETE FROM node_version: refused by the foreign key of a comment *)
Deletable(rows) == \A v \in rows : <<v.node, v.num>> \notin comments
Orphans(S, rows) == {n \in S : \A v \in versions \ rows : v.node # n}

(* Deleted transaction rows *)
TxsDeleted(S) ==
    /\ txStatus' = [t \in TxIds |-> IF t \in S THEN "none" ELSE txStatus[t]]
    /\ txOwner' = [t \in TxIds |-> IF t \in S THEN NoUser ELSE txOwner[t]]
    /\ UNCHANGED nextTx

-----------------------------------------------------------------------------
(* Operations *)

Init ==
    /\ txStatus = [t \in TxIds |-> "none"]
    /\ txOwner = [t \in TxIds |-> NoUser]
    /\ nextTx = 1
    /\ nodes = {}
    /\ lockedBy = [n \in Nodes |-> NoUser]
    /\ versions = {}
    /\ comments = {}

(* openTransaction, from the controller or from a transaction wrapper *)
OpenTransaction(u) == Opened(u) /\ UNCHANGED <<nodes, lockedBy, versions, comments>>

(* createNode: always in the user's own open transaction, found or opened *)
CreateNode(u, n) ==
    /\ n \notin nodes
    /\ nodes' = nodes \cup {n}
    /\ Lock(n, u)
    /\ \E t \in TxIds :
          /\ FoundOrOpened(u, t)
          /\ Inserted([node |-> n, num |-> 1, tx |-> t, prev |-> 0,
                       state |-> InitialState, content |-> EmptyContent])
    /\ UNCHANGED comments

(* checkout: idempotent when the node already has a version in the tx *)
CheckoutInto(n, t) ==
    \/ RowsOf(n, t) # {} /\ UNCHANGED versions
    \/ /\ RowsOf(n, t) = {}
       /\ createVersion(n, t, NoState, getCurrentVersionForTx(n, t).content)
Checkout(u, n, t) ==
    /\ assertNotFrozen(n)
    /\ CanLock(n, u)
    /\ Lock(n, u)
    /\ \/ /\ t # NoTx
          /\ NamesTx(u, t)
          /\ RowsOf(n, t) = {} => txStatus[t] = "OPEN"
          /\ CheckoutInto(n, t)
          /\ UNCHANGED txVars
       \/ /\ t = NoTx
          /\ \E s \in TxIds : FoundOrOpened(u, s) /\ CheckoutInto(n, s)
    /\ UNCHANGED <<nodes, comments>>

(* Writes content into the version of n in t, creating it when there is none. *)
WriteInTx(u, n, t, content) ==
    /\ NamesTx(u, t)
    /\ CanLock(n, u)
    /\ Lock(n, u)
    /\ \/ \E v \in RowsOf(n, t) : v = Latest(RowsOf(n, t)) /\ Rewritten(v, content)
       \/ /\ RowsOf(n, t) = {}
          /\ txStatus[t] = "OPEN"
          /\ createVersion(n, t, NoState, content)
    /\ UNCHANGED <<txVars, nodes, comments>>

(* Fault: a frozen state is not tested. *)
ModifyFrozen(u, n, t, content) == content # EmptyContent /\ WriteInTx(u, n, t, content)

(* modifyNode merges attribute values, so it never empties a version. *)
ModifyNode(u, n, t, content) ==
    /\ assertNotFrozen(n)
    /\ content # EmptyContent
    /\ WriteInTx(u, n, t, content)

(* createLink adds a link to the version. *)
CreateLink(u, n, t, content) ==
    /\ content # EmptyContent
    /\ MayEditStructure(n)
    /\ WriteInTx(u, n, t, content)

(* deleteLink changes whichever version carries the link, whatever the tx. *)
DeleteLink(u, v, content) ==
    /\ v.content # EmptyContent
    /\ content # v.content
    /\ v \in OpenRows \/ CommittedLink \in Deviations
    /\ MayEditStructure(v.node)
    /\ CanLock(v.node, u)
    /\ Lock(v.node, u)
    /\ Rewritten(v, content)
    /\ UNCHANGED <<txVars, nodes, comments>>

(* assign_domain and unassign_domain change the version without locking. *)
AssignDomain(u, n, t, content) ==
    /\ NamesTx(u, t)
    /\ MayEditStructure(n)
    /\ \E v \in RowsOf(n, t) : v = Latest(RowsOf(n, t)) /\ Rewritten(v, content)
    /\ UNCHANGED <<txVars, nodes, lockedBy, comments>>

(* addComment, on any version *)
AddComment(v) ==
    /\ <<v.node, v.num>> \notin comments
    /\ Cardinality(comments) < MaxComments
    /\ comments' = comments \cup {<<v.node, v.num>>}
    /\ UNCHANGED <<txVars, nodes, lockedBy, versions>>

(* commitTransaction: an empty selection commits everything; rows that are *)
(* not selected move to a continuation transaction of the caller.          *)
Deferred(t, sel) == IF sel = {} THEN {} ELSE {v \in RowsIn(t) : v.node \notin sel}
CommitAll(t) ==
    /\ txStatus' = [txStatus EXCEPT ![t] = "COMMITTED"]
    /\ UNCHANGED <<txOwner, nextTx, versions>>
(* Fault: the deferred rows are not moved to the continuation. *)
CommitPartUnmoved(u, t, deferred) ==
    /\ nextTx <= MaxTx
    /\ txOwner' = [txOwner EXCEPT ![nextTx] = u]
    /\ nextTx' = nextTx + 1
    /\ txStatus' = [txStatus EXCEPT ![t] = "COMMITTED", ![nextTx] = "OPEN"]
    /\ UNCHANGED versions
CommitPart(u, t, deferred) ==
    /\ nextTx <= MaxTx
    /\ txStatus' = [txStatus EXCEPT ![t] = "COMMITTED", ![nextTx] = "OPEN"]
    /\ txOwner' = [txOwner EXCEPT ![nextTx] = u]
    /\ nextTx' = nextTx + 1
    /\ versions' = (versions \ deferred) \cup {[v EXCEPT !.tx = nextTx] : v \in deferred}
(* Fault: versions without a change are not refused. *)
CommittableNoOp(u, t, kept) == OwnsOpenTx(u, t) /\ kept # {}
Committable(u, t, kept) == OwnsOpenTx(u, t) /\ kept # {} /\ \A v \in kept : ~ NoOp(v)
(* Fault: the nodes of deferred rows are unlocked too. *)
CommitUnlockingAll(u, t, sel) ==
    LET deferred == Deferred(t, sel)
        kept == RowsIn(t) \ deferred IN
    /\ Committable(u, t, kept)
    /\ \/ deferred = {} /\ CommitAll(t)
       \/ deferred # {} /\ CommitPart(u, t, deferred)
    /\ Unlock({v.node : v \in RowsIn(t)})
    /\ UNCHANGED <<nodes, comments>>
Commit(u, t, sel) ==
    LET deferred == Deferred(t, sel)
        kept == RowsIn(t) \ deferred IN
    /\ Committable(u, t, kept)
    /\ \/ deferred = {} /\ CommitAll(t)
       \/ deferred # {} /\ CommitPart(u, t, deferred)
    /\ Unlock({v.node : v \in kept})
    /\ UNCHANGED <<nodes, comments>>

(* releaseNodes: the partial rollback; unlocks every listed node *)
ReleaseNodes(u, t, S) ==
    LET rows == {v \in RowsIn(t) : v.node \in S} IN
    /\ OwnsOpenTx(u, t)
    /\ S # {}
    /\ OtherNodes \in Deviations \/ S \subseteq {v.node : v \in RowsIn(t)}
    /\ Deletable(rows)
    /\ versions' = versions \ rows
    /\ nodes' = nodes \ Orphans(S, rows)
    /\ Unlock(S)
    /\ TxsDeleted(IF RowsIn(t) \subseteq rows THEN {t} ELSE {})
    /\ UNCHANGED comments

(* Fault: nodes that lose their only version are kept. *)
rollbackKeepingNodes(u, t) ==
    /\ OwnsOpenTx(u, t)
    /\ Deletable(RowsIn(t))
    /\ Unlock({v.node : v \in RowsIn(t)})
    /\ versions' = versions \ RowsIn(t)
    /\ TxsDeleted({t})
    /\ UNCHANGED <<nodes, comments>>
rollbackTransaction(u, t) ==
    LET affected == {v.node : v \in RowsIn(t)} IN
    /\ OwnsOpenTx(u, t)
    /\ Deletable(RowsIn(t))
    /\ Unlock(affected)
    /\ versions' = versions \ RowsIn(t)
    /\ nodes' = nodes \ Orphans(affected, RowsIn(t))
    /\ TxsDeleted({t})
    /\ UNCHANGED comments

(* Fault: the job does not test that a transaction is open. *)
cleanOldTransactions(cutoff) ==
    LET stale == {t \in TxIds : t <= cutoff /\ txStatus[t] # "none"}
        rows == {v \in versions : v.tx \in stale} IN
    /\ StaleCleanup
    /\ stale # {}
    /\ Deletable(rows)
    /\ versions' = versions \ rows
    /\ TxsDeleted(stale)
    /\ UNCHANGED <<nodes, lockedBy, comments>>

(* cleanStaleTransactions: every transaction still open that was created    *)
(* before the cut-off; neither locks nor nodes are touched.                 *)
cleanStaleTransactions(cutoff) ==
    LET stale == {t \in TxIds : t <= cutoff /\ txStatus[t] = "OPEN"}
        rows == {v \in versions : v.tx \in stale} IN
    /\ StaleCleanup
    /\ stale # {}
    /\ Deletable(rows)
    /\ versions' = versions \ rows
    /\ TxsDeleted(stale)
    /\ UNCHANGED <<nodes, lockedBy, comments>>

UserStep(u) ==
    \/ OpenTransaction(u)
    \/ \E n \in Nodes : CreateNode(u, n)
    \/ \E n \in Nodes, t \in TxIds \cup {NoTx} : Checkout(u, n, t)
    \/ \E n \in Nodes, t \in TxIds, c \in Contents :
         \/ ModifyNode(u, n, t, c)
         \/ CreateLink(u, n, t, c)
         \/ AssignDomain(u, n, t, c)
    \/ \E v \in versions, c \in Contents : DeleteLink(u, v, c)
    \/ \E t \in TxIds, S \in SUBSET Nodes :
         \/ Commit(u, t, S)
         \/ ReleaseNodes(u, t, S)
    \/ \E t \in TxIds : rollbackTransaction(u, t)

Next ==
    \/ \E u \in Users : UserStep(u)
    \/ \E v \in versions : AddComment(v)
    \/ \E cutoff \in TxIds : cleanStaleTransactions(cutoff)

Spec == Init /\ [][Next]_vars

-----------------------------------------------------------------------------
(* Properties that hold whatever the requests do *)

(* Every column has its type: in particular locks and transactions belong   *)
(* to users, and version numbers stay within the bound.                     *)
TypeOK ==
    /\ txStatus \in [TxIds -> {"none", "OPEN", "COMMITTED"}]
    /\ txOwner \in [TxIds -> Users \cup {NoUser}]
    /\ nextTx \in 1..(MaxTx + 1)
    /\ nodes \subseteq Nodes
    /\ lockedBy \in [Nodes -> Users \cup {NoUser}]
    /\ versions \subseteq Version
    /\ comments \subseteq (Nodes \X (1..MaxVersion))

(* However locks are lost or bypassed, a node never has two versions in     *)
(* progress: createVersion numbers a draft from the last committed version, *)
(* and UNIQUE (node_id, version_number) refuses the second one.             *)
SingleDraft == \A v, w \in OpenRows : v.node = w.node => v = w

(* No lost update: a version in progress stands on the node's last          *)
(* committed version, also when other transactions were committed, deferred *)
(* or rolled back since it was created.                                     *)
DraftOnHead == \A v \in OpenRows :
    v.prev = getLastCommittedVersion(v.node).num /\ v.num = v.prev + 1

(* previous_version_id forms one chain per node without gap or fork, whose  *)
(* inner links are all committed: rolling back, releasing or cleaning up    *)
(* never removes a version that another one was built on.                   *)
LinearHistory == \A v \in versions :
    /\ v.num = v.prev + 1
    /\ v.prev # 0 => \E w \in CommittedRows(v.node) : w.num = v.prev
    /\ \A w \in versions : v.node = w.node /\ v.num = w.num => v = w

-----------------------------------------------------------------------------
(* Properties of the check-out discipline *)

(* A committed version is never changed, moved to another transaction or    *)
(* deleted (requests carrying a committed transaction's id, and link        *)
(* deletions on committed versions, excepted: see the deviations).          *)
CommittedImmutable ==
    [][\A v \in versions : txStatus[v.tx] = "COMMITTED" =>
          v \in versions' /\ txStatus'[v.tx] = "COMMITTED"]_vars

(* No committed version repeats its predecessor: commitTransaction refuses  *)
(* no-op versions, and nothing it compared changes afterwards.              *)
ChangeRecorded == \A n \in Nodes : \A v \in CommittedRows(n) : ~ NoOp(v)

(* "Lock follows the version": a version in progress is locked by the owner *)
(* of its transaction, through check-out, partial commit and release.       *)
LockFollowsVersion == \A v \in OpenRows : lockedBy[v.node] = txOwner[v.tx]

(* What a transaction may leave behind: a lock without a version in         *)
(* progress, or a node row without a version.                               *)
Residue(n) ==
    /\ n \in nodes
    /\ \/ lockedBy[n] # NoUser /\ ~ hasOpenVersion(n)
       \/ \A v \in versions : v.node # n

(* No request of a user leaves residue: commit, release and rollback end a  *)
(* transaction completely, in whatever order, also on nodes that the hourly *)
(* clean-up job left behind; that job is the only source of residue.        *)
ResidueOnlyByCleanup ==
    [][\A n \in Nodes : Residue(n)' =>
          Residue(n) \/ \E cutoff \in TxIds : cleanStaleTransactions(cutoff)]_vars

(* What "meme semantique que rollback manuel" in cleanStaleTransactions     *)
(* promises: whichever way transactions end, rollback or clean-up, nothing  *)
(* is left behind.  It does not hold with the clean-up job (see README.md). *)
NoResidue == \A n \in Nodes : ~ Residue(n)

(* A user's request never changes, moves or deletes a version in progress   *)
(* of another user's transaction, unless that user is an administrator.     *)
OthersWorkUntouched ==
    [][\A u \in Users \ Admins : UserStep(u) =>
          \A v \in OpenRows : txOwner[v.tx] # u => v \in versions']_vars
=============================================================================
