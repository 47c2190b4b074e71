------------------------ MODULE PlmDisciplineProofs ------------------------
(***************************************************************************)
(* What the check-out discipline adds to PlmTransactionProofs.  When       *)
(* requests do not reach into committed transactions, committed versions   *)
(* are immutable, each of them records a change, the tables implement      *)
(* VersionedItems, and without the clean-up job nothing is left behind.    *)
(* When requests stay within their own open transaction and no             *)
(* administrator intervenes, the lock follows the version and nobody       *)
(* touches the work of others.                                             *)
(***************************************************************************)
EXTENDS PlmTransactionProofs, PlmRefinement, SequenceTheorems

(* One step keeps every committed version. *)
KeepsCommitted == \A v \in versions : txStatus[v.tx] = "COMMITTED" =>
    v \in versions' /\ txStatus'[v.tx] = "COMMITTED"

(* Rewriting a row that is not committed keeps the committed ones. *)
LEMMA RewriteKeeps ==
    ASSUME NEW v, NEW c, txStatus[v.tx] # "COMMITTED", Rewritten(v, c), UNCHANGED txVars
    PROVE  KeepsCommitted
  BY DEF Rewritten, txVars, KeepsCommitted

(* So does inserting a row, in a new transaction or not. *)
LEMMA InsertKeeps ==
    ASSUME versions \subseteq versions',
           \A v \in versions : txStatus'[v.tx] = txStatus[v.tx]
    PROVE  KeepsCommitted
  BY DEF KeepsCommitted

(* createVersion only adds a row. *)
LEMMA CreateKeeps ==
    ASSUME NEW n, NEW t, NEW s, NEW c, createVersion(n, t, s, c)
    PROVE  versions \subseteq versions'
  BY DEF createVersion, Inserted

(* modifyNode, createLink *)
LEMMA WriteKeeps ==
    ASSUME ClosedTx \notin Deviations, IInv,
           NEW u \in Users, NEW n \in Nodes, NEW t \in TxIds, NEW c \in Contents,
           WriteInTx(u, n, t, c)
    PROVE  KeepsCommitted
<1>1. txStatus[t] = "OPEN" /\ UNCHANGED txVars /\ txStatus' = txStatus
  BY DEF WriteInTx, NamesTx, txVars
<1>2. CASE \E v \in RowsOf(n, t) : Rewritten(v, c)
  <2>1. PICK v \in RowsOf(n, t) : Rewritten(v, c)
    BY <1>2
  <2>2. v.tx = t
    BY DEF RowsOf, RowsIn
  <2> QED BY <1>1, <2>1, <2>2, RewriteKeeps
<1>3. CASE createVersion(n, t, NoState, c)
  BY <1>1, <1>3, CreateKeeps, InsertKeeps
<1> QED BY <1>2, <1>3 DEF WriteInTx

(* checkout *)
LEMMA CheckoutKeeps ==
    ASSUME IInv, NEW u \in Users, NEW n \in Nodes, NEW t \in TxIds \cup {NoTx}, Checkout(u, n, t)
    PROVE  KeepsCommitted
<1>1. ASSUME NEW s, CheckoutInto(n, s) PROVE versions \subseteq versions'
  BY <1>1, CreateKeeps DEF CheckoutInto
<1>2. CASE CheckoutInto(n, t) /\ UNCHANGED txVars
  BY <1>1, <1>2, InsertKeeps DEF txVars
<1>3. CASE \E s \in TxIds : FoundOrOpened(u, s) /\ CheckoutInto(n, s)
  <2>1. PICK s \in TxIds : FoundOrOpened(u, s) /\ CheckoutInto(n, s)
    BY <1>3
  <2>2. \A v \in versions : txStatus'[v.tx] = txStatus[v.tx]
    BY <2>1, FoundOrOpenedOK
  <2> QED BY <1>1, <2>1, <2>2, InsertKeeps
<1> QED BY <1>2, <1>3 DEF Checkout

(* commitTransaction: only rows of the transaction change hands. *)
LEMMA CommitKeeps ==
    ASSUME IInv, NEW u \in Users, NEW t \in TxIds, NEW sel \in SUBSET Nodes, Commit(u, t, sel)
    PROVE  KeepsCommitted
<1> DEFINE deferred == Deferred(t, sel)
<1>1. txStatus[t] = "OPEN" /\ (CommitAll(t) \/ CommitPart(u, t, deferred))
  BY DEF Commit, Committable, OwnsOpenTx
<1>2. \A v \in deferred : v.tx = t
  BY DEF Deferred, RowsIn
<1>3. txStatus \in [TxIds -> Statuses] /\ \A v \in versions : v.tx \in TxIds
  BY RowType, Parts DEF TxTypeOK, IInv, TypeOK
<1> HIDE DEF deferred
<1>4. CASE CommitAll(t)
  BY <1>1, <1>3, <1>4 DEF CommitAll, KeepsCommitted
<1>5. CASE CommitPart(u, t, deferred)
  <2>1. nextTx \in TxIds => txStatus[nextTx] = "none"
    BY BoundsAssumption DEF IInv, FreshTx, TxIds
  <2>2. ASSUME NEW v \in versions, txStatus[v.tx] = "COMMITTED"
        PROVE  v \in versions' /\ txStatus'[v.tx] = "COMMITTED"
    <3>1. v.tx # t /\ v.tx # nextTx /\ v \notin deferred
      BY <1>1, <1>2, <1>3, <2>1, <2>2
    <3> QED BY <1>3, <1>5, <2>2, <3>1 DEF CommitPart
  <2> QED BY <2>2 DEF KeepsCommitted
<1> QED BY <1>1, <1>4, <1>5

(* releaseNodes, rollbackTransaction, the clean-up job *)
LEMMA DeleteKeeps ==
    ASSUME IInv, NEW D, \A v \in D : txStatus[v.tx] = "OPEN", versions' = versions \ D,
           NEW S, \A t \in S : txStatus[t] = "OPEN", TxsDeleted(S)
    PROVE  KeepsCommitted
<1>1. \A v \in versions : v.tx \in TxIds
  BY RowType DEF IInv, TypeOK
<1> QED BY <1>1 DEF TxsDeleted, KeepsCommitted

(* Every step keeps committed versions. *)
LEMMA NextKeeps ==
    ASSUME ClosedTx \notin Deviations, CommittedLink \notin Deviations, IInv, Next
    PROVE  KeepsCommitted
<1>1. ASSUME NEW u \in Users, UserStep(u)
      PROVE  KeepsCommitted
  <2>1. CASE OpenTransaction(u)
    BY <2>1, OpenedOK, InsertKeeps DEF OpenTransaction
  <2>2. ASSUME NEW n \in Nodes, CreateNode(u, n) PROVE KeepsCommitted
    <3>1. PICK t \in TxIds : FoundOrOpened(u, t)
      BY <2>2 DEF CreateNode
    <3>2. versions \subseteq versions'
      BY <2>2 DEF CreateNode, Inserted
    <3> QED BY <3>1, <3>2, FoundOrOpenedOK, InsertKeeps
  <2>3. CASE \E n \in Nodes, t \in TxIds \cup {NoTx} : Checkout(u, n, t)
    BY <2>3, CheckoutKeeps
  <2>4. ASSUME NEW n \in Nodes, NEW t \in TxIds, NEW c \in Contents,
               ModifyNode(u, n, t, c) \/ CreateLink(u, n, t, c)
        PROVE  KeepsCommitted
    BY <2>4, WriteKeeps DEF ModifyNode, CreateLink
  <2>5. ASSUME NEW n \in Nodes, NEW t \in TxIds, NEW c \in Contents, AssignDomain(u, n, t, c)
        PROVE  KeepsCommitted
    <3>1. PICK v \in RowsOf(n, t) : Rewritten(v, c)
      BY <2>5 DEF AssignDomain
    <3>2. v.tx = t /\ txStatus[t] = "OPEN" /\ UNCHANGED txVars
      BY <2>5 DEF AssignDomain, NamesTx, RowsOf, RowsIn
    <3> QED BY <3>1, <3>2, RewriteKeeps
  <2>6. ASSUME NEW v \in versions, NEW c \in Contents, DeleteLink(u, v, c)
        PROVE  KeepsCommitted
    <3>1. txStatus[v.tx] = "OPEN" /\ Rewritten(v, c) /\ UNCHANGED txVars
      BY <2>6 DEF DeleteLink, OpenRows
    <3> QED BY <3>1, RewriteKeeps
  <2>7. ASSUME NEW t \in TxIds, NEW S \in SUBSET Nodes, Commit(u, t, S) PROVE KeepsCommitted
    BY <2>7, CommitKeeps
  <2>8. ASSUME NEW t \in TxIds, NEW S \in SUBSET Nodes, ReleaseNodes(u, t, S) PROVE KeepsCommitted
    <3> DEFINE rows == {v \in RowsIn(t) : v.node \in S}
               gone == IF RowsIn(t) \subseteq rows THEN {t} ELSE {}
    <3>1. txStatus[t] = "OPEN" /\ versions' = versions \ rows /\ TxsDeleted(gone)
      BY <2>8 DEF ReleaseNodes, OwnsOpenTx
    <3>2. (\A v \in rows : txStatus[v.tx] = "OPEN") /\ (\A s \in gone : txStatus[s] = "OPEN")
      BY <3>1 DEF RowsIn
    <3> HIDE DEF rows, gone
    <3> QED BY <3>1, <3>2, DeleteKeeps
  <2>9. ASSUME NEW t \in TxIds, rollbackTransaction(u, t) PROVE KeepsCommitted
    <3>1. txStatus[t] = "OPEN" /\ versions' = versions \ RowsIn(t) /\ TxsDeleted({t})
      BY <2>9 DEF rollbackTransaction, OwnsOpenTx
    <3>2. \A v \in RowsIn(t) : txStatus[v.tx] = "OPEN"
      BY <3>1 DEF RowsIn
    <3> QED BY <3>1, <3>2, DeleteKeeps
  <2> QED BY <1>1, <2>1, <2>2, <2>3, <2>4, <2>5, <2>6, <2>7, <2>8, <2>9 DEF UserStep
<1>2. ASSUME NEW v \in versions, AddComment(v) PROVE KeepsCommitted
  BY <1>2 DEF AddComment, txVars, KeepsCommitted
<1>3. ASSUME NEW cutoff \in TxIds, cleanStaleTransactions(cutoff) PROVE KeepsCommitted
  <2> DEFINE stale == {t \in TxIds : t <= cutoff /\ txStatus[t] = "OPEN"}
             rows == {v \in versions : v.tx \in stale}
  <2>1. versions' = versions \ rows /\ TxsDeleted(stale)
    BY <1>3 DEF cleanStaleTransactions
  <2>2. (\A v \in rows : txStatus[v.tx] = "OPEN") /\ (\A s \in stale : txStatus[s] = "OPEN")
    OBVIOUS
  <2> HIDE DEF rows, stale
  <2> QED BY <2>1, <2>2, DeleteKeeps
<1> QED BY <1>1, <1>2, <1>3 DEF Next

(* Committed versions are immutable: no check-out, edit, partial commit,    *)
(* release, rollback or clean-up, by administrators or on somebody else's   *)
(* transaction, changes, moves or deletes one.  The two hypotheses name the *)
(* two requests that do.                                                    *)
THEOREM CommittedVersionsImmutable ==
    ASSUME ClosedTx \notin Deviations, CommittedLink \notin Deviations
    PROVE  Spec => CommittedImmutable
<1>1. IInv /\ [Next]_vars => [KeepsCommitted]_vars
  BY NextKeeps
<1>2. Spec => [][KeepsCommitted]_vars
  BY <1>1, Inductive, PTL DEF Spec
<1> QED BY <1>2 DEF CommittedImmutable, KeepsCommitted

-----------------------------------------------------------------------------
(***************************************************************************)
(* LockFollowsVersion is not inductive by itself: a transaction without an *)
(* owner would let anybody lock its nodes, and a node with two versions in *)
(* progress would be unlocked by the first commit.                         *)
(***************************************************************************)
OpenOwned == \A t \in TxIds : txStatus[t] = "OPEN" => txOwner[t] \in Users
LockInv == IInv /\ OpenOwned /\ LockFollowsVersion

(* tryLock never takes the node of a version in progress of somebody else.  *)
LEMMA LockKeeps ==
    ASSUME LockInv, NEW u \in Users, NEW n \in Nodes, CanLock(n, u), Lock(n, u)
    PROVE  lockedBy'[n] = u /\ \A v \in OpenRows : lockedBy'[v.node] = txOwner[v.tx]
<1>1. lockedBy \in [Nodes -> Users \cup {NoUser}]
  BY DEF LockInv, IInv, TypeOK
<1>2. \A v \in OpenRows : v.node \in Nodes /\ v.tx \in TxIds
  BY RowType DEF LockInv, IInv, TypeOK, OpenRows
<1>3. \A v \in OpenRows : lockedBy[v.node] = txOwner[v.tx] /\ txOwner[v.tx] \in Users
  BY <1>2 DEF LockInv, LockFollowsVersion, OpenOwned, OpenRows
<1> QED BY <1>1, <1>2, <1>3, UsersAssumption DEF Lock, CanLock

(* A transaction that is opened takes no row over. *)
LEMMA OpenedOwner ==
    ASSUME LockInv, NEW u \in Users, Opened(u)
    PROVE  /\ OpenOwned' /\ txOwner'[nextTx] = u
           /\ \A v \in versions : v.tx # nextTx /\ txOwner'[v.tx] = txOwner[v.tx]
<1>1. nextTx \in TxIds /\ TxTypeOK
  BY OpenedOK, Parts DEF LockInv
<1>2. txStatus[nextTx] = "none"
  BY <1>1, BoundsAssumption DEF LockInv, IInv, FreshTx, TxIds
<1>3. \A v \in versions : v.tx # nextTx /\ v.tx \in TxIds
  BY <1>2, RowType DEF LockInv, IInv, TypeOK, Good, RowHasTx
<1>4. OpenOwned'
  BY <1>1 DEF Opened, OpenOwned, LockInv, TxTypeOK
<1> QED BY <1>1, <1>3, <1>4 DEF Opened, TxTypeOK

(* The transaction found or opened for a user is open and belongs to that user. *)
LEMMA FoundOrOpenedOwner ==
    ASSUME LockInv, NEW u \in Users, NEW t \in TxIds, FoundOrOpened(u, t)
    PROVE  /\ OpenOwned' /\ txOwner'[t] = u
           /\ \A v \in versions : txOwner'[v.tx] = txOwner[v.tx]
<1>1. CASE t \in OpenTxs(u) /\ UNCHANGED txVars
  BY <1>1 DEF OpenTxs, txVars, OpenOwned, LockInv
<1>2. CASE t = nextTx /\ Opened(u)
  BY <1>2, OpenedOwner
<1> QED BY <1>1, <1>2 DEF FoundOrOpened

(* The lock follows when a row is inserted into a transaction of the user   *)
(* that locked its node: createNode, checkout, modifyNode, createLink.      *)
LEMMA InsertLock ==
    ASSUME LockInv, NEW u \in Users, NEW n \in Nodes, NEW t \in TxIds,
           lockedBy'[n] = u, \A v \in OpenRows : lockedBy'[v.node] = txOwner[v.tx],
           \A v \in versions' : v \in versions \/ (v.node = n /\ v.tx = t),
           txOwner'[t] = u,
           \A v \in versions : /\ txStatus'[v.tx] = txStatus[v.tx]
                               /\ txOwner'[v.tx] = txOwner[v.tx]
    PROVE  LockFollowsVersion'
  BY DEF LockFollowsVersion, OpenRows

(* createVersion's row belongs to the node and the transaction given. *)
LEMMA CreatedRow ==
    ASSUME NEW n, NEW t, NEW s, NEW c, createVersion(n, t, s, c)
    PROVE  \A v \in versions' : v \in versions \/ (v.node = n /\ v.tx = t)
  BY DEF createVersion, Inserted, Successor

(* Rewriting a row keeps its node and its transaction. *)
LEMMA RewrittenRow ==
    ASSUME LockInv, NEW v \in versions, NEW c, Rewritten(v, c), UNCHANGED txVars,
           \A w \in OpenRows : lockedBy'[w.node] = txOwner[w.tx]
    PROVE  LockFollowsVersion'
<1> DEFINE r == [v EXCEPT !.content = c]
<1>1. v \in Version
  BY DEF LockInv, IInv, TypeOK
<1>2. r.node = v.node /\ r.tx = v.tx
  BY <1>1 DEF Version
<1>3. versions' = (versions \ {v}) \cup {r} /\ txStatus' = txStatus /\ txOwner' = txOwner
  BY DEF Rewritten, txVars
<1> HIDE DEF r
<1> SUFFICES ASSUME NEW w \in versions', txStatus[w.tx] = "OPEN"
             PROVE  lockedBy'[w.node] = txOwner[w.tx]
  BY <1>3 DEF LockFollowsVersion, OpenRows
<1> QED BY <1>2, <1>3 DEF OpenRows

(* modifyNode, createLink *)
LEMMA WriteLock ==
    ASSUME OtherTx \notin Deviations, LockInv,
           NEW u \in Users, NEW n \in Nodes, NEW t \in TxIds, NEW c \in Contents,
           WriteInTx(u, n, t, c)
    PROVE  LockFollowsVersion' /\ OpenOwned'
<1>1. /\ txOwner[t] = u /\ CanLock(n, u) /\ Lock(n, u)
      /\ UNCHANGED txVars /\ txStatus' = txStatus /\ txOwner' = txOwner
  BY DEF WriteInTx, NamesTx, txVars
<1>2. lockedBy'[n] = u /\ \A v \in OpenRows : lockedBy'[v.node] = txOwner[v.tx]
  BY <1>1, LockKeeps
<1>3. OpenOwned'
  BY <1>1 DEF LockInv, OpenOwned
<1>4. CASE \E v \in RowsOf(n, t) : Rewritten(v, c)
  <2>1. PICK v \in versions : Rewritten(v, c)
    BY <1>4 DEF RowsOf, RowsIn
  <2> QED BY <1>1, <1>2, <1>3, <2>1, RewrittenRow
<1>5. CASE createVersion(n, t, NoState, c)
  BY <1>1, <1>2, <1>3, <1>5, CreatedRow, InsertLock
<1> QED BY <1>4, <1>5 DEF WriteInTx

(* checkout *)
LEMMA CheckoutLock ==
    ASSUME OtherTx \notin Deviations, LockInv,
           NEW u \in Users, NEW n \in Nodes, NEW t \in TxIds \cup {NoTx}, Checkout(u, n, t)
    PROVE  LockFollowsVersion' /\ OpenOwned'
<1>1. lockedBy'[n] = u /\ \A v \in OpenRows : lockedBy'[v.node] = txOwner[v.tx]
  BY LockKeeps DEF Checkout
<1>2. ASSUME NEW s, CheckoutInto(n, s)
      PROVE  \A v \in versions' : v \in versions \/ (v.node = n /\ v.tx = s)
  BY <1>2, CreatedRow DEF CheckoutInto
<1>3. CASE t # NoTx /\ NamesTx(u, t) /\ CheckoutInto(n, t) /\ UNCHANGED txVars
  <2>1. t \in TxIds /\ txOwner'[t] = u /\ txStatus' = txStatus /\ txOwner' = txOwner
    BY <1>3 DEF NamesTx, txVars
  <2>2. OpenOwned'
    BY <2>1 DEF LockInv, OpenOwned
  <2> QED BY <1>1, <1>2, <1>3, <2>1, <2>2, InsertLock
<1>4. CASE \E s \in TxIds : FoundOrOpened(u, s) /\ CheckoutInto(n, s)
  <2>1. PICK s \in TxIds : FoundOrOpened(u, s) /\ CheckoutInto(n, s)
    BY <1>4
  <2>2. /\ OpenOwned' /\ txOwner'[s] = u
        /\ \A v \in versions : txOwner'[v.tx] = txOwner[v.tx]
    BY <2>1, FoundOrOpenedOwner
  <2>3. \A v \in versions : txStatus'[v.tx] = txStatus[v.tx]
    BY <2>1, FoundOrOpenedOK DEF LockInv
  <2> QED BY <1>1, <1>2, <2>1, <2>2, <2>3, InsertLock
<1> QED BY <1>3, <1>4 DEF Checkout

(* createNode: a new node has no version, so nobody's lock is taken. *)
LEMMA CreateNodeLock ==
    ASSUME LockInv, NEW u \in Users, NEW n \in Nodes, CreateNode(u, n)
    PROVE  LockFollowsVersion' /\ OpenOwned'
<1>1. PICK t \in TxIds :
        /\ FoundOrOpened(u, t)
        /\ Inserted([node |-> n, num |-> 1, tx |-> t, prev |-> 0,
                     state |-> InitialState, content |-> EmptyContent])
  BY DEF CreateNode
<1>2. /\ OpenOwned' /\ txOwner'[t] = u
      /\ \A v \in versions : txOwner'[v.tx] = txOwner[v.tx]
  BY <1>1, FoundOrOpenedOwner
<1>3. \A v \in versions : txStatus'[v.tx] = txStatus[v.tx]
  BY <1>1, FoundOrOpenedOK DEF LockInv
<1>4. \A v \in versions' : v \in versions \/ (v.node = n /\ v.tx = t)
  BY <1>1 DEF Inserted
<1>5. \A v \in OpenRows : v.node # n /\ v.node \in Nodes
  BY RowType DEF CreateNode, LockInv, IInv, TypeOK, RowHasNode, OpenRows
<1>6. lockedBy'[n] = u /\ \A v \in OpenRows : lockedBy'[v.node] = txOwner[v.tx]
  BY <1>5 DEF CreateNode, Lock, LockInv, LockFollowsVersion, IInv, TypeOK
<1> QED BY <1>2, <1>3, <1>4, <1>6, InsertLock

(* commitTransaction: the nodes it unlocks have no other version in         *)
(* progress, and the continuation belongs to the owner of the transaction.  *)
LEMMA CommitLock ==
    ASSUME Admins = {}, LockInv,
           NEW u \in Users, NEW t \in TxIds, NEW sel \in SUBSET Nodes, Commit(u, t, sel)
    PROVE  LockFollowsVersion' /\ OpenOwned'
<1> DEFINE deferred == Deferred(t, sel)
           kept == RowsIn(t) \ deferred
<1>1. /\ txStatus[t] = "OPEN" /\ txOwner[t] = u /\ Unlock({v.node : v \in kept})
      /\ (CommitAll(t) /\ deferred = {}) \/ CommitPart(u, t, deferred)
  BY DEF Commit, Committable, OwnsOpenTx
<1>2. \A v \in RowsIn(t) : v \in versions /\ v.tx = t
  BY DEF RowsIn
<1>3. deferred \subseteq RowsIn(t)
  BY DEF Deferred
<1>4. /\ TxTypeOK /\ Table(txStatus, versions) /\ Good(txStatus, versions)
      /\ \A v \in versions : v \in Version /\ v.tx \in TxIds /\ v.node \in Nodes
  BY Parts, RowType DEF LockInv, IInv, TypeOK
<1>5. ASSUME NEW v \in OpenRows, v \notin kept
      PROVE  lockedBy'[v.node] = txOwner[v.tx]
  <2>1. v \in versions /\ txStatus[v.tx] = "OPEN"
    BY DEF OpenRows
  <2>2. \A w \in kept : w.node # v.node
    BY <1>1, <1>2, <1>4, <1>5, <2>1, OneDraft
  <2>3. lockedBy[v.node] = txOwner[v.tx]
    BY DEF LockInv, LockFollowsVersion
  <2> QED BY <1>1, <1>4, <2>1, <2>2, <2>3 DEF Unlock
<1>6. CASE CommitAll(t) /\ deferred = {}
  <2>1. /\ txStatus' = [txStatus EXCEPT ![t] = "COMMITTED"]
        /\ versions' = versions /\ txOwner' = txOwner
    BY <1>6 DEF CommitAll
  <2>2. ASSUME NEW v \in versions, txStatus'[v.tx] = "OPEN"
        PROVE  v \in OpenRows /\ v \notin kept
    BY <1>2, <1>4, <2>1, <2>2 DEF OpenRows, TxTypeOK
  <2>3. OpenOwned'
    BY <1>4, <2>1 DEF LockInv, OpenOwned, TxTypeOK
  <2>4. LockFollowsVersion'
    BY <1>5, <2>1, <2>2 DEF LockFollowsVersion, OpenRows
  <2> QED BY <2>3, <2>4
<1>7. CASE CommitPart(u, t, deferred)
  <2>1. /\ nextTx <= MaxTx /\ versions' = MovedTo(versions, deferred, nextTx)
        /\ txStatus' = [txStatus EXCEPT ![t] = "COMMITTED", ![nextTx] = "OPEN"]
        /\ txOwner' = [txOwner EXCEPT ![nextTx] = u]
    BY <1>7 DEF CommitPart, MovedTo
  <2>2. nextTx \in TxIds /\ txStatus[nextTx] = "none"
    BY <1>4, <2>1, BoundsAssumption DEF TxTypeOK, TxIds, LockInv, IInv, FreshTx
  <2>3. OpenOwned'
    BY <1>4, <2>1, <2>2 DEF LockInv, OpenOwned, TxTypeOK
  <2>4. txOwner'[nextTx] = u
    BY <1>4, <2>1, <2>2 DEF TxTypeOK
  <2> SUFFICES ASSUME NEW w \in versions', txStatus'[w.tx] = "OPEN"
               PROVE  lockedBy'[w.node] = txOwner'[w.tx]
    BY <2>3 DEF LockFollowsVersion, OpenRows
  <2>5. CASE w \in versions \ deferred
    <3>1. w.tx # nextTx
      BY <1>4, <2>2, <2>5 DEF Good, RowHasTx
    <3>2. w.tx # t /\ txStatus[w.tx] = "OPEN"
      BY <1>1, <1>4, <2>1, <2>2, <2>5, <3>1 DEF TxTypeOK
    <3>3. w \in OpenRows /\ w \notin kept
      BY <1>2, <2>5, <3>2 DEF OpenRows
    <3>4. txOwner'[w.tx] = txOwner[w.tx]
      BY <1>4, <2>1, <2>5, <3>1 DEF TxTypeOK
    <3> QED BY <1>5, <3>3, <3>4
  <2>6. CASE w \notin versions \ deferred
    <3>1. PICK v \in deferred : w = [v EXCEPT !.tx = nextTx]
      BY <2>1, <2>6 DEF MovedTo
    <3>2. v \in versions /\ v.tx = t /\ v \in Version
      BY <1>2, <1>3, <1>4
    <3>3. w.node = v.node /\ w.tx = nextTx
      BY <2>2, <3>1, <3>2, RowTx
    <3>4. v \in OpenRows /\ v \notin kept
      BY <1>1, <3>2 DEF OpenRows
    <3> QED BY <1>1, <1>5, <2>4, <3>2, <3>3, <3>4
  <2> QED BY <2>5, <2>6
<1> QED BY <1>1, <1>6, <1>7

(* releaseNodes and rollbackTransaction unlock nodes whose version in       *)
(* progress they delete.                                                    *)
LEMMA DeleteLock ==
    ASSUME LockInv, NEW S, NEW D,
           \A n \in S : \E v \in D : v.node = n,
           \A v \in D : v \in versions /\ txStatus[v.tx] = "OPEN",
           versions' = versions \ D, Unlock(S), NEW G, TxsDeleted(G)
    PROVE  LockFollowsVersion' /\ OpenOwned'
<1>1. /\ Table(txStatus, versions) /\ Good(txStatus, versions)
      /\ \A v \in versions : v.tx \in TxIds /\ v.node \in Nodes
  BY Parts, RowType DEF LockInv, IInv, TypeOK
<1>2. OpenOwned'
  BY DEF LockInv, OpenOwned, TxsDeleted
<1>3. ASSUME NEW w \in versions \ D, txStatus'[w.tx] = "OPEN"
      PROVE  lockedBy'[w.node] = txOwner'[w.tx]
  <2>1. txStatus[w.tx] = "OPEN" /\ txOwner'[w.tx] = txOwner[w.tx]
    BY <1>1, <1>3 DEF TxsDeleted
  <2>2. w.node \notin S
    BY <1>1, <1>3, <2>1, OneDraft
  <2>3. lockedBy[w.node] = txOwner[w.tx]
    BY <2>1 DEF LockInv, LockFollowsVersion, OpenRows
  <2> QED BY <1>1, <2>1, <2>2, <2>3 DEF Unlock
<1> QED BY <1>2, <1>3 DEF LockFollowsVersion, OpenRows

(* Every step keeps the lock with the version. *)
LEMMA NextLock ==
    ASSUME OtherTx \notin Deviations, OtherNodes \notin Deviations, Admins = {},
           LockInv, Next
    PROVE  LockFollowsVersion' /\ OpenOwned'
<1>1. ASSUME NEW u \in Users, UserStep(u)
      PROVE  LockFollowsVersion' /\ OpenOwned'
  <2>1. CASE OpenTransaction(u)
    <3>1. /\ OpenOwned' /\ \A v \in versions : txOwner'[v.tx] = txOwner[v.tx]
      BY <2>1, OpenedOwner DEF OpenTransaction
    <3>2. \A v \in versions : txStatus'[v.tx] = txStatus[v.tx]
      BY <2>1, OpenedOK DEF OpenTransaction, LockInv
    <3>3. versions' = versions /\ lockedBy' = lockedBy
      BY <2>1 DEF OpenTransaction
    <3> QED BY <3>1, <3>2, <3>3 DEF LockInv, LockFollowsVersion, OpenRows
  <2>2. CASE \E n \in Nodes : CreateNode(u, n)
    BY <2>2, CreateNodeLock
  <2>3. CASE \E n \in Nodes, t \in TxIds \cup {NoTx} : Checkout(u, n, t)
    BY <2>3, CheckoutLock
  <2>4. ASSUME NEW n \in Nodes, NEW t \in TxIds, NEW c \in Contents,
               ModifyNode(u, n, t, c) \/ CreateLink(u, n, t, c)
        PROVE  LockFollowsVersion' /\ OpenOwned'
    BY <2>4, WriteLock DEF ModifyNode, CreateLink
  <2>5. ASSUME NEW n \in Nodes, NEW t \in TxIds, NEW c \in Contents, AssignDomain(u, n, t, c)
        PROVE  LockFollowsVersion' /\ OpenOwned'
    <3>1. PICK v \in versions : Rewritten(v, c)
      BY <2>5 DEF AssignDomain, RowsOf, RowsIn
    <3>2. UNCHANGED txVars /\ txStatus' = txStatus /\ txOwner' = txOwner /\ lockedBy' = lockedBy
      BY <2>5 DEF AssignDomain, txVars
    <3>3. OpenOwned' /\ \A w \in OpenRows : lockedBy'[w.node] = txOwner[w.tx]
      BY <3>2 DEF LockInv, OpenOwned, LockFollowsVersion
    <3> QED BY <3>1, <3>2, <3>3, RewrittenRow
  <2>6. ASSUME NEW v \in versions, NEW c \in Contents, DeleteLink(u, v, c)
        PROVE  LockFollowsVersion' /\ OpenOwned'
    <3>1. /\ Rewritten(v, c) /\ UNCHANGED txVars /\ txStatus' = txStatus /\ txOwner' = txOwner
          /\ CanLock(v.node, u) /\ Lock(v.node, u)
      BY <2>6 DEF DeleteLink, txVars
    <3>2. v.node \in Nodes
      BY RowType DEF LockInv, IInv, TypeOK
    <3>3. \A w \in OpenRows : lockedBy'[w.node] = txOwner[w.tx]
      BY <3>1, <3>2, LockKeeps
    <3>4. OpenOwned'
      BY <3>1 DEF LockInv, OpenOwned
    <3> QED BY <3>1, <3>3, <3>4, RewrittenRow
  <2>7. ASSUME NEW t \in TxIds, NEW S \in SUBSET Nodes, Commit(u, t, S)
        PROVE  LockFollowsVersion' /\ OpenOwned'
    BY <2>7, CommitLock
  <2>8. ASSUME NEW t \in TxIds, NEW S \in SUBSET Nodes, ReleaseNodes(u, t, S)
        PROVE  LockFollowsVersion' /\ OpenOwned'
    <3> DEFINE rows == {v \in RowsIn(t) : v.node \in S}
               gone == IF RowsIn(t) \subseteq rows THEN {t} ELSE {}
    <3>1. /\ txStatus[t] = "OPEN" /\ versions' = versions \ rows /\ TxsDeleted(gone)
          /\ Unlock(S) /\ S \subseteq {v.node : v \in RowsIn(t)}
      BY <2>8 DEF ReleaseNodes, OwnsOpenTx
    <3>2. \A v \in rows : v \in versions /\ txStatus[v.tx] = "OPEN"
      BY <3>1 DEF RowsIn
    <3>3. \A n \in S : \E v \in rows : v.node = n
      BY <3>1
    <3> HIDE DEF rows, gone
    <3> QED BY <3>1, <3>2, <3>3, DeleteLock
  <2>9. ASSUME NEW t \in TxIds, rollbackTransaction(u, t)
        PROVE  LockFollowsVersion' /\ OpenOwned'
    <3> DEFINE affected == {v.node : v \in RowsIn(t)}
    <3>1. /\ txStatus[t] = "OPEN" /\ versions' = versions \ RowsIn(t) /\ TxsDeleted({t})
          /\ Unlock(affected)
      BY <2>9 DEF rollbackTransaction, OwnsOpenTx
    <3>2. \A v \in RowsIn(t) : v \in versions /\ txStatus[v.tx] = "OPEN"
      BY <3>1 DEF RowsIn
    <3>3. \A n \in affected : \E v \in RowsIn(t) : v.node = n
      OBVIOUS
    <3> HIDE DEF affected
    <3> QED BY <3>1, <3>2, <3>3, DeleteLock
  <2> QED BY <1>1, <2>1, <2>2, <2>3, <2>4, <2>5, <2>6, <2>7, <2>8, <2>9 DEF UserStep
<1>2. ASSUME NEW v \in versions, AddComment(v)
      PROVE  LockFollowsVersion' /\ OpenOwned'
  BY <1>2 DEF AddComment, txVars, LockInv, LockFollowsVersion, OpenOwned, OpenRows
<1>3. ASSUME NEW cutoff \in TxIds, cleanStaleTransactions(cutoff)
      PROVE  LockFollowsVersion' /\ OpenOwned'
  <2>1. PICK stale : TxsDeleted(stale)
    BY <1>3 DEF cleanStaleTransactions
  <2>2. versions' \subseteq versions /\ lockedBy' = lockedBy
    BY <1>3 DEF cleanStaleTransactions
  <2>3. \A v \in versions : v.tx \in TxIds
    BY RowType DEF LockInv, IInv, TypeOK
  <2> QED BY <2>1, <2>2, <2>3 DEF TxsDeleted, LockInv, LockFollowsVersion, OpenOwned, OpenRows
<1> QED BY <1>1, <1>2, <1>3 DEF Next

(* LockInv holds for as long as nobody works around the locks. *)
THEOREM LockInductive ==
    ASSUME OtherTx \notin Deviations, OtherNodes \notin Deviations, Admins = {}
    PROVE  Spec => []LockInv
<1>1. Init => LockInv
  BY InitOK DEF Init, LockInv, OpenOwned, LockFollowsVersion, OpenRows
<1>2. ASSUME LockInv, [Next]_vars PROVE LockInv'
  <2>1. IInv'
    BY <1>2, NextOK DEF LockInv
  <2>2. CASE Next
    BY <2>1, <2>2, <1>2, NextLock DEF LockInv
  <2>3. CASE UNCHANGED vars
    BY <2>1, <2>3, <1>2 DEF vars, LockInv, LockFollowsVersion, OpenOwned, OpenRows
  <2> QED BY <1>2, <2>2, <2>3
<1> QED BY <1>1, <1>2, PTL DEF Spec

(* A version in progress stays locked by the owner of its transaction, for  *)
(* any number of users, nodes and transactions, requests that carry a       *)
(* committed transaction's id and the clean-up job included.  The           *)
(* hypotheses exclude what is known to break it: somebody else's            *)
(* transaction id, releases of foreign nodes, and administrators.           *)
THEOREM LockFollows ==
    ASSUME OtherTx \notin Deviations, OtherNodes \notin Deviations, Admins = {}
    PROVE  Spec => []LockFollowsVersion
<1>1. LockInv => LockFollowsVersion
  BY DEF LockInv
<1> QED BY <1>1, LockInductive, PTL

-----------------------------------------------------------------------------
(***************************************************************************)
(* ChangeRecorded is about rows that commitTransaction compared, possibly  *)
(* many steps ago.  It is kept because every row that is committed after a *)
(* step either was, unchanged, or was compared in this step; and because   *)
(* the predecessor it was compared with is committed, hence immutable.     *)
(***************************************************************************)
CommitsOnlyChanges == \A v \in versions' : txStatus'[v.tx] = "COMMITTED" =>
    v \in versions /\ (txStatus[v.tx] = "COMMITTED" \/ ~ NoOp(v))
CommitsNothing == \A v \in versions' : txStatus'[v.tx] = "COMMITTED" =>
    v \in versions /\ txStatus[v.tx] = "COMMITTED"

(* Inserting a row into an open transaction commits nothing. *)
LEMMA InsertCommitsNothing ==
    ASSUME NEW t, txStatus'[t] = "OPEN",
           \A v \in versions' : v \in versions \/ v.tx = t,
           \A v \in versions : txStatus'[v.tx] = txStatus[v.tx]
    PROVE  CommitsNothing
  BY DEF CommitsNothing

(* Nor does rewriting a row in progress. *)
LEMMA RewriteCommitsNothing ==
    ASSUME IInv, NEW v \in versions, NEW c \in Contents, txStatus[v.tx] = "OPEN",
           Rewritten(v, c), UNCHANGED txVars
    PROVE  CommitsNothing
<1> DEFINE r == [v EXCEPT !.content = c]
<1>1. r.tx = v.tx
  BY RowContent DEF IInv, TypeOK
<1>2. versions' = (versions \ {v}) \cup {r} /\ txStatus' = txStatus
  BY DEF Rewritten, txVars
<1> HIDE DEF r
<1> QED BY <1>1, <1>2 DEF CommitsNothing

(* Nor does deleting rows and transactions. *)
LEMMA DeleteCommitsNothing ==
    ASSUME IInv, versions' \subseteq versions, NEW S, TxsDeleted(S)
    PROVE  CommitsNothing
<1>1. \A v \in versions : v.tx \in TxIds
  BY RowType DEF IInv, TypeOK
<1> QED BY <1>1 DEF TxsDeleted, CommitsNothing

(* commitTransaction commits the rows it compared, and only those. *)
LEMMA CommitCommits ==
    ASSUME IInv, NEW u \in Users, NEW t \in TxIds, NEW sel \in SUBSET Nodes, Commit(u, t, sel)
    PROVE  CommitsOnlyChanges
<1> DEFINE deferred == Deferred(t, sel)
           kept == RowsIn(t) \ deferred
<1>1. /\ \A v \in kept : ~ NoOp(v)
      /\ (CommitAll(t) /\ deferred = {}) \/ CommitPart(u, t, deferred)
  BY DEF Commit, Committable
<1>2. TxTypeOK /\ \A v \in versions : v \in Version /\ v.tx \in TxIds
  BY Parts, RowType DEF IInv, TypeOK
<1>3. \A v \in versions : v.tx = t => v \in RowsIn(t)
  BY DEF RowsIn
<1>4. deferred \subseteq versions
  BY DEF Deferred, RowsIn
<1> HIDE DEF deferred
<1>5. CASE CommitAll(t) /\ deferred = {}
  <2>1. versions' = versions /\ txStatus' = [txStatus EXCEPT ![t] = "COMMITTED"]
    BY <1>5 DEF CommitAll
  <2> QED BY <1>1, <1>2, <1>3, <1>5, <2>1 DEF CommitsOnlyChanges, TxTypeOK
<1>6. CASE CommitPart(u, t, deferred)
  <2>1. /\ nextTx <= MaxTx /\ versions' = MovedTo(versions, deferred, nextTx)
        /\ txStatus' = [txStatus EXCEPT ![t] = "COMMITTED", ![nextTx] = "OPEN"]
    BY <1>6 DEF CommitPart, MovedTo
  <2>2. nextTx \in TxIds
    BY <1>2, <2>1, BoundsAssumption DEF TxTypeOK, TxIds
  <2> SUFFICES ASSUME NEW w \in versions', txStatus'[w.tx] = "COMMITTED"
               PROVE  w \in versions /\ (txStatus[w.tx] = "COMMITTED" \/ ~ NoOp(w))
    BY DEF CommitsOnlyChanges
  <2>3. CASE w \in versions \ deferred
    BY <1>1, <1>2, <1>3, <2>1, <2>2, <2>3 DEF TxTypeOK
  <2>4. CASE w \notin versions \ deferred
    <3>1. PICK v \in deferred : w = [v EXCEPT !.tx = nextTx]
      BY <2>1, <2>4 DEF MovedTo
    <3>2. w.tx = nextTx
      BY <1>2, <1>4, <2>2, <3>1, RowTx
    <3>3. txStatus'[nextTx] = "OPEN"
      BY <1>2, <2>1, <2>2 DEF TxTypeOK
    <3> QED BY <3>2, <3>3
  <2> QED BY <2>3, <2>4
<1> QED BY <1>1, <1>5, <1>6

(* No other step commits anything. *)
LEMMA OnlyCommitCommits ==
    ASSUME ClosedTx \notin Deviations, CommittedLink \notin Deviations, IInv, Next,
           ~ \E u \in Users, t \in TxIds, S \in SUBSET Nodes : Commit(u, t, S)
    PROVE  CommitsNothing
<1>0. ASSUME versions' = versions, \A v \in versions : txStatus'[v.tx] = txStatus[v.tx]
      PROVE  CommitsNothing
  BY <1>0 DEF CommitsNothing
<1>1. ASSUME NEW u \in Users, UserStep(u)
      PROVE  CommitsNothing
  <2>1. CASE OpenTransaction(u)
    BY <1>0, <2>1, OpenedOK DEF OpenTransaction
  <2>2. ASSUME NEW n \in Nodes, CreateNode(u, n) PROVE CommitsNothing
    <3>1. PICK t \in TxIds :
            /\ FoundOrOpened(u, t)
            /\ Inserted([node |-> n, num |-> 1, tx |-> t, prev |-> 0,
                         state |-> InitialState, content |-> EmptyContent])
      BY <2>2 DEF CreateNode
    <3>2. \A v \in versions' : v \in versions \/ v.tx = t
      BY <3>1 DEF Inserted
    <3> QED BY <3>1, <3>2, FoundOrOpenedOK, InsertCommitsNothing
  <2>3. ASSUME NEW n \in Nodes, NEW t \in TxIds \cup {NoTx}, Checkout(u, n, t)
        PROVE  CommitsNothing
    <3>1. ASSUME NEW s, CheckoutInto(n, s)
          PROVE  \/ versions' = versions
                 \/ RowsOf(n, s) = {} /\ \A v \in versions' : v \in versions \/ v.tx = s
      BY <3>1, CreatedRow DEF CheckoutInto
    <3>2. CASE /\ (RowsOf(n, t) = {} => txStatus[t] = "OPEN")
               /\ CheckoutInto(n, t) /\ UNCHANGED txVars
      <4>1. txStatus' = txStatus
        BY <3>2 DEF txVars
      <4> QED BY <1>0, <3>1, <3>2, <4>1, InsertCommitsNothing
    <3>3. CASE \E s \in TxIds : FoundOrOpened(u, s) /\ CheckoutInto(n, s)
      <4>1. PICK s \in TxIds : FoundOrOpened(u, s) /\ CheckoutInto(n, s)
        BY <3>3
      <4>2. txStatus'[s] = "OPEN" /\ \A v \in versions : txStatus'[v.tx] = txStatus[v.tx]
        BY <4>1, FoundOrOpenedOK
      <4> QED BY <1>0, <3>1, <4>1, <4>2, InsertCommitsNothing
    <3> QED BY <2>3, <3>2, <3>3 DEF Checkout
  <2>4. ASSUME NEW n \in Nodes, NEW t \in TxIds, NEW c \in Contents, WriteInTx(u, n, t, c)
        PROVE  CommitsNothing
    <3>1. txStatus[t] = "OPEN" /\ UNCHANGED txVars /\ txStatus' = txStatus
      BY <2>4 DEF WriteInTx, NamesTx, txVars
    <3>2. CASE \E v \in RowsOf(n, t) : Rewritten(v, c)
      BY <3>1, <3>2, RewriteCommitsNothing DEF RowsOf, RowsIn
    <3>3. CASE createVersion(n, t, NoState, c)
      BY <3>1, <3>3, CreatedRow, InsertCommitsNothing
    <3> QED BY <2>4, <3>2, <3>3 DEF WriteInTx
  <2>5. ASSUME NEW n \in Nodes, NEW t \in TxIds, NEW c \in Contents, AssignDomain(u, n, t, c)
        PROVE  CommitsNothing
    <3>1. PICK v \in RowsOf(n, t) : Rewritten(v, c)
      BY <2>5 DEF AssignDomain
    <3>2. v \in versions /\ txStatus[v.tx] = "OPEN" /\ UNCHANGED txVars
      BY <2>5 DEF AssignDomain, NamesTx, RowsOf, RowsIn
    <3> QED BY <3>1, <3>2, RewriteCommitsNothing
  <2>6. ASSUME NEW v \in versions, NEW c \in Contents, DeleteLink(u, v, c)
        PROVE  CommitsNothing
    <3>1. txStatus[v.tx] = "OPEN" /\ Rewritten(v, c) /\ UNCHANGED txVars
      BY <2>6 DEF DeleteLink, OpenRows
    <3> QED BY <3>1, RewriteCommitsNothing
  <2>7. ASSUME NEW t \in TxIds, NEW S \in SUBSET Nodes, ReleaseNodes(u, t, S)
        PROVE  CommitsNothing
    <3>1. versions' \subseteq versions /\ \E G : TxsDeleted(G)
      BY <2>7 DEF ReleaseNodes
    <3> QED BY <3>1, DeleteCommitsNothing
  <2>8. ASSUME NEW t \in TxIds, rollbackTransaction(u, t) PROVE CommitsNothing
    <3>1. versions' \subseteq versions /\ TxsDeleted({t})
      BY <2>8 DEF rollbackTransaction
    <3> QED BY <3>1, DeleteCommitsNothing
  <2>9. ASSUME NEW n \in Nodes, NEW t \in TxIds, NEW c \in Contents,
                ModifyNode(u, n, t, c) \/ CreateLink(u, n, t, c)
         PROVE  CommitsNothing
    BY <2>4, <2>9 DEF ModifyNode, CreateLink
  <2> QED BY <1>1, <2>1, <2>2, <2>3, <2>5, <2>6, <2>7, <2>8, <2>9 DEF UserStep
<1>2. ASSUME NEW v \in versions, AddComment(v) PROVE CommitsNothing
  BY <1>0, <1>2 DEF AddComment, txVars
<1>3. ASSUME NEW cutoff \in TxIds, cleanStaleTransactions(cutoff) PROVE CommitsNothing
  <2>1. versions' \subseteq versions /\ \E G : TxsDeleted(G)
    BY <1>3 DEF cleanStaleTransactions
  <2> QED BY <2>1, DeleteCommitsNothing
<1> QED BY <1>1, <1>2, <1>3 DEF Next

(* No step commits a row that was not compared. *)
LEMMA NextCommits ==
    ASSUME ClosedTx \notin Deviations, CommittedLink \notin Deviations, IInv, Next
    PROVE  CommitsOnlyChanges
<1>1. CASE \E u \in Users, t \in TxIds, S \in SUBSET Nodes : Commit(u, t, S)
  BY <1>1, CommitCommits
<1>2. CASE ~ \E u \in Users, t \in TxIds, S \in SUBSET Nodes : Commit(u, t, S)
  BY <1>2, OnlyCommitCommits DEF CommitsNothing, CommitsOnlyChanges
<1> QED BY <1>1, <1>2

(* A version built on another one was built on a committed one, which no   *)
(* step changes: a comparison that told them apart still does.             *)
LEMMA ComparisonStands ==
    ASSUME IInv, IInv', KeepsCommitted, NEW v \in versions, ~ NoOp(v), v \in versions'
    PROVE  ~ NoOp(v)'
<1> SUFFICES ASSUME NEW w \in versions', w.node = v.node, w.num = v.prev,
                    fingerprint(w) = fingerprint(v)
             PROVE  FALSE
  BY DEF NoOp, fingerprint
<1>1. w \in Version /\ w.num # 0
  BY RowType, BoundsAssumption DEF IInv, TypeOK
<1>2. PICK x \in versions : x.node = v.node /\ x.num = v.prev /\ txStatus[x.tx] = "COMMITTED"
  BY <1>1 DEF IInv, Good, OnCommitted
<1>3. x \in versions'
  BY <1>2 DEF KeepsCommitted
<1>4. x = w
  BY <1>2, <1>3 DEF IInv, Good, UniqueKey
<1> QED BY <1>2, <1>4 DEF NoOp

(* No committed version ever repeats its predecessor, for any number of     *)
(* users, nodes and partial commits, administrators, foreign transaction    *)
(* ids and the clean-up job included: the no-op test of commitTransaction   *)
(* is not undone by anything that happens to the two rows afterwards.       *)
THEOREM ChangesAreRecorded ==
    ASSUME ClosedTx \notin Deviations, CommittedLink \notin Deviations
    PROVE  Spec => []ChangeRecorded
<1> DEFINE Inv == IInv /\ ChangeRecorded
<1>1. Init => Inv
  BY InitOK DEF Init, ChangeRecorded, CommittedRows
<1>2. ASSUME Inv, [Next]_vars PROVE Inv'
  <2>1. IInv'
    BY <1>2, NextOK
  <2>2. CASE Next
    <3>1. KeepsCommitted /\ CommitsOnlyChanges
      BY <1>2, <2>2, NextKeeps, NextCommits
    <3>2. ASSUME NEW v \in versions', txStatus'[v.tx] = "COMMITTED" PROVE ~ NoOp(v)'
      <4>1. v \in versions /\ (txStatus[v.tx] = "COMMITTED" \/ ~ NoOp(v))
        BY <3>1, <3>2 DEF CommitsOnlyChanges
      <4>2. ~ NoOp(v)
        BY <1>2, <4>1, RowType DEF ChangeRecorded, CommittedRows, IInv, TypeOK
      <4> QED BY <1>2, <2>1, <3>1, <4>1, <4>2, ComparisonStands
    <3> QED BY <2>1, <3>2 DEF ChangeRecorded, CommittedRows
  <2>3. CASE UNCHANGED vars
    BY <1>2, <2>1, <2>3 DEF vars, ChangeRecorded, CommittedRows, NoOp, fingerprint
  <2> QED BY <1>2, <2>2, <2>3
<1> QED BY <1>1, <1>2, PTL DEF Spec

-----------------------------------------------------------------------------
(***************************************************************************)
(* What one user's request leaves of another user's work.                  *)
(***************************************************************************)
SparesOthers(u) == \A v \in OpenRows : txOwner[v.tx] # u => v \in versions'

(* deleteLink names no transaction: only the lock, which follows the       *)
(* version, keeps it away from another user's version in progress.         *)
LEMMA DeleteLinkSpares ==
    ASSUME LockInv, NEW u \in Users, NEW v \in versions, NEW c \in Contents, DeleteLink(u, v, c)
    PROVE  SparesOthers(u)
<1>1. Rewritten(v, c) /\ lockedBy[v.node] \in {NoUser, u}
  BY DEF DeleteLink, CanLock
<1>2. v \in OpenRows => txOwner[v.tx] = u
  <2> SUFFICES ASSUME v \in OpenRows PROVE txOwner[v.tx] = u
    OBVIOUS
  <2>1. lockedBy[v.node] = txOwner[v.tx] /\ txStatus[v.tx] = "OPEN" /\ v.tx \in TxIds
    BY RowType DEF LockInv, LockFollowsVersion, OpenRows, IInv, TypeOK
  <2> QED BY <1>1, <2>1, UsersAssumption DEF LockInv, OpenOwned
<1> QED BY <1>1, <1>2 DEF Rewritten, SparesOthers, OpenRows

(* Every request of a user spares the others' versions in progress. *)
LEMMA UserSpares ==
    ASSUME OtherTx \notin Deviations, Admins = {}, LockInv, NEW u \in Users, UserStep(u)
    PROVE  SparesOthers(u)
<1>0. ASSUME versions \subseteq versions' PROVE SparesOthers(u)
  BY <1>0 DEF SparesOthers, OpenRows
<1>1. ASSUME NEW n, NEW t, NEW c, txOwner[t] = u, \E v \in RowsOf(n, t) : Rewritten(v, c)
      PROVE  SparesOthers(u)
  BY <1>1 DEF SparesOthers, OpenRows, RowsOf, RowsIn, Rewritten
<1>2. ASSUME NEW t, txOwner[t] = u, NEW D, \A v \in D : v.tx = t, versions \ D \subseteq versions'
      PROVE  SparesOthers(u)
  BY <1>2 DEF SparesOthers, OpenRows
<1>3. CASE OpenTransaction(u)
  BY <1>0, <1>3 DEF OpenTransaction
<1>4. CASE \E n \in Nodes : CreateNode(u, n)
  BY <1>0, <1>4 DEF CreateNode, Inserted
<1>5. CASE \E n \in Nodes, t \in TxIds \cup {NoTx} : Checkout(u, n, t)
  BY <1>0, <1>5, CreateKeeps DEF Checkout, CheckoutInto
<1>6. ASSUME NEW n \in Nodes, NEW t \in TxIds, NEW c \in Contents, WriteInTx(u, n, t, c)
      PROVE  SparesOthers(u)
  BY <1>0, <1>1, <1>6, CreateKeeps DEF WriteInTx, NamesTx
<1>7. ASSUME NEW n \in Nodes, NEW t \in TxIds, NEW c \in Contents,
             ModifyNode(u, n, t, c) \/ CreateLink(u, n, t, c) \/ AssignDomain(u, n, t, c)
      PROVE  SparesOthers(u)
  <2>1. CASE AssignDomain(u, n, t, c)
    BY <1>1, <2>1 DEF AssignDomain, NamesTx
  <2> QED BY <1>6, <1>7, <2>1 DEF ModifyNode, CreateLink
<1>8. CASE \E v \in versions, c \in Contents : DeleteLink(u, v, c)
  BY <1>8, DeleteLinkSpares
<1>9. ASSUME NEW t \in TxIds, NEW S \in SUBSET Nodes, Commit(u, t, S) PROVE SparesOthers(u)
  <2>1. txOwner[t] = u /\ (CommitAll(t) \/ CommitPart(u, t, Deferred(t, S)))
    BY <1>9 DEF Commit, Committable, OwnsOpenTx
  <2>2. \A v \in Deferred(t, S) : v.tx = t
    BY DEF Deferred, RowsIn
  <2>3. CASE CommitAll(t)
    BY <1>0, <2>3 DEF CommitAll
  <2>4. CASE CommitPart(u, t, Deferred(t, S))
    BY <1>2, <2>1, <2>2, <2>4 DEF CommitPart
  <2> QED BY <2>1, <2>3, <2>4
<1>10. ASSUME NEW t \in TxIds, NEW S \in SUBSET Nodes, ReleaseNodes(u, t, S) PROVE SparesOthers(u)
  <2>1. txOwner[t] = u /\ versions \ RowsIn(t) \subseteq versions'
    BY <1>10 DEF ReleaseNodes, OwnsOpenTx
  <2> QED BY <1>2, <2>1 DEF RowsIn
<1>11. ASSUME NEW t \in TxIds, rollbackTransaction(u, t) PROVE SparesOthers(u)
  <2>1. txOwner[t] = u /\ versions \ RowsIn(t) \subseteq versions'
    BY <1>11 DEF rollbackTransaction, OwnsOpenTx
  <2> QED BY <1>2, <2>1 DEF RowsIn
<1> QED BY <1>3, <1>4, <1>5, <1>7, <1>8, <1>9, <1>10, <1>11 DEF UserStep

(* No request of one user changes, moves or deletes another user's version  *)
(* in progress, for any number of users and nodes, with or without the      *)
(* clean-up job.  The hypotheses are those under which the lock follows the *)
(* version: it is all that protects a version from deleteLink.              *)
THEOREM OthersAreSpared ==
    ASSUME OtherTx \notin Deviations, OtherNodes \notin Deviations, Admins = {}
    PROVE  Spec => OthersWorkUntouched
<1> DEFINE A == \A u \in Users \ Admins : UserStep(u) =>
                    \A v \in OpenRows : txOwner[v.tx] # u => v \in versions'
<1>1. LockInv /\ [Next]_vars => [A]_vars
  BY UserSpares DEF SparesOthers
<1>2. Spec => [][A]_vars
  BY <1>1, LockInductive, PTL DEF Spec
<1> QED BY <1>2 DEF OthersWorkUntouched

-----------------------------------------------------------------------------
(***************************************************************************)
(* Residue: every way a request ends a transaction unlocks the nodes whose *)
(* versions it ends, and deletes the nodes it leaves without a version.    *)
(* B is a set of nodes that are locked for another reason, R one of nodes  *)
(* that have no version; a request adds to neither.                        *)
(***************************************************************************)
Tidy(B, R) == \A n \in nodes :
    /\ lockedBy[n] # NoUser => hasOpenVersion(n) \/ n \in B
    /\ n \in R \/ \E v \in versions : v.node = n
TidyInv(B, R) == BaseInv /\ Tidy(B, R)

(* A node is locked in the step that puts a version in progress under it,   *)
(* or after that: createNode, checkout, modifyNode, createLink, deleteLink. *)
LEMMA LockTidy ==
    ASSUME NEW B, NEW R, TidyInv(B, R), NEW u \in Users, NEW n \in Nodes, Lock(n, u),
           nodes' = nodes \cup {n},
           \A v \in versions : \E w \in versions' :
               w.node = v.node /\ (txStatus[v.tx] = "OPEN" => txStatus'[w.tx] = "OPEN"),
           \E w \in versions' : w.node = n /\ txStatus'[w.tx] = "OPEN"
    PROVE  Tidy(B, R)'
<1>1. lockedBy \in [Nodes -> Users \cup {NoUser}] /\ nodes \subseteq Nodes
  BY DEF TidyInv, BaseInv, TypeOK
<1> SUFFICES ASSUME NEW m \in nodes'
             PROVE  /\ lockedBy'[m] # NoUser =>
                          m \in B \/ \E w \in versions' : w.node = m /\ txStatus'[w.tx] = "OPEN"
                    /\ m \in R \/ \E w \in versions' : w.node = m
  BY DEF Tidy, hasOpenVersion, OpenRows
<1>2. CASE m = n
  BY <1>2
<1>3. CASE m # n
  <2>1. m \in nodes /\ lockedBy'[m] = lockedBy[m]
    BY <1>1, <1>3 DEF Lock
  <2>2. m \in R \/ \E v \in versions : v.node = m
    BY <2>1 DEF TidyInv, Tidy
  <2>3. lockedBy[m] # NoUser => m \in B \/ \E x \in versions : x.node = m /\ txStatus[x.tx] = "OPEN"
    BY <2>1 DEF TidyInv, Tidy, hasOpenVersion, OpenRows
  <2> QED BY <2>1, <2>2, <2>3
<1> QED BY <1>2, <1>3

(* A rewritten row is where it was. *)
LEMMA RewriteStays ==
    ASSUME BaseInv, NEW v \in versions, NEW c \in Contents, Rewritten(v, c), UNCHANGED txVars
    PROVE  \A x \in versions : \E w \in versions' : w.node = x.node /\ txStatus'[w.tx] = txStatus[x.tx]
<1> DEFINE r == [v EXCEPT !.content = c]
<1>1. r.node = v.node /\ r.tx = v.tx
  BY RowContent DEF BaseInv, TypeOK
<1>2. versions' = (versions \ {v}) \cup {r} /\ txStatus' = txStatus
  BY DEF Rewritten, txVars
<1> HIDE DEF r
<1> QED BY <1>1, <1>2

(* createVersion adds a row for the node in the transaction. *)
LEMMA CreatedIsThere ==
    ASSUME NEW n, NEW t, NEW s, NEW c, createVersion(n, t, s, c)
    PROVE  \E w \in versions' : w.node = n /\ w.tx = t
<1> DEFINE row == Successor(n, t, s, c)
<1>1. row.node = n /\ row.tx = t
  BY DEF Successor
<1>2. row \in versions'
  BY DEF createVersion, Inserted
<1> QED BY <1>1, <1>2

(* modifyNode, createLink *)
LEMMA WriteTidy ==
    ASSUME ClosedTx \notin Deviations, NEW B, NEW R, TidyInv(B, R),
           NEW u \in Users, NEW n \in Nodes, NEW t \in TxIds, NEW c \in Contents,
           WriteInTx(u, n, t, c)
    PROVE  Tidy(B, R)'
<1>1. /\ txStatus[t] = "OPEN" /\ UNCHANGED txVars /\ txStatus' = txStatus
      /\ n \in nodes /\ Lock(n, u) /\ nodes' = nodes /\ BaseInv
  BY DEF WriteInTx, NamesTx, txVars, CanLock, TidyInv
<1>2. nodes' = nodes \cup {n}
  BY <1>1
<1>3. CASE \E v \in RowsOf(n, t) : Rewritten(v, c)
  <2>1. PICK v \in versions : v.node = n /\ v.tx = t /\ Rewritten(v, c)
    BY <1>3 DEF RowsOf, RowsIn
  <2>2. \A x \in versions : \E w \in versions' : w.node = x.node /\ txStatus'[w.tx] = txStatus[x.tx]
    BY <1>1, <2>1, RewriteStays
  <2> QED BY <1>1, <1>2, <2>1, <2>2, LockTidy
<1>4. CASE createVersion(n, t, NoState, c)
  <2>1. versions \subseteq versions' /\ \E w \in versions' : w.node = n /\ w.tx = t
    BY <1>4, CreateKeeps, CreatedIsThere
  <2> QED BY <1>1, <1>2, <2>1, LockTidy
<1> QED BY <1>3, <1>4 DEF WriteInTx

(* checkout: the transaction is open, whether it was named or found *)
LEMMA CheckoutTidy ==
    ASSUME ClosedTx \notin Deviations, NEW B, NEW R, TidyInv(B, R),
           NEW u \in Users, NEW n \in Nodes, NEW t \in TxIds \cup {NoTx}, Checkout(u, n, t)
    PROVE  Tidy(B, R)'
<1>1. n \in nodes /\ Lock(n, u) /\ nodes' = nodes /\ nodes' = nodes \cup {n} /\ BaseInv
  BY DEF Checkout, CanLock, TidyInv
<1>2. ASSUME NEW s, CheckoutInto(n, s)
      PROVE  versions \subseteq versions' /\ \E w \in versions' : w.node = n /\ w.tx = s
  BY <1>2, CreateKeeps, CreatedIsThere DEF CheckoutInto, RowsOf, RowsIn
<1>3. CASE NamesTx(u, t) /\ CheckoutInto(n, t) /\ UNCHANGED txVars
  <2>1. txStatus[t] = "OPEN" /\ txStatus' = txStatus
    BY <1>3 DEF NamesTx, txVars
  <2> QED BY <1>1, <1>2, <1>3, <2>1, LockTidy
<1>4. CASE \E s \in TxIds : FoundOrOpened(u, s) /\ CheckoutInto(n, s)
  <2>1. PICK s \in TxIds : FoundOrOpened(u, s) /\ CheckoutInto(n, s)
    BY <1>4
  <2>2. txStatus'[s] = "OPEN" /\ \A v \in versions : txStatus'[v.tx] = txStatus[v.tx]
    BY <1>1, <2>1, FoundOrOpenedBase
  <2> QED BY <1>1, <1>2, <2>1, <2>2, LockTidy
<1> QED BY <1>3, <1>4 DEF Checkout

(* createNode *)
LEMMA CreateNodeTidy ==
    ASSUME NEW B, NEW R, TidyInv(B, R), NEW u \in Users, NEW n \in Nodes, CreateNode(u, n)
    PROVE  Tidy(B, R)'
<1>1. PICK t \in TxIds :
        /\ FoundOrOpened(u, t)
        /\ Inserted([node |-> n, num |-> 1, tx |-> t, prev |-> 0,
                     state |-> InitialState, content |-> EmptyContent])
  BY DEF CreateNode
<1>2. versions \subseteq versions' /\ \E w \in versions' : w.node = n /\ w.tx = t
  <2> DEFINE row == [node |-> n, num |-> 1, tx |-> t, prev |-> 0,
                     state |-> InitialState, content |-> EmptyContent]
  <2>1. row.node = n /\ row.tx = t
    OBVIOUS
  <2>2. versions' = versions \cup {row}
    BY <1>1 DEF Inserted
  <2> HIDE DEF row
  <2> QED BY <2>1, <2>2
<1>3. txStatus'[t] = "OPEN" /\ \A v \in versions : txStatus'[v.tx] = txStatus[v.tx]
  BY <1>1, FoundOrOpenedBase DEF TidyInv
<1>4. nodes' = nodes \cup {n} /\ Lock(n, u)
  BY DEF CreateNode
<1> QED BY <1>2, <1>3, <1>4, LockTidy

(* commitTransaction: whatever stays locked keeps its version in progress, *)
(* in its own transaction or in the continuation.                          *)
LEMMA CommitTidy ==
    ASSUME NEW B, NEW R, TidyInv(B, R), NEW u \in Users, NEW t \in TxIds, NEW sel \in SUBSET Nodes, Commit(u, t, sel)
    PROVE  Tidy(B, R)'
<1> DEFINE deferred == Deferred(t, sel)
           kept == RowsIn(t) \ deferred
<1>1. /\ txStatus[t] = "OPEN" /\ Unlock({v.node : v \in kept}) /\ nodes' = nodes
      /\ (CommitAll(t) /\ deferred = {}) \/ CommitPart(u, t, deferred)
  BY DEF Commit, Committable, OwnsOpenTx
<1>2. /\ TxTypeOK /\ nodes \subseteq Nodes /\ RowHasTx(txStatus, versions)
      /\ \A v \in versions : v \in Version /\ v.tx \in TxIds
  BY RowType DEF TidyInv, BaseInv, TypeOK, TxTypeOK, Statuses
<1>3. \A v \in versions : v.tx = t => v \in RowsIn(t)
  BY DEF RowsIn
<1>4. deferred \subseteq RowsIn(t) /\ \A v \in RowsIn(t) : v \in versions /\ v.tx = t
  BY DEF Deferred, RowsIn
<1>5. ASSUME NEW v \in versions
      PROVE  \E w \in versions' :
                /\ w.node = v.node
                /\ (txStatus[v.tx] = "OPEN" /\ v \notin kept) => txStatus'[w.tx] = "OPEN"
  <2> HIDE DEF deferred
  <2>1. CASE CommitAll(t) /\ deferred = {}
    BY <1>2, <1>3, <1>5, <2>1 DEF CommitAll, TxTypeOK
  <2>2. CASE CommitPart(u, t, deferred)
    <3>1. /\ nextTx <= MaxTx /\ versions' = MovedTo(versions, deferred, nextTx)
          /\ txStatus' = [txStatus EXCEPT ![t] = "COMMITTED", ![nextTx] = "OPEN"]
      BY <2>2 DEF CommitPart, MovedTo
    <3>2. nextTx \in TxIds /\ txStatus'[nextTx] = "OPEN"
      BY <1>2, <3>1, BoundsAssumption DEF TxTypeOK, TxIds
    <3>3. CASE v \in deferred
      <4> DEFINE r == [v EXCEPT !.tx = nextTx]
      <4>1. r.node = v.node /\ r.tx = nextTx
        BY <1>2, <3>2, RowTx
      <4>2. r \in versions'
        BY <3>1, <3>3 DEF MovedTo
      <4> HIDE DEF r
      <4> QED BY <3>2, <4>1, <4>2
    <3>4. CASE v \notin deferred
      <4>1. v \in versions'
        BY <3>1, <3>4 DEF MovedTo
      <4>2. v \notin kept => v.tx # t
        BY <1>3, <3>4
      <4> QED BY <1>2, <3>1, <3>2, <4>1, <4>2 DEF TxTypeOK
    <3> QED BY <3>3, <3>4
  <2> QED BY <1>1, <2>1, <2>2
<1> SUFFICES ASSUME NEW m \in nodes
             PROVE  /\ lockedBy'[m] # NoUser =>
                          m \in B \/ \E w \in versions' : w.node = m /\ txStatus'[w.tx] = "OPEN"
                    /\ m \in R \/ \E w \in versions' : w.node = m
  BY <1>1 DEF Tidy, hasOpenVersion, OpenRows
<1>6. m \in R \/ \E w \in versions' : w.node = m
  BY <1>5 DEF TidyInv, Tidy
<1>7. ASSUME lockedBy'[m] # NoUser, m \notin B
      PROVE  \E w \in versions' : w.node = m /\ txStatus'[w.tx] = "OPEN"
  <2>1. lockedBy[m] # NoUser /\ \A v \in kept : v.node # m
    BY <1>1, <1>2, <1>7 DEF Unlock
  <2>2. PICK v \in versions : v.node = m /\ txStatus[v.tx] = "OPEN"
    BY <1>7, <2>1 DEF TidyInv, Tidy, hasOpenVersion, OpenRows
  <2> QED BY <1>5, <2>1, <2>2
<1> QED BY <1>6, <1>7

(* releaseNodes and rollbackTransaction *)
LEMMA DeleteTidy ==
    ASSUME NEW B, NEW R, TidyInv(B, R), NEW S, NEW D,
           \A v \in D : v.node \in S,
           versions' = versions \ D, Unlock(S), nodes' = nodes \ Orphans(S, D),
           NEW G, TxsDeleted(G), \A v \in versions \ D : v.tx \notin G
    PROVE  Tidy(B, R)'
<1>1. nodes \subseteq Nodes /\ \A v \in versions : v.tx \in TxIds
  BY RowType DEF TidyInv, BaseInv, TypeOK
<1>2. \A v \in versions' : txStatus'[v.tx] = txStatus[v.tx]
  BY <1>1 DEF TxsDeleted
<1> SUFFICES ASSUME NEW m \in nodes'
             PROVE  /\ lockedBy'[m] # NoUser =>
                          m \in B \/ \E w \in versions' : w.node = m /\ txStatus'[w.tx] = "OPEN"
                    /\ m \in R \/ \E w \in versions' : w.node = m
  BY DEF Tidy, hasOpenVersion, OpenRows
<1>3. CASE m \in S
  <2>1. lockedBy'[m] = NoUser
    BY <1>1, <1>3 DEF Unlock
  <2>2. \E v \in versions \ D : v.node = m
    BY <1>3 DEF Orphans
  <2> QED BY <2>1, <2>2
<1>4. CASE m \notin S
  <2>1. m \in nodes /\ lockedBy'[m] = lockedBy[m]
    BY <1>1, <1>4 DEF Unlock
  <2>2. m \in R \/ \E v \in versions : v.node = m
    BY <2>1 DEF TidyInv, Tidy
  <2>3. lockedBy[m] # NoUser => m \in B \/ \E x \in versions : x.node = m /\ txStatus[x.tx] = "OPEN"
    BY <2>1 DEF TidyInv, Tidy, hasOpenVersion, OpenRows
  <2> QED BY <1>2, <1>4, <2>1, <2>2, <2>3
<1> QED BY <1>3, <1>4

(* A step that leaves rows and locks where they are leaves them tidy. *)
LEMMA StillTidy ==
    ASSUME NEW B, NEW R, TidyInv(B, R), nodes' = nodes, lockedBy' = lockedBy,
           \A v \in versions : \E w \in versions' :
               w.node = v.node /\ txStatus'[w.tx] = txStatus[v.tx]
    PROVE  Tidy(B, R)'
  BY DEF TidyInv, Tidy, hasOpenVersion, OpenRows

(* rollbackTransaction *)
LEMMA RollbackTidy ==
    ASSUME NEW B, NEW R, TidyInv(B, R), NEW u \in Users, NEW t \in TxIds, rollbackTransaction(u, t)
    PROVE  Tidy(B, R)'
<1> DEFINE affected == {v.node : v \in RowsIn(t)}
<1>1. /\ versions' = versions \ RowsIn(t) /\ TxsDeleted({t})
      /\ Unlock(affected) /\ nodes' = nodes \ Orphans(affected, RowsIn(t))
  BY DEF rollbackTransaction
<1>2. (\A v \in RowsIn(t) : v.node \in affected) /\ \A v \in versions \ RowsIn(t) : v.tx \notin {t}
  BY DEF RowsIn
<1> HIDE DEF affected
<1> QED BY <1>1, <1>2, DeleteTidy

(* Every request leaves locks and nodes tidy. *)
LEMMA UserTidy ==
    ASSUME ClosedTx \notin Deviations, CommittedLink \notin Deviations,
           NEW B, NEW R, TidyInv(B, R), NEW u \in Users, UserStep(u)
    PROVE  Tidy(B, R)'
<1>1. CASE OpenTransaction(u)
  BY <1>1, OpenedBase, StillTidy DEF OpenTransaction, TidyInv
<1>2. CASE \E n \in Nodes : CreateNode(u, n)
  BY <1>2, CreateNodeTidy
<1>3. CASE \E n \in Nodes, t \in TxIds \cup {NoTx} : Checkout(u, n, t)
  BY <1>3, CheckoutTidy
<1>4. ASSUME NEW n \in Nodes, NEW t \in TxIds, NEW c \in Contents,
             ModifyNode(u, n, t, c) \/ CreateLink(u, n, t, c)
      PROVE  Tidy(B, R)'
  BY <1>4, WriteTidy DEF ModifyNode, CreateLink
<1>5. ASSUME NEW n \in Nodes, NEW t \in TxIds, NEW c \in Contents, AssignDomain(u, n, t, c)
      PROVE  Tidy(B, R)'
  <2>1. PICK v \in versions : Rewritten(v, c)
    BY <1>5 DEF AssignDomain, RowsOf, RowsIn
  <2>2. UNCHANGED txVars /\ nodes' = nodes /\ lockedBy' = lockedBy
    BY <1>5 DEF AssignDomain
  <2> QED BY <2>1, <2>2, RewriteStays, StillTidy DEF TidyInv
<1>6. ASSUME NEW v \in versions, NEW c \in Contents, DeleteLink(u, v, c)
      PROVE  Tidy(B, R)'
  <2>1. /\ txStatus[v.tx] = "OPEN" /\ Rewritten(v, c) /\ UNCHANGED txVars
        /\ v.node \in nodes /\ Lock(v.node, u) /\ nodes' = nodes
    BY <1>6 DEF DeleteLink, OpenRows, CanLock
  <2>2. v.node \in Nodes /\ nodes' = nodes \cup {v.node}
    BY <2>1 DEF TidyInv, BaseInv, TypeOK
  <2>3. \A x \in versions : \E w \in versions' : w.node = x.node /\ txStatus'[w.tx] = txStatus[x.tx]
    BY <2>1, RewriteStays DEF TidyInv
  <2> QED BY <2>1, <2>2, <2>3, LockTidy
<1>7. ASSUME NEW t \in TxIds, NEW S \in SUBSET Nodes, Commit(u, t, S) PROVE Tidy(B, R)'
  BY <1>7, CommitTidy
<1>8. ASSUME NEW t \in TxIds, NEW S \in SUBSET Nodes, ReleaseNodes(u, t, S) PROVE Tidy(B, R)'
  <2> DEFINE rows == {v \in RowsIn(t) : v.node \in S}
             gone == IF RowsIn(t) \subseteq rows THEN {t} ELSE {}
  <2>1. /\ versions' = versions \ rows /\ TxsDeleted(gone)
        /\ Unlock(S) /\ nodes' = nodes \ Orphans(S, rows)
    BY <1>8 DEF ReleaseNodes
  <2>2. (\A v \in rows : v.node \in S) /\ \A v \in versions \ rows : v.tx \notin gone
    BY DEF RowsIn
  <2> HIDE DEF rows, gone
  <2> QED BY <2>1, <2>2, DeleteTidy
<1>9. CASE \E t \in TxIds : rollbackTransaction(u, t)
  BY <1>9, RollbackTidy
<1> QED BY <1>1, <1>2, <1>3, <1>4, <1>5, <1>6, <1>7, <1>8, <1>9 DEF UserStep

(* Requests leave nothing behind: a step after which a locked node has no   *)
(* version in progress, or a node row no version, found it so or is the     *)
(* clean-up job's, for any number of users and nodes; also when             *)
(* administrators end other users' transactions, when requests carry        *)
(* somebody else's open transaction, when a release lists foreign nodes,    *)
(* and on nodes the job left behind before.  The hypotheses exclude the two *)
(* deviations that lock without checking out: a committed transaction's id  *)
(* and a link deletion on a committed version.                              *)
THEOREM NothingLeftBehind ==
    ASSUME ClosedTx \notin Deviations, CommittedLink \notin Deviations
    PROVE  Spec => ResidueOnlyByCleanup
<1> DEFINE A == \A n \in Nodes : Residue(n)' =>
                    Residue(n) \/ \E cutoff \in TxIds : cleanStaleTransactions(cutoff)
<1>1. ASSUME IInv, Next PROVE A
  <2>1. PICK R : R = {n \in Nodes : Residue(n)}
    OBVIOUS
  <2>2. TidyInv(R, R)
    BY <1>1, <2>1, BaseOfIInv DEF TidyInv, Tidy, Residue, BaseInv, TypeOK
  <2>3. ASSUME Tidy(R, R)' PROVE A
    BY <2>1, <2>3 DEF Tidy, Residue, hasOpenVersion, OpenRows
  <2>4. CASE \E u \in Users : UserStep(u)
    BY <2>2, <2>3, <2>4, UserTidy
  <2>5. CASE \E v \in versions : AddComment(v)
    BY <2>2, <2>3, <2>5, StillTidy DEF AddComment, txVars
  <2> QED BY <1>1, <2>4, <2>5 DEF Next
<1>2. IInv /\ [Next]_vars => IInv'
  BY NextOK
<1>3. Spec => [][A]_vars
  BY <1>1, <1>2, InitOK, PTL DEF Spec
<1> QED BY <1>3 DEF ResidueOnlyByCleanup

-----------------------------------------------------------------------------
(***************************************************************************)
(* PlmTransaction implements VersionedItems.  The refinement mapping is    *)
(* stated over arbitrary tables, so that the facts about it apply before   *)
(* and after a step.                                                       *)
(***************************************************************************)
CommittedIn(ts, vs, n) == {v \in vs : v.node = n /\ ts[v.tx] = "COMMITTED"}
OpenIn(ts, vs) == {v \in vs : ts[v.tx] = "OPEN"}
Told(rows) == [i \in {v.num : v \in rows} |-> fingerprint(CHOOSE v \in rows : v.num = i)]
HistoryIn(ts, vs, n) == Told(CommittedIn(ts, vs, n))
DraftIn(ts, vs, n) ==
    IF \E v \in OpenIn(ts, vs) : v.node = n
    THEN fingerprint(CHOOSE v \in OpenIn(ts, vs) : v.node = n)
    ELSE NoDraft

(* The mapping, in the current and in the next state. *)
LEMMA Mapped ==
    ASSUME NEW n
    PROVE  /\ historyOf(n) = HistoryIn(txStatus, versions, n)
           /\ historyOf(n)' = HistoryIn(txStatus', versions', n)
           /\ draftOf(n) = DraftIn(txStatus, versions, n)
           /\ draftOf(n)' = DraftIn(txStatus', versions', n)
  BY DEF historyOf, HistoryIn, Told, CommittedRows, CommittedIn, draftOf, DraftIn,
         hasOpenVersion, OpenRows, OpenIn, fingerprint

(* The draft of a node is what its one version in progress says. *)
LEMMA DraftIsRow ==
    ASSUME NEW ts, NEW vs, Table(ts, vs), Good(ts, vs), NEW v \in vs, ts[v.tx] = "OPEN"
    PROVE  DraftIn(ts, vs, v.node) = fingerprint(v)
<1> DEFINE w == CHOOSE x \in OpenIn(ts, vs) : x.node = v.node
<1>1. v \in OpenIn(ts, vs)
  BY DEF OpenIn
<1>2. w \in OpenIn(ts, vs) /\ w.node = v.node
  BY <1>1
<1> HIDE DEF w
<1>3. w = v
  BY <1>2, OneDraft DEF OpenIn
<1> QED BY <1>1, <1>3 DEF DraftIn, w

(* A draft is the same when its row says the same, whichever transaction   *)
(* it is in.                                                               *)
LEMMA DraftSame ==
    ASSUME NEW ts, NEW vs, Table(ts, vs), Good(ts, vs),
           NEW us, NEW ws, Table(us, ws), Good(us, ws), NEW n,
           \A v \in vs : (v.node = n /\ ts[v.tx] = "OPEN") =>
               \E w \in ws : w.node = n /\ us[w.tx] = "OPEN" /\ fingerprint(w) = fingerprint(v),
           \A w \in ws : (w.node = n /\ us[w.tx] = "OPEN") =>
               \E v \in vs : v.node = n /\ ts[v.tx] = "OPEN"
    PROVE  DraftIn(us, ws, n) = DraftIn(ts, vs, n)
<1>1. CASE \E v \in vs : v.node = n /\ ts[v.tx] = "OPEN"
  <2>1. PICK v \in vs : v.node = n /\ ts[v.tx] = "OPEN"
    BY <1>1
  <2>2. PICK w \in ws : w.node = n /\ us[w.tx] = "OPEN" /\ fingerprint(w) = fingerprint(v)
    BY <2>1
  <2>3. DraftIn(ts, vs, n) = fingerprint(v)
    BY <2>1, DraftIsRow
  <2>4. DraftIn(us, ws, n) = fingerprint(w)
    BY <2>2, DraftIsRow
  <2> QED BY <2>2, <2>3, <2>4
<1>2. CASE ~ \E v \in vs : v.node = n /\ ts[v.tx] = "OPEN"
  BY <1>2 DEF DraftIn, OpenIn
<1> QED BY <1>1, <1>2

(* An entry of the history is what the committed row of that number says. *)
LEMMA HistoryEntry ==
    ASSUME NEW ts, NEW vs, Good(ts, vs), NEW n, NEW v \in CommittedIn(ts, vs, n)
    PROVE  /\ v.num \in DOMAIN HistoryIn(ts, vs, n)
           /\ HistoryIn(ts, vs, n)[v.num] = fingerprint(v)
<1> DEFINE w == CHOOSE x \in CommittedIn(ts, vs, n) : x.num = v.num
<1>1. w \in CommittedIn(ts, vs, n) /\ w.num = v.num
  OBVIOUS
<1> HIDE DEF w
<1>2. w = v
  BY <1>1 DEF CommittedIn, Good, UniqueKey
<1> QED BY <1>2 DEF HistoryIn, Told, w

(* What a row says, and that moving it to another transaction keeps that. *)
LEMMA RowSays ==
    ASSUME NEW v \in Version
    PROVE  /\ fingerprint(v) \in (States \cup {NoState}) \X Contents
           /\ fingerprint(v) # NoDraft
           /\ \A t \in TxIds : fingerprint([v EXCEPT !.tx = t]) = fingerprint(v)
<1>1. v.state \in States \cup {NoState} /\ v.content \in Contents
  BY RowType
<1>2. \A t \in TxIds : [v EXCEPT !.tx = t].state = v.state /\ [v EXCEPT !.tx = t].content = v.content
  BY DEF Version
<1> QED BY <1>1, <1>2 DEF fingerprint, NoDraft

-----------------------------------------------------------------------------
(***************************************************************************)
(* A history is a sequence: the committed versions of a node are numbered  *)
(* from 1 without gaps.                                                    *)
(***************************************************************************)
DenseIn(ts, vs) == \A n \in Nodes : \A v \in CommittedIn(ts, vs, n) :
    \A i \in 1..v.num : \E w \in CommittedIn(ts, vs, n) : w.num = i
HistoryInv == IInv /\ DenseIn(txStatus, versions)

(* A committed version stands on a committed version, so no step makes a gap. *)
LEMMA DenseStep ==
    ASSUME HistoryInv, KeepsCommitted, CommitsOnlyChanges
    PROVE  DenseIn(txStatus', versions')
<1> SUFFICES ASSUME NEW n \in Nodes, NEW v \in CommittedIn(txStatus', versions', n), NEW i \in 1..v.num
             PROVE  \E w \in CommittedIn(txStatus', versions', n) : w.num = i
  BY DEF DenseIn
<1>1. v \in versions /\ v.node = n /\ v \in Version
  BY DEF CommittedIn, CommitsOnlyChanges, HistoryInv, IInv, TypeOK
<1>2. v.num \in Nat /\ v.prev \in Nat /\ v.num = v.prev + 1
  BY <1>1, RowType DEF HistoryInv, IInv, Good, Numbered
<1>3. CASE i = v.num
  BY <1>3
<1>4. CASE i # v.num
  <2>1. i \in 1..v.prev /\ v.prev # 0
    BY <1>2, <1>4
  <2>2. PICK w \in versions : w.node = n /\ w.num = v.prev /\ txStatus[w.tx] = "COMMITTED"
    BY <1>1, <2>1 DEF HistoryInv, IInv, Good, OnCommitted
  <2>3. PICK x \in CommittedIn(txStatus, versions, n) : x.num = i
    BY <2>1, <2>2 DEF HistoryInv, DenseIn, CommittedIn
  <2> QED BY <2>3 DEF CommittedIn, KeepsCommitted
<1> QED BY <1>3, <1>4

(* The history of a node with committed versions is a sequence of what     *)
(* they say, as long as the number of the last one.                        *)
LEMMA HistorySeq ==
    ASSUME NEW ts, NEW vs, Table(ts, vs), Good(ts, vs), DenseIn(ts, vs), NEW n \in Nodes,
           NEW k \in Nat, \A v \in CommittedIn(ts, vs, n) : v.num <= k,
           k # 0 => \E v \in CommittedIn(ts, vs, n) : v.num = k
    PROVE  /\ HistoryIn(ts, vs, n) \in [1..k -> (States \cup {NoState}) \X Contents]
           /\ HistoryIn(ts, vs, n) \in Seq((States \cup {NoState}) \X Contents)
           /\ Len(HistoryIn(ts, vs, n)) = k
<1> DEFINE H == HistoryIn(ts, vs, n)
           C == CommittedIn(ts, vs, n)
           V == (States \cup {NoState}) \X Contents
<1>1. \A v \in C : v \in Version /\ v.num \in 1..k
  BY RowType DEF Table, CommittedIn
<1>2. \A i \in 1..k : \E v \in C : v.num = i
  BY DEF DenseIn
<1>3. DOMAIN H = 1..k
  <2>1. DOMAIN H = {v.num : v \in C}
    BY DEF HistoryIn, Told
  <2> QED BY <1>1, <1>2, <2>1
<1>4. ASSUME NEW i \in 1..k PROVE H[i] \in V
  <2>1. PICK v \in C : v.num = i
    BY <1>2
  <2> QED BY <1>1, <2>1, HistoryEntry, RowSays
<1>5. H = [i \in DOMAIN H |-> H[i]]
  BY DEF HistoryIn, Told
<1> HIDE DEF H, V
<1>6. H \in [1..k -> V]
  BY <1>3, <1>4, <1>5
<1>7. H \in Seq(V) /\ Len(H) = k
  BY <1>6
<1> QED BY <1>6, <1>7 DEF H, V

(* Appending to a sequence given as a function. *)
LEMMA AppendFunction ==
    ASSUME NEW V, NEW k \in Nat, NEW f \in [1..k -> V], NEW e \in V,
           NEW g \in [1..(k + 1) -> V], g[k + 1] = e, \A i \in 1..k : g[i] = f[i]
    PROVE  g = Append(f, e)
<1> DEFINE h == Append(f, e)
<1>1. f \in Seq(V) /\ Len(f) = k
  OBVIOUS
<1>2. /\ h \in Seq(V) /\ Len(h) = k + 1
      /\ \A i \in 1 .. k : h[i] = f[i]
      /\ h[k + 1] = e
  BY <1>1, AppendProperties
<1> HIDE DEF h
<1>3. h \in [1..(k + 1) -> V]
  BY <1>2, LenProperties
<1>4. \A i \in 1..(k + 1) : g[i] = h[i]
  BY <1>2
<1>5. g = h
  BY <1>3, <1>4
<1> QED BY <1>5 DEF h

-----------------------------------------------------------------------------
(* A step maps to a step of VersionedItems, or to none. *)
MapsToStep == Abstract!Next \/ UNCHANGED Abstract!itemVars

(* A step that commits nothing leaves the histories alone. *)
LEMMA SameHistory ==
    ASSUME KeepsCommitted, CommitsNothing, NEW n
    PROVE  historyOf(n)' = historyOf(n)
<1>1. CommittedIn(txStatus', versions', n) = CommittedIn(txStatus, versions, n)
  BY DEF CommittedIn, KeepsCommitted, CommitsNothing
<1> QED BY <1>1, Mapped DEF HistoryIn

(* The tables are good before and after a step. *)
LEMMA BothGood ==
    ASSUME IInv, IInv'
    PROVE  /\ Table(txStatus, versions) /\ Good(txStatus, versions)
           /\ Table(txStatus', versions') /\ Good(txStatus', versions')
           /\ \A v \in versions : v \in Version /\ v.tx \in TxIds /\ v.node \in Nodes
           /\ \A v \in versions' : v \in Version /\ v.node \in Nodes
<1>1. \A v \in versions : v \in Version /\ v.tx \in TxIds /\ v.node \in Nodes
  BY RowType DEF IInv, TypeOK
<1>2. \A v \in versions' : v \in Version /\ v.node \in Nodes
  BY RowType DEF IInv, TypeOK
<1> QED BY <1>1, <1>2 DEF IInv, TypeOK, Table, Statuses

(* A node whose rows are left alone keeps its draft. *)
LEMMA SameDraft ==
    ASSUME IInv, IInv', NEW n,
           \A v \in versions : v.node = n => v \in versions' /\ txStatus'[v.tx] = txStatus[v.tx],
           \A w \in versions' : w.node = n => w \in versions
    PROVE  draftOf(n)' = draftOf(n)
<1>1. DraftIn(txStatus', versions', n) = DraftIn(txStatus, versions, n)
  BY BothGood, DraftSame
<1> QED BY <1>1, Mapped

(* Steps without effect on the versions: openTransaction, addComment, a    *)
(* second checkout.                                                        *)
LEMMA StutterMaps ==
    ASSUME IInv, IInv', versions' = versions,
           \A v \in versions : txStatus'[v.tx] = txStatus[v.tx]
    PROVE  MapsToStep
<1>1. \A n \in Nodes : draftOf(n)' = draftOf(n)
  BY SameDraft
<1>2. KeepsCommitted /\ CommitsNothing
  BY DEF KeepsCommitted, CommitsNothing
<1>3. \A n \in Nodes : historyOf(n)' = historyOf(n)
  BY <1>2, SameHistory
<1> QED BY <1>1, <1>3 DEF MapsToStep, Abstract!itemVars

(* Steps that put r in progress: createNode, checkout, modifyNode,         *)
(* createLink, deleteLink, assign_domain.                                  *)
LEMMA WriteMaps ==
    ASSUME IInv, IInv', KeepsCommitted, CommitsNothing,
           NEW r \in versions', txStatus'[r.tx] = "OPEN",
           \A v \in versions : v.node # r.node => v \in versions' /\ txStatus'[v.tx] = txStatus[v.tx],
           \A w \in versions' : w.node # r.node => w \in versions
    PROVE  MapsToStep
<1>1. \A n \in Nodes : historyOf(n)' = historyOf(n)
  BY SameHistory
<1>2. \A n \in Nodes \ {r.node} : draftOf(n)' = draftOf(n)
  BY SameDraft
<1>3. draftOf(r.node)' = fingerprint(r)
  BY BothGood, DraftIsRow, Mapped
<1>4. r.node \in Nodes /\ fingerprint(r) \in (States \cup {NoState}) \X Contents
  BY BothGood, RowSays
<1>5. Abstract!Write(r.node, fingerprint(r))
  BY <1>1, <1>2, <1>3, <1>4 DEF Abstract!Write
<1> QED BY <1>4, <1>5 DEF MapsToStep, Abstract!Next

(* Rewriting a row in progress. *)
LEMMA RewriteMaps ==
    ASSUME IInv, IInv', KeepsCommitted, CommitsNothing,
           NEW v \in versions, NEW c \in Contents, txStatus[v.tx] = "OPEN",
           Rewritten(v, c), UNCHANGED txVars
    PROVE  MapsToStep
<1> DEFINE r == [v EXCEPT !.content = c]
<1>1. r.node = v.node /\ r.tx = v.tx
  BY RowContent DEF IInv, TypeOK
<1>2. versions' = (versions \ {v}) \cup {r} /\ txStatus' = txStatus
  BY DEF Rewritten, txVars
<1> HIDE DEF r
<1> QED BY <1>1, <1>2, WriteMaps

(* Inserting a row in progress. *)
LEMMA InsertMaps ==
    ASSUME IInv, IInv', KeepsCommitted, CommitsNothing,
           NEW row, versions' = versions \cup {row}, txStatus'[row.tx] = "OPEN",
           \A v \in versions : txStatus'[v.tx] = txStatus[v.tx]
    PROVE  MapsToStep
  BY WriteMaps

(* Deleting rows in progress: releaseNodes, rollbackTransaction and the    *)
(* clean-up job.                                                           *)
LEMMA DeleteMaps ==
    ASSUME IInv, IInv', KeepsCommitted, CommitsNothing,
           NEW D, \A v \in D : v \in versions /\ txStatus[v.tx] = "OPEN", versions' = versions \ D,
           \A v \in versions \ D : txStatus'[v.tx] = txStatus[v.tx]
    PROVE  MapsToStep
<1> DEFINE S == {v.node : v \in D}
<1>1. CASE D = {}
  BY <1>1, StutterMaps
<1>2. CASE D # {}
  <2>1. \A n \in Nodes : historyOf(n)' = historyOf(n)
    BY SameHistory
  <2>2. ASSUME NEW n \in Nodes, n \notin S PROVE draftOf(n)' = draftOf(n)
    BY <2>2, SameDraft
  <2>3. ASSUME NEW n \in S PROVE draftOf(n)' = NoDraft
    <3>1. PICK v \in D : v.node = n
      BY <2>3
    <3>2. \A w \in versions \ D : w.node = n => txStatus[w.tx] # "OPEN"
      BY <3>1, OneDraft, BothGood
    <3>3. DraftIn(txStatus', versions', n) = NoDraft
      BY <3>2 DEF DraftIn, OpenIn
    <3> QED BY <3>3, Mapped
  <2>4. S \in (SUBSET Nodes) \ {{}}
    BY <1>2, BothGood
  <2> HIDE DEF S
  <2>5. Abstract!Discard(S)
    BY <2>1, <2>2, <2>3, <2>4 DEF Abstract!Discard
  <2> QED BY <2>4, <2>5 DEF MapsToStep, Abstract!Next
<1> QED BY <1>1, <1>2

(* What commitTransaction does to the rows: the kept ones become           *)
(* committed, the others stay in progress and say what they said.          *)
LEMMA CommitRows ==
    ASSUME IInv, NEW u \in Users, NEW t \in TxIds, NEW sel \in SUBSET Nodes, Commit(u, t, sel)
    PROVE  LET kept == RowsIn(t) \ Deferred(t, sel) IN
           /\ kept # {}
           /\ \A v \in kept : /\ v \in versions /\ txStatus[v.tx] = "OPEN" /\ ~ NoOp(v)
                              /\ v \in versions' /\ txStatus'[v.tx] = "COMMITTED"
           /\ \A w \in versions' : txStatus'[w.tx] = "COMMITTED" =>
                 w \in versions /\ (txStatus[w.tx] = "COMMITTED" \/ w \in kept)
           /\ \A v \in versions : (txStatus[v.tx] = "OPEN" /\ v \notin kept) =>
                 \E w \in versions' : /\ w.node = v.node /\ txStatus'[w.tx] = "OPEN"
                                      /\ fingerprint(w) = fingerprint(v)
           /\ \A w \in versions' : txStatus'[w.tx] = "OPEN" =>
                 \E v \in versions : v.node = w.node /\ txStatus[v.tx] = "OPEN" /\ v \notin kept
<1> DEFINE deferred == Deferred(t, sel)
           kept == RowsIn(t) \ deferred
<1>1. /\ txStatus[t] = "OPEN" /\ kept # {} /\ \A v \in kept : ~ NoOp(v)
      /\ (CommitAll(t) /\ deferred = {}) \/ CommitPart(u, t, deferred)
  BY DEF Commit, Committable, OwnsOpenTx
<1>2. TxTypeOK /\ \A v \in versions : v \in Version /\ v.tx \in TxIds
  BY Parts, RowType DEF IInv, TypeOK
<1>3. \A v \in versions : v \in RowsIn(t) <=> v.tx = t
  BY DEF RowsIn
<1>4. deferred \subseteq RowsIn(t) /\ RowsIn(t) \subseteq versions
  BY DEF Deferred, RowsIn
<1> HIDE DEF deferred
<1>5. CASE CommitAll(t) /\ deferred = {}
  <2>1. versions' = versions /\ txStatus' = [txStatus EXCEPT ![t] = "COMMITTED"]
    BY <1>5 DEF CommitAll
  <2>2. \A v \in versions : /\ v \in kept <=> v.tx = t
                            /\ txStatus'[v.tx] = IF v.tx = t THEN "COMMITTED" ELSE txStatus[v.tx]
    BY <1>2, <1>3, <1>5, <2>1 DEF TxTypeOK
  <2> HIDE DEF kept
  <2>3. kept \subseteq versions
    BY <1>4 DEF kept
  <2>4. /\ kept # {}
        /\ \A v \in kept : /\ v \in versions /\ txStatus[v.tx] = "OPEN" /\ ~ NoOp(v)
                           /\ v \in versions' /\ txStatus'[v.tx] = "COMMITTED"
    BY <1>1, <2>1, <2>2, <2>3
  <2>5. /\ \A w \in versions' : txStatus'[w.tx] = "COMMITTED" =>
              w \in versions /\ (txStatus[w.tx] = "COMMITTED" \/ w \in kept)
        /\ \A v \in versions : (txStatus[v.tx] = "OPEN" /\ v \notin kept) =>
              v \in versions' /\ txStatus'[v.tx] = "OPEN"
        /\ \A w \in versions' : txStatus'[w.tx] = "OPEN" =>
              w \in versions /\ txStatus[w.tx] = "OPEN" /\ w \notin kept
    BY <2>1, <2>2
  <2> QED BY <2>4, <2>5 DEF kept, deferred
<1>6. CASE CommitPart(u, t, deferred)
  <2> DEFINE moved(v) == [v EXCEPT !.tx = nextTx]
  <2>1. /\ nextTx <= MaxTx /\ versions' = (versions \ deferred) \cup {moved(v) : v \in deferred}
        /\ txStatus' = [txStatus EXCEPT ![t] = "COMMITTED", ![nextTx] = "OPEN"]
    BY <1>6 DEF CommitPart
  <2>2. nextTx \in TxIds /\ txStatus[nextTx] = "none"
    BY <1>2, <2>1, BoundsAssumption DEF TxTypeOK, TxIds, IInv, FreshTx
  <2>3. \A v \in versions : v.tx # nextTx
    BY <2>2 DEF IInv, Good, RowHasTx
  <2>4. /\ txStatus'[nextTx] = "OPEN"
        /\ \A v \in versions : txStatus'[v.tx] = IF v.tx = t THEN "COMMITTED" ELSE txStatus[v.tx]
    BY <1>1, <1>2, <2>1, <2>2, <2>3 DEF TxTypeOK
  <2>5. \A v \in deferred : /\ v \in versions /\ v.tx = t /\ moved(v).tx = nextTx
                            /\ moved(v).node = v.node /\ fingerprint(moved(v)) = fingerprint(v)
    BY <1>2, <1>3, <1>4, <2>2, RowTx, RowSays
  <2>6. \A v \in versions : v \in kept <=> v.tx = t /\ v \notin deferred
    BY <1>3
  <2>7. kept \subseteq versions
    BY <1>4
  <2> HIDE DEF kept, moved
  <2>8. /\ kept # {}
        /\ \A v \in kept : /\ v \in versions /\ txStatus[v.tx] = "OPEN" /\ ~ NoOp(v)
                           /\ v \in versions' /\ txStatus'[v.tx] = "COMMITTED"
    BY <1>1, <2>1, <2>4, <2>6, <2>7
  <2>9. \A w \in versions' : txStatus'[w.tx] = "COMMITTED" =>
           w \in versions /\ (txStatus[w.tx] = "COMMITTED" \/ w \in kept)
    BY <2>1, <2>4, <2>5, <2>6
  <2>10. \A v \in versions : (txStatus[v.tx] = "OPEN" /\ v \notin kept) =>
            \E w \in versions' : /\ w.node = v.node /\ txStatus'[w.tx] = "OPEN"
                                 /\ fingerprint(w) = fingerprint(v)
    BY <2>1, <2>4, <2>5, <2>6
  <2>11. \A w \in versions' : txStatus'[w.tx] = "OPEN" =>
            \E v \in versions : v.node = w.node /\ txStatus[v.tx] = "OPEN" /\ v \notin kept
    BY <1>1, <2>1, <2>4, <2>5, <2>6
  <2> QED BY <2>8, <2>9, <2>10, <2>11 DEF kept, deferred
<1> QED BY <1>1, <1>5, <1>6

(* A node of a kept row: its draft is appended to its history. *)
LEMMA PublishOne ==
    ASSUME HistoryInv, IInv', DenseIn(txStatus', versions'), KeepsCommitted,
           NEW v \in versions, txStatus[v.tx] = "OPEN", ~ NoOp(v),
           v \in versions', txStatus'[v.tx] = "COMMITTED",
           \A w \in versions' : (txStatus'[w.tx] = "COMMITTED" /\ w.node = v.node) =>
               w = v \/ (w \in versions /\ txStatus[w.tx] = "COMMITTED"),
           \A w \in versions' : w.node = v.node => txStatus'[w.tx] # "OPEN"
    PROVE  /\ historyOf(v.node)' = Append(historyOf(v.node), draftOf(v.node))
           /\ draftOf(v.node)' = NoDraft
           /\ draftOf(v.node) # NoDraft
           /\ historyOf(v.node) # <<>> =>
                 draftOf(v.node) # historyOf(v.node)[Len(historyOf(v.node))]
<1> DEFINE n == v.node
           k == v.prev
           H == HistoryIn(txStatus, versions, n)
           G == HistoryIn(txStatus', versions', n)
           C == CommittedIn(txStatus, versions, n)
           V == (States \cup {NoState}) \X Contents
<1>1. /\ Table(txStatus, versions) /\ Good(txStatus, versions) /\ DenseIn(txStatus, versions)
      /\ Table(txStatus', versions') /\ Good(txStatus', versions')
      /\ v \in Version /\ n \in Nodes
  BY BothGood DEF HistoryInv
<1>2. k \in Nat /\ v.num = k + 1
  BY <1>1, RowType DEF Good, Numbered
<1>3. (\A w \in C : w.num <= k) /\ (k # 0 => \E w \in C : w.num = k)
  BY <1>1 DEF Good, OnTop, OnCommitted, CommittedIn
<1>4. H \in [1..k -> V] /\ H \in Seq(V) /\ Len(H) = k
  BY <1>1, <1>2, <1>3, HistorySeq
<1>5. \A w \in CommittedIn(txStatus', versions', n) : w.num <= k + 1
  <2> SUFFICES ASSUME NEW w \in CommittedIn(txStatus', versions', n) PROVE w.num <= k + 1
    OBVIOUS
  <2>1. w = v \/ w \in C
    BY DEF CommittedIn
  <2>2. w \in C => w.num <= k /\ w.num \in Nat
    BY <1>1, <1>3, RowType DEF CommittedIn, Table
  <2> QED BY <1>2, <2>1, <2>2
<1>6. v \in CommittedIn(txStatus', versions', n)
  BY DEF CommittedIn
<1>7. G \in [1..(k + 1) -> V]
  BY <1>1, <1>2, <1>5, <1>6, HistorySeq
<1>8. G[k + 1] = fingerprint(v)
  BY <1>1, <1>2, <1>6, HistoryEntry
<1>9. ASSUME NEW i \in 1..k PROVE G[i] = H[i]
  <2>1. PICK w \in C : w.num = i
    BY <1>1, <1>2, <1>3 DEF DenseIn
  <2>2. w \in CommittedIn(txStatus', versions', n)
    BY DEF CommittedIn, KeepsCommitted
  <2> QED BY <1>1, <2>1, <2>2, HistoryEntry
<1>10. draftOf(n) = fingerprint(v) /\ fingerprint(v) \in V /\ fingerprint(v) # NoDraft
  BY <1>1, DraftIsRow, Mapped, RowSays
<1>11. draftOf(n)' = NoDraft
  <2>1. DraftIn(txStatus', versions', n) = NoDraft
    BY DEF DraftIn, OpenIn
  <2> QED BY <2>1, Mapped
<1>12. historyOf(n) = H /\ historyOf(n)' = G
  BY Mapped
<1>13. H # <<>> => fingerprint(v) # H[k]
  <2> SUFFICES ASSUME H # <<>> PROVE fingerprint(v) # H[k]
    OBVIOUS
  <2>1. k # 0
    BY <1>4, EmptySeq
  <2>2. PICK w \in C : w.num = k
    BY <1>3, <2>1
  <2>3. H[k] = fingerprint(w)
    BY <1>1, <2>2, HistoryEntry
  <2>4. fingerprint(w) # fingerprint(v)
    BY <2>2 DEF NoOp, CommittedIn
  <2> QED BY <2>3, <2>4
<1> HIDE DEF H, G, V, n, k, C
<1>14. G = Append(H, fingerprint(v))
  BY <1>2, <1>4, <1>7, <1>8, <1>9, <1>10, AppendFunction
<1>15. /\ historyOf(n)' = Append(historyOf(n), draftOf(n)) /\ draftOf(n)' = NoDraft /\ draftOf(n) # NoDraft
       /\ historyOf(n) # <<>> => draftOf(n) # historyOf(n)[Len(historyOf(n))]
  BY <1>4, <1>10, <1>11, <1>12, <1>13, <1>14
<1> QED BY <1>15 DEF n

(* commitTransaction publishes the drafts of the nodes it keeps. *)
LEMMA CommitMaps ==
    ASSUME HistoryInv, IInv', KeepsCommitted, CommitsOnlyChanges,
           NEW u \in Users, NEW t \in TxIds, NEW sel \in SUBSET Nodes, Commit(u, t, sel)
    PROVE  MapsToStep
<1> DEFINE kept == RowsIn(t) \ Deferred(t, sel)
           S == {v.node : v \in kept}
<1>0. IInv /\ DenseIn(txStatus', versions')
  BY DenseStep DEF HistoryInv
<1>1. /\ kept # {}
      /\ \A v \in kept : /\ v \in versions /\ txStatus[v.tx] = "OPEN" /\ ~ NoOp(v)
                         /\ v \in versions' /\ txStatus'[v.tx] = "COMMITTED"
  BY <1>0, CommitRows
<1>2. \A w \in versions' : txStatus'[w.tx] = "COMMITTED" =>
         w \in versions /\ (txStatus[w.tx] = "COMMITTED" \/ w \in kept)
  BY <1>0, CommitRows
<1>3. \A v \in versions : (txStatus[v.tx] = "OPEN" /\ v \notin kept) =>
         \E w \in versions' : /\ w.node = v.node /\ txStatus'[w.tx] = "OPEN"
                              /\ fingerprint(w) = fingerprint(v)
  BY <1>0, CommitRows
<1>4. \A w \in versions' : txStatus'[w.tx] = "OPEN" =>
         \E v \in versions : v.node = w.node /\ txStatus[v.tx] = "OPEN" /\ v \notin kept
  BY <1>0, CommitRows
<1> HIDE DEF kept
<1>5. ASSUME NEW n \in S
      PROVE  /\ historyOf(n)' = Append(historyOf(n), draftOf(n)) /\ draftOf(n)' = NoDraft
             /\ draftOf(n) # NoDraft
             /\ historyOf(n) # <<>> => draftOf(n) # historyOf(n)[Len(historyOf(n))]
  <2>1. PICK v \in kept : v.node = n
    BY <1>5
  <2>2. \A w \in versions : (w.node = n /\ txStatus[w.tx] = "OPEN") => w = v
    BY <1>0, <1>1, <2>1, BothGood, OneDraft
  <2>3. \A w \in versions' : w.node = n => txStatus'[w.tx] # "OPEN"
    BY <1>4, <2>1, <2>2
  <2>4. \A w \in versions' : (txStatus'[w.tx] = "COMMITTED" /\ w.node = n) =>
           w = v \/ (w \in versions /\ txStatus[w.tx] = "COMMITTED")
    BY <1>1, <1>2, <2>2
  <2>5. v \in versions /\ txStatus[v.tx] = "OPEN" /\ ~ NoOp(v) /\ v \in versions' /\ txStatus'[v.tx] = "COMMITTED"
    BY <1>1
  <2> QED BY <1>0, <2>1, <2>3, <2>4, <2>5, PublishOne
<1>6. ASSUME NEW n \in Nodes, n \notin S
      PROVE  historyOf(n)' = historyOf(n) /\ draftOf(n)' = draftOf(n)
  <2>1. \A v \in kept : v.node # n
    BY <1>6
  <2>2. CommittedIn(txStatus', versions', n) = CommittedIn(txStatus, versions, n)
    BY <1>2, <2>1 DEF CommittedIn, KeepsCommitted
  <2>3. DraftIn(txStatus', versions', n) = DraftIn(txStatus, versions, n)
    BY <1>0, <1>3, <1>4, <2>1, BothGood, DraftSame
  <2> QED BY <2>2, <2>3, Mapped DEF HistoryIn
<1>7. S \in (SUBSET Nodes) \ {{}}
  BY <1>0, <1>1, BothGood
<1> HIDE DEF S
<1>8. \A n \in S : Abstract!Publishable(n)
  BY <1>5, <1>7 DEF Abstract!Publishable
<1>9. Abstract!Publish(S)
  BY <1>5, <1>6, <1>7, <1>8 DEF Abstract!Publish
<1> QED BY <1>7, <1>9 DEF MapsToStep, Abstract!Next

(* Every step maps to a step of VersionedItems or to none. *)
LEMMA NextMaps ==
    ASSUME ClosedTx \notin Deviations, CommittedLink \notin Deviations, HistoryInv, IInv', Next
    PROVE  MapsToStep
<1>0. IInv /\ KeepsCommitted /\ CommitsOnlyChanges
  BY NextKeeps, NextCommits DEF HistoryInv
<1>1. CASE \E u \in Users, t \in TxIds, S \in SUBSET Nodes : Commit(u, t, S)
  BY <1>0, <1>1, CommitMaps
<1>2. CASE ~ \E u \in Users, t \in TxIds, S \in SUBSET Nodes : Commit(u, t, S)
  <2>0. CommitsNothing
    BY <1>0, <1>2, OnlyCommitCommits
  <2>1. ASSUME NEW n \in Nodes, NEW t \in TxIds, NEW c, createVersion(n, t, NoState, c),
               txStatus'[t] = "OPEN", \A v \in versions : txStatus'[v.tx] = txStatus[v.tx]
        PROVE  MapsToStep
    <3> DEFINE row == Successor(n, t, NoState, c)
    <3>1. row.tx = t
      BY DEF Successor
    <3>2. versions' = versions \cup {row}
      BY <2>1 DEF createVersion, Inserted
    <3> HIDE DEF row
    <3> QED BY <1>0, <2>0, <2>1, <3>1, <3>2, InsertMaps
  <2>2. ASSUME NEW u \in Users, UserStep(u)
        PROVE  MapsToStep
    <3>1. CASE OpenTransaction(u)
      BY <1>0, <3>1, OpenedOK, StutterMaps DEF OpenTransaction
    <3>2. ASSUME NEW n \in Nodes, CreateNode(u, n) PROVE MapsToStep
      <4>1. PICK t \in TxIds :
              /\ FoundOrOpened(u, t)
              /\ Inserted([node |-> n, num |-> 1, tx |-> t, prev |-> 0,
                           state |-> InitialState, content |-> EmptyContent])
        BY <3>2 DEF CreateNode
      <4> DEFINE row == [node |-> n, num |-> 1, tx |-> t, prev |-> 0,
                         state |-> InitialState, content |-> EmptyContent]
      <4>2. row.tx = t
        OBVIOUS
      <4>3. versions' = versions \cup {row}
        BY <4>1 DEF Inserted
      <4> HIDE DEF row
      <4>4. txStatus'[t] = "OPEN" /\ \A v \in versions : txStatus'[v.tx] = txStatus[v.tx]
        BY <1>0, <4>1, FoundOrOpenedOK
      <4> QED BY <1>0, <2>0, <4>2, <4>3, <4>4, InsertMaps
    <3>3. ASSUME NEW n \in Nodes, NEW t \in TxIds \cup {NoTx}, Checkout(u, n, t)
          PROVE  MapsToStep
      <4>1. ASSUME NEW s \in TxIds, CheckoutInto(n, s),
                   \A v \in versions : txStatus'[v.tx] = txStatus[v.tx],
                   RowsOf(n, s) = {} => txStatus'[s] = "OPEN"
            PROVE  MapsToStep
        <5>1. CASE versions' = versions
          BY <1>0, <4>1, <5>1, StutterMaps
        <5>2. CASE /\ RowsOf(n, s) = {}
                   /\ createVersion(n, s, NoState, getCurrentVersionForTx(n, s).content)
          BY <2>1, <4>1, <5>2
        <5> QED BY <4>1, <5>1, <5>2 DEF CheckoutInto
      <4>2. CASE /\ t # NoTx /\ (RowsOf(n, t) = {} => txStatus[t] = "OPEN")
                 /\ CheckoutInto(n, t) /\ UNCHANGED txVars
        <5>1. t \in TxIds /\ txStatus' = txStatus
          BY <4>2 DEF txVars
        <5> QED BY <4>1, <4>2, <5>1
      <4>3. CASE \E s \in TxIds : FoundOrOpened(u, s) /\ CheckoutInto(n, s)
        <5>1. PICK s \in TxIds : FoundOrOpened(u, s) /\ CheckoutInto(n, s)
          BY <4>3
        <5>2. txStatus'[s] = "OPEN" /\ \A v \in versions : txStatus'[v.tx] = txStatus[v.tx]
          BY <1>0, <5>1, FoundOrOpenedOK
        <5> QED BY <4>1, <5>1, <5>2
      <4> QED BY <3>3, <4>2, <4>3 DEF Checkout
    <3>4. ASSUME NEW n \in Nodes, NEW t \in TxIds, NEW c \in Contents, WriteInTx(u, n, t, c)
          PROVE  MapsToStep
      <4>1. txStatus[t] = "OPEN" /\ UNCHANGED txVars /\ txStatus' = txStatus
        BY <3>4 DEF WriteInTx, NamesTx, txVars
      <4>2. CASE \E v \in RowsOf(n, t) : Rewritten(v, c)
        BY <1>0, <2>0, <4>1, <4>2, RewriteMaps DEF RowsOf, RowsIn
      <4>3. CASE createVersion(n, t, NoState, c)
        BY <2>1, <4>1, <4>3
      <4> QED BY <3>4, <4>2, <4>3 DEF WriteInTx
    <3>5. ASSUME NEW n \in Nodes, NEW t \in TxIds, NEW c \in Contents,
                 ModifyNode(u, n, t, c) \/ CreateLink(u, n, t, c) \/ AssignDomain(u, n, t, c)
          PROVE  MapsToStep
      <4>1. CASE AssignDomain(u, n, t, c)
        <5>1. PICK v \in RowsOf(n, t) : Rewritten(v, c)
          BY <4>1 DEF AssignDomain
        <5>2. v \in versions /\ txStatus[v.tx] = "OPEN" /\ UNCHANGED txVars
          BY <4>1 DEF AssignDomain, NamesTx, RowsOf, RowsIn
        <5> QED BY <1>0, <2>0, <5>1, <5>2, RewriteMaps
      <4> QED BY <3>4, <3>5, <4>1 DEF ModifyNode, CreateLink
    <3>6. ASSUME NEW v \in versions, NEW c \in Contents, DeleteLink(u, v, c)
          PROVE  MapsToStep
      <4>1. txStatus[v.tx] = "OPEN" /\ Rewritten(v, c) /\ UNCHANGED txVars
        BY <3>6 DEF DeleteLink, OpenRows
      <4> QED BY <1>0, <2>0, <4>1, RewriteMaps
    <3>7. ASSUME NEW t \in TxIds, NEW S \in SUBSET Nodes, ReleaseNodes(u, t, S) PROVE MapsToStep
      <4> DEFINE rows == {v \in RowsIn(t) : v.node \in S}
                 gone == IF RowsIn(t) \subseteq rows THEN {t} ELSE {}
      <4>1. txStatus[t] = "OPEN" /\ versions' = versions \ rows /\ TxsDeleted(gone)
        BY <3>7 DEF ReleaseNodes, OwnsOpenTx
      <4>2. /\ \A v \in rows : v \in versions /\ txStatus[v.tx] = "OPEN"
            /\ \A v \in versions \ rows : v.tx \notin gone
        BY <4>1 DEF RowsIn
      <4> HIDE DEF rows, gone
      <4>3. \A v \in versions \ rows : txStatus'[v.tx] = txStatus[v.tx]
        BY <1>0, <4>1, <4>2, BothGood DEF TxsDeleted
      <4> QED BY <1>0, <2>0, <4>1, <4>2, <4>3, DeleteMaps
    <3>8. ASSUME NEW t \in TxIds, rollbackTransaction(u, t) PROVE MapsToStep
      <4>1. txStatus[t] = "OPEN" /\ versions' = versions \ RowsIn(t) /\ TxsDeleted({t})
        BY <3>8 DEF rollbackTransaction, OwnsOpenTx
      <4>2. /\ \A v \in RowsIn(t) : v \in versions /\ txStatus[v.tx] = "OPEN"
            /\ \A v \in versions \ RowsIn(t) : v.tx # t
        BY <4>1 DEF RowsIn
      <4>3. \A v \in versions \ RowsIn(t) : txStatus'[v.tx] = txStatus[v.tx]
        BY <1>0, <4>1, <4>2, BothGood DEF TxsDeleted
      <4> QED BY <1>0, <2>0, <4>1, <4>2, <4>3, DeleteMaps
    <3> QED BY <1>2, <2>2, <3>1, <3>2, <3>3, <3>5, <3>6, <3>7, <3>8 DEF UserStep
  <2>3. ASSUME NEW v \in versions, AddComment(v) PROVE MapsToStep
    BY <1>0, <2>3, StutterMaps DEF AddComment, txVars
  <2>4. ASSUME NEW cutoff \in TxIds, cleanStaleTransactions(cutoff) PROVE MapsToStep
    <3> DEFINE stale == {t \in TxIds : t <= cutoff /\ txStatus[t] = "OPEN"}
               rows == {v \in versions : v.tx \in stale}
    <3>1. versions' = versions \ rows /\ TxsDeleted(stale)
      BY <2>4 DEF cleanStaleTransactions
    <3>2. /\ \A v \in rows : v \in versions /\ txStatus[v.tx] = "OPEN"
          /\ \A v \in versions \ rows : v.tx \notin stale
      OBVIOUS
    <3> HIDE DEF rows, stale
    <3>3. \A v \in versions \ rows : txStatus'[v.tx] = txStatus[v.tx]
      BY <1>0, <3>1, <3>2, BothGood DEF TxsDeleted
    <3> QED BY <1>0, <2>0, <3>1, <3>2, <3>3, DeleteMaps
  <2> QED BY <2>2, <2>3, <2>4 DEF Next
<1> QED BY <1>1, <1>2

(* The empty tables map to no items. *)
LEMMA InitMaps == Init => Abstract!Init
<1> SUFFICES ASSUME Init PROVE Abstract!Init
  OBVIOUS
<1>1. \A n \in Nodes : historyOf(n) = <<>>
  BY DEF historyOf, CommittedRows, Init
<1>2. \A n \in Nodes : draftOf(n) = NoDraft
  BY DEF draftOf, hasOpenVersion, OpenRows, Init
<1> QED BY <1>1, <1>2 DEF Abstract!Init

(* The authoring core implements append-only histories with one draft per  *)
(* item: for any users, administrators, nodes and bounds, and whatever is  *)
(* locked, deferred, released, rolled back or cleaned up.  The hypotheses  *)
(* name the two requests that rewrite a committed version.                 *)
THEOREM Implements ==
    ASSUME ClosedTx \notin Deviations, CommittedLink \notin Deviations
    PROVE  Spec => ImplementsVersionedItems
<1>1. Init => HistoryInv
  BY InitOK DEF Init, HistoryInv, DenseIn, CommittedIn
<1>2. HistoryInv /\ [Next]_vars => HistoryInv'
  <2> SUFFICES ASSUME HistoryInv, [Next]_vars PROVE HistoryInv'
    OBVIOUS
  <2>1. IInv'
    BY NextOK DEF HistoryInv
  <2>2. CASE Next
    BY <2>1, <2>2, NextKeeps, NextCommits, DenseStep DEF HistoryInv
  <2>3. CASE UNCHANGED vars
    BY <2>1, <2>3 DEF vars, HistoryInv
  <2> QED BY <2>2, <2>3
<1>3. HistoryInv /\ HistoryInv' /\ [Next]_vars => [Abstract!Next]_(Abstract!itemVars)
  <2> SUFFICES ASSUME HistoryInv, HistoryInv', [Next]_vars
               PROVE  MapsToStep
    BY DEF MapsToStep
  <2>1. IInv /\ IInv'
    BY DEF HistoryInv
  <2>2. CASE Next
    BY <2>1, <2>2, NextMaps
  <2>3. CASE UNCHANGED vars
    BY <2>1, <2>3, StutterMaps DEF vars
  <2> QED BY <2>2, <2>3
<1> QED BY <1>1, <1>2, <1>3, InitMaps, PTL DEF Spec, Abstract!Spec, ImplementsVersionedItems
=============================================================================
