------------------------ MODULE PlmTransactionProofs ------------------------
(***************************************************************************)
(* Proofs about PlmTransaction for every set of users and nodes, every     *)
(* combination of deviations and every bound.                              *)
(***************************************************************************)
EXTENDS PlmTransaction, TLAPS

Statuses == {"none", "OPEN", "COMMITTED"}

(***************************************************************************)
(* What holds of the version table vs when ts gives the transactions'      *)
(* status.  Stated over arbitrary tables so that each statement that       *)
(* changes a table has a lemma of its own.                                 *)
(***************************************************************************)
RowHasTx(ts, vs) == \A v \in vs : ts[v.tx] # "none"
UniqueKey(vs) == \A v, w \in vs : v.node = w.node /\ v.num = w.num => v = w
Numbered(vs) == \A v \in vs : v.num = v.prev + 1
OnCommitted(ts, vs) == \A v \in vs : v.prev # 0 =>
    \E w \in vs : w.node = v.node /\ w.num = v.prev /\ ts[w.tx] = "COMMITTED"
OnTop(ts, vs) == \A v, w \in vs :
    (v.node = w.node /\ ts[v.tx] = "OPEN" /\ ts[w.tx] = "COMMITTED") => w.num <= v.prev
HasHead(ts, vs) == \A n \in Nodes :
    (\E v \in vs : v.node = n /\ ts[v.tx] = "COMMITTED") =>
    (\E v \in vs : /\ v.node = n /\ ts[v.tx] = "COMMITTED"
                   /\ \A w \in vs : w.node = n /\ ts[w.tx] = "COMMITTED" => w.num <= v.num)

Table(ts, vs) == ts \in [TxIds -> Statuses] /\ vs \subseteq Version
Good(ts, vs) ==
    /\ RowHasTx(ts, vs) /\ UniqueKey(vs) /\ Numbered(vs)
    /\ OnCommitted(ts, vs) /\ OnTop(ts, vs) /\ HasHead(ts, vs)

-----------------------------------------------------------------------------
(* The fields of a row, and of a row with one field changed. *)
LEMMA RowType ==
    ASSUME NEW v \in Version
    PROVE  /\ v.node \in Nodes /\ v.num \in 1..MaxVersion /\ v.tx \in TxIds
           /\ v.prev \in 0..MaxVersion /\ v.num \in Nat /\ v.prev \in Nat
           /\ v.state \in States \cup {NoState} /\ v.content \in Contents
  BY BoundsAssumption DEF Version

(* Rewriting the content of a row keeps it a row, and only changes that. *)
LEMMA RowContent ==
    ASSUME NEW v \in Version, NEW c \in Contents
    PROVE  LET r == [v EXCEPT !.content = c] IN
           /\ r \in Version /\ r.node = v.node /\ r.num = v.num
           /\ r.tx = v.tx /\ r.prev = v.prev
  BY DEF Version

(* Moving a row to another transaction keeps it a row, and only changes that. *)
LEMMA RowTx ==
    ASSUME NEW v \in Version, NEW t \in TxIds
    PROVE  LET r == [v EXCEPT !.tx = t] IN
           /\ r \in Version /\ r.node = v.node /\ r.num = v.num
           /\ r.tx = t /\ r.prev = v.prev
  BY DEF Version

(* A good table has at most one row in progress per node. *)
LEMMA OneDraft ==
    ASSUME NEW ts, NEW vs, Table(ts, vs), Good(ts, vs),
           NEW v \in vs, NEW w \in vs,
           v.node = w.node, ts[v.tx] = "OPEN", ts[w.tx] = "OPEN"
    PROVE  v = w
<1>1. v \in Version /\ w \in Version
  BY DEF Table
<1>2. v.prev \in Nat /\ w.prev \in Nat
  BY <1>1, RowType
<1>3. v.prev <= w.prev
  <2>1. CASE v.prev = 0
    BY <2>1, <1>2
  <2>2. CASE v.prev # 0
    <3>1. PICK x \in vs : x.node = v.node /\ x.num = v.prev /\ ts[x.tx] = "COMMITTED"
      BY <2>2 DEF Good, OnCommitted
    <3>2. x.num <= w.prev
      BY <3>1 DEF Good, OnTop
    <3> QED BY <3>1, <3>2
  <2> QED BY <2>1, <2>2
<1>4. w.prev <= v.prev
  <2>1. CASE w.prev = 0
    BY <2>1, <1>2
  <2>2. CASE w.prev # 0
    <3>1. PICK x \in vs : x.node = w.node /\ x.num = w.prev /\ ts[x.tx] = "COMMITTED"
      BY <2>2 DEF Good, OnCommitted
    <3>2. x.num <= v.prev
      BY <3>1 DEF Good, OnTop
    <3> QED BY <3>1, <3>2
  <2> QED BY <2>1, <2>2
<1>5. v.prev = w.prev
  BY <1>2, <1>3, <1>4
<1>6. v.num = w.num
  BY <1>5 DEF Good, Numbered
<1> QED BY <1>6 DEF Good, UniqueKey

(* INSERT of a row in progress that stands on the head of its node. *)
LEMMA InsertGood ==
    ASSUME NEW ts, NEW vs, Table(ts, vs), Good(ts, vs),
           NEW row \in Version, ts[row.tx] = "OPEN",
           \A v \in vs : ~ (v.node = row.node /\ v.num = row.num),
           row.num = row.prev + 1,
           row.prev # 0 => \E w \in vs : w.node = row.node /\ w.num = row.prev
                                         /\ ts[w.tx] = "COMMITTED",
           \A w \in vs : w.node = row.node /\ ts[w.tx] = "COMMITTED" => w.num <= row.prev
    PROVE  Table(ts, vs \cup {row}) /\ Good(ts, vs \cup {row})
<1> DEFINE us == vs \cup {row}
<1>1. Table(ts, us)
  BY DEF Table
<1>2. RowHasTx(ts, us)
  BY DEF Good, RowHasTx
<1>3. UniqueKey(us)
  BY DEF Good, UniqueKey
<1>4. Numbered(us)
  BY DEF Good, Numbered
<1>5. OnCommitted(ts, us)
  BY DEF Good, OnCommitted
<1>6. OnTop(ts, us)
  BY DEF Good, OnTop
<1>7. HasHead(ts, us)
  BY DEF Good, HasHead
<1> QED BY <1>1, <1>2, <1>3, <1>4, <1>5, <1>6, <1>7 DEF Good

(* DELETE of rows in progress. *)
LEMMA DeleteGood ==
    ASSUME NEW ts, NEW vs, Table(ts, vs), Good(ts, vs),
           NEW D, \A v \in D : ts[v.tx] = "OPEN"
    PROVE  Table(ts, vs \ D) /\ Good(ts, vs \ D)
<1> DEFINE us == vs \ D
<1>1. Table(ts, us)
  BY DEF Table
<1>2. RowHasTx(ts, us) /\ UniqueKey(us) /\ Numbered(us)
  BY DEF Good, RowHasTx, UniqueKey, Numbered
<1>3. OnCommitted(ts, us)
  BY DEF Good, OnCommitted
<1>4. OnTop(ts, us)
  BY DEF Good, OnTop
<1>5. HasHead(ts, us)
  BY DEF Good, HasHead
<1> QED BY <1>1, <1>2, <1>3, <1>4, <1>5 DEF Good

(* UPDATE of one row's content. *)
LEMMA RewriteGood ==
    ASSUME NEW ts, NEW vs, Table(ts, vs), Good(ts, vs),
           NEW v \in vs, NEW c \in Contents
    PROVE  LET us == (vs \ {v}) \cup {[v EXCEPT !.content = c]} IN
           Table(ts, us) /\ Good(ts, us)
<1> DEFINE r == [v EXCEPT !.content = c]
           us == (vs \ {v}) \cup {r}
<1>0. /\ r \in Version /\ r.node = v.node /\ r.num = v.num
      /\ r.tx = v.tx /\ r.prev = v.prev
  BY RowContent DEF Table
<1> HIDE DEF r
<1>1. Table(ts, us)
  BY <1>0 DEF Table
<1>2. RowHasTx(ts, us)
  BY <1>0 DEF Good, RowHasTx
<1>3. UniqueKey(us)
  BY <1>0 DEF Good, UniqueKey
<1>4. Numbered(us)
  BY <1>0 DEF Good, Numbered
<1>5. OnCommitted(ts, us)
  BY <1>0 DEF Good, OnCommitted
<1>6. OnTop(ts, us)
  BY <1>0 DEF Good, OnTop
<1>7. HasHead(ts, us)
  BY <1>0 DEF Good, HasHead
<1> QED BY <1>1, <1>2, <1>3, <1>4, <1>5, <1>6, <1>7 DEF Good, r

(* INSERT of a transaction: no row refers to it yet. *)
LEMMA OpenGood ==
    ASSUME NEW ts, NEW vs, Table(ts, vs), Good(ts, vs),
           NEW k \in TxIds, ts[k] = "none"
    PROVE  LET us == [ts EXCEPT ![k] = "OPEN"] IN
           /\ Table(us, vs) /\ Good(us, vs) /\ us[k] = "OPEN"
           /\ \A v \in vs : v.tx # k /\ us[v.tx] = ts[v.tx]
<1> DEFINE us == [ts EXCEPT ![k] = "OPEN"]
<1>1. Table(us, vs) /\ us[k] = "OPEN"
  BY DEF Table, Statuses
<1>2. \A v \in vs : v.tx \in TxIds
  BY RowType DEF Table
<1>3. \A v \in vs : v.tx # k
  BY DEF Good, RowHasTx
<1>4. \A v \in vs : us[v.tx] = ts[v.tx]
  BY <1>2, <1>3 DEF Table
<1> HIDE DEF us
<1>5. RowHasTx(us, vs) /\ OnCommitted(us, vs)
  BY <1>4 DEF Good, RowHasTx, OnCommitted
<1>6. OnTop(us, vs)
  BY <1>4 DEF Good, OnTop
<1>7. HasHead(us, vs)
  BY <1>4 DEF Good, HasHead
<1> QED BY <1>1, <1>3, <1>4, <1>5, <1>6, <1>7 DEF Good, us

(* DELETE of transactions that no row refers to any more. *)
LEMMA CloseGood ==
    ASSUME NEW ts, NEW vs, Table(ts, vs), Good(ts, vs),
           NEW S, \A v \in vs : v.tx \notin S
    PROVE  LET us == [t \in TxIds |-> IF t \in S THEN "none" ELSE ts[t]] IN
           Table(us, vs) /\ Good(us, vs)
<1> DEFINE us == [t \in TxIds |-> IF t \in S THEN "none" ELSE ts[t]]
<1>1. Table(us, vs)
  BY DEF Table, Statuses
<1>2. \A v \in vs : v.tx \in TxIds
  BY RowType DEF Table
<1>3. \A v \in vs : us[v.tx] = ts[v.tx]
  BY <1>2
<1> HIDE DEF us
<1>4. RowHasTx(us, vs) /\ OnCommitted(us, vs)
  BY <1>3 DEF Good, RowHasTx, OnCommitted
<1>5. OnTop(us, vs)
  BY <1>3 DEF Good, OnTop
<1>6. HasHead(us, vs)
  BY <1>3 DEF Good, HasHead
<1> QED BY <1>1, <1>4, <1>5, <1>6 DEF Good, us

(* Rows in progress move from one open transaction to another. *)
MovedTo(vs, D, k) == (vs \ D) \cup {[v EXCEPT !.tx = k] : v \in D}

(* UPDATE of the transaction of rows in progress keeps the table good. *)
LEMMA MoveGood ==
    ASSUME NEW ts, NEW vs, Table(ts, vs), Good(ts, vs),
           NEW D \in SUBSET vs, \A v \in D : ts[v.tx] = "OPEN",
           NEW k \in TxIds, ts[k] = "OPEN"
    PROVE  Table(ts, MovedTo(vs, D, k)) /\ Good(ts, MovedTo(vs, D, k))
<1> DEFINE moved(v) == [v EXCEPT !.tx = k]
           us == (vs \ D) \cup {moved(v) : v \in D}
<1>1. \A v \in D : /\ moved(v) \in Version /\ moved(v).node = v.node
                   /\ moved(v).num = v.num /\ moved(v).tx = k /\ moved(v).prev = v.prev
  BY RowTx DEF Table
<1> HIDE DEF moved
<1>2. \A r \in us : \E v \in vs : /\ r.node = v.node /\ r.num = v.num /\ r.prev = v.prev
                                 /\ ts[r.tx] = ts[v.tx] /\ (r = v \/ (v \in D /\ r = moved(v)))
  BY <1>1
<1>3. Table(ts, us)
  BY <1>1 DEF Table
<1>4. RowHasTx(ts, us) /\ Numbered(us)
  BY <1>2 DEF Good, RowHasTx, Numbered
<1>5. UniqueKey(us)
  <2> SUFFICES ASSUME NEW a \in us, NEW b \in us, a.node = b.node, a.num = b.num
               PROVE  a = b
    BY DEF UniqueKey
  <2>1. CASE a \in vs \ D /\ b \in vs \ D
    BY <2>1 DEF Good, UniqueKey
  <2>2. CASE a \in vs \ D /\ b \notin vs \ D
    <3>1. PICK w \in D : b = moved(w)
      BY <2>2
    <3> QED BY <2>2, <3>1, <1>1 DEF Good, UniqueKey
  <2>3. CASE a \notin vs \ D /\ b \in vs \ D
    <3>1. PICK w \in D : a = moved(w)
      BY <2>3
    <3> QED BY <2>3, <3>1, <1>1 DEF Good, UniqueKey
  <2>4. CASE a \notin vs \ D /\ b \notin vs \ D
    <3>1. PICK w \in D : a = moved(w)
      BY <2>4
    <3>2. PICK x \in D : b = moved(x)
      BY <2>4
    <3>3. w = x
      BY <3>1, <3>2, <1>1 DEF Good, UniqueKey
    <3> QED BY <3>1, <3>2, <3>3
  <2> QED BY <2>1, <2>2, <2>3, <2>4
<1>6. \A w \in vs : ts[w.tx] = "COMMITTED" => w \in us
  OBVIOUS
<1>7. OnCommitted(ts, us)
  <2> SUFFICES ASSUME NEW r \in us, r.prev # 0
               PROVE  \E w \in us : w.node = r.node /\ w.num = r.prev /\ ts[w.tx] = "COMMITTED"
    BY DEF OnCommitted
  <2>1. PICK v \in vs : r.node = v.node /\ r.prev = v.prev
    BY <1>2
  <2> QED BY <2>1, <1>6 DEF Good, OnCommitted
<1>8. OnTop(ts, us)
  BY <1>2 DEF Good, OnTop
<1>9. HasHead(ts, us)
  <2> SUFFICES ASSUME NEW n \in Nodes, NEW r \in us, r.node = n, ts[r.tx] = "COMMITTED"
               PROVE  \E v \in us : /\ v.node = n /\ ts[v.tx] = "COMMITTED"
                         /\ \A w \in us : w.node = n /\ ts[w.tx] = "COMMITTED" => w.num <= v.num
    BY DEF HasHead
  <2>1. PICK h \in vs : /\ h.node = n /\ ts[h.tx] = "COMMITTED"
                        /\ \A w \in vs : w.node = n /\ ts[w.tx] = "COMMITTED" => w.num <= h.num
    BY <1>2 DEF Good, HasHead
  <2> QED BY <2>1, <1>2, <1>6
<1> QED BY <1>3, <1>4, <1>5, <1>7, <1>8, <1>9 DEF Good, moved, MovedTo

(* An open transaction becomes committed: its row for a node, the only one *)
(* in progress there, becomes the node's head.                             *)
LEMMA CommitGood ==
    ASSUME NEW ts, NEW vs, Table(ts, vs), Good(ts, vs),
           NEW t \in TxIds, ts[t] = "OPEN"
    PROVE  LET us == [ts EXCEPT ![t] = "COMMITTED"] IN
           Table(us, vs) /\ Good(us, vs)
<1> DEFINE us == [ts EXCEPT ![t] = "COMMITTED"]
<1>1. Table(us, vs)
  BY DEF Table, Statuses
<1>2. \A v \in vs : v.tx \in TxIds /\ v.num \in Nat /\ v.prev \in Nat /\ v.node \in Nodes
  BY RowType DEF Table
<1>3. \A v \in vs : us[v.tx] = IF v.tx = t THEN "COMMITTED" ELSE ts[v.tx]
  BY <1>2 DEF Table
<1> HIDE DEF us
<1>4. RowHasTx(us, vs) /\ OnCommitted(us, vs)
  BY <1>3 DEF Good, RowHasTx, OnCommitted
<1>5. OnTop(us, vs)
  <2> SUFFICES ASSUME NEW v \in vs, NEW w \in vs, v.node = w.node,
                      us[v.tx] = "OPEN", us[w.tx] = "COMMITTED"
               PROVE  w.num <= v.prev
    BY DEF OnTop
  <2>1. ts[v.tx] = "OPEN" /\ v.tx # t
    BY <1>3
  <2>2. CASE w.tx = t
    <3>1. v = w
      BY <2>1, <2>2, OneDraft
    <3> QED BY <2>1, <2>2, <3>1
  <2>3. CASE w.tx # t
    BY <2>1, <2>3, <1>3 DEF Good, OnTop
  <2> QED BY <2>2, <2>3
<1>6. HasHead(us, vs)
  <2> SUFFICES ASSUME NEW n \in Nodes, NEW r \in vs, r.node = n, us[r.tx] = "COMMITTED"
               PROVE  \E v \in vs : /\ v.node = n /\ us[v.tx] = "COMMITTED"
                         /\ \A w \in vs : w.node = n /\ us[w.tx] = "COMMITTED" => w.num <= v.num
    BY DEF HasHead
  <2>1. CASE \E v \in vs : v.node = n /\ v.tx = t
    <3>1. PICK v \in vs : v.node = n /\ v.tx = t
      BY <2>1
    <3>2. ASSUME NEW w \in vs, w.node = n, us[w.tx] = "COMMITTED"
          PROVE  w.num <= v.num
      <4>1. CASE w.tx = t
        <5>1. v = w
          BY <3>1, <3>2, <4>1, OneDraft
        <5> QED BY <5>1, <1>2
      <4>2. CASE w.tx # t
        <5>1. w.num <= v.prev
          BY <3>1, <3>2, <4>2, <1>3 DEF Good, OnTop
        <5>2. v.num = v.prev + 1
          BY DEF Good, Numbered
        <5> QED BY <5>1, <5>2, <1>2
      <4> QED BY <4>1, <4>2
    <3> QED BY <3>1, <3>2, <1>3
  <2>2. CASE \A v \in vs : v.node = n => v.tx # t
    BY <2>2, <1>3 DEF Good, HasHead
  <2> QED BY <2>1, <2>2
<1> QED BY <1>1, <1>4, <1>5, <1>6 DEF Good, us

-----------------------------------------------------------------------------
(***************************************************************************)
(* The inductive invariant.  SingleDraft and DraftOnHead are not inductive *)
(* by themselves: that a draft stands on the head rests on the head being  *)
(* the greatest committed number (OnTop, HasHead), that createNode may     *)
(* start at 1 rests on every version having its node row (RowHasNode), and *)
(* that a fresh transaction is empty rests on rows having a transaction    *)
(* (RowHasTx) and on ids being given out in order (FreshTx).               *)
(***************************************************************************)
TxTypeOK ==
    /\ txStatus \in [TxIds -> Statuses]
    /\ txOwner \in [TxIds -> Users \cup {NoUser}]
    /\ nextTx \in 1..(MaxTx + 1)
FreshTx == \A t \in TxIds : t >= nextTx => txStatus[t] = "none"
RowHasNode == \A v \in versions : v.node \in nodes
IInv == TypeOK /\ Good(txStatus, versions) /\ FreshTx /\ RowHasNode

(* The parts of the invariant the lemmas above speak of. *)
LEMMA Parts ==
    ASSUME IInv
    PROVE  TxTypeOK /\ Table(txStatus, versions) /\ Good(txStatus, versions)
  BY DEF IInv, TypeOK, TxTypeOK, Table, Statuses

(* What opening a transaction and locking need of the tables, also where a *)
(* node may have two rows in one transaction.                              *)
BaseInv == TypeOK /\ RowHasTx(txStatus, versions) /\ FreshTx /\ RowHasNode

(* The invariant includes that. *)
LEMMA BaseOfIInv ==
    ASSUME IInv
    PROVE  BaseInv
  BY DEF IInv, BaseInv, Good

(* A new transaction has no rows, and the rows keep their status. *)
LEMMA OpenedBase ==
    ASSUME BaseInv, NEW u \in Users, Opened(u)
    PROVE  /\ TxTypeOK' /\ FreshTx' /\ nextTx \in TxIds /\ nextTx' = nextTx + 1
           /\ txStatus'[nextTx] = "OPEN"
           /\ \A v \in versions : v.tx # nextTx /\ txStatus'[v.tx] = txStatus[v.tx]
<1>1. /\ nextTx \in TxIds /\ nextTx' = nextTx + 1
      /\ txStatus' = [txStatus EXCEPT ![nextTx] = "OPEN"] /\ txOwner' = [txOwner EXCEPT ![nextTx] = u]
  BY BoundsAssumption DEF BaseInv, TypeOK, Opened, TxIds
<1>2. TxTypeOK /\ txStatus[nextTx] = "none"
  BY <1>1, BoundsAssumption DEF BaseInv, TypeOK, FreshTx, TxIds, TxTypeOK, Statuses
<1>3. TxTypeOK'
  <2>1. txStatus' \in [TxIds -> Statuses] /\ txOwner' \in [TxIds -> Users \cup {NoUser}]
    BY <1>1, <1>2 DEF TxTypeOK, Statuses
  <2>2. nextTx' \in 1..(MaxTx + 1)
    BY <1>1, BoundsAssumption DEF TxIds
  <2> QED BY <2>1, <2>2 DEF TxTypeOK
<1>4. FreshTx'
  BY <1>1, <1>2, BoundsAssumption DEF BaseInv, FreshTx, TxIds, TxTypeOK
<1>5. \A v \in versions : v.tx # nextTx /\ v.tx \in TxIds
  BY <1>2, RowType DEF BaseInv, RowHasTx, TypeOK
<1> QED BY <1>1, <1>2, <1>3, <1>4, <1>5 DEF TxTypeOK

(* The same when a transaction is found or opened. *)
LEMMA FoundOrOpenedBase ==
    ASSUME BaseInv, NEW u \in Users, NEW t \in TxIds, FoundOrOpened(u, t)
    PROVE  /\ TxTypeOK' /\ FreshTx' /\ txStatus'[t] = "OPEN" /\ nextTx' \in {nextTx, nextTx + 1}
           /\ \A v \in versions : txStatus'[v.tx] = txStatus[v.tx]
<1>1. CASE t \in OpenTxs(u) /\ UNCHANGED txVars
  BY <1>1 DEF txVars, OpenTxs, TxTypeOK, BaseInv, TypeOK, FreshTx, Statuses
<1>2. CASE t = nextTx /\ Opened(u)
  BY <1>2, OpenedBase
<1> QED BY <1>1, <1>2 DEF FoundOrOpened

(* getLastCommittedVersion returns the node's greatest committed row, and  *)
(* the defaults exactly when there is none.                                *)
LEMMA HeadOK ==
    ASSUME IInv, NEW n \in Nodes
    PROVE  LET h == getLastCommittedVersion(n) IN
           /\ h.num \in 0..MaxVersion
           /\ h.state \in States \cup {NoState} /\ h.content \in Contents
           /\ h.num # 0 => \E w \in versions :
                 w.node = n /\ w.num = h.num /\ txStatus[w.tx] = "COMMITTED"
           /\ \A w \in versions : w.node = n /\ txStatus[w.tx] = "COMMITTED" => w.num <= h.num
<1>1. CASE CommittedRows(n) = {}
  <2>1. getLastCommittedVersion(n) = NoVersion
    BY <1>1 DEF getLastCommittedVersion, Latest
  <2> QED BY <1>1, <2>1, BoundsAssumption, ContentAssumption DEF NoVersion, CommittedRows
<1>2. CASE CommittedRows(n) # {}
  <2> DEFINE h == getLastCommittedVersion(n)
  <2>1. \E v \in CommittedRows(n) : \A w \in CommittedRows(n) : w.num <= v.num
    BY <1>2, Parts DEF Good, HasHead, CommittedRows
  <2>2. h = CHOOSE v \in CommittedRows(n) : \A w \in CommittedRows(n) : w.num <= v.num
    BY <1>2 DEF getLastCommittedVersion, Latest
  <2> HIDE DEF h
  <2>3. h \in CommittedRows(n) /\ \A w \in CommittedRows(n) : w.num <= h.num
    BY <2>1, <2>2
  <2>4. h \in Version
    BY <2>3 DEF IInv, TypeOK, CommittedRows
  <2>5. h.num \in 1..MaxVersion /\ h.state \in States \cup {NoState} /\ h.content \in Contents
    BY <2>4, RowType
  <2> QED BY <2>3, <2>5, BoundsAssumption DEF h, CommittedRows
<1> QED BY <1>1, <1>2

(* createVersion's row, when the transaction has none of the node, is the  *)
(* successor of the head.                                                  *)
LEMMA SuccessorOK ==
    ASSUME IInv, NEW n \in Nodes, NEW t \in TxIds, NEW c \in Contents,
           RowsOf(n, t) = {}, Successor(n, t, NoState, c).num <= MaxVersion
    PROVE  LET r == Successor(n, t, NoState, c) IN
           /\ r \in Version /\ r.node = n /\ r.tx = t /\ r.num = r.prev + 1
           /\ r.prev # 0 => \E w \in versions :
                 w.node = n /\ w.num = r.prev /\ txStatus[w.tx] = "COMMITTED"
           /\ \A w \in versions : w.node = n /\ txStatus[w.tx] = "COMMITTED" => w.num <= r.prev
<1> DEFINE h == getLastCommittedVersion(n)
           r == Successor(n, t, NoState, c)
<1>1. r = [node |-> n, num |-> h.num + 1, tx |-> t, prev |-> h.num,
           state |-> h.state, content |-> c]
  BY DEF Successor, getCurrentVersionForTx
<1>2. /\ h.num \in 0..MaxVersion /\ h.state \in States \cup {NoState}
      /\ h.num # 0 => \E w \in versions :
            w.node = n /\ w.num = h.num /\ txStatus[w.tx] = "COMMITTED"
      /\ \A w \in versions : w.node = n /\ txStatus[w.tx] = "COMMITTED" => w.num <= h.num
  BY HeadOK
<1>3. r.num <= MaxVersion
  OBVIOUS
<1> HIDE DEF h, r
<1>4. r \in Version
  BY <1>1, <1>2, <1>3, BoundsAssumption DEF Version
<1> QED BY <1>1, <1>2, <1>4 DEF r

(* openTransaction: the new transaction has no rows, and the others' rows   *)
(* keep their status.                                                       *)
LEMMA OpenedOK ==
    ASSUME IInv, NEW u \in Users, Opened(u)
    PROVE  /\ TxTypeOK' /\ FreshTx' /\ nextTx \in TxIds /\ txStatus'[nextTx] = "OPEN"
           /\ Table(txStatus', versions) /\ Good(txStatus', versions)
           /\ \A v \in versions : txStatus'[v.tx] = txStatus[v.tx]
<1> DEFINE us == [txStatus EXCEPT ![nextTx] = "OPEN"]
<1>1. nextTx \in TxIds /\ txStatus' = us /\ nextTx' = nextTx + 1
  BY BoundsAssumption DEF IInv, TypeOK, Opened, TxIds
<1>2. txStatus[nextTx] = "none"
  BY <1>1, BoundsAssumption DEF IInv, FreshTx, TxIds
<1>3. TxTypeOK'
  BY Parts, BoundsAssumption DEF Opened, TxTypeOK, TxIds, Statuses
<1>4. FreshTx'
  BY <1>1, Parts, BoundsAssumption DEF IInv, FreshTx, TxIds, TxTypeOK
<1>5. Table(txStatus, versions) /\ Good(txStatus, versions)
  BY Parts
<1>6. /\ Table(us, versions) /\ Good(us, versions) /\ us[nextTx] = "OPEN"
      /\ \A v \in versions : v.tx # nextTx /\ us[v.tx] = txStatus[v.tx]
  BY <1>1, <1>2, <1>5, OpenGood
<1> QED BY <1>1, <1>3, <1>4, <1>6

(* The transaction a content operation found or opened is open, and the     *)
(* rows have the status they had before.                                    *)
LEMMA FoundOrOpenedOK ==
    ASSUME IInv, NEW u \in Users, NEW t \in TxIds, FoundOrOpened(u, t)
    PROVE  /\ TxTypeOK' /\ FreshTx' /\ txStatus'[t] = "OPEN"
           /\ Table(txStatus', versions) /\ Good(txStatus', versions)
           /\ \A v \in versions : txStatus'[v.tx] = txStatus[v.tx]
<1>1. CASE t \in OpenTxs(u) /\ UNCHANGED txVars
  BY <1>1, Parts DEF txVars, OpenTxs, TxTypeOK, IInv, FreshTx
<1>2. CASE t = nextTx /\ Opened(u)
  BY <1>2, OpenedOK
<1> QED BY <1>1, <1>2 DEF FoundOrOpened

(* Inserting a draft on the head, whether or not the transaction is new. *)
LEMMA InsertedOK ==
    ASSUME IInv, NEW n \in Nodes, NEW t \in TxIds, NEW c \in Contents,
           RowsOf(n, t) = {}, createVersion(n, t, NoState, c),
           Table(txStatus', versions), Good(txStatus', versions), txStatus'[t] = "OPEN",
           \A v \in versions : txStatus'[v.tx] = txStatus[v.tx]
    PROVE  /\ Table(txStatus', versions') /\ Good(txStatus', versions')
           /\ \A v \in versions' : v \in versions \/ v.node = n
<1> DEFINE r == Successor(n, t, NoState, c)
<1>1. /\ r.num <= MaxVersion /\ versions' = versions \cup {r}
      /\ ~ \E v \in versions : v.node = r.node /\ v.num = r.num
  BY DEF createVersion, Inserted
<1>2. /\ r \in Version /\ r.node = n /\ r.tx = t /\ r.num = r.prev + 1
      /\ r.prev # 0 => \E w \in versions :
            w.node = n /\ w.num = r.prev /\ txStatus[w.tx] = "COMMITTED"
      /\ \A w \in versions : w.node = n /\ txStatus[w.tx] = "COMMITTED" => w.num <= r.prev
  BY <1>1, SuccessorOK
<1> HIDE DEF r
<1>3. Table(txStatus', versions \cup {r}) /\ Good(txStatus', versions \cup {r})
  BY <1>1, <1>2, InsertGood
<1> QED BY <1>1, <1>2, <1>3

(* The invariant after a step, from its parts. *)
LEMMA Assemble ==
    ASSUME TxTypeOK', Table(txStatus', versions'), Good(txStatus', versions'), FreshTx', RowHasNode',
           nodes' \subseteq Nodes, lockedBy' \in [Nodes -> Users \cup {NoUser}],
           comments' \subseteq (Nodes \X (1..MaxVersion))
    PROVE  IInv'
  BY DEF IInv, TypeOK, TxTypeOK, Table, Statuses

(* Locking and unlocking keep locked_by a user or NULL. *)
LEMMA LockType ==
    ASSUME TypeOK, NEW n \in Nodes, NEW u \in Users, Lock(n, u)
    PROVE  lockedBy' \in [Nodes -> Users \cup {NoUser}]
  BY DEF TypeOK, Lock

(* Unlocking any set of nodes keeps the type of the lock column. *)
LEMMA UnlockType ==
    ASSUME TypeOK, NEW S, Unlock(S)
    PROVE  lockedBy' \in [Nodes -> Users \cup {NoUser}]
  BY DEF TypeOK, Unlock

(* Rewriting a row's content keeps the invariant, locks aside. *)
LEMMA RewrittenOK ==
    ASSUME IInv, NEW v \in versions, NEW c \in Contents, Rewritten(v, c), UNCHANGED <<txVars, nodes>>
    PROVE  /\ Table(txStatus', versions') /\ Good(txStatus', versions')
           /\ TxTypeOK' /\ FreshTx' /\ RowHasNode'
<1> DEFINE r == [v EXCEPT !.content = c]
           us == (versions \ {v}) \cup {r}
<1>1. Table(txStatus, versions) /\ Good(txStatus, versions) /\ TxTypeOK
  BY Parts
<1>2. Table(txStatus, us) /\ Good(txStatus, us)
  BY <1>1, RewriteGood
<1>3. v \in Version
  BY DEF IInv, TypeOK
<1>4. r.node = v.node
  BY <1>3 DEF Version
<1>5. versions' = us /\ txStatus' = txStatus /\ txOwner' = txOwner /\ nextTx' = nextTx /\ nodes' = nodes
  BY DEF Rewritten, txVars
<1>6. RowHasNode'
  BY <1>4, <1>5 DEF IInv, RowHasNode
<1>7. TxTypeOK' /\ FreshTx'
  BY <1>1, <1>5 DEF IInv, TxTypeOK, FreshTx
<1> QED BY <1>2, <1>5, <1>6, <1>7

(* modifyNode, createLink: an existing row is rewritten, or a draft made. *)
LEMMA WriteOK ==
    ASSUME IInv, NEW u \in Users, NEW n \in Nodes, NEW t \in TxIds, NEW c \in Contents,
           WriteInTx(u, n, t, c)
    PROVE  IInv'
<1>1. /\ n \in nodes /\ nodes' = nodes /\ comments' = comments /\ UNCHANGED txVars
      /\ txStatus' = txStatus /\ txOwner' = txOwner /\ nextTx' = nextTx
  BY DEF WriteInTx, CanLock, txVars
<1>2. lockedBy' \in [Nodes -> Users \cup {NoUser}]
  BY LockType DEF IInv, WriteInTx
<1>3. CASE \E v \in RowsOf(n, t) : Rewritten(v, c)
  <2>1. PICK v \in versions : Rewritten(v, c)
    BY <1>3 DEF RowsOf, RowsIn
  <2>2. /\ Table(txStatus', versions') /\ Good(txStatus', versions')
        /\ TxTypeOK' /\ FreshTx' /\ RowHasNode'
    BY <1>1, <2>1, RewrittenOK
  <2> QED BY <1>1, <1>2, <2>2, Assemble DEF IInv, TypeOK
<1>4. CASE RowsOf(n, t) = {} /\ txStatus[t] = "OPEN" /\ createVersion(n, t, NoState, c)
  <2>1. /\ Table(txStatus', versions) /\ Good(txStatus', versions) /\ txStatus'[t] = "OPEN"
        /\ \A v \in versions : txStatus'[v.tx] = txStatus[v.tx]
    BY <1>1, <1>4, Parts
  <2>2. /\ Table(txStatus', versions') /\ Good(txStatus', versions')
        /\ \A v \in versions' : v \in versions \/ v.node = n
    BY <1>4, <2>1, InsertedOK
  <2>3. TxTypeOK' /\ FreshTx' /\ RowHasNode'
    BY <1>1, <2>2, Parts DEF IInv, TxTypeOK, FreshTx, RowHasNode
  <2> QED BY <1>1, <1>2, <2>2, <2>3, Assemble DEF IInv, TypeOK
<1> QED BY <1>3, <1>4 DEF WriteInTx

(* openTransaction *)
LEMMA OpenTransactionOK ==
    ASSUME IInv, NEW u \in Users, OpenTransaction(u)
    PROVE  IInv'
<1>1. /\ TxTypeOK' /\ FreshTx'
      /\ Table(txStatus', versions) /\ Good(txStatus', versions)
  BY OpenedOK DEF OpenTransaction
<1>2. nodes' = nodes /\ lockedBy' = lockedBy /\ versions' = versions /\ comments' = comments
  BY DEF OpenTransaction
<1>3. RowHasNode'
  BY <1>2 DEF IInv, RowHasNode
<1> QED BY <1>1, <1>2, <1>3, Assemble DEF IInv, TypeOK

(* createNode *)
LEMMA CreateNodeOK ==
    ASSUME IInv, NEW u \in Users, NEW n \in Nodes, CreateNode(u, n)
    PROVE  IInv'
<1>1. PICK t \in TxIds :
        /\ FoundOrOpened(u, t)
        /\ Inserted([node |-> n, num |-> 1, tx |-> t, prev |-> 0,
                     state |-> InitialState, content |-> EmptyContent])
  BY DEF CreateNode
<1> DEFINE r == [node |-> n, num |-> 1, tx |-> t, prev |-> 0,
                 state |-> InitialState, content |-> EmptyContent]
<1>2. /\ r.num <= MaxVersion /\ versions' = versions \cup {r}
      /\ nodes' = nodes \cup {n} /\ comments' = comments
  BY <1>1 DEF Inserted, CreateNode
<1>3. r \in Version
  BY <1>2, BoundsAssumption, ContentAssumption, StateAssumption DEF Version
<1>4. r.node = n /\ r.num = r.prev + 1 /\ r.prev = 0 /\ r.tx = t
  OBVIOUS
<1> HIDE DEF r
<1>5. /\ TxTypeOK' /\ FreshTx' /\ txStatus'[t] = "OPEN"
      /\ Table(txStatus', versions) /\ Good(txStatus', versions)
  BY <1>1, FoundOrOpenedOK
<1>6. \A v \in versions : v.node # n
  BY DEF CreateNode, IInv, RowHasNode
<1>7. Table(txStatus', versions \cup {r}) /\ Good(txStatus', versions \cup {r})
  BY <1>3, <1>4, <1>5, <1>6, InsertGood
<1>8. RowHasNode'
  BY <1>2, <1>4 DEF IInv, RowHasNode
<1>9. lockedBy' \in [Nodes -> Users \cup {NoUser}]
  BY LockType DEF IInv, CreateNode
<1> QED BY <1>2, <1>5, <1>7, <1>8, <1>9, Assemble DEF IInv, TypeOK

(* checkout, in a transaction that is named, found or opened *)
LEMMA CheckoutIntoOK ==
    ASSUME IInv, NEW n \in nodes, NEW t \in TxIds, CheckoutInto(n, t), nodes' = nodes,
           Table(txStatus', versions), Good(txStatus', versions),
           RowsOf(n, t) = {} => txStatus'[t] = "OPEN",
           \A v \in versions : txStatus'[v.tx] = txStatus[v.tx]
    PROVE  Table(txStatus', versions') /\ Good(txStatus', versions') /\ RowHasNode'
<1>0. n \in Nodes
  BY DEF IInv, TypeOK
<1>1. CASE versions' = versions
  BY <1>1 DEF IInv, RowHasNode
<1>2. CASE RowsOf(n, t) = {} /\ createVersion(n, t, NoState, getCurrentVersionForTx(n, t).content)
  <2>1. getCurrentVersionForTx(n, t).content \in Contents
    BY <1>0, <1>2, HeadOK DEF getCurrentVersionForTx
  <2>2. /\ Table(txStatus', versions') /\ Good(txStatus', versions')
        /\ \A v \in versions' : v \in versions \/ v.node = n
    BY <1>0, <1>2, <2>1, InsertedOK
  <2> QED BY <2>2 DEF IInv, RowHasNode
<1> QED BY <1>1, <1>2 DEF CheckoutInto

(* NodeService.checkout keeps the invariant, into a named or a found transaction. *)
LEMMA CheckoutOK ==
    ASSUME IInv, NEW u \in Users, NEW n \in Nodes, NEW t \in TxIds \cup {NoTx}, Checkout(u, n, t)
    PROVE  IInv'
<1>1. n \in nodes /\ nodes' = nodes /\ comments' = comments
  BY DEF Checkout, CanLock
<1>2. lockedBy' \in [Nodes -> Users \cup {NoUser}]
  BY LockType DEF IInv, Checkout
<1>3. CASE /\ t # NoTx
           /\ RowsOf(n, t) = {} => txStatus[t] = "OPEN"
           /\ CheckoutInto(n, t)
           /\ UNCHANGED txVars
  <2>1. t \in TxIds /\ txStatus' = txStatus /\ txOwner' = txOwner /\ nextTx' = nextTx
    BY <1>3 DEF txVars
  <2>2. TxTypeOK' /\ FreshTx' /\ Table(txStatus', versions) /\ Good(txStatus', versions)
    BY <2>1, Parts DEF TxTypeOK, FreshTx, IInv
  <2>3. Table(txStatus', versions') /\ Good(txStatus', versions') /\ RowHasNode'
    BY <1>1, <1>3, <2>1, <2>2, CheckoutIntoOK
  <2> QED BY <1>1, <1>2, <2>2, <2>3, Assemble DEF IInv, TypeOK
<1>4. CASE \E s \in TxIds : FoundOrOpened(u, s) /\ CheckoutInto(n, s)
  <2>1. PICK s \in TxIds : FoundOrOpened(u, s) /\ CheckoutInto(n, s)
    BY <1>4
  <2>2. /\ TxTypeOK' /\ FreshTx' /\ txStatus'[s] = "OPEN"
        /\ Table(txStatus', versions) /\ Good(txStatus', versions)
        /\ \A v \in versions : txStatus'[v.tx] = txStatus[v.tx]
    BY <2>1, FoundOrOpenedOK
  <2>3. Table(txStatus', versions') /\ Good(txStatus', versions') /\ RowHasNode'
    BY <1>1, <2>1, <2>2, CheckoutIntoOK
  <2> QED BY <1>1, <1>2, <2>2, <2>3, Assemble DEF IInv, TypeOK
<1> QED BY <1>3, <1>4 DEF Checkout

(* deleteLink, assign_domain *)
LEMMA DeleteLinkOK ==
    ASSUME IInv, NEW u \in Users, NEW v \in versions, NEW c \in Contents, DeleteLink(u, v, c)
    PROVE  IInv'
<1>1. Rewritten(v, c) /\ UNCHANGED <<txVars, nodes>> /\ nodes' = nodes /\ comments' = comments
  BY DEF DeleteLink
<1>2. lockedBy' \in [Nodes -> Users \cup {NoUser}]
  BY LockType, RowType DEF IInv, TypeOK, DeleteLink
<1>3. /\ Table(txStatus', versions') /\ Good(txStatus', versions')
      /\ TxTypeOK' /\ FreshTx' /\ RowHasNode'
  BY <1>1, RewrittenOK
<1> QED BY <1>1, <1>2, <1>3, Assemble DEF IInv, TypeOK

(* assign_domain, a rewrite without a lock, keeps the invariant. *)
LEMMA AssignDomainOK ==
    ASSUME IInv, NEW u \in Users, NEW n \in Nodes, NEW t \in TxIds, NEW c \in Contents,
           AssignDomain(u, n, t, c)
    PROVE  IInv'
<1>1. PICK v \in versions : Rewritten(v, c)
  BY DEF AssignDomain, RowsOf, RowsIn
<1>2. UNCHANGED <<txVars, nodes>> /\ nodes' = nodes /\ lockedBy' = lockedBy /\ comments' = comments
  BY DEF AssignDomain
<1>3. /\ Table(txStatus', versions') /\ Good(txStatus', versions')
      /\ TxTypeOK' /\ FreshTx' /\ RowHasNode'
  BY <1>1, <1>2, RewrittenOK
<1> QED BY <1>2, <1>3, Assemble DEF IInv, TypeOK

(* addComment *)
LEMMA AddCommentOK ==
    ASSUME IInv, NEW v \in versions, AddComment(v)
    PROVE  IInv'
<1>1. v.node \in Nodes /\ v.num \in 1..MaxVersion
  BY RowType DEF IInv, TypeOK
<1>2. comments' \subseteq (Nodes \X (1..MaxVersion))
  BY <1>1 DEF AddComment, IInv, TypeOK
<1>3. /\ txStatus' = txStatus /\ txOwner' = txOwner /\ nextTx' = nextTx
      /\ nodes' = nodes /\ lockedBy' = lockedBy /\ versions' = versions
  BY DEF AddComment, txVars
<1>4. TxTypeOK' /\ FreshTx' /\ RowHasNode' /\ Table(txStatus', versions') /\ Good(txStatus', versions')
  BY <1>3, Parts DEF IInv, TxTypeOK, FreshTx, RowHasNode
<1> QED BY <1>2, <1>3, <1>4, Assemble DEF IInv, TypeOK

(* commitTransaction, whole or partial.  A partial commit is, in three      *)
(* statements, the opening of the continuation, the move of the deferred    *)
(* rows and the commit of the rest.                                         *)
LEMMA CommitOK ==
    ASSUME IInv, NEW u \in Users, NEW t \in TxIds, NEW sel \in SUBSET Nodes, Commit(u, t, sel)
    PROVE  IInv'
<1> DEFINE deferred == Deferred(t, sel)
<1>1. /\ txStatus[t] = "OPEN" /\ nodes' = nodes /\ comments' = comments
      /\ CommitAll(t) \/ CommitPart(u, t, deferred)
  BY DEF Commit, Committable, OwnsOpenTx
<1>2. lockedBy' \in [Nodes -> Users \cup {NoUser}]
  BY UnlockType DEF IInv, Commit
<1>3. deferred \in SUBSET versions /\ \A v \in deferred : v.tx = t
  BY DEF Deferred, RowsIn
<1>4. TxTypeOK /\ Table(txStatus, versions) /\ Good(txStatus, versions)
  BY Parts
<1> HIDE DEF deferred
<1>5. CASE CommitAll(t)
  <2>1. /\ txStatus' = [txStatus EXCEPT ![t] = "COMMITTED"]
        /\ versions' = versions /\ txOwner' = txOwner /\ nextTx' = nextTx
    BY <1>5 DEF CommitAll
  <2>2. Table(txStatus', versions') /\ Good(txStatus', versions')
    BY <1>1, <1>4, <2>1, CommitGood
  <2>3. TxTypeOK'
    BY <1>4, <2>1 DEF TxTypeOK, Statuses
  <2>4. FreshTx' /\ RowHasNode'
    BY <1>1, <1>4, <2>1 DEF IInv, FreshTx, RowHasNode, TxTypeOK
  <2> QED BY <1>1, <1>2, <2>2, <2>3, <2>4, Assemble DEF IInv, TypeOK
<1>6. CASE CommitPart(u, t, deferred)
  <2> DEFINE ts == [txStatus EXCEPT ![nextTx] = "OPEN"]
             us == [ts EXCEPT ![t] = "COMMITTED"]
             moved == MovedTo(versions, deferred, nextTx)
  <2>1. /\ nextTx <= MaxTx /\ versions' = moved /\ nextTx' = nextTx + 1
        /\ txStatus' = [txStatus EXCEPT ![t] = "COMMITTED", ![nextTx] = "OPEN"]
        /\ txOwner' = [txOwner EXCEPT ![nextTx] = u]
    BY <1>6 DEF CommitPart, MovedTo
  <2>2. nextTx \in TxIds /\ txStatus[nextTx] = "none"
    BY <1>4, <2>1, BoundsAssumption DEF TxTypeOK, TxIds, IInv, FreshTx
  <2>3. t # nextTx /\ txStatus' = us
    BY <1>1, <1>4, <2>1, <2>2 DEF TxTypeOK
  <2>4. Table(ts, versions) /\ Good(ts, versions) /\ ts[nextTx] = "OPEN"
    BY <1>4, <2>2, OpenGood
  <2>5. ts[t] = "OPEN"
    BY <1>1, <1>4, <2>3 DEF TxTypeOK
  <2>6. Table(ts, moved) /\ Good(ts, moved)
    <3> HIDE DEF ts
    <3>1. \A v \in deferred : ts[v.tx] = "OPEN"
      BY <1>3, <2>5
    <3> QED BY <1>3, <2>2, <2>4, <3>1, MoveGood
  <2>7. Table(us, moved) /\ Good(us, moved)
    <3> HIDE DEF ts, moved
    <3> QED BY <2>5, <2>6, CommitGood
  <2>8. TxTypeOK'
    <3>1. txStatus' \in [TxIds -> Statuses]
      BY <1>4, <2>3 DEF TxTypeOK, Statuses
    <3>2. txOwner' \in [TxIds -> Users \cup {NoUser}]
      BY <1>4, <2>1 DEF TxTypeOK
    <3>3. nextTx' \in 1..(MaxTx + 1)
      BY <2>1, <2>2, BoundsAssumption DEF TxIds
    <3> QED BY <3>1, <3>2, <3>3 DEF TxTypeOK
  <2>9. FreshTx'
    BY <1>1, <1>4, <2>1, <2>2, BoundsAssumption DEF IInv, FreshTx, TxTypeOK, TxIds
  <2>10. RowHasNode'
    <3>1. \A v \in deferred : [v EXCEPT !.tx = nextTx].node = v.node
      BY <1>3, <2>2, RowTx DEF IInv, TypeOK
    <3> QED BY <1>1, <1>3, <2>1, <3>1 DEF IInv, RowHasNode, MovedTo
  <2>11. Table(txStatus', versions') /\ Good(txStatus', versions')
    BY <2>1, <2>3, <2>7
  <2> QED BY <1>1, <1>2, <2>8, <2>9, <2>10, <2>11, Assemble DEF IInv, TypeOK
<1> QED BY <1>1, <1>5, <1>6

(* Rows of open transactions are deleted, and after them transactions that  *)
(* have no row left: releaseNodes, rollbackTransaction and the clean-up job. *)
LEMMA DeletedOK ==
    ASSUME IInv, NEW D, \A v \in D : v \in versions /\ txStatus[v.tx] = "OPEN",
           NEW S, \A v \in versions \ D : v.tx \notin S,
           versions' = versions \ D, TxsDeleted(S)
    PROVE  Table(txStatus', versions') /\ Good(txStatus', versions') /\ TxTypeOK' /\ FreshTx'
<1> DEFINE us == [t \in TxIds |-> IF t \in S THEN "none" ELSE txStatus[t]]
           rest == versions \ D
<1>1. TxTypeOK /\ Table(txStatus, versions) /\ Good(txStatus, versions)
  BY Parts
<1>2. txStatus' = us /\ nextTx' = nextTx
  BY DEF TxsDeleted
<1>3. Table(txStatus, rest) /\ Good(txStatus, rest)
  BY <1>1, DeleteGood
<1>4. Table(us, rest) /\ Good(us, rest)
  <2> HIDE DEF rest
  <2>1. \A v \in rest : v.tx \notin S
    BY DEF rest
  <2> QED BY <1>3, <2>1, CloseGood
<1>5. TxTypeOK'
  BY <1>1 DEF TxsDeleted, TxTypeOK, Statuses
<1>6. FreshTx'
  BY <1>2 DEF IInv, FreshTx
<1> QED BY <1>2, <1>4, <1>5, <1>6

(* A node row is deleted only when no version of it is left. *)
LEMMA OrphansOK ==
    ASSUME IInv, NEW S, NEW D, versions' = versions \ D, nodes' = nodes \ Orphans(S, D)
    PROVE  RowHasNode' /\ nodes' \subseteq Nodes
  BY DEF IInv, TypeOK, RowHasNode, Orphans

(* releaseNodes *)
LEMMA ReleaseNodesOK ==
    ASSUME IInv, NEW u \in Users, NEW t \in TxIds, NEW S \in SUBSET Nodes, ReleaseNodes(u, t, S)
    PROVE  IInv'
<1> DEFINE rows == {v \in RowsIn(t) : v.node \in S}
           gone == IF RowsIn(t) \subseteq rows THEN {t} ELSE {}
<1>1. /\ txStatus[t] = "OPEN" /\ versions' = versions \ rows /\ TxsDeleted(gone)
      /\ nodes' = nodes \ Orphans(S, rows) /\ comments' = comments
  BY DEF ReleaseNodes, OwnsOpenTx
<1>2. \A v \in rows : v \in versions /\ txStatus[v.tx] = "OPEN"
  BY <1>1 DEF RowsIn
<1>3. \A v \in versions \ rows : v.tx \notin gone
  BY DEF RowsIn
<1>4. lockedBy' \in [Nodes -> Users \cup {NoUser}]
  BY UnlockType DEF IInv, ReleaseNodes
<1> HIDE DEF rows, gone
<1>5. Table(txStatus', versions') /\ Good(txStatus', versions') /\ TxTypeOK' /\ FreshTx'
  BY <1>1, <1>2, <1>3, DeletedOK
<1>6. RowHasNode' /\ nodes' \subseteq Nodes
  BY <1>1, OrphansOK
<1> QED BY <1>1, <1>4, <1>5, <1>6, Assemble DEF IInv, TypeOK

(* rollbackTransaction *)
LEMMA RollbackOK ==
    ASSUME IInv, NEW u \in Users, NEW t \in TxIds, rollbackTransaction(u, t)
    PROVE  IInv'
<1> DEFINE affected == {v.node : v \in RowsIn(t)}
<1>1. /\ txStatus[t] = "OPEN" /\ versions' = versions \ RowsIn(t) /\ TxsDeleted({t})
      /\ nodes' = nodes \ Orphans(affected, RowsIn(t)) /\ comments' = comments
  BY DEF rollbackTransaction, OwnsOpenTx
<1>2. \A v \in RowsIn(t) : v \in versions /\ txStatus[v.tx] = "OPEN"
  BY <1>1 DEF RowsIn
<1>3. \A v \in versions \ RowsIn(t) : v.tx \notin {t}
  BY DEF RowsIn
<1>4. lockedBy' \in [Nodes -> Users \cup {NoUser}]
  BY UnlockType DEF IInv, rollbackTransaction
<1> HIDE DEF affected
<1>5. Table(txStatus', versions') /\ Good(txStatus', versions') /\ TxTypeOK' /\ FreshTx'
  BY <1>1, <1>2, <1>3, DeletedOK
<1>6. RowHasNode' /\ nodes' \subseteq Nodes
  BY <1>1, OrphansOK
<1> QED BY <1>1, <1>4, <1>5, <1>6, Assemble DEF IInv, TypeOK

(* cleanStaleTransactions *)
LEMMA CleanupOK ==
    ASSUME IInv, NEW cutoff \in TxIds, cleanStaleTransactions(cutoff)
    PROVE  IInv'
<1> DEFINE stale == {t \in TxIds : t <= cutoff /\ txStatus[t] = "OPEN"}
           rows == {v \in versions : v.tx \in stale}
<1>1. /\ versions' = versions \ rows /\ TxsDeleted(stale)
      /\ nodes' = nodes /\ lockedBy' = lockedBy /\ comments' = comments
  BY DEF cleanStaleTransactions
<1>2. \A v \in rows : v \in versions /\ txStatus[v.tx] = "OPEN"
  OBVIOUS
<1>3. \A v \in versions \ rows : v.tx \notin stale
  OBVIOUS
<1> HIDE DEF stale, rows
<1>4. Table(txStatus', versions') /\ Good(txStatus', versions') /\ TxTypeOK' /\ FreshTx'
  BY <1>1, <1>2, <1>3, DeletedOK
<1>5. RowHasNode'
  BY <1>1 DEF IInv, RowHasNode
<1> QED BY <1>1, <1>4, <1>5, Assemble DEF IInv, TypeOK

-----------------------------------------------------------------------------
(* IInv holds initially and every request, comment and clean-up keeps it. *)
LEMMA InitOK == Init => IInv
<1> SUFFICES ASSUME Init PROVE IInv
  OBVIOUS
<1>1. TypeOK
  BY BoundsAssumption DEF Init, TypeOK, TxIds
<1>2. Good(txStatus, versions)
  BY DEF Init, Good, RowHasTx, UniqueKey, Numbered, OnCommitted, OnTop, HasHead
<1>3. FreshTx /\ RowHasNode
  BY DEF Init, FreshTx, RowHasNode
<1> QED BY <1>1, <1>2, <1>3 DEF IInv

(* Every step keeps the invariant: one case per operation. *)
LEMMA NextOK == IInv /\ [Next]_vars => IInv'
<1> SUFFICES ASSUME IInv, [Next]_vars PROVE IInv'
  OBVIOUS
<1>1. ASSUME NEW u \in Users, UserStep(u)
      PROVE  IInv'
  <2>1. CASE OpenTransaction(u)
    BY <2>1, OpenTransactionOK
  <2>2. CASE \E n \in Nodes : CreateNode(u, n)
    BY <2>2, CreateNodeOK
  <2>3. CASE \E n \in Nodes, t \in TxIds \cup {NoTx} : Checkout(u, n, t)
    BY <2>3, CheckoutOK
  <2>4. ASSUME NEW n \in Nodes, NEW t \in TxIds, NEW c \in Contents,
               ModifyNode(u, n, t, c) \/ CreateLink(u, n, t, c) \/ AssignDomain(u, n, t, c)
        PROVE  IInv'
    BY <2>4, WriteOK, AssignDomainOK DEF ModifyNode, CreateLink
  <2>5. CASE \E v \in versions, c \in Contents : DeleteLink(u, v, c)
    BY <2>5, DeleteLinkOK
  <2>6. ASSUME NEW t \in TxIds, NEW S \in SUBSET Nodes, Commit(u, t, S) \/ ReleaseNodes(u, t, S)
        PROVE  IInv'
    BY <2>6, CommitOK, ReleaseNodesOK
  <2>7. CASE \E t \in TxIds : rollbackTransaction(u, t)
    BY <2>7, RollbackOK
  <2> QED BY <1>1, <2>1, <2>2, <2>3, <2>4, <2>5, <2>6, <2>7 DEF UserStep
<1>2. CASE \E v \in versions : AddComment(v)
  BY <1>2, AddCommentOK
<1>3. CASE \E cutoff \in TxIds : cleanStaleTransactions(cutoff)
  BY <1>3, CleanupOK
<1>4. CASE UNCHANGED vars
  <2>1. /\ txStatus' = txStatus /\ txOwner' = txOwner /\ nextTx' = nextTx /\ nodes' = nodes
        /\ lockedBy' = lockedBy /\ versions' = versions /\ comments' = comments
    BY <1>4 DEF vars
  <2>2. TxTypeOK' /\ FreshTx' /\ RowHasNode' /\ Table(txStatus', versions') /\ Good(txStatus', versions')
    BY <2>1, Parts DEF IInv, TxTypeOK, FreshTx, RowHasNode
  <2> QED BY <2>1, <2>2, Assemble DEF IInv, TypeOK
<1> QED BY <1>1, <1>2, <1>3, <1>4 DEF Next

(* The inductive invariant holds in every reachable state. *)
THEOREM Inductive == Spec => []IInv
  BY InitOK, NextOK, PTL DEF Spec

-----------------------------------------------------------------------------
(* Every column of the three tables keeps its type under every operation of *)
(* the transaction, node, version and link services.                        *)
THEOREM TypeCorrect == Spec => []TypeOK
<1>1. IInv => TypeOK
  BY DEF IInv
<1> QED BY <1>1, Inductive, PTL

(* No node ever has two versions in progress, for any users, deviations,    *)
(* administrators and bounds, clean-up job included.                        *)
THEOREM NeverTwoDrafts == Spec => []SingleDraft
<1>1. ASSUME IInv PROVE SingleDraft
  <2>1. Table(txStatus, versions) /\ Good(txStatus, versions)
    BY <1>1, Parts
  <2> SUFFICES ASSUME NEW v \in OpenRows, NEW w \in OpenRows, v.node = w.node
               PROVE  v = w
    BY DEF SingleDraft
  <2> QED BY <2>1, OneDraft DEF OpenRows
<1> QED BY <1>1, Inductive, PTL

(* A version in progress always stands on the node's last committed         *)
(* version: no commit can overwrite another one unseen.                     *)
THEOREM NoLostUpdate == Spec => []DraftOnHead
<1>1. ASSUME IInv PROVE DraftOnHead
  <2> SUFFICES ASSUME NEW v \in OpenRows
               PROVE  v.prev = getLastCommittedVersion(v.node).num /\ v.num = v.prev + 1
    BY DEF DraftOnHead
  <2> DEFINE h == getLastCommittedVersion(v.node)
  <2>1. v \in versions /\ txStatus[v.tx] = "OPEN"
    BY DEF OpenRows
  <2>2. v.node \in Nodes /\ v.prev \in Nat /\ v.num \in Nat
    BY <1>1, <2>1, RowType DEF IInv, TypeOK
  <2>3. v.num = v.prev + 1
    BY <1>1, <2>1 DEF IInv, Good, Numbered
  <2>4. /\ h.num \in 0..MaxVersion
        /\ h.num # 0 => \E w \in versions :
              w.node = v.node /\ w.num = h.num /\ txStatus[w.tx] = "COMMITTED"
        /\ \A w \in versions : w.node = v.node /\ txStatus[w.tx] = "COMMITTED" => w.num <= h.num
    BY <1>1, <2>2, HeadOK
  <2> HIDE DEF h
  <2>5. h.num <= v.prev
    <3>1. CASE h.num = 0
      BY <3>1, <2>2
    <3>2. CASE h.num # 0
      BY <3>2, <1>1, <2>1, <2>4 DEF IInv, Good, OnTop
    <3> QED BY <3>1, <3>2
  <2>6. v.prev <= h.num
    <3>1. CASE v.prev = 0
      BY <3>1, <2>4
    <3>2. CASE v.prev # 0
      BY <3>2, <1>1, <2>1, <2>4 DEF IInv, Good, OnCommitted
    <3> QED BY <3>1, <3>2
  <2>7. v.prev = h.num
    BY <2>2, <2>4, <2>5, <2>6, BoundsAssumption
  <2> QED BY <2>3, <2>7 DEF h
<1> QED BY <1>1, Inductive, PTL

(* The versions of a node form one chain without gap or fork, whose inner   *)
(* links are committed.                                                     *)
THEOREM OneChainPerNode == Spec => []LinearHistory
<1>1. ASSUME IInv PROVE LinearHistory
  <2> SUFFICES ASSUME NEW v \in versions
               PROVE  /\ v.num = v.prev + 1
                      /\ v.prev # 0 => \E w \in CommittedRows(v.node) : w.num = v.prev
                      /\ \A w \in versions : v.node = w.node /\ v.num = w.num => v = w
    BY DEF LinearHistory
  <2>1. v.num = v.prev + 1
    BY <1>1 DEF IInv, Good, Numbered
  <2>2. v.prev # 0 => \E w \in CommittedRows(v.node) : w.num = v.prev
    BY <1>1 DEF IInv, Good, OnCommitted, CommittedRows
  <2>3. \A w \in versions : v.node = w.node /\ v.num = w.num => v = w
    BY <1>1 DEF IInv, Good, UniqueKey
  <2> QED BY <2>1, <2>2, <2>3
<1> QED BY <1>1, Inductive, PTL

=============================================================================
