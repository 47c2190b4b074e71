-------------------------- MODULE LifecycleProofs --------------------------
(***************************************************************************)
(* Proofs about LifecycleTransition.  Here a node may have several rows in *)
(* one open transaction: a request can slip into the isolated transaction  *)
(* of a transition.  The invariant of PlmTransactionProofs is therefore    *)
(* replaced by a weaker one, under which a node's rows in progress form a  *)
(* chain in one transaction, on top of the last committed row.             *)
(***************************************************************************)
EXTENDS LifecycleTransition, PlmDisciplineProofs

OnPrev(ts, vs) == \A v \in vs : v.prev # 0 =>
    \E w \in vs : w.node = v.node /\ w.num = v.prev /\ (w.tx = v.tx \/ ts[w.tx] = "COMMITTED")
OneWriter(ts, vs) == \A v, w \in vs :
    (v.node = w.node /\ ts[v.tx] = "OPEN" /\ ts[w.tx] = "OPEN") => v.tx = w.tx
OnHead(ts, vs, f) == f.prev # 0 =>
    \E w \in vs : w.node = f.node /\ w.num = f.prev /\ ts[w.tx] = "COMMITTED"
HasFirst(ts, vs) == \A v \in vs : ts[v.tx] = "OPEN" =>
    \E f \in vs : f.node = v.node /\ ts[f.tx] = "OPEN" /\ OnHead(ts, vs, f)
HasLast(vs) == \A v \in vs : \E l \in vs :
    /\ l.node = v.node /\ l.tx = v.tx
    /\ \A w \in vs : w.node = v.node /\ w.tx = v.tx => w.num <= l.num

Chained(ts, vs) ==
    /\ RowHasTx(ts, vs) /\ UniqueKey(vs) /\ Numbered(vs)
    /\ OnPrev(ts, vs) /\ OneWriter(ts, vs) /\ OnTop(ts, vs)
    /\ HasHead(ts, vs) /\ HasFirst(ts, vs) /\ HasLast(vs)

-----------------------------------------------------------------------------
(* The first row of a node in a transaction stands on the head.  Nobody     *)
(* else works on the node: their first row would have the same number.      *)
LEMMA InsertFirst ==
    ASSUME NEW ts, NEW vs, Table(ts, vs), Chained(ts, vs),
           NEW row \in Version, ts[row.tx] = "OPEN",
           \A v \in vs : ~ (v.node = row.node /\ v.num = row.num),
           row.num = row.prev + 1,
           row.prev # 0 => \E w \in vs : w.node = row.node /\ w.num = row.prev
                                         /\ ts[w.tx] = "COMMITTED",
           \A w \in vs : w.node = row.node /\ ts[w.tx] = "COMMITTED" => w.num <= row.prev
    PROVE  Table(ts, vs \cup {row}) /\ Chained(ts, vs \cup {row})
<1> DEFINE us == vs \cup {row}
<1>0. /\ \A v \in vs : v.num \in Nat /\ v.prev \in Nat /\ v.num # 0 /\ v.node \in Nodes
      /\ row.num \in Nat /\ row.prev \in Nat
  BY RowType, BoundsAssumption DEF Table
<1>1. ASSUME NEW v \in vs, v.node = row.node, ts[v.tx] = "OPEN" PROVE FALSE
  <2>1. PICK f \in vs : f.node = v.node /\ ts[f.tx] = "OPEN" /\ OnHead(ts, vs, f)
    BY <1>1 DEF Chained, HasFirst
  <2>2. f.prev <= row.prev
    BY <1>0, <1>1, <2>1 DEF OnHead
  <2>3. row.prev <= f.prev
    BY <1>0, <1>1, <2>1 DEF Chained, OnTop
  <2>4. f.num = row.num
    BY <1>0, <2>2, <2>3 DEF Chained, Numbered
  <2> QED BY <1>1, <2>1, <2>4
<1>2. Table(ts, us)
  BY DEF Table
<1>3. RowHasTx(ts, us) /\ UniqueKey(us) /\ Numbered(us)
  BY DEF Chained, RowHasTx, UniqueKey, Numbered
<1>4. OnPrev(ts, us)
  BY DEF Chained, OnPrev
<1>5. OneWriter(ts, us)
  BY <1>1 DEF Chained, OneWriter
<1>6. OnTop(ts, us)
  BY DEF Chained, OnTop
<1>7. HasHead(ts, us)
  BY DEF Chained, HasHead
<1>8. HasFirst(ts, us)
  <2> SUFFICES ASSUME NEW v \in us, ts[v.tx] = "OPEN"
               PROVE  \E f \in us : f.node = v.node /\ ts[f.tx] = "OPEN" /\ OnHead(ts, us, f)
    BY DEF HasFirst
  <2>1. CASE v \in vs
    <3>1. PICK f \in vs : f.node = v.node /\ ts[f.tx] = "OPEN" /\ OnHead(ts, vs, f)
      BY <2>1 DEF Chained, HasFirst
    <3>2. OnHead(ts, us, f)
      BY <3>1 DEF OnHead
    <3> QED BY <3>1, <3>2
  <2>2. CASE v = row
    BY <2>2 DEF OnHead
  <2> QED BY <2>1, <2>2
<1>9. HasLast(us)
  <2> SUFFICES ASSUME NEW v \in us
               PROVE  \E l \in us : /\ l.node = v.node /\ l.tx = v.tx
                        /\ \A w \in us : w.node = v.node /\ w.tx = v.tx => w.num <= l.num
    BY DEF HasLast
  <2>1. CASE v.node = row.node /\ v.tx = row.tx
    <3>1. \A w \in us : w.node = v.node /\ w.tx = v.tx => w = row
      BY <1>1, <2>1
    <3> QED BY <1>0, <2>1, <3>1
  <2>2. CASE ~ (v.node = row.node /\ v.tx = row.tx)
    <3>1. v \in vs
      BY <2>2
    <3>2. PICK l \in vs : /\ l.node = v.node /\ l.tx = v.tx
                          /\ \A w \in vs : w.node = v.node /\ w.tx = v.tx => w.num <= l.num
      BY <3>1 DEF Chained, HasLast
    <3> QED BY <2>2, <3>2
  <2> QED BY <2>1, <2>2
<1> QED BY <1>2, <1>3, <1>4, <1>5, <1>6, <1>7, <1>8, <1>9 DEF Chained

(* A further row of a node in a transaction stands on its last one there. *)
LEMMA InsertNext ==
    ASSUME NEW ts, NEW vs, Table(ts, vs), Chained(ts, vs),
           NEW row \in Version, ts[row.tx] = "OPEN",
           \A v \in vs : ~ (v.node = row.node /\ v.num = row.num),
           row.num = row.prev + 1,
           NEW cur \in vs, cur.node = row.node, cur.tx = row.tx, cur.num = row.prev,
           \A w \in vs : w.node = row.node /\ w.tx = row.tx => w.num <= cur.num
    PROVE  Table(ts, vs \cup {row}) /\ Chained(ts, vs \cup {row})
<1> DEFINE us == vs \cup {row}
<1>0. /\ \A v \in vs : v.num \in Nat /\ v.prev \in Nat /\ v.node \in Nodes
      /\ row.num \in Nat /\ row.prev \in Nat
  BY RowType DEF Table
<1>2. Table(ts, us)
  BY DEF Table
<1>3. RowHasTx(ts, us) /\ UniqueKey(us) /\ Numbered(us)
  BY DEF Chained, RowHasTx, UniqueKey, Numbered
<1>4. OnPrev(ts, us)
  BY DEF Chained, OnPrev
<1>5. OneWriter(ts, us)
  BY DEF Chained, OneWriter
<1>6. OnTop(ts, us)
  <2>1. \A w \in vs : w.node = row.node /\ ts[w.tx] = "COMMITTED" => w.num <= row.prev
    <3> SUFFICES ASSUME NEW w \in vs, w.node = row.node, ts[w.tx] = "COMMITTED"
                 PROVE  w.num <= row.prev
      OBVIOUS
    <3>1. w.num <= cur.prev /\ cur.num = cur.prev + 1
      BY DEF Chained, OnTop, Numbered
    <3> QED BY <1>0, <3>1
  <2> QED BY <2>1 DEF Chained, OnTop
<1>7. HasHead(ts, us)
  BY DEF Chained, HasHead
<1>8. HasFirst(ts, us)
  <2> SUFFICES ASSUME NEW v \in us, ts[v.tx] = "OPEN"
               PROVE  \E f \in us : f.node = v.node /\ ts[f.tx] = "OPEN" /\ OnHead(ts, us, f)
    BY DEF HasFirst
  <2>1. PICK x \in vs : x.node = v.node /\ ts[x.tx] = "OPEN"
    OBVIOUS
  <2>2. PICK f \in vs : f.node = v.node /\ ts[f.tx] = "OPEN" /\ OnHead(ts, vs, f)
    BY <2>1 DEF Chained, HasFirst
  <2>3. OnHead(ts, us, f)
    BY <2>2 DEF OnHead
  <2> QED BY <2>2, <2>3
<1>9. HasLast(us)
  <2> SUFFICES ASSUME NEW v \in us
               PROVE  \E l \in us : /\ l.node = v.node /\ l.tx = v.tx
                        /\ \A w \in us : w.node = v.node /\ w.tx = v.tx => w.num <= l.num
    BY DEF HasLast
  <2>1. CASE v.node = row.node /\ v.tx = row.tx
    <3>1. \A w \in us : w.node = v.node /\ w.tx = v.tx => w.num <= row.num
      BY <1>0, <2>1
    <3> QED BY <2>1, <3>1
  <2>2. CASE ~ (v.node = row.node /\ v.tx = row.tx)
    <3>1. v \in vs
      BY <2>2
    <3>2. PICK l \in vs : /\ l.node = v.node /\ l.tx = v.tx
                          /\ \A w \in vs : w.node = v.node /\ w.tx = v.tx => w.num <= l.num
      BY <3>1 DEF Chained, HasLast
    <3> QED BY <2>2, <3>2
  <2> QED BY <2>1, <2>2
<1> QED BY <1>2, <1>3, <1>4, <1>5, <1>6, <1>7, <1>8, <1>9 DEF Chained

(* DELETE of all rows that some nodes have in open transactions. *)
LEMMA DeleteChained ==
    ASSUME NEW ts, NEW vs, Table(ts, vs), Chained(ts, vs),
           NEW D, \A v \in D : v \in vs /\ ts[v.tx] = "OPEN",
           \A v \in D, w \in vs : w.node = v.node /\ w.tx = v.tx => w \in D
    PROVE  Table(ts, vs \ D) /\ Chained(ts, vs \ D)
<1> DEFINE us == vs \ D
<1>1. Table(ts, us)
  BY DEF Table
<1>2. RowHasTx(ts, us) /\ UniqueKey(us) /\ Numbered(us) /\ OneWriter(ts, us)
  BY DEF Chained, RowHasTx, UniqueKey, Numbered, OneWriter
<1>3. OnPrev(ts, us)
  <2> SUFFICES ASSUME NEW v \in us, v.prev # 0
               PROVE  \E w \in us : /\ w.node = v.node /\ w.num = v.prev
                                    /\ (w.tx = v.tx \/ ts[w.tx] = "COMMITTED")
    BY DEF OnPrev
  <2>1. PICK w \in vs : w.node = v.node /\ w.num = v.prev /\ (w.tx = v.tx \/ ts[w.tx] = "COMMITTED")
    BY DEF Chained, OnPrev
  <2>2. w \notin D
    BY <2>1
  <2> QED BY <2>1, <2>2
<1>4. OnTop(ts, us)
  BY DEF Chained, OnTop
<1>5. HasHead(ts, us)
  BY DEF Chained, HasHead
<1>6. HasFirst(ts, us)
  <2> SUFFICES ASSUME NEW v \in us, ts[v.tx] = "OPEN"
               PROVE  \E f \in us : f.node = v.node /\ ts[f.tx] = "OPEN" /\ OnHead(ts, us, f)
    BY DEF HasFirst
  <2>1. PICK f \in vs : f.node = v.node /\ ts[f.tx] = "OPEN" /\ OnHead(ts, vs, f)
    BY DEF Chained, HasFirst
  <2>2. f \notin D
    BY <2>1 DEF Chained, OneWriter
  <2>3. OnHead(ts, us, f)
    BY <2>1 DEF OnHead
  <2> QED BY <2>1, <2>2, <2>3
<1>7. HasLast(us)
  BY DEF Chained, HasLast
<1> QED BY <1>1, <1>2, <1>3, <1>4, <1>5, <1>6, <1>7 DEF Chained

(* UPDATE of one row's content. *)
LEMMA RewriteChained ==
    ASSUME NEW ts, NEW vs, Table(ts, vs), Chained(ts, vs),
           NEW v \in vs, NEW c \in Contents
    PROVE  LET us == (vs \ {v}) \cup {[v EXCEPT !.content = c]} IN
           Table(ts, us) /\ Chained(ts, us)
<1> DEFINE r == [v EXCEPT !.content = c]
           us == (vs \ {v}) \cup {r}
<1>0. /\ r \in Version /\ r.node = v.node /\ r.num = v.num
      /\ r.tx = v.tx /\ r.prev = v.prev
  BY RowContent DEF Table
<1> HIDE DEF r
<1>1. Table(ts, us)
  BY <1>0 DEF Table
<1>2. RowHasTx(ts, us) /\ UniqueKey(us) /\ Numbered(us)
  BY <1>0 DEF Chained, RowHasTx, UniqueKey, Numbered
<1>3. OnPrev(ts, us)
  BY <1>0 DEF Chained, OnPrev
<1>4. OneWriter(ts, us) /\ OnTop(ts, us)
  BY <1>0 DEF Chained, OneWriter, OnTop
<1>5. HasHead(ts, us)
  BY <1>0 DEF Chained, HasHead
<1>6. HasFirst(ts, us)
  <2> SUFFICES ASSUME NEW x \in us, ts[x.tx] = "OPEN"
               PROVE  \E f \in us : f.node = x.node /\ ts[f.tx] = "OPEN" /\ OnHead(ts, us, f)
    BY DEF HasFirst
  <2>1. PICK y \in vs : y.node = x.node /\ ts[y.tx] = "OPEN"
    BY <1>0
  <2>2. PICK f \in vs : f.node = x.node /\ ts[f.tx] = "OPEN" /\ OnHead(ts, vs, f)
    BY <2>1 DEF Chained, HasFirst
  <2>4. CASE f = v
    BY <1>0, <2>2, <2>4 DEF OnHead
  <2>5. CASE f # v
    BY <1>0, <2>2, <2>5 DEF OnHead
  <2> QED BY <2>4, <2>5
<1>7. HasLast(us)
  BY <1>0 DEF Chained, HasLast
<1> QED BY <1>1, <1>2, <1>3, <1>4, <1>5, <1>6, <1>7 DEF Chained, r

(* Only the status of the rows' transactions matters: transactions without *)
(* rows are inserted and deleted freely.                                   *)
LEMMA SameStatus ==
    ASSUME NEW ts, NEW vs, Table(ts, vs), Chained(ts, vs),
           NEW us \in [TxIds -> Statuses], \A v \in vs : us[v.tx] = ts[v.tx]
    PROVE  Table(us, vs) /\ Chained(us, vs)
<1>1. Table(us, vs)
  BY DEF Table
<1>2. RowHasTx(us, vs) /\ OnPrev(us, vs)
  BY DEF Chained, RowHasTx, OnPrev
<1>3. OneWriter(us, vs) /\ OnTop(us, vs)
  BY DEF Chained, OneWriter, OnTop
<1>4. HasHead(us, vs)
  BY DEF Chained, HasHead
<1>5. HasFirst(us, vs)
  <2>1. \A f \in vs : OnHead(ts, vs, f) => OnHead(us, vs, f)
    BY DEF OnHead
  <2> QED BY <2>1 DEF Chained, HasFirst
<1> QED BY <1>1, <1>2, <1>3, <1>4, <1>5 DEF Chained

(* All rows of some nodes move from an open transaction to a new one. *)
LEMMA MoveChained ==
    ASSUME NEW ts, NEW vs, Table(ts, vs), Chained(ts, vs),
           NEW D \in SUBSET vs, \A v \in D : ts[v.tx] = "OPEN",
           \A v \in D, w \in vs : w.node = v.node /\ w.tx = v.tx => w \in D,
           NEW k \in TxIds, ts[k] = "OPEN", \A v \in vs : v.tx # k
    PROVE  Table(ts, MovedTo(vs, D, k)) /\ Chained(ts, MovedTo(vs, D, k))
<1> DEFINE moved(v) == [v EXCEPT !.tx = k]
           us == (vs \ D) \cup {moved(v) : v \in D}
<1>1. \A v \in D : /\ moved(v) \in Version /\ moved(v).node = v.node
                   /\ moved(v).num = v.num /\ moved(v).tx = k /\ moved(v).prev = v.prev
  BY RowTx DEF Table
<1> HIDE DEF moved
<1>2. \A r \in us : \E v \in vs : /\ r.node = v.node /\ r.num = v.num /\ r.prev = v.prev
                                 /\ ts[r.tx] = ts[v.tx]
                                 /\ ((r = v /\ v \notin D) \/ (v \in D /\ r = moved(v)))
  BY <1>1
<1>3. \A v \in vs : \E r \in us : /\ r.node = v.node /\ r.num = v.num /\ r.prev = v.prev
                                 /\ ts[r.tx] = ts[v.tx]
                                 /\ ((r = v /\ v \notin D) \/ (v \in D /\ r = moved(v)))
  BY <1>1
<1>4. \A v, w \in vs : (v.node = w.node /\ v.tx = w.tx) => (v \in D <=> w \in D)
  OBVIOUS
<1>5. Table(ts, us)
  BY <1>1 DEF Table
<1>6. RowHasTx(ts, us) /\ Numbered(us)
  BY <1>2 DEF Chained, RowHasTx, Numbered
<1>7. UniqueKey(us)
  <2> SUFFICES ASSUME NEW a \in us, NEW b \in us, a.node = b.node, a.num = b.num
               PROVE  a = b
    BY DEF UniqueKey
  <2>1. PICK v \in vs : /\ a.node = v.node /\ a.num = v.num
                        /\ ((a = v /\ v \notin D) \/ (v \in D /\ a = moved(v)))
    BY <1>2
  <2>2. PICK w \in vs : /\ b.node = w.node /\ b.num = w.num
                        /\ ((b = w /\ w \notin D) \/ (w \in D /\ b = moved(w)))
    BY <1>2
  <2>3. v = w
    BY <2>1, <2>2 DEF Chained, UniqueKey
  <2> QED BY <2>1, <2>2, <2>3
<1>8. \A w \in vs : ts[w.tx] = "COMMITTED" => w \in us
  OBVIOUS
<1>9. OnPrev(ts, us)
  <2> SUFFICES ASSUME NEW r \in us, r.prev # 0
               PROVE  \E w \in us : /\ w.node = r.node /\ w.num = r.prev
                                    /\ (w.tx = r.tx \/ ts[w.tx] = "COMMITTED")
    BY DEF OnPrev
  <2>1. PICK v \in vs : /\ r.node = v.node /\ r.prev = v.prev
                        /\ ((r = v /\ v \notin D) \/ (v \in D /\ r = moved(v)))
    BY <1>2
  <2>2. PICK w \in vs : w.node = v.node /\ w.num = v.prev /\ (w.tx = v.tx \/ ts[w.tx] = "COMMITTED")
    BY <2>1 DEF Chained, OnPrev
  <2>3. CASE ts[w.tx] = "COMMITTED"
    BY <1>8, <2>1, <2>2, <2>3
  <2>4. CASE w.tx = v.tx
    BY <1>1, <1>4, <2>1, <2>2, <2>4
  <2> QED BY <2>2, <2>3, <2>4
<1>10. OneWriter(ts, us)
  <2> SUFFICES ASSUME NEW a \in us, NEW b \in us, a.node = b.node,
                      ts[a.tx] = "OPEN", ts[b.tx] = "OPEN"
               PROVE  a.tx = b.tx
    BY DEF OneWriter
  <2>1. PICK v \in vs : /\ a.node = v.node /\ ts[a.tx] = ts[v.tx]
                        /\ ((a = v /\ v \notin D) \/ (v \in D /\ a = moved(v)))
    BY <1>2
  <2>2. PICK w \in vs : /\ b.node = w.node /\ ts[b.tx] = ts[w.tx]
                        /\ ((b = w /\ w \notin D) \/ (w \in D /\ b = moved(w)))
    BY <1>2
  <2>3. v.tx = w.tx /\ v.node = w.node
    BY <2>1, <2>2 DEF Chained, OneWriter
  <2> QED BY <1>1, <1>4, <2>1, <2>2, <2>3
<1>11. OnTop(ts, us)
  BY <1>2 DEF Chained, OnTop
<1>12. HasHead(ts, us)
  <2> SUFFICES ASSUME NEW n \in Nodes, NEW r \in us, r.node = n, ts[r.tx] = "COMMITTED"
               PROVE  \E v \in us : /\ v.node = n /\ ts[v.tx] = "COMMITTED"
                         /\ \A w \in us : w.node = n /\ ts[w.tx] = "COMMITTED" => w.num <= v.num
    BY DEF HasHead
  <2>1. PICK h \in vs : /\ h.node = n /\ ts[h.tx] = "COMMITTED"
                        /\ \A w \in vs : w.node = n /\ ts[w.tx] = "COMMITTED" => w.num <= h.num
    BY <1>2 DEF Chained, HasHead
  <2> QED BY <2>1, <1>2, <1>8
<1>13. HasFirst(ts, us)
  <2> SUFFICES ASSUME NEW a \in us, ts[a.tx] = "OPEN"
               PROVE  \E f \in us : f.node = a.node /\ ts[f.tx] = "OPEN" /\ OnHead(ts, us, f)
    BY DEF HasFirst
  <2>1. PICK v \in vs : a.node = v.node /\ ts[v.tx] = "OPEN"
    BY <1>2
  <2>2. PICK f \in vs : f.node = v.node /\ ts[f.tx] = "OPEN" /\ OnHead(ts, vs, f)
    BY <2>1 DEF Chained, HasFirst
  <2>3. PICK g \in us : g.node = f.node /\ g.prev = f.prev /\ ts[g.tx] = "OPEN"
    BY <1>3, <2>2
  <2>4. OnHead(ts, us, g)
    BY <1>8, <2>2, <2>3 DEF OnHead
  <2> QED BY <2>1, <2>2, <2>3, <2>4
<1>14. HasLast(us)
  <2> SUFFICES ASSUME NEW a \in us
               PROVE  \E l \in us : /\ l.node = a.node /\ l.tx = a.tx
                        /\ \A w \in us : w.node = a.node /\ w.tx = a.tx => w.num <= l.num
    BY DEF HasLast
  <2>1. PICK v \in vs : /\ a.node = v.node
                        /\ ((a = v /\ v \notin D) \/ (v \in D /\ a = moved(v)))
    BY <1>2
  <2>2. PICK m \in vs : /\ m.node = v.node /\ m.tx = v.tx
                        /\ \A w \in vs : w.node = v.node /\ w.tx = v.tx => w.num <= m.num
    BY DEF Chained, HasLast
  <2>3. PICK l \in us : /\ l.node = m.node /\ l.num = m.num
                        /\ ((l = m /\ m \notin D) \/ (m \in D /\ l = moved(m)))
    BY <1>3
  <2>4. l.tx = a.tx
    BY <1>1, <1>4, <2>1, <2>2, <2>3
  <2>5. ASSUME NEW w \in us, w.node = a.node, w.tx = a.tx PROVE w.num <= l.num
    <3>1. PICK x \in vs : /\ w.node = x.node /\ w.num = x.num /\ ts[w.tx] = ts[x.tx]
                          /\ ((w = x /\ x \notin D) \/ (x \in D /\ w = moved(x)))
      BY <1>2
    <3>2. x.tx = v.tx
      <4>1. CASE v \in D
        <5>1. w.tx = k /\ ts[x.tx] = "OPEN" /\ ts[v.tx] = "OPEN"
          BY <1>1, <2>1, <2>5, <3>1, <4>1
        <5> QED BY <2>1, <2>5, <3>1, <5>1 DEF Chained, OneWriter
      <4>2. CASE v \notin D
        BY <1>1, <2>1, <2>5, <3>1, <4>2
      <4> QED BY <4>1, <4>2
    <3> QED BY <2>1, <2>2, <2>3, <2>5, <3>1, <3>2
  <2> QED BY <2>1, <2>2, <2>3, <2>4, <2>5
<1> QED BY <1>5, <1>6, <1>7, <1>9, <1>10, <1>11, <1>12, <1>13, <1>14 DEF Chained, moved, MovedTo

(* An open transaction becomes committed: the last of its rows for a node  *)
(* becomes the node's head.                                                *)
LEMMA CommitChained ==
    ASSUME NEW ts, NEW vs, Table(ts, vs), Chained(ts, vs),
           NEW t \in TxIds, ts[t] = "OPEN"
    PROVE  LET us == [ts EXCEPT ![t] = "COMMITTED"] IN
           Table(us, vs) /\ Chained(us, vs)
<1> DEFINE us == [ts EXCEPT ![t] = "COMMITTED"]
<1>1. Table(us, vs)
  BY DEF Table, Statuses
<1>2. \A v \in vs : v.tx \in TxIds /\ v.num \in Nat /\ v.prev \in Nat /\ v.node \in Nodes
  BY RowType DEF Table
<1>3. \A v \in vs : us[v.tx] = IF v.tx = t THEN "COMMITTED" ELSE ts[v.tx]
  BY <1>2 DEF Table
<1> HIDE DEF us
<1>4. RowHasTx(us, vs) /\ OnPrev(us, vs) /\ OneWriter(us, vs)
  BY <1>3 DEF Chained, RowHasTx, OnPrev, OneWriter
<1>5. OnTop(us, vs)
  <2> SUFFICES ASSUME NEW v \in vs, NEW w \in vs, v.node = w.node,
                      us[v.tx] = "OPEN", us[w.tx] = "COMMITTED"
               PROVE  w.num <= v.prev
    BY DEF OnTop
  <2>1. ts[v.tx] = "OPEN" /\ v.tx # t
    BY <1>3
  <2>2. w.tx # t
    BY <2>1 DEF Chained, OneWriter
  <2> QED BY <2>1, <2>2, <1>3 DEF Chained, OnTop
<1>6. HasHead(us, vs)
  <2> SUFFICES ASSUME NEW n \in Nodes, NEW r \in vs, r.node = n, us[r.tx] = "COMMITTED"
               PROVE  \E v \in vs : /\ v.node = n /\ us[v.tx] = "COMMITTED"
                         /\ \A w \in vs : w.node = n /\ us[w.tx] = "COMMITTED" => w.num <= v.num
    BY DEF HasHead
  <2>1. CASE \E v \in vs : v.node = n /\ v.tx = t
    <3>1. PICK l \in vs : /\ l.node = n /\ l.tx = t
                          /\ \A w \in vs : w.node = n /\ w.tx = t => w.num <= l.num
      <4>1. HasLast(vs)
        BY DEF Chained
      <4>2. PICK v \in vs : v.node = n /\ v.tx = t
        BY <2>1
      <4>3. PICK l \in vs : /\ l.node = v.node /\ l.tx = v.tx
                            /\ \A w \in vs : w.node = v.node /\ w.tx = v.tx => w.num <= l.num
        BY <4>1, <4>2 DEF HasLast
      <4> QED BY <4>2, <4>3
    <3>2. ASSUME NEW w \in vs, w.node = n, us[w.tx] = "COMMITTED"
          PROVE  w.num <= l.num
      <4>1. CASE w.tx = t
        BY <3>1, <3>2, <4>1
      <4>2. CASE w.tx # t
        <5>1. w.num <= l.prev
          BY <3>1, <3>2, <4>2, <1>3 DEF Chained, OnTop
        <5>2. l.num = l.prev + 1
          BY DEF Chained, Numbered
        <5> QED BY <5>1, <5>2, <1>2
      <4> QED BY <4>1, <4>2
    <3> QED BY <3>1, <3>2, <1>3
  <2>2. CASE \A v \in vs : v.node = n => v.tx # t
    BY <2>2, <1>3 DEF Chained, HasHead
  <2> QED BY <2>1, <2>2
<1>7. HasFirst(us, vs)
  <2> SUFFICES ASSUME NEW v \in vs, us[v.tx] = "OPEN"
               PROVE  \E f \in vs : f.node = v.node /\ us[f.tx] = "OPEN" /\ OnHead(us, vs, f)
    BY DEF HasFirst
  <2>1. v.tx # t /\ ts[v.tx] = "OPEN"
    BY <1>3
  <2>2. PICK f \in vs : f.node = v.node /\ ts[f.tx] = "OPEN" /\ OnHead(ts, vs, f)
    BY <2>1 DEF Chained, HasFirst
  <2>3. f.tx # t
    BY <2>1, <2>2 DEF Chained, OneWriter
  <2>4. OnHead(us, vs, f)
    BY <1>3, <2>2 DEF OnHead
  <2> QED BY <1>3, <2>2, <2>3, <2>4
<1> QED BY <1>1, <1>4, <1>5, <1>6, <1>7 DEF Chained, us

-----------------------------------------------------------------------------
(***************************************************************************)
(* The inductive invariant of the tables.  What a request does to them is  *)
(* classified first, so that each property below looks at a few kinds of   *)
(* change instead of at every operation.                                   *)
(***************************************************************************)
ChainInv == TypeOK /\ Chained(txStatus, versions) /\ FreshTx /\ RowHasNode

(* The parts of the invariant the lemmas speak of. *)
LEMMA ChainParts ==
    ASSUME ChainInv
    PROVE  /\ TxTypeOK /\ Table(txStatus, versions) /\ Chained(txStatus, versions) /\ BaseInv
           /\ \A v \in versions : /\ v \in Version /\ v.node \in Nodes /\ v.tx \in TxIds
                                  /\ v.num \in Nat /\ v.num # 0 /\ v.prev \in Nat
<1>1. \A v \in versions : v \in Version
  BY DEF ChainInv, TypeOK
<1>2. \A v \in versions : /\ v.node \in Nodes /\ v.tx \in TxIds
                          /\ v.num \in Nat /\ v.num # 0 /\ v.prev \in Nat
  BY <1>1, RowType, BoundsAssumption
<1> QED BY <1>1, <1>2 DEF ChainInv, BaseInv, Chained, TypeOK, TxTypeOK, Table, Statuses

(* getLastCommittedVersion *)
IsHead(h, n) ==
    \/ h = NoVersion /\ \A w \in versions : ~ (w.node = n /\ txStatus[w.tx] = "COMMITTED")
    \/ /\ h \in versions /\ h.node = n /\ txStatus[h.tx] = "COMMITTED"
       /\ \A w \in versions : w.node = n /\ txStatus[w.tx] = "COMMITTED" => w.num <= h.num

(* It is the node's greatest committed row, the defaults if there is none. *)
LEMMA HeadChained ==
    ASSUME ChainInv, NEW n \in Nodes
    PROVE  IsHead(getLastCommittedVersion(n), n)
<1>1. CASE CommittedRows(n) = {}
  <2>1. getLastCommittedVersion(n) = NoVersion
    BY <1>1 DEF getLastCommittedVersion, Latest
  <2> QED BY <1>1, <2>1 DEF CommittedRows, IsHead
<1>2. CASE CommittedRows(n) # {}
  <2> DEFINE h == getLastCommittedVersion(n)
  <2>1. \E v \in CommittedRows(n) : \A w \in CommittedRows(n) : w.num <= v.num
    BY <1>2 DEF ChainInv, Chained, HasHead, CommittedRows
  <2>2. h = CHOOSE v \in CommittedRows(n) : \A w \in CommittedRows(n) : w.num <= v.num
    BY <1>2 DEF getLastCommittedVersion, Latest
  <2> HIDE DEF h
  <2>3. h \in CommittedRows(n) /\ \A w \in CommittedRows(n) : w.num <= h.num
    BY <2>1, <2>2
  <2> QED BY <2>3 DEF h, CommittedRows, IsHead
<1> QED BY <1>1, <1>2

(* The last row of a node in a transaction that has rows of it. *)
LEMMA LastChained ==
    ASSUME ChainInv, NEW n \in Nodes, NEW t, RowsOf(n, t) # {}
    PROVE  LET l == Latest(RowsOf(n, t)) IN
           /\ l \in versions /\ l.node = n /\ l.tx = t
           /\ \A w \in versions : w.node = n /\ w.tx = t => w.num <= l.num
<1> DEFINE l == Latest(RowsOf(n, t))
<1>1. \E v \in RowsOf(n, t) : \A w \in RowsOf(n, t) : w.num <= v.num
  <2>1. PICK x \in versions : x.node = n /\ x.tx = t
    BY DEF RowsOf, RowsIn
  <2>2. PICK y \in versions : /\ y.node = n /\ y.tx = t
                              /\ \A w \in versions : w.node = n /\ w.tx = t => w.num <= y.num
    BY <2>1 DEF ChainInv, Chained, HasLast
  <2> QED BY <2>2 DEF RowsOf, RowsIn
<1>2. l = CHOOSE v \in RowsOf(n, t) : \A w \in RowsOf(n, t) : w.num <= v.num
  BY DEF Latest
<1> HIDE DEF l
<1>3. l \in RowsOf(n, t) /\ \A w \in RowsOf(n, t) : w.num <= l.num
  BY <1>1, <1>2
<1> QED BY <1>3 DEF l, RowsOf, RowsIn

(* createVersion's row r, the successor of cur *)
Added(r, n, t, cur, s, c) ==
    /\ r \in Version /\ r.node = n /\ r.tx = t /\ r.content = c
    /\ r.num = r.prev + 1 /\ r.prev = cur.num
    /\ r.state = (IF s # NoState THEN s ELSE cur.state)
    /\ versions' = versions \cup {r}
    /\ \A v \in versions : ~ (v.node = n /\ v.num = r.num)

(* The fields of the version a transaction sees. *)
LEMMA CurrentOK ==
    ASSUME ChainInv, NEW n \in Nodes, NEW t \in TxIds
    PROVE  LET cur == getCurrentVersionForTx(n, t) IN
           cur.num \in 0..MaxVersion /\ cur.state \in States \cup {NoState} /\ cur.content \in Contents
<1>1. ASSUME NEW x, x = NoVersion \/ x \in versions
      PROVE  x.num \in 0..MaxVersion /\ x.state \in States \cup {NoState} /\ x.content \in Contents
  <2>1. CASE x = NoVersion
    BY <2>1, BoundsAssumption, ContentAssumption DEF NoVersion
  <2>2. CASE x \in versions
    <3>1. x \in Version
      BY <2>2 DEF ChainInv, TypeOK
    <3>2. x.num \in 1..MaxVersion /\ x.state \in States \cup {NoState} /\ x.content \in Contents
      BY <3>1, RowType
    <3> QED BY <3>2, BoundsAssumption
  <2> QED BY <1>1, <2>1, <2>2
<1> DEFINE cur == getCurrentVersionForTx(n, t)
<1>2. cur = NoVersion \/ cur \in versions
  <2>1. CASE RowsOf(n, t) # {}
    BY <2>1, LastChained DEF getCurrentVersionForTx
  <2>2. CASE RowsOf(n, t) = {}
    BY <2>2, HeadChained DEF getCurrentVersionForTx, IsHead
  <2> QED BY <2>1, <2>2
<1> HIDE DEF cur
<1>3. cur.num \in 0..MaxVersion /\ cur.state \in States \cup {NoState} /\ cur.content \in Contents
  BY <1>1, <1>2
<1> QED BY <1>3 DEF cur

(* createVersion inserts the successor of the version the transaction sees. *)
LEMMA CreateAdds ==
    ASSUME ChainInv, NEW n \in Nodes, NEW t \in TxIds, NEW s \in States \cup {NoState},
           NEW c \in Contents, createVersion(n, t, s, c)
    PROVE  \E r : Added(r, n, t, getCurrentVersionForTx(n, t), s, c)
<1> DEFINE cur == getCurrentVersionForTx(n, t)
           r == Successor(n, t, s, c)
<1>1. r = [node |-> n, num |-> cur.num + 1, tx |-> t, prev |-> cur.num,
           state |-> IF s # NoState THEN s ELSE cur.state, content |-> c]
  BY DEF Successor
<1>2. /\ r.num <= MaxVersion /\ versions' = versions \cup {r}
      /\ ~ \E v \in versions : v.node = r.node /\ v.num = r.num
  BY DEF createVersion, Inserted
<1>3. cur.num \in 0..MaxVersion /\ cur.state \in States \cup {NoState}
  BY CurrentOK
<1> HIDE DEF cur, r
<1>4. /\ r.node = n /\ r.num = cur.num + 1 /\ r.tx = t /\ r.prev = cur.num /\ r.content = c
      /\ r.state = IF s # NoState THEN s ELSE cur.state
  BY <1>1
<1>5. r \in Version
  <2>1. r.num \in 1..MaxVersion /\ r.prev \in 0..MaxVersion
    BY <1>2, <1>3, <1>4, BoundsAssumption
  <2> QED BY <1>1, <1>3, <1>4, <2>1 DEF Version
<1>6. Added(r, n, t, cur, s, c)
  BY <1>2, <1>4, <1>5 DEF Added
<1> QED BY <1>6 DEF cur

-----------------------------------------------------------------------------
(* The kinds of change a request makes to the tables. *)
StatusKept == \A v \in versions : txStatus'[v.tx] = txStatus[v.tx]
NothingMoves == versions' = versions /\ StatusKept /\ nodes' = nodes
DraftAdded(n, t, c) ==
    /\ RowsOf(n, t) = {} /\ createVersion(n, t, NoState, c)
    /\ txStatus'[t] = "OPEN" /\ StatusKept /\ n \in nodes /\ nodes' = nodes
    /\ MayEditStructure(n)
NodeAdded(n, t) ==
    /\ Inserted([node |-> n, num |-> 1, tx |-> t, prev |-> 0,
                 state |-> InitialState, content |-> EmptyContent])
    /\ txStatus'[t] = "OPEN" /\ StatusKept /\ n \notin nodes /\ nodes' = nodes \cup {n}
RowEdited(v, c) ==
    /\ Rewritten(v, c) /\ txStatus' = txStatus /\ nodes' = nodes
    /\ MayEditStructure(v.node)
    /\ (txStatus[v.tx] = "OPEN" \/ ClosedTx \in Deviations \/ CommittedLink \in Deviations)
RowsRemoved(D) ==
    /\ \A v \in D : v \in versions /\ txStatus[v.tx] = "OPEN"
    /\ \A v \in D, w \in versions : w.node = v.node /\ w.tx = v.tx => w \in D
    /\ versions' = versions \ D
    /\ \A v \in versions' : txStatus'[v.tx] = txStatus[v.tx] /\ v.node \in nodes'

(* What goes with each of them. *)
Housekeeping ==
    /\ TxTypeOK' /\ FreshTx' /\ nextTx <= nextTx' /\ nodes' \subseteq Nodes
    /\ lockedBy' \in [Nodes -> Users \cup {NoUser}]
    /\ comments' \subseteq (Nodes \X (1..MaxVersion))
Effect ==
    \/ NothingMoves
    \/ \E n \in Nodes, t \in TxIds, c \in Contents : DraftAdded(n, t, c)
    \/ \E n \in Nodes, t \in TxIds : NodeAdded(n, t)
    \/ \E v \in versions, c \in Contents : RowEdited(v, c)
    \/ \E D : RowsRemoved(D)
    \/ \E u \in Users, t \in TxIds, sel \in SUBSET Nodes : Commit(u, t, sel)

(* Locks, nodes and comments keep their type when transactions do not move. *)
LEMMA SameTxs ==
    ASSUME ChainInv, UNCHANGED txVars, nodes' = nodes, comments' = comments,
           lockedBy' \in [Nodes -> Users \cup {NoUser}]
    PROVE  Housekeeping /\ StatusKept /\ txStatus' = txStatus
  BY ChainParts, BoundsAssumption
  DEF ChainInv, TypeOK, TxTypeOK, FreshTx, txVars, Housekeeping, StatusKept

(* modifyNode, createLink *)
LEMMA WriteEffect ==
    ASSUME ChainInv, NEW u \in Users, NEW n \in Nodes, NEW t \in TxIds, NEW c \in Contents,
           WriteInTx(u, n, t, c), MayEditStructure(n)
    PROVE  Housekeeping /\ Effect
<1>1. /\ n \in nodes /\ nodes' = nodes /\ comments' = comments /\ UNCHANGED txVars
      /\ Lock(n, u) /\ TypeOK /\ NamesTx(u, t)
  BY DEF WriteInTx, CanLock, ChainInv
<1>2. Housekeeping /\ StatusKept /\ txStatus' = txStatus
  BY <1>1, SameTxs, LockType
<1>3. CASE \E v \in RowsOf(n, t) : Rewritten(v, c)
  <2>1. PICK v \in versions : v.node = n /\ v.tx = t /\ Rewritten(v, c)
    BY <1>3 DEF RowsOf, RowsIn
  <2>2. RowEdited(v, c)
    BY <1>1, <1>2, <2>1 DEF RowEdited, NamesTx
  <2> QED BY <1>2, <2>2 DEF Effect
<1>4. CASE RowsOf(n, t) = {} /\ txStatus[t] = "OPEN" /\ createVersion(n, t, NoState, c)
  <2>1. DraftAdded(n, t, c)
    BY <1>1, <1>2, <1>4 DEF DraftAdded
  <2> QED BY <1>2, <2>1 DEF Effect
<1> QED BY <1>3, <1>4 DEF WriteInTx

(* checkout *)
LEMMA CheckoutEffect ==
    ASSUME ChainInv, NEW u \in Users, NEW n \in Nodes, NEW t \in TxIds \cup {NoTx}, Checkout(u, n, t)
    PROVE  Housekeeping /\ Effect
<1>1. /\ n \in nodes /\ nodes' = nodes /\ comments' = comments
      /\ Lock(n, u) /\ TypeOK /\ BaseInv /\ MayEditStructure(n)
  BY ChainParts DEF Checkout, CanLock, ChainInv, MayEditStructure
<1>2. lockedBy' \in [Nodes -> Users \cup {NoUser}]
  BY <1>1, LockType
<1>3. ASSUME NEW s \in TxIds, CheckoutInto(n, s), StatusKept,
             RowsOf(n, s) = {} => txStatus'[s] = "OPEN"
      PROVE  Effect
  <2>1. CASE versions' = versions
    BY <1>1, <1>3, <2>1 DEF NothingMoves, Effect
  <2>2. CASE RowsOf(n, s) = {} /\ createVersion(n, s, NoState, getCurrentVersionForTx(n, s).content)
    <3> DEFINE c == getCurrentVersionForTx(n, s).content
    <3>1. c \in Contents
      BY CurrentOK
    <3>2. DraftAdded(n, s, c)
      BY <1>1, <1>3, <2>2 DEF DraftAdded
    <3> HIDE DEF c
    <3> QED BY <3>1, <3>2 DEF Effect
  <2> QED BY <1>3, <2>1, <2>2 DEF CheckoutInto
<1>4. CASE /\ t # NoTx /\ (RowsOf(n, t) = {} => txStatus[t] = "OPEN")
           /\ CheckoutInto(n, t) /\ UNCHANGED txVars
  <2>1. t \in TxIds
    BY <1>4
  <2>2. Housekeeping /\ StatusKept /\ txStatus' = txStatus
    BY <1>1, <1>2, <1>4, SameTxs
  <2> QED BY <1>3, <1>4, <2>1, <2>2
<1>5. CASE \E s \in TxIds : FoundOrOpened(u, s) /\ CheckoutInto(n, s)
  <2>1. PICK s \in TxIds : FoundOrOpened(u, s) /\ CheckoutInto(n, s)
    BY <1>5
  <2>2. /\ TxTypeOK' /\ FreshTx' /\ txStatus'[s] = "OPEN" /\ nextTx' \in {nextTx, nextTx + 1}
        /\ StatusKept
    BY <1>1, <2>1, FoundOrOpenedBase DEF StatusKept
  <2>3. nextTx \in Nat
    BY <1>1, BoundsAssumption DEF TypeOK
  <2>4. Housekeeping
    BY <1>1, <1>2, <2>2, <2>3 DEF Housekeeping, TypeOK
  <2> QED BY <1>3, <2>1, <2>2, <2>4
<1> QED BY <1>4, <1>5 DEF Checkout

(* createNode *)
LEMMA CreateNodeEffect ==
    ASSUME ChainInv, NEW u \in Users, NEW n \in Nodes, CreateNode(u, n)
    PROVE  Housekeeping /\ Effect
<1>1. PICK t \in TxIds :
        /\ FoundOrOpened(u, t)
        /\ Inserted([node |-> n, num |-> 1, tx |-> t, prev |-> 0,
                     state |-> InitialState, content |-> EmptyContent])
  BY DEF CreateNode
<1>2. n \notin nodes /\ nodes' = nodes \cup {n} /\ comments' = comments /\ Lock(n, u)
  BY DEF CreateNode
<1>3. TypeOK /\ BaseInv /\ nextTx \in Nat
  BY ChainParts, BoundsAssumption DEF ChainInv, TypeOK
<1>4. /\ TxTypeOK' /\ FreshTx' /\ txStatus'[t] = "OPEN" /\ nextTx' \in {nextTx, nextTx + 1}
      /\ StatusKept
  BY <1>1, <1>3, FoundOrOpenedBase DEF StatusKept
<1>5. lockedBy' \in [Nodes -> Users \cup {NoUser}]
  BY <1>2, <1>3, LockType
<1>6. Housekeeping
  BY <1>2, <1>3, <1>4, <1>5 DEF Housekeeping, TypeOK
<1>7. NodeAdded(n, t)
  BY <1>1, <1>2, <1>4 DEF NodeAdded
<1> QED BY <1>6, <1>7 DEF Effect

(* openTransaction *)
LEMMA OpenEffect ==
    ASSUME ChainInv, NEW u \in Users, Opened(u), UNCHANGED <<nodes, versions, comments>>,
           lockedBy' \in [Nodes -> Users \cup {NoUser}]
    PROVE  Housekeeping /\ NothingMoves
<1>1. BaseInv /\ nextTx \in Nat
  BY ChainParts, BoundsAssumption DEF ChainInv, TypeOK
<1>2. TxTypeOK' /\ FreshTx' /\ nextTx' = nextTx + 1 /\ StatusKept
  BY <1>1, OpenedBase DEF StatusKept
<1> QED BY <1>1, <1>2 DEF ChainInv, TypeOK, Housekeeping, NothingMoves

(* Deleting open rows, and transactions without rows. *)
LEMMA DeleteEffect ==
    ASSUME ChainInv, NEW D, \A v \in D : v \in versions /\ txStatus[v.tx] = "OPEN",
           \A v \in D, w \in versions : w.node = v.node /\ w.tx = v.tx => w \in D,
           NEW S, \A v \in versions \ D : v.tx \notin S,
           versions' = versions \ D, TxsDeleted(S), comments' = comments,
           lockedBy' \in [Nodes -> Users \cup {NoUser}],
           nodes' \subseteq nodes, \A v \in versions \ D : v.node \in nodes'
    PROVE  Housekeeping /\ RowsRemoved(D)
<1>1. TxTypeOK /\ \A v \in versions : v.tx \in TxIds
  BY ChainParts
<1>2. TxTypeOK' /\ FreshTx'
  BY <1>1 DEF TxsDeleted, TxTypeOK, Statuses, ChainInv, FreshTx
<1>3. nextTx <= nextTx'
  BY BoundsAssumption DEF TxsDeleted, ChainInv, TypeOK
<1>4. \A v \in versions' : txStatus'[v.tx] = txStatus[v.tx]
  BY <1>1 DEF TxsDeleted
<1>5. Housekeeping
  BY <1>2, <1>3 DEF Housekeeping, ChainInv, TypeOK
<1> QED BY <1>4, <1>5 DEF RowsRemoved

(* The nodes of the rows that are left stay. *)
LEMMA OrphansLeave ==
    ASSUME ChainInv, NEW S, NEW D, nodes' = nodes \ Orphans(S, D)
    PROVE  nodes' \subseteq nodes /\ \A v \in versions \ D : v.node \in nodes'
  BY DEF ChainInv, RowHasNode, Orphans

(* rollbackTransaction *)
LEMMA RollbackEffect ==
    ASSUME ChainInv, NEW u, NEW t \in TxIds, rollbackTransaction(u, t)
    PROVE  Housekeeping /\ RowsRemoved(RowsIn(t))
<1> DEFINE affected == {v.node : v \in RowsIn(t)}
<1>1. /\ txStatus[t] = "OPEN" /\ versions' = versions \ RowsIn(t) /\ TxsDeleted({t})
      /\ nodes' = nodes \ Orphans(affected, RowsIn(t)) /\ comments' = comments
  BY DEF rollbackTransaction, OwnsOpenTx
<1>2. lockedBy' \in [Nodes -> Users \cup {NoUser}]
  BY UnlockType DEF ChainInv, rollbackTransaction
<1>3. /\ \A v \in RowsIn(t) : v \in versions /\ txStatus[v.tx] = "OPEN"
      /\ \A v \in RowsIn(t), w \in versions : w.node = v.node /\ w.tx = v.tx => w \in RowsIn(t)
      /\ \A v \in versions \ RowsIn(t) : v.tx \notin {t}
  BY <1>1 DEF RowsIn
<1> HIDE DEF affected
<1> QED BY <1>1, <1>2, <1>3, OrphansLeave, DeleteEffect

(* releaseNodes *)
LEMMA ReleaseEffect ==
    ASSUME ChainInv, NEW u, NEW t \in TxIds, NEW S \in SUBSET Nodes, ReleaseNodes(u, t, S)
    PROVE  Housekeeping /\ \E D : RowsRemoved(D)
<1> DEFINE rows == {v \in RowsIn(t) : v.node \in S}
           gone == IF RowsIn(t) \subseteq rows THEN {t} ELSE {}
<1>1. /\ txStatus[t] = "OPEN" /\ versions' = versions \ rows /\ TxsDeleted(gone)
      /\ nodes' = nodes \ Orphans(S, rows) /\ comments' = comments
  BY DEF ReleaseNodes, OwnsOpenTx
<1>2. lockedBy' \in [Nodes -> Users \cup {NoUser}]
  BY UnlockType DEF ChainInv, ReleaseNodes
<1>3. /\ \A v \in rows : v \in versions /\ txStatus[v.tx] = "OPEN"
      /\ \A v \in rows, w \in versions : w.node = v.node /\ w.tx = v.tx => w \in rows
      /\ \A v \in versions \ rows : v.tx \notin gone
  BY <1>1 DEF RowsIn
<1> HIDE DEF rows, gone
<1> QED BY <1>1, <1>2, <1>3, OrphansLeave, DeleteEffect

(* cleanStaleTransactions *)
LEMMA CleanupEffect ==
    ASSUME ChainInv, NEW cutoff \in TxIds, cleanStaleTransactions(cutoff)
    PROVE  Housekeeping /\ \E D : RowsRemoved(D)
<1> DEFINE stale == {t \in TxIds : t <= cutoff /\ txStatus[t] = "OPEN"}
           rows == {v \in versions : v.tx \in stale}
<1>1. /\ versions' = versions \ rows /\ TxsDeleted(stale)
      /\ nodes' = nodes /\ lockedBy' = lockedBy /\ comments' = comments
  BY DEF cleanStaleTransactions
<1>2. /\ \A v \in rows : v \in versions /\ txStatus[v.tx] = "OPEN"
      /\ \A v \in rows, w \in versions : w.node = v.node /\ w.tx = v.tx => w \in rows
      /\ \A v \in versions \ rows : v.tx \notin stale
  OBVIOUS
<1> HIDE DEF stale, rows
<1>3. lockedBy' \in [Nodes -> Users \cup {NoUser}] /\ \A v \in versions : v.node \in nodes'
  BY <1>1 DEF ChainInv, TypeOK, RowHasNode
<1> QED BY <1>1, <1>2, <1>3, DeleteEffect

(* addComment *)
LEMMA CommentEffect ==
    ASSUME ChainInv, NEW v \in versions, AddComment(v)
    PROVE  Housekeeping /\ NothingMoves
<1>1. v.node \in Nodes /\ v.num \in 1..MaxVersion
  BY RowType DEF ChainInv, TypeOK
<1>2. comments' \subseteq (Nodes \X (1..MaxVersion))
  BY <1>1 DEF AddComment, ChainInv, TypeOK
<1>3. /\ txStatus' = txStatus /\ txOwner' = txOwner /\ nextTx' = nextTx
      /\ nodes' = nodes /\ lockedBy' = lockedBy /\ versions' = versions
  BY DEF AddComment, txVars
<1>4. TxTypeOK' /\ FreshTx' /\ nextTx <= nextTx'
  BY <1>3, ChainParts, BoundsAssumption DEF TxTypeOK, FreshTx, ChainInv, TypeOK
<1> QED BY <1>2, <1>3, <1>4 DEF Housekeeping, NothingMoves, StatusKept, ChainInv, TypeOK

(* commitTransaction *)
LEMMA CommitHousekeeping ==
    ASSUME ChainInv, NEW u \in Users, NEW t \in TxIds, NEW sel \in SUBSET Nodes, Commit(u, t, sel)
    PROVE  Housekeeping
<1> DEFINE deferred == Deferred(t, sel)
<1>1. /\ txStatus[t] = "OPEN" /\ nodes' = nodes /\ comments' = comments
      /\ CommitAll(t) \/ CommitPart(u, t, deferred)
  BY DEF Commit, Committable, OwnsOpenTx
<1>2. lockedBy' \in [Nodes -> Users \cup {NoUser}]
  BY UnlockType DEF ChainInv, Commit
<1>3. TxTypeOK /\ nextTx \in Nat
  BY ChainParts, BoundsAssumption DEF TxTypeOK
<1>4. TxTypeOK' /\ FreshTx' /\ nextTx <= nextTx'
  <2>1. CASE CommitAll(t)
    BY <1>1, <1>3, <2>1 DEF CommitAll, TxTypeOK, Statuses, ChainInv, FreshTx
  <2>2. CASE CommitPart(u, t, deferred)
    <3>1. /\ nextTx <= MaxTx /\ nextTx' = nextTx + 1
          /\ txStatus' = [txStatus EXCEPT ![t] = "COMMITTED", ![nextTx] = "OPEN"]
          /\ txOwner' = [txOwner EXCEPT ![nextTx] = u]
      BY <2>2 DEF CommitPart
    <3>2. nextTx \in TxIds /\ nextTx' \in 1..(MaxTx + 1) /\ nextTx <= nextTx'
      BY <1>3, <3>1, BoundsAssumption DEF TxTypeOK, TxIds
    <3>3. TxTypeOK'
      BY <1>3, <3>1, <3>2 DEF TxTypeOK, Statuses
    <3>4. FreshTx'
      <4>1. ASSUME NEW x \in TxIds, x >= nextTx' PROVE x >= nextTx /\ x # nextTx /\ x # t
        <5>1. x >= nextTx /\ x # nextTx
          BY <1>3, <3>1, <4>1, BoundsAssumption DEF TxIds
        <5> QED BY <1>1, <5>1 DEF ChainInv, FreshTx
      <4> QED BY <1>3, <3>1, <3>2, <4>1 DEF ChainInv, FreshTx, TxTypeOK
    <3> QED BY <3>2, <3>3, <3>4
  <2> QED BY <1>1, <2>1, <2>2
<1> QED BY <1>1, <1>2, <1>4 DEF Housekeeping, ChainInv, TypeOK

(* Every request has one of the effects. *)
LEMMA UserEffects ==
    ASSUME ChainInv, NEW u \in Users, UserStep(u)
    PROVE  Housekeeping /\ Effect
<1>1. CASE OpenTransaction(u)
  BY <1>1, OpenEffect DEF OpenTransaction, Effect, ChainInv, TypeOK
<1>2. CASE \E n \in Nodes : CreateNode(u, n)
  BY <1>2, CreateNodeEffect
<1>3. CASE \E n \in Nodes, t \in TxIds \cup {NoTx} : Checkout(u, n, t)
  BY <1>3, CheckoutEffect
<1>4. ASSUME NEW n \in Nodes, NEW t \in TxIds, NEW c \in Contents,
             ModifyNode(u, n, t, c) \/ CreateLink(u, n, t, c)
      PROVE  Housekeeping /\ Effect
  BY <1>4, WriteEffect DEF ModifyNode, CreateLink, MayEditStructure
<1>5. ASSUME NEW n \in Nodes, NEW t \in TxIds, NEW c \in Contents, AssignDomain(u, n, t, c)
      PROVE  Housekeeping /\ Effect
  <2>1. PICK v \in versions : v.node = n /\ v.tx = t /\ Rewritten(v, c)
    BY <1>5 DEF AssignDomain, RowsOf, RowsIn
  <2>2. /\ NamesTx(u, t) /\ MayEditStructure(n) /\ UNCHANGED txVars
        /\ nodes' = nodes /\ lockedBy' = lockedBy /\ comments' = comments
    BY <1>5 DEF AssignDomain
  <2>3. Housekeeping /\ txStatus' = txStatus
    BY <2>2, SameTxs DEF ChainInv, TypeOK
  <2>4. RowEdited(v, c)
    BY <2>1, <2>2, <2>3 DEF RowEdited, NamesTx
  <2> QED BY <2>3, <2>4 DEF Effect
<1>6. ASSUME NEW v \in versions, NEW c \in Contents, DeleteLink(u, v, c)
      PROVE  Housekeeping /\ Effect
  <2>1. /\ (txStatus[v.tx] = "OPEN" \/ CommittedLink \in Deviations)
        /\ MayEditStructure(v.node) /\ Rewritten(v, c) /\ UNCHANGED txVars
        /\ Lock(v.node, u) /\ nodes' = nodes /\ comments' = comments
    BY <1>6 DEF DeleteLink, OpenRows
  <2>2. lockedBy' \in [Nodes -> Users \cup {NoUser}]
    BY <2>1, ChainParts, LockType DEF ChainInv
  <2>3. Housekeeping /\ txStatus' = txStatus
    BY <2>1, <2>2, SameTxs
  <2>4. RowEdited(v, c)
    BY <2>1, <2>3 DEF RowEdited
  <2> QED BY <2>3, <2>4 DEF Effect
<1>7. ASSUME NEW t \in TxIds, NEW S \in SUBSET Nodes, Commit(u, t, S)
      PROVE  Housekeeping /\ Effect
  BY <1>7, CommitHousekeeping DEF Effect
<1>8. ASSUME NEW t \in TxIds, NEW S \in SUBSET Nodes, ReleaseNodes(u, t, S)
      PROVE  Housekeeping /\ Effect
  BY <1>8, ReleaseEffect DEF Effect
<1>9. CASE \E t \in TxIds : rollbackTransaction(u, t)
  BY <1>9, RollbackEffect DEF Effect
<1> QED BY <1>1, <1>2, <1>3, <1>4, <1>5, <1>6, <1>7, <1>8, <1>9 DEF UserStep

-----------------------------------------------------------------------------
(* The invariant after a step, from its parts. *)
LEMMA ChainAssemble ==
    ASSUME Housekeeping, Table(txStatus', versions'), Chained(txStatus', versions'), RowHasNode'
    PROVE  ChainInv'
  BY DEF Housekeeping, ChainInv, TypeOK, TxTypeOK, Table, Statuses

(* A transaction may be opened or deleted as long as rows keep their status. *)
LEMMA StillChained ==
    ASSUME ChainInv, TxTypeOK', StatusKept
    PROVE  Table(txStatus', versions) /\ Chained(txStatus', versions)
<1>1. Table(txStatus, versions) /\ Chained(txStatus, versions)
  BY ChainParts
<1>2. txStatus' \in [TxIds -> Statuses]
  BY DEF TxTypeOK
<1> QED BY <1>1, <1>2, SameStatus DEF StatusKept

(* createVersion, in a transaction that is open after the step *)
LEMMA AddedChained ==
    ASSUME ChainInv, NEW n \in nodes, NEW t \in TxIds, NEW s, NEW c, NEW r,
           Added(r, n, t, getCurrentVersionForTx(n, t), s, c),
           Housekeeping, StatusKept, txStatus'[t] = "OPEN", nodes' = nodes
    PROVE  ChainInv'
<1>0. n \in Nodes
  BY DEF ChainInv, TypeOK
<1>1. Table(txStatus', versions) /\ Chained(txStatus', versions)
  BY StillChained DEF Housekeeping
<1>2. Table(txStatus', versions \cup {r}) /\ Chained(txStatus', versions \cup {r})
  <2>1. CASE RowsOf(n, t) = {}
    <3> DEFINE h == getLastCommittedVersion(n)
    <3>1. IsHead(h, n)
      BY <1>0, HeadChained
    <3>2. r.prev = h.num
      BY <2>1 DEF Added, getCurrentVersionForTx
    <3> HIDE DEF h
    <3>3. r.prev # 0 => \E w \in versions : w.node = r.node /\ w.num = r.prev
                                            /\ txStatus'[w.tx] = "COMMITTED"
      BY <3>1, <3>2 DEF Added, IsHead, NoVersion, StatusKept
    <3>4. \A w \in versions : w.node = r.node /\ txStatus'[w.tx] = "COMMITTED" => w.num <= r.prev
      BY <3>1, <3>2 DEF Added, IsHead, StatusKept
    <3> QED BY <1>1, <3>3, <3>4, InsertFirst DEF Added
  <2>2. CASE RowsOf(n, t) # {}
    <3> DEFINE l == Latest(RowsOf(n, t))
    <3>1. /\ l \in versions /\ l.node = n /\ l.tx = t
          /\ \A w \in versions : w.node = n /\ w.tx = t => w.num <= l.num
      BY <1>0, <2>2, LastChained
    <3>2. r.prev = l.num
      BY <2>2 DEF Added, getCurrentVersionForTx
    <3> HIDE DEF l
    <3> QED BY <1>1, <3>1, <3>2, InsertNext DEF Added
  <2> QED BY <2>1, <2>2
<1>3. RowHasNode'
  BY DEF ChainInv, RowHasNode, Added
<1> QED BY <1>2, <1>3, ChainAssemble DEF Added

(* createNode *)
LEMMA NodeChained ==
    ASSUME ChainInv, Housekeeping, NEW n \in Nodes, NEW t \in TxIds, NodeAdded(n, t)
    PROVE  ChainInv'
<1> DEFINE r == [node |-> n, num |-> 1, tx |-> t, prev |-> 0,
                 state |-> InitialState, content |-> EmptyContent]
<1>1. r.num <= MaxVersion /\ versions' = versions \cup {r} /\ nodes' = nodes \cup {n}
  BY DEF Inserted, NodeAdded
<1>2. r \in Version
  BY <1>1, BoundsAssumption, ContentAssumption, StateAssumption DEF Version
<1>3. r.node = n /\ r.num = r.prev + 1 /\ r.prev = 0 /\ r.tx = t
  OBVIOUS
<1> HIDE DEF r
<1>4. Table(txStatus', versions) /\ Chained(txStatus', versions) /\ txStatus'[t] = "OPEN"
  BY StillChained DEF Housekeeping, NodeAdded
<1>5. \A v \in versions : v.node # n
  BY DEF NodeAdded, ChainInv, RowHasNode
<1>6. Table(txStatus', versions \cup {r}) /\ Chained(txStatus', versions \cup {r})
  BY <1>2, <1>3, <1>4, <1>5, InsertFirst
<1>7. RowHasNode'
  BY <1>1, <1>3 DEF ChainInv, RowHasNode
<1> QED BY <1>1, <1>6, <1>7, ChainAssemble

(* Rewriting a row's content *)
LEMMA EditChained ==
    ASSUME ChainInv, Housekeeping, NEW v \in versions, NEW c \in Contents, RowEdited(v, c)
    PROVE  ChainInv'
<1> DEFINE r == [v EXCEPT !.content = c]
           us == (versions \ {v}) \cup {r}
<1>1. Table(txStatus, versions) /\ Chained(txStatus, versions) /\ v \in Version
  BY ChainParts
<1>2. Table(txStatus, us) /\ Chained(txStatus, us)
  BY <1>1, RewriteChained
<1>3. r.node = v.node
  BY <1>1 DEF Version
<1>4. versions' = us /\ txStatus' = txStatus /\ nodes' = nodes
  BY DEF Rewritten, RowEdited
<1>5. RowHasNode'
  BY <1>3, <1>4 DEF ChainInv, RowHasNode
<1> QED BY <1>2, <1>4, <1>5, ChainAssemble

(* Deleting rows *)
LEMMA RemoveChained ==
    ASSUME ChainInv, Housekeeping, NEW D, RowsRemoved(D)
    PROVE  ChainInv'
<1> DEFINE rest == versions \ D
<1>1. Table(txStatus, versions) /\ Chained(txStatus, versions)
  BY ChainParts
<1>2. /\ \A v \in D : v \in versions /\ txStatus[v.tx] = "OPEN"
      /\ \A v \in D, w \in versions : w.node = v.node /\ w.tx = v.tx => w \in D
      /\ versions' = rest /\ \A v \in rest : txStatus'[v.tx] = txStatus[v.tx] /\ v.node \in nodes'
  BY DEF RowsRemoved
<1>3. Table(txStatus, rest) /\ Chained(txStatus, rest)
  BY <1>1, <1>2, DeleteChained
<1> HIDE DEF rest
<1>4. txStatus' \in [TxIds -> Statuses]
  BY DEF Housekeeping, TxTypeOK
<1>5. Table(txStatus', rest) /\ Chained(txStatus', rest)
  BY <1>2, <1>3, <1>4, SameStatus
<1>6. RowHasNode'
  BY <1>2 DEF RowHasNode
<1> QED BY <1>2, <1>5, <1>6, ChainAssemble

(* commitTransaction, whole or partial *)
LEMMA CommitKeepsChain ==
    ASSUME ChainInv, NEW u \in Users, NEW t \in TxIds, NEW sel \in SUBSET Nodes, Commit(u, t, sel)
    PROVE  ChainInv'
<1> DEFINE deferred == Deferred(t, sel)
<1>1. /\ txStatus[t] = "OPEN" /\ nodes' = nodes
      /\ CommitAll(t) \/ CommitPart(u, t, deferred)
  BY DEF Commit, Committable, OwnsOpenTx
<1>2. Housekeeping /\ TxTypeOK /\ Table(txStatus, versions) /\ Chained(txStatus, versions) /\ BaseInv
  BY CommitHousekeeping, ChainParts
<1>3. /\ deferred \in SUBSET versions /\ \A v \in deferred : v.tx = t
      /\ \A v \in deferred, w \in versions : w.node = v.node /\ w.tx = v.tx => w \in deferred
  BY DEF Deferred, RowsIn
<1> HIDE DEF deferred
<1>4. CASE CommitAll(t)
  <2>1. txStatus' = [txStatus EXCEPT ![t] = "COMMITTED"] /\ versions' = versions
    BY <1>4 DEF CommitAll
  <2>2. Table(txStatus', versions') /\ Chained(txStatus', versions')
    BY <1>1, <1>2, <2>1, CommitChained
  <2>3. RowHasNode'
    BY <1>1, <2>1 DEF ChainInv, RowHasNode
  <2> QED BY <1>2, <2>2, <2>3, ChainAssemble
<1>5. CASE CommitPart(u, t, deferred)
  <2> DEFINE ts == [txStatus EXCEPT ![nextTx] = "OPEN"]
             us == [ts EXCEPT ![t] = "COMMITTED"]
             moved == MovedTo(versions, deferred, nextTx)
  <2>1. /\ nextTx <= MaxTx /\ versions' = moved
        /\ txStatus' = [txStatus EXCEPT ![t] = "COMMITTED", ![nextTx] = "OPEN"]
    BY <1>5 DEF CommitPart, MovedTo
  <2>2. nextTx \in TxIds /\ txStatus[nextTx] = "none"
    BY <1>2, <2>1, BoundsAssumption DEF TxTypeOK, TxIds, ChainInv, FreshTx
  <2>3. t # nextTx /\ txStatus' = us
    BY <1>1, <1>2, <2>1, <2>2 DEF TxTypeOK
  <2>4. \A v \in versions : v.tx # nextTx /\ ts[v.tx] = txStatus[v.tx]
    <3>1. \A v \in versions : v.tx # nextTx /\ v.tx \in TxIds
      BY <2>2, ChainParts DEF BaseInv, RowHasTx
    <3> QED BY <1>2, <3>1 DEF TxTypeOK
  <2>5. ts \in [TxIds -> Statuses] /\ ts[nextTx] = "OPEN" /\ ts[t] = "OPEN"
    BY <1>1, <1>2, <2>2, <2>3 DEF TxTypeOK, Statuses
  <2>6. Table(us, moved) /\ Chained(us, moved)
    <3> HIDE DEF ts, moved
    <3>1. Table(ts, versions) /\ Chained(ts, versions)
      BY <1>2, <2>4, <2>5, SameStatus
    <3>2. \A v \in deferred : ts[v.tx] = "OPEN"
      BY <1>3, <2>5
    <3>3. Table(ts, moved) /\ Chained(ts, moved)
      BY <1>3, <2>2, <2>4, <2>5, <3>1, <3>2, MoveChained DEF moved
    <3> QED BY <2>5, <3>3, CommitChained
  <2>7. RowHasNode'
    <3>1. \A v \in deferred : [v EXCEPT !.tx = nextTx].node = v.node
      BY <1>3, <2>2, RowTx DEF ChainInv, TypeOK
    <3> QED BY <1>1, <1>3, <2>1, <3>1 DEF ChainInv, RowHasNode, MovedTo
  <2>8. Table(txStatus', versions') /\ Chained(txStatus', versions')
    BY <2>1, <2>3, <2>6
  <2> QED BY <1>2, <2>7, <2>8, ChainAssemble
<1> QED BY <1>1, <1>4, <1>5

(* Every effect keeps the chains. *)
LEMMA EffectChained ==
    ASSUME ChainInv, Housekeeping, Effect
    PROVE  ChainInv'
<1>1. CASE NothingMoves
  <2>1. Table(txStatus', versions') /\ Chained(txStatus', versions')
    BY <1>1, StillChained DEF NothingMoves, Housekeeping
  <2>2. RowHasNode'
    BY <1>1 DEF NothingMoves, ChainInv, RowHasNode
  <2> QED BY <2>1, <2>2, ChainAssemble
<1>2. ASSUME NEW n \in Nodes, NEW t \in TxIds, NEW c \in Contents, DraftAdded(n, t, c)
      PROVE  ChainInv'
  <2>1. PICK r : Added(r, n, t, getCurrentVersionForTx(n, t), NoState, c)
    BY <1>2, CreateAdds DEF DraftAdded
  <2> QED BY <1>2, <2>1, AddedChained DEF DraftAdded
<1>3. CASE \E n \in Nodes, t \in TxIds : NodeAdded(n, t)
  BY <1>3, NodeChained
<1>4. CASE \E v \in versions, c \in Contents : RowEdited(v, c)
  BY <1>4, EditChained
<1>5. CASE \E D : RowsRemoved(D)
  BY <1>5, RemoveChained
<1>6. CASE \E u \in Users, t \in TxIds, sel \in SUBSET Nodes : Commit(u, t, sel)
  BY <1>6, CommitKeepsChain
<1> QED BY <1>1, <1>2, <1>3, <1>4, <1>5, <1>6 DEF Effect

-----------------------------------------------------------------------------
(***************************************************************************)
(* The running requests: their transaction is one that was opened, and no  *)
(* two of them are about to apply a transition in the same one.            *)
(***************************************************************************)
Running == [phase : {"locked", "opened", "applied", "failed", "ending"},
            node : Nodes, tr : Transitions, tx : TxIds \cup {NoTx}]
ReqInv ==
    /\ req \in [Users -> {Idle} \cup Running]
    /\ \A u \in Users : req[u].phase \in {"opened", "applied", "failed"} =>
          req[u].tx \in TxIds /\ req[u].tx < nextTx
    /\ \A u, x \in Users :
          (InPhase(u, "opened") /\ InPhase(x, "opened") /\ req[u].tx = req[x].tx) => u = x

(* The transactions in which a transition is still to be applied. *)
PendingTxs == {req[u].tx : u \in {x \in Users : InPhase(x, "opened")}}

(* The fields of a running request, and of one that moves on. *)
LEMMA RunningFields ==
    ASSUME ReqInv, NEW u \in Users, ~ InPhase(u, "idle")
    PROVE  /\ req[u] \in Running /\ req[u].node \in Nodes /\ req[u].tr \in Transitions
           /\ req[u].tx \in TxIds \cup {NoTx}
<1>1. req[u] \in Running
  BY DEF ReqInv, InPhase, Idle
<1> QED BY <1>1 DEF Running

(* A request that moves on to any phase but "opened" keeps the others. *)
LEMMA Moves ==
    ASSUME ReqInv, nextTx \in Nat, nextTx' \in Nat, nextTx <= nextTx',
           NEW u \in Users, NEW q \in {Idle} \cup Running, q.phase # "opened",
           q.phase \in {"applied", "failed"} =>
               req[u].phase \in {"opened", "applied", "failed"} /\ q.tx = req[u].tx,
           req' = [req EXCEPT ![u] = q]
    PROVE  /\ ReqInv' /\ PendingTxs' \subseteq PendingTxs
           /\ InPhase(u, "opened") => req[u].tx \notin PendingTxs'
<1>1. req \in [Users -> {Idle} \cup Running]
  BY DEF ReqInv
<1>2. req' \in [Users -> {Idle} \cup Running]
  BY <1>1
<1>3. req'[u] = q /\ \A x \in Users : x # u => req'[x] = req[x]
  BY <1>1
<1>4. \A x \in Users : req'[x].phase = "opened" => x # u /\ req[x].phase = "opened" /\ req'[x] = req[x]
  BY <1>3
<1>5. ASSUME NEW x \in Users, req'[x].phase \in {"opened", "applied", "failed"}
      PROVE  req'[x].tx \in TxIds /\ req'[x].tx < nextTx'
  <2>1. req'[x].tx \in TxIds /\ req'[x].tx < nextTx
    <3>1. CASE x = u
      BY <1>3, <1>5, <3>1 DEF ReqInv
    <3>2. CASE x # u
      BY <1>3, <1>5, <3>2 DEF ReqInv
    <3> QED BY <3>1, <3>2
  <2> QED BY <2>1 DEF TxIds
<1>6. \A x, y \in Users :
        (req'[x].phase = "opened" /\ req'[y].phase = "opened" /\ req'[x].tx = req'[y].tx) => x = y
  BY <1>4 DEF ReqInv, InPhase
<1>7. ReqInv'
  BY <1>2, <1>5, <1>6 DEF ReqInv, InPhase
<1>8. PendingTxs' \subseteq PendingTxs
  BY <1>4 DEF PendingTxs, InPhase
<1>9. InPhase(u, "opened") => req[u].tx \notin PendingTxs'
  BY <1>4 DEF PendingTxs, InPhase, ReqInv
<1> QED BY <1>7, <1>8, <1>9

(* GoTo, for a running request *)
LEMMA GoesTo ==
    ASSUME ReqInv, nextTx \in Nat, nextTx' \in Nat, nextTx <= nextTx',
           NEW u \in Users, ~ InPhase(u, "idle"),
           NEW p \in {"applied", "failed", "ending"}, GoTo(u, p),
           p \in {"applied", "failed"} => req[u].phase \in {"opened", "applied", "failed"}
    PROVE  /\ ReqInv' /\ PendingTxs' \subseteq PendingTxs
           /\ InPhase(u, "opened") => req[u].tx \notin PendingTxs'
<1> DEFINE q == [req[u] EXCEPT !.phase = p]
<1>1. req[u] \in Running
  BY RunningFields
<1>2. q \in Running /\ q.phase = p /\ q.tx = req[u].tx
  BY <1>1 DEF Running
<1>3. req' = [req EXCEPT ![u] = q]
  BY DEF GoTo
<1> HIDE DEF q
<1> QED BY <1>2, <1>3, Moves

(* ISOLATED: a request opens its transaction. *)
LEMMA Opens ==
    ASSUME ReqInv, nextTx \in TxIds, nextTx' = nextTx + 1,
           NEW u \in Users, InPhase(u, "locked"),
           req' = [req EXCEPT ![u].phase = "opened", ![u].tx = nextTx]
    PROVE  ReqInv' /\ PendingTxs' \subseteq PendingTxs \cup {nextTx}
<1> DEFINE q == [req[u] EXCEPT !.phase = "opened", !.tx = nextTx]
<1>0. nextTx \in Nat
  BY BoundsAssumption DEF TxIds
<1>1. req[u] \in Running
  BY RunningFields DEF InPhase
<1>2. q \in Running /\ q.phase = "opened" /\ q.tx = nextTx
  BY <1>1 DEF Running
<1>3. req' = [req EXCEPT ![u] = q]
  BY DEF ReqInv
<1> HIDE DEF q
<1>4. req \in [Users -> {Idle} \cup Running]
  BY DEF ReqInv
<1>5. req' \in [Users -> {Idle} \cup Running]
  BY <1>2, <1>3, <1>4
<1>6. req'[u] = q /\ \A x \in Users : x # u => req'[x] = req[x]
  BY <1>3, <1>4
<1>7. ASSUME NEW x \in Users, req'[x].phase \in {"opened", "applied", "failed"}
      PROVE  req'[x].tx \in TxIds /\ req'[x].tx < nextTx' /\ (x # u => req'[x].tx < nextTx)
  <2>1. CASE x = u
    BY <1>0, <1>2, <1>6, <2>1
  <2>2. CASE x # u
    <3>1. req'[x].tx \in TxIds /\ req'[x].tx < nextTx
      BY <1>6, <1>7, <2>2 DEF ReqInv
    <3> QED BY <1>0, <3>1 DEF TxIds
  <2> QED BY <2>1, <2>2
<1>8. ASSUME NEW x \in Users, NEW y \in Users, req'[x].phase = "opened", req'[y].phase = "opened",
             req'[x].tx = req'[y].tx
      PROVE  x = y
  <2>1. CASE x = u /\ y # u
    <3>1. req'[y].tx < nextTx /\ req'[x].tx = nextTx
      BY <1>2, <1>6, <1>7, <1>8, <2>1
    <3> QED BY <1>0, <1>8, <3>1
  <2>2. CASE y = u /\ x # u
    <3>1. req'[x].tx < nextTx /\ req'[y].tx = nextTx
      BY <1>2, <1>6, <1>7, <1>8, <2>2
    <3> QED BY <1>0, <1>8, <3>1
  <2>3. CASE x # u /\ y # u
    BY <1>6, <1>8, <2>3 DEF ReqInv, InPhase
  <2> QED BY <2>1, <2>2, <2>3
<1>9. ReqInv'
  BY <1>5, <1>7, <1>8 DEF ReqInv, InPhase
<1>10. PendingTxs' \subseteq PendingTxs \cup {nextTx}
  <2> SUFFICES ASSUME NEW x \in Users, req'[x].phase = "opened"
               PROVE  req'[x].tx \in PendingTxs \cup {nextTx}
    BY DEF PendingTxs, InPhase
  <2>1. CASE x = u
    BY <1>2, <1>6, <2>1
  <2>2. CASE x # u
    BY <1>6, <2>2 DEF PendingTxs, InPhase
  <2> QED BY <2>1, <2>2
<1> QED BY <1>9, <1>10

-----------------------------------------------------------------------------
(* A step of the whole system changes the tables like a request, opens a    *)
(* transaction, or applies a transition.                                    *)
LifeInv == ChainInv /\ ReqInv
LifeEffect ==
    \/ Effect /\ PendingTxs' \subseteq PendingTxs
    \/ NothingMoves /\ PendingTxs' \subseteq PendingTxs \cup {nextTx}
    \/ \E u \in Users : applyTransition(u) /\ PendingTxs' \subseteq PendingTxs \ {req[u].tx}

(* Steps that leave the tables alone. *)
LEMMA TablesStill ==
    ASSUME ChainInv, UNCHANGED <<txVars, nodes, versions, comments>>,
           lockedBy' \in [Nodes -> Users \cup {NoUser}]
    PROVE  Housekeeping /\ NothingMoves /\ Effect
  BY SameTxs DEF NothingMoves, Effect

(* Requests that are not touched stay as they are. *)
LEMMA RequestsStill ==
    ASSUME ReqInv, nextTx \in Nat, nextTx' \in Nat, nextTx <= nextTx', req' = req
    PROVE  ReqInv' /\ PendingTxs' \subseteq PendingTxs
<1>1. \A u \in Users : req[u].phase \in {"opened", "applied", "failed"} =>
          req[u].tx \in TxIds /\ req[u].tx < nextTx'
  BY DEF ReqInv, TxIds
<1> QED BY <1>1 DEF ReqInv, PendingTxs, InPhase

(* The steps of a transition request *)
LEMMA TransitionEffects ==
    ASSUME LifeInv, NEW u \in Users, TransitionStep(u)
    PROVE  Housekeeping /\ LifeEffect /\ ReqInv'
<1>0. /\ ChainInv /\ ReqInv /\ TypeOK /\ BaseInv
      /\ lockedBy \in [Nodes -> Users \cup {NoUser}] /\ nextTx \in Nat
  BY ChainParts, BoundsAssumption DEF LifeInv, ChainInv, TypeOK
<1>1. ASSUME Housekeeping PROVE nextTx' \in Nat /\ nextTx <= nextTx'
  BY <1>1, BoundsAssumption DEF Housekeeping, TxTypeOK
<1>2. ASSUME UNCHANGED <<txVars, nodes, versions, comments>>,
             lockedBy' \in [Nodes -> Users \cup {NoUser}],
             ReqInv', PendingTxs' \subseteq PendingTxs
      PROVE  Housekeeping /\ LifeEffect /\ ReqInv'
  BY <1>0, <1>2, TablesStill DEF LifeEffect
<1>3. CASE OpenIsolated(u)
  <2>1. /\ Opened(u) /\ UNCHANGED <<nodes, versions, comments>> /\ lockedBy' = lockedBy
        /\ InPhase(u, "locked")
        /\ req' = [req EXCEPT ![u].phase = "opened", ![u].tx = nextTx]
    BY <1>3 DEF OpenIsolated
  <2>2. Housekeeping /\ NothingMoves /\ nextTx \in TxIds /\ nextTx' = nextTx + 1
    BY <1>0, <2>1, OpenEffect, OpenedBase
  <2>3. ReqInv' /\ PendingTxs' \subseteq PendingTxs \cup {nextTx}
    BY <1>0, <2>1, <2>2, Opens
  <2> QED BY <2>2, <2>3 DEF LifeEffect
<1>4. ASSUME NEW p \in {"failed", "ending"}, GoTo(u, p), UNCHANGED vars, ~ InPhase(u, "idle"),
             p = "failed" => req[u].phase \in {"opened", "applied", "failed"}
      PROVE  Housekeeping /\ LifeEffect /\ ReqInv'
  <2>1. UNCHANGED <<txVars, nodes, versions, comments>> /\ lockedBy' = lockedBy /\ nextTx' = nextTx
    BY <1>4 DEF vars, txVars
  <2>2. ReqInv' /\ PendingTxs' \subseteq PendingTxs
    BY <1>0, <1>4, <2>1, GoesTo
  <2> QED BY <1>0, <1>2, <2>1, <2>2
<1>5. CASE \/ OpenIsolatedFails(u) \/ RefuseTransition(u)
           \/ CommitIsolatedFails(u) \/ RollbackIsolatedFails(u)
  BY <1>4, <1>5
  DEF OpenIsolatedFails, RefuseTransition, CommitIsolatedFails, RollbackIsolatedFails, InPhase
<1>6. CASE applyTransition(u)
  <2>1. /\ InPhase(u, "opened") /\ ~ InPhase(u, "idle") /\ GoTo(u, "applied") /\ UNCHANGED txVars
        /\ nodes' = nodes /\ comments' = comments /\ nextTx' = nextTx
        /\ Lock(req[u].node, u) /\ req[u].phase \in {"opened", "applied", "failed"}
    BY <1>6 DEF applyTransition, txVars, InPhase
  <2>2. req[u].node \in Nodes
    BY <1>0, <2>1, RunningFields
  <2>3. lockedBy' \in [Nodes -> Users \cup {NoUser}]
    BY <1>0, <2>1, <2>2, LockType
  <2>4. Housekeeping
    BY <1>0, <2>1, <2>3, SameTxs
  <2>5. ReqInv' /\ PendingTxs' \subseteq PendingTxs /\ req[u].tx \notin PendingTxs'
    BY <1>0, <2>1, GoesTo
  <2> QED BY <1>6, <2>4, <2>5 DEF LifeEffect
<1>7. CASE CommitIsolated(u)
  <2>1. InPhase(u, "applied") /\ ~ InPhase(u, "idle") /\ Commit(u, req[u].tx, {}) /\ GoTo(u, "ending")
    BY <1>7 DEF CommitIsolated, InPhase
  <2>2. req[u].tx \in TxIds /\ {} \in SUBSET Nodes
    BY <1>0, <2>1 DEF ReqInv, InPhase
  <2>3. Housekeeping /\ Effect
    BY <1>0, <2>1, <2>2, CommitHousekeeping DEF Effect
  <2>4. ReqInv' /\ PendingTxs' \subseteq PendingTxs
    BY <1>0, <1>1, <2>1, <2>3, GoesTo
  <2> QED BY <2>3, <2>4 DEF LifeEffect
<1>8. CASE RollbackIsolated(u)
  <2>1. /\ InPhase(u, "failed") /\ ~ InPhase(u, "idle")
        /\ rollbackTransaction(u, req[u].tx) /\ GoTo(u, "ending")
    BY <1>8 DEF RollbackIsolated, InPhase
  <2>2. req[u].tx \in TxIds
    BY <1>0, <2>1 DEF ReqInv, InPhase
  <2>3. Housekeeping /\ Effect
    BY <1>0, <2>1, <2>2, RollbackEffect DEF Effect
  <2>4. ReqInv' /\ PendingTxs' \subseteq PendingTxs
    BY <1>0, <1>1, <2>1, <2>3, GoesTo
  <2> QED BY <2>3, <2>4 DEF LifeEffect
<1>9. CASE EndTransition(u) \/ EndTransitionFails(u)
  <2>1. /\ Unlock({req[u].node}) \/ lockedBy' = lockedBy
        /\ req' = [req EXCEPT ![u] = Idle] /\ nextTx' = nextTx
        /\ UNCHANGED <<txVars, nodes, versions, comments>>
    BY <1>9 DEF EndTransition, EndTransitionFails, vars, txVars
  <2>2. lockedBy' \in [Nodes -> Users \cup {NoUser}]
    BY <1>0, <2>1, UnlockType
  <2>3. /\ Idle \in {Idle} \cup Running /\ Idle.phase # "opened"
        /\ Idle.phase \notin {"applied", "failed"} /\ nextTx' \in Nat /\ nextTx <= nextTx'
    BY <1>0, <2>1 DEF Idle
  <2>4. ReqInv' /\ PendingTxs' \subseteq PendingTxs
    BY <1>0, <2>1, <2>3, Moves
  <2> QED BY <1>2, <2>1, <2>2, <2>4
<1> QED BY <1>3, <1>5, <1>6, <1>7, <1>8, <1>9 DEF TransitionStep

(* LockWrapper's part before the transition *)
LEMMA RequestEffects ==
    ASSUME LifeInv, NEW u \in Users, NEW n \in Nodes, NEW tr \in Transitions,
           RequestTransition(u, n, tr)
    PROVE  Housekeeping /\ LifeEffect /\ ReqInv'
<1> DEFINE q == [phase |-> "locked", node |-> n, tr |-> tr, tx |-> NoTx]
<1>1. /\ Lock(n, u) /\ req' = [req EXCEPT ![u] = q] /\ nextTx' = nextTx
      /\ UNCHANGED <<txVars, nodes, versions, comments>>
  BY DEF RequestTransition, txVars
<1>2. /\ q \in {Idle} \cup Running /\ q.phase # "opened"
      /\ q.phase \notin {"applied", "failed"}
  BY DEF Running
<1> HIDE DEF q
<1>3. ChainInv /\ ReqInv /\ TypeOK /\ nextTx \in Nat
  BY BoundsAssumption DEF LifeInv, ChainInv, TypeOK
<1>4. ReqInv' /\ PendingTxs' \subseteq PendingTxs
  <2>1. nextTx' \in Nat /\ nextTx <= nextTx'
    BY <1>1, <1>3
  <2> QED BY <1>1, <1>2, <1>3, <2>1, Moves
<1>5. Housekeeping /\ Effect
  BY <1>1, <1>3, LockType, TablesStill
<1> QED BY <1>4, <1>5 DEF LifeEffect

(* Every step of the system *)
LEMMA LifeEffects ==
    ASSUME LifeInv, [LNext]_allVars
    PROVE  Housekeeping /\ LifeEffect /\ ReqInv'
<1>0. /\ ChainInv /\ ReqInv /\ lockedBy \in [Nodes -> Users \cup {NoUser}] /\ nextTx \in Nat
  BY BoundsAssumption DEF LifeInv, ChainInv, TypeOK
<1>1. ASSUME Housekeeping, Effect, req' = req
      PROVE  Housekeeping /\ LifeEffect /\ ReqInv'
  <2>1. nextTx' \in Nat /\ nextTx <= nextTx'
    BY <1>1, BoundsAssumption DEF Housekeeping, TxTypeOK
  <2> QED BY <1>0, <1>1, <2>1, RequestsStill DEF LifeEffect
<1>2. ASSUME NEW u \in Users, AuthoringStep(u) PROVE Housekeeping /\ LifeEffect /\ ReqInv'
  BY <1>0, <1>1, <1>2, UserEffects DEF AuthoringStep
<1>3. ASSUME NEW u \in Users, NEW n \in Nodes, NEW tr \in Transitions, RequestTransition(u, n, tr)
      PROVE  Housekeeping /\ LifeEffect /\ ReqInv'
  BY <1>3, RequestEffects
<1>4. ASSUME NEW u \in Users, TransitionStep(u) PROVE Housekeeping /\ LifeEffect /\ ReqInv'
  BY <1>4, TransitionEffects
<1>5. ASSUME NEW v \in versions, AddComment(v), UNCHANGED req
      PROVE  Housekeeping /\ LifeEffect /\ ReqInv'
  BY <1>0, <1>1, <1>5, CommentEffect DEF Effect
<1>6. ASSUME NEW cutoff \in TxIds, cleanStaleTransactions(cutoff), UNCHANGED req
      PROVE  Housekeeping /\ LifeEffect /\ ReqInv'
  BY <1>0, <1>1, <1>6, CleanupEffect DEF Effect
<1>7. CASE Crash
  <2>1. /\ req' = [u \in Users |-> Idle] /\ lockedBy' = lockedBy
        /\ UNCHANGED <<txVars, nodes, versions, comments>>
    BY <1>7 DEF Crash, vars, txVars
  <2>2. \A u \in Users : req'[u].phase = "idle"
    BY <2>1 DEF Idle
  <2>3. ReqInv' /\ PendingTxs' = {}
    BY <2>1, <2>2 DEF ReqInv, PendingTxs, InPhase
  <2> QED BY <1>0, <2>1, <2>3, TablesStill DEF LifeEffect
<1>8. CASE UNCHANGED allVars
  <2>1. UNCHANGED <<txVars, nodes, versions, comments>> /\ lockedBy' = lockedBy /\ req' = req
    BY <1>8 DEF allVars, vars, txVars
  <2> QED BY <1>0, <1>1, <2>1, TablesStill
<1> QED BY <1>2, <1>3, <1>4, <1>5, <1>6, <1>7, <1>8 DEF LNext

-----------------------------------------------------------------------------
(* applyTransition adds a row in the target state to the open transaction.  *)
LEMMA ApplyAdds ==
    ASSUME LifeInv, NEW u \in Users, applyTransition(u)
    PROVE  LET n == req[u].node  tr == req[u].tr  t == req[u].tx IN
           /\ n \in nodes /\ n \in Nodes /\ t \in TxIds /\ tr \in Transitions
           /\ tr.from \in States /\ tr.to \in States /\ getLastCommittedVersion(n).state = tr.from
           /\ txStatus' = txStatus /\ txStatus[t] = "OPEN" /\ StatusKept /\ nodes' = nodes
           /\ \E r : Added(r, n, t, getCurrentVersionForTx(n, t), tr.to,
                           getCurrentVersionForTx(n, t).content)
<1> DEFINE n == req[u].node
           tr == req[u].tr
           t == req[u].tx
           cur == getCurrentVersionForTx(n, t)
<1>1. /\ InPhase(u, "opened") /\ ~ InPhase(u, "idle") /\ UNCHANGED txVars /\ nodes' = nodes
      /\ getLastCommittedVersion(n).state = tr.from /\ txStatus[t] = "OPEN" /\ n \in nodes
      /\ createVersion(n, t, tr.to, cur.content)
  BY DEF applyTransition, InPhase, CanLock
<1>2. ChainInv /\ ReqInv
  BY DEF LifeInv
<1>3. n \in Nodes /\ tr \in Transitions /\ t \in TxIds
  BY <1>1, <1>2, RunningFields DEF ReqInv, InPhase
<1>4. tr.from \in States /\ tr.to \in States
  BY <1>3, TransitionsAssumption
<1>5. txStatus' = txStatus /\ StatusKept
  BY <1>1 DEF txVars, StatusKept
<1> HIDE DEF n, tr, t
<1>6. cur.content \in Contents
  BY <1>2, <1>3, CurrentOK
<1>7. \E r : Added(r, n, t, cur, tr.to, cur.content)
  <2> DEFINE c == cur.content
             s == tr.to
  <2>1. createVersion(n, t, s, c) /\ c \in Contents /\ s \in States \cup {NoState}
    BY <1>1, <1>4, <1>6
  <2> HIDE DEF c, s
  <2>2. \E r : Added(r, n, t, cur, s, c)
    BY <1>2, <1>3, <2>1, CreateAdds
  <2> QED BY <2>2 DEF c, s
<1> QED BY <1>1, <1>3, <1>4, <1>5, <1>7 DEF n, tr, t

(* The invariant of tables and requests holds initially. *)
LEMMA LifeInit == LInit => LifeInv
<1> SUFFICES ASSUME LInit PROVE LifeInv
  OBVIOUS
<1>1. TypeOK
  BY BoundsAssumption DEF LInit, Init, TypeOK, TxIds
<1>2. versions = {}
  BY DEF LInit, Init
<1>3. Chained(txStatus, versions)
  BY <1>2 DEF Chained, RowHasTx, UniqueKey, Numbered, OnPrev, OneWriter, OnTop, HasHead, HasFirst, HasLast
<1>4. FreshTx /\ RowHasNode
  BY DEF LInit, Init, FreshTx, RowHasNode
<1>5. ReqInv
  BY DEF LInit, ReqInv, InPhase, Idle
<1> QED BY <1>1, <1>3, <1>4, <1>5 DEF LifeInv, ChainInv

(* Every step keeps it. *)
LEMMA LifeNext == LifeInv /\ [LNext]_allVars => LifeInv'
<1> SUFFICES ASSUME LifeInv, [LNext]_allVars PROVE LifeInv'
  OBVIOUS
<1>1. Housekeeping /\ LifeEffect /\ ReqInv' /\ ChainInv
  BY LifeEffects DEF LifeInv
<1>2. CASE Effect
  BY <1>1, <1>2, EffectChained DEF LifeInv
<1>3. CASE NothingMoves
  BY <1>1, <1>3, EffectChained DEF LifeInv, Effect
<1>4. ASSUME NEW u \in Users, applyTransition(u) PROVE ChainInv'
  <2> DEFINE n == req[u].node
             t == req[u].tx
             cur == getCurrentVersionForTx(n, t)
  <2>1. /\ n \in nodes /\ t \in TxIds /\ txStatus'[t] = "OPEN" /\ StatusKept /\ nodes' = nodes
        /\ \E r : Added(r, n, t, cur, req[u].tr.to, cur.content)
    BY <1>4, ApplyAdds
  <2> HIDE DEF n, t
  <2>2. PICK r : Added(r, n, t, cur, req[u].tr.to, cur.content)
    BY <2>1
  <2> QED BY <1>1, <2>1, <2>2, AddedChained
<1> QED BY <1>1, <1>2, <1>3, <1>4 DEF LifeEffect, LifeInv

(* The chains and the requests' transactions are kept in every reachable    *)
(* state, whatever interleaves and wherever the server process ends.        *)
THEOREM LifecycleInductive == LSpec => []LifeInv
  BY LifeInit, LifeNext, PTL DEF LSpec

(* Tables and requests keep their type: in particular a request past its    *)
(* opening has a transaction.                                               *)
THEOREM LifecycleTypeCorrect == LSpec => []LTypeOK
<1>1. ASSUME LifeInv PROVE LTypeOK
  <2>1. ASSUME NEW u \in Users, ~ InPhase(u, "idle")
        PROVE  /\ req[u].phase \in {"locked", "opened", "applied", "failed", "ending"}
               /\ req[u].node \in Nodes /\ req[u].tr \in Transitions
               /\ req[u].tx \in TxIds \/ (req[u].tx = NoTx /\ req[u].phase \in {"locked", "ending"})
    <3>1. /\ req[u] \in Running /\ req[u].node \in Nodes /\ req[u].tr \in Transitions
          /\ req[u].tx \in TxIds \cup {NoTx}
      BY <1>1, <2>1, RunningFields DEF LifeInv
    <3>2. req[u].phase \in {"locked", "opened", "applied", "failed", "ending"}
      BY <3>1 DEF Running
    <3>3. req[u].phase \in {"opened", "applied", "failed"} => req[u].tx \in TxIds
      BY <1>1 DEF LifeInv, ReqInv
    <3> QED BY <3>1, <3>2, <3>3
  <2> QED BY <1>1, <2>1 DEF LTypeOK, LifeInv, ChainInv
<1> QED BY <1>1, LifecycleInductive, PTL

(* The versions of a node form one chain, to which one transaction at a     *)
(* time adds, for any number of users, nodes, transitions, deviations and   *)
(* crashes: also when two requests share the transaction of a transition,   *)
(* or when locks are lost while it runs.                                    *)
THEOREM ChainNeverForks == LSpec => []OneChain
<1>1. ASSUME LifeInv PROVE OneChain
  <2>1. /\ Numbered(versions) /\ UniqueKey(versions)
        /\ OnPrev(txStatus, versions) /\ OneWriter(txStatus, versions)
    BY <1>1 DEF LifeInv, ChainInv, Chained
  <2>2. \A v, w \in OpenRows : v.node = w.node => v.tx = w.tx
    BY <2>1 DEF OneWriter, OpenRows
  <2>3. \A v \in versions : v.num = v.prev + 1
    BY <2>1 DEF Numbered
  <2>4. \A v, w \in versions : v.node = w.node /\ v.num = w.num => v = w
    BY <2>1 DEF UniqueKey
  <2>5. \A v \in versions : v.prev # 0 => \E w \in versions :
          w.node = v.node /\ w.num = v.prev /\ (w.tx = v.tx \/ txStatus[w.tx] = "COMMITTED")
    BY <2>1 DEF OnPrev
  <2> QED BY <2>2, <2>3, <2>4, <2>5 DEF OneChain
<1> QED BY <1>1, LifecycleInductive, PTL

-----------------------------------------------------------------------------
(***************************************************************************)
(* What the effects mean for a row and its predecessor: the rows stay what *)
(* they were, one of them is rewritten, or a row is added on the head.     *)
(***************************************************************************)
Pred(w, v) == w.node = v.node /\ w.num = v.prev
From(r, v) ==
    /\ r.node = v.node /\ r.num = v.num /\ r.prev = v.prev /\ r.state = v.state
    /\ (r.tx = v.tx \/ r.tx = nextTx)
    /\ (txStatus'[r.tx] = "OPEN" => txStatus[v.tx] = "OPEN")
    /\ (txStatus[v.tx] = "COMMITTED" => txStatus'[r.tx] = "COMMITTED")
Carried == \A r \in versions' : \E v \in versions : From(r, v) /\ r.content = v.content
StatesCarried == \A r \in versions' : \E v \in versions : From(r, v)
Grown(r) ==
    /\ versions' = versions \cup {r} /\ StatusKept /\ ~ Pred(r, r)
    /\ \A x \in versions : x.node = r.node => x.num # r.num /\ x.prev # r.num
GrownOnHead(r) ==
    /\ Grown(r)
    /\ \A w \in versions : Pred(w, r) => txStatus[w.tx] = "COMMITTED" /\ w.state = r.state
    /\ FrozenEdit \notin Deviations => r.state \notin FrozenStates

(* A row with a new number is nobody's predecessor. *)
LEMMA FreshGrows ==
    ASSUME ChainInv, NEW r \in Version, r.num = r.prev + 1, versions' = versions \cup {r}, StatusKept,
           \A v \in versions : ~ (v.node = r.node /\ v.num = r.num)
    PROVE  Grown(r)
<1>1. r.num # 0 /\ r.num # r.prev
  BY RowType, BoundsAssumption
<1>2. \A x \in versions : x.node = r.node => x.prev # r.num
  BY <1>1 DEF ChainInv, Chained, OnPrev
<1> QED BY <1>1, <1>2 DEF Grown, Pred

(* createVersion, for a transaction without rows of the node *)
LEMMA DraftGrows ==
    ASSUME ChainInv, NEW n \in Nodes, NEW t \in TxIds, NEW c \in Contents, DraftAdded(n, t, c)
    PROVE  \E r : GrownOnHead(r) /\ r.tx = t
<1> DEFINE h == getLastCommittedVersion(n)
<1>1. /\ RowsOf(n, t) = {} /\ createVersion(n, t, NoState, c) /\ StatusKept
      /\ (FrozenEdit \notin Deviations => h.state \notin FrozenStates)
  BY DEF DraftAdded, MayEditStructure, assertNotFrozen
<1>2. PICK r : Added(r, n, t, getCurrentVersionForTx(n, t), NoState, c)
  BY <1>1, CreateAdds
<1>3. IsHead(h, n) /\ r.prev = h.num /\ r.state = h.state
  BY <1>1, <1>2, HeadChained DEF Added, getCurrentVersionForTx
<1> HIDE DEF h
<1>4. Grown(r) /\ r.node = n /\ r.tx = t
  BY <1>1, <1>2, FreshGrows DEF Added
<1>5. ASSUME NEW w \in versions, Pred(w, r)
      PROVE  txStatus[w.tx] = "COMMITTED" /\ w.state = r.state
  <2>1. w.num # 0 /\ w.node = n /\ w.num = h.num
    BY <1>3, <1>4, <1>5, ChainParts DEF Pred
  <2>2. h \in versions /\ h.node = n /\ txStatus[h.tx] = "COMMITTED"
    BY <1>3, <2>1 DEF IsHead, NoVersion
  <2>3. w = h
    BY <2>1, <2>2 DEF ChainInv, Chained, UniqueKey
  <2> QED BY <1>3, <2>2, <2>3
<1> QED BY <1>1, <1>3, <1>4, <1>5 DEF GrownOnHead

(* createNode *)
LEMMA NodeGrows ==
    ASSUME ChainInv, NEW n \in Nodes, NEW t \in TxIds, NodeAdded(n, t)
    PROVE  \E r : GrownOnHead(r) /\ r.tx = t
<1> DEFINE r == [node |-> n, num |-> 1, tx |-> t, prev |-> 0,
                 state |-> InitialState, content |-> EmptyContent]
<1>1. r.num <= MaxVersion /\ versions' = versions \cup {r} /\ StatusKept
  BY DEF Inserted, NodeAdded
<1>2. r \in Version
  BY <1>1, BoundsAssumption, ContentAssumption, StateAssumption DEF Version
<1>3. r.node = n /\ r.num = r.prev + 1 /\ r.tx = t /\ r.state = InitialState
  OBVIOUS
<1> HIDE DEF r
<1>4. \A v \in versions : v.node # n
  BY DEF NodeAdded, ChainInv, RowHasNode
<1>5. Grown(r)
  BY <1>1, <1>2, <1>3, <1>4, FreshGrows
<1>6. GrownOnHead(r)
  BY <1>3, <1>4, <1>5, StateAssumption DEF GrownOnHead, Pred
<1> QED BY <1>3, <1>6

(* Rewriting a row *)
LEMMA EditCarries ==
    ASSUME ChainInv, NEW v \in versions, NEW c \in Contents, RowEdited(v, c)
    PROVE  /\ StatesCarried
           /\ \E q : From(q, v) /\ versions' = (versions \ {v}) \cup {q}
<1> DEFINE q == [v EXCEPT !.content = c]
<1>1. v \in Version
  BY ChainParts
<1>2. q.node = v.node /\ q.num = v.num /\ q.tx = v.tx /\ q.prev = v.prev /\ q.state = v.state
  BY <1>1 DEF Version
<1>3. versions' = (versions \ {v}) \cup {q} /\ txStatus' = txStatus
  BY DEF RowEdited, Rewritten
<1> HIDE DEF q
<1>4. From(q, v) /\ \A x \in versions : From(x, x)
  BY <1>2, <1>3 DEF From
<1> QED BY <1>3, <1>4 DEF StatesCarried

(* commitTransaction: deferred rows change their transaction only. *)
LEMMA CommitCarries ==
    ASSUME ChainInv, NEW u \in Users, NEW t \in TxIds, NEW sel \in SUBSET Nodes, Commit(u, t, sel)
    PROVE  Carried
<1> DEFINE deferred == Deferred(t, sel)
<1>1. txStatus[t] = "OPEN" /\ (CommitAll(t) \/ CommitPart(u, t, deferred))
  BY DEF Commit, Committable, OwnsOpenTx
<1>2. TxTypeOK /\ \A v \in versions : v \in Version /\ v.tx \in TxIds
  BY ChainParts
<1>3. deferred \subseteq versions /\ \A v \in deferred : v.tx = t
  BY DEF Deferred, RowsIn
<1> HIDE DEF deferred
<1>4. CASE CommitAll(t)
  <2>1. txStatus' = [txStatus EXCEPT ![t] = "COMMITTED"] /\ versions' = versions
    BY <1>4 DEF CommitAll
  <2>2. \A v \in versions : From(v, v)
    BY <1>1, <1>2, <2>1 DEF From, TxTypeOK
  <2> QED BY <2>1, <2>2 DEF Carried
<1>5. CASE CommitPart(u, t, deferred)
  <2>1. /\ nextTx <= MaxTx /\ versions' = MovedTo(versions, deferred, nextTx)
        /\ txStatus' = [txStatus EXCEPT ![t] = "COMMITTED", ![nextTx] = "OPEN"]
    BY <1>5 DEF CommitPart, MovedTo
  <2>2. nextTx \in TxIds /\ txStatus[nextTx] = "none"
    BY <1>2, <2>1, BoundsAssumption DEF TxTypeOK, TxIds, ChainInv, FreshTx
  <2>3. \A v \in versions : v.tx # nextTx
    BY <2>2, ChainParts DEF BaseInv, RowHasTx
  <2>4. ASSUME NEW v \in versions \ deferred PROVE From(v, v)
    BY <1>1, <1>2, <2>1, <2>2, <2>3 DEF From, TxTypeOK
  <2>5. ASSUME NEW v \in deferred
        PROVE  From([v EXCEPT !.tx = nextTx], v) /\ [v EXCEPT !.tx = nextTx].content = v.content
    <3> DEFINE q == [v EXCEPT !.tx = nextTx]
    <3>1. /\ q.node = v.node /\ q.num = v.num /\ q.tx = nextTx /\ q.prev = v.prev
          /\ q.state = v.state /\ q.content = v.content
      BY <1>2, <1>3 DEF Version
    <3> HIDE DEF q
    <3>2. From(q, v) /\ q.content = v.content
      BY <1>1, <1>2, <1>3, <2>1, <2>2, <3>1 DEF From, TxTypeOK
    <3> QED BY <3>2 DEF q
  <2> QED BY <1>3, <2>1, <2>4, <2>5 DEF Carried, MovedTo
<1> QED BY <1>1, <1>4, <1>5

(* The effects on rows and predecessors *)
LEMMA EffectRows ==
    ASSUME ChainInv, Effect
    PROVE  \/ Carried
           \/ \E r : GrownOnHead(r)
           \/ \E v \in versions, c \in Contents : RowEdited(v, c)
<1>1. CASE NothingMoves
  BY <1>1 DEF NothingMoves, StatusKept, Carried, From
<1>2. CASE \E n \in Nodes, t \in TxIds, c \in Contents : DraftAdded(n, t, c)
  BY <1>2, DraftGrows
<1>3. CASE \E n \in Nodes, t \in TxIds : NodeAdded(n, t)
  BY <1>3, NodeGrows
<1>4. CASE \E D : RowsRemoved(D)
  BY <1>4 DEF RowsRemoved, Carried, From
<1>5. CASE \E u \in Users, t \in TxIds, sel \in SUBSET Nodes : Commit(u, t, sel)
  BY <1>5, CommitCarries
<1> QED BY <1>1, <1>2, <1>3, <1>4, <1>5 DEF Effect

-----------------------------------------------------------------------------
(***************************************************************************)
(* HistoryFollowsLifecycle.  A transition is checked against the node's    *)
(* last committed version but applied to the version its transaction sees, *)
(* which is another one when a request slipped into the transaction.  The  *)
(* two have the same state: until the transition is applied, every row of  *)
(* its transaction stands on the head and has kept the head's state.       *)
(***************************************************************************)
PlainRows(T) == \A v, w \in versions :
    (v.tx \in T /\ Pred(w, v)) => txStatus[w.tx] = "COMMITTED" /\ w.state = v.state

(* The row a transition adds: its predecessor has the content it copies,    *)
(* and the state the transition was checked against.                        *)
LEMMA ApplyGrows ==
    ASSUME LifeInv, NEW u \in Users, applyTransition(u)
    PROVE  \E r : /\ Grown(r) /\ r.tx = req[u].tx /\ r.state = req[u].tr.to
                  /\ txStatus' = txStatus
                  /\ \A w \in versions : Pred(w, r) =>
                        /\ r.content = w.content
                        /\ (w.tx = r.tx \/ txStatus[w.tx] = "COMMITTED")
                        /\ PlainRows(PendingTxs) => w.state = req[u].tr.from
<1> DEFINE n == req[u].node
           tr == req[u].tr
           t == req[u].tx
           cur == getCurrentVersionForTx(n, t)
           h == getLastCommittedVersion(n)
<1>1. /\ n \in nodes /\ n \in Nodes /\ t \in TxIds /\ tr \in Transitions
      /\ tr.from \in States /\ tr.to \in States /\ h.state = tr.from
      /\ txStatus' = txStatus /\ txStatus[t] = "OPEN" /\ StatusKept
      /\ \E r : Added(r, n, t, cur, tr.to, cur.content)
  BY ApplyAdds
<1>2. t \in PendingTxs
  BY DEF PendingTxs, applyTransition
<1>3. ChainInv
  BY DEF LifeInv
<1>4. IsHead(h, n) /\ h # NoVersion
  BY <1>1, <1>3, HeadChained, StateAssumption DEF NoVersion
<1>5. cur = IF RowsOf(n, t) # {} THEN Latest(RowsOf(n, t)) ELSE h
  BY DEF getCurrentVersionForTx
<1> HIDE DEF n, tr, t, cur, h
<1>6. PICK r : Added(r, n, t, cur, tr.to, cur.content)
  BY <1>1
<1>7. /\ r \in Version /\ r.node = n /\ r.tx = t /\ r.content = cur.content /\ r.prev = cur.num
      /\ r.state = tr.to
  BY <1>1, <1>6, StateAssumption DEF Added
<1>8. Grown(r)
  BY <1>1, <1>3, <1>6, <1>7, FreshGrows DEF Added
<1>9. h \in versions /\ h.node = n /\ txStatus[h.tx] = "COMMITTED"
  BY <1>4 DEF IsHead
<1>10. cur \in versions /\ cur.node = n /\ (cur.tx = t \/ cur = h)
  BY <1>1, <1>3, <1>5, <1>9, LastChained
<1>11. ASSUME PlainRows(PendingTxs) PROVE cur.state = tr.from
  <2>1. CASE cur = h
    BY <1>1, <2>1
  <2>2. CASE cur.tx = t
    <3>1. h.num <= cur.prev /\ h.num \in Nat /\ h.num # 0 /\ cur.prev \in Nat
      BY <1>1, <1>3, <1>9, <1>10, <2>2, ChainParts DEF Chained, OnTop
    <3>2. cur.prev # 0
      BY <3>1
    <3>3. PICK p \in versions : Pred(p, cur)
      BY <1>3, <1>10, <3>2 DEF ChainInv, Chained, OnPrev, Pred
    <3>4. txStatus[p.tx] = "COMMITTED" /\ p.state = cur.state
      BY <1>2, <1>10, <1>11, <2>2, <3>3 DEF PlainRows
    <3>5. p.num <= h.num /\ p.num = cur.prev
      BY <1>4, <1>10, <3>3, <3>4 DEF IsHead, Pred
    <3>6. p = h
      <4>1. p.num = h.num
        BY <3>1, <3>5
      <4> QED BY <1>3, <1>9, <1>10, <3>3, <4>1 DEF ChainInv, Chained, UniqueKey, Pred
    <3> QED BY <1>1, <3>4, <3>6
  <2> QED BY <1>10, <2>1, <2>2
<1>12. \A w \in versions : Pred(w, r) => w = cur
  BY <1>3, <1>7, <1>10 DEF ChainInv, Chained, UniqueKey, Pred
<1>13. \A w \in versions : Pred(w, r) =>
          /\ r.content = w.content
          /\ (w.tx = r.tx \/ txStatus[w.tx] = "COMMITTED")
          /\ PlainRows(PendingTxs) => w.state = tr.from
  BY <1>7, <1>9, <1>10, <1>11, <1>12
<1> QED BY <1>1, <1>7, <1>8, <1>13 DEF tr, t

(* Requests keep both; T is the set of pending transactions. *)
LEMMA EffectFollows ==
    ASSUME ChainInv, Effect, NEW T, nextTx \notin T,
           HistoryFollowsLifecycle, PlainRows(T)
    PROVE  HistoryFollowsLifecycle' /\ PlainRows(T)'
<1>1. CASE StatesCarried
  <2>1. ASSUME NEW a \in versions', NEW b \in versions', Pred(b, a)
        PROVE  /\ a.state # b.state =>
                     \E tr \in Transitions : tr.from = b.state /\ tr.to = a.state
               /\ a.tx \in T => txStatus'[b.tx] = "COMMITTED" /\ b.state = a.state
    <3>1. PICK v \in versions : From(a, v)
      BY <1>1 DEF StatesCarried
    <3>2. PICK w \in versions : From(b, w)
      BY <1>1 DEF StatesCarried
    <3>3. Pred(w, v) /\ a.state = v.state /\ b.state = w.state /\ (a.tx \in T => v.tx \in T)
      BY <2>1, <3>1, <3>2 DEF Pred, From
    <3>4. a.state # b.state => \E tr \in Transitions : tr.from = b.state /\ tr.to = a.state
      BY <3>3 DEF HistoryFollowsLifecycle, Pred
    <3>5. a.tx \in T => txStatus'[b.tx] = "COMMITTED" /\ b.state = a.state
      BY <3>2, <3>3 DEF PlainRows, From
    <3> QED BY <3>4, <3>5
  <2> QED BY <2>1 DEF HistoryFollowsLifecycle, PlainRows, Pred
<1>2. ASSUME NEW r, GrownOnHead(r) PROVE HistoryFollowsLifecycle' /\ PlainRows(T)'
  <2>1. ASSUME NEW a \in versions', NEW b \in versions', Pred(b, a)
        PROVE  /\ a.state # b.state =>
                     \E tr \in Transitions : tr.from = b.state /\ tr.to = a.state
               /\ a.tx \in T => txStatus'[b.tx] = "COMMITTED" /\ b.state = a.state
    <3>1. b \in versions
      BY <1>2, <2>1 DEF GrownOnHead, Grown, Pred
    <3>2. txStatus'[b.tx] = txStatus[b.tx]
      BY <1>2, <3>1 DEF GrownOnHead, Grown, StatusKept
    <3>3. CASE a = r
      BY <1>2, <2>1, <3>1, <3>2, <3>3 DEF GrownOnHead
    <3>4. CASE a \in versions
      BY <2>1, <3>1, <3>2, <3>4 DEF HistoryFollowsLifecycle, PlainRows, Pred
    <3> QED BY <1>2, <3>3, <3>4 DEF GrownOnHead, Grown
  <2> QED BY <2>1 DEF HistoryFollowsLifecycle, PlainRows, Pred
<1>3. ASSUME NEW v \in versions, NEW c \in Contents, RowEdited(v, c) PROVE StatesCarried
  BY <1>3, EditCarries
<1>4. Carried => StatesCarried
  BY DEF Carried, StatesCarried
<1> QED BY <1>1, <1>2, <1>3, <1>4, EffectRows

(* applyTransition keeps both, for the transactions that stay pending. *)
LEMMA ApplyFollows ==
    ASSUME LifeInv, NEW u \in Users, applyTransition(u), NEW T, T \subseteq PendingTxs,
           req[u].tx \notin T, HistoryFollowsLifecycle, PlainRows(PendingTxs)
    PROVE  HistoryFollowsLifecycle' /\ PlainRows(T)'
<1>1. PICK r : /\ Grown(r) /\ r.tx = req[u].tx /\ r.state = req[u].tr.to /\ txStatus' = txStatus
               /\ \A w \in versions : Pred(w, r) => w.state = req[u].tr.from
  BY ApplyGrows
<1>2. req[u].tr \in Transitions
  BY ApplyAdds
<1>3. ASSUME NEW a \in versions', NEW b \in versions', Pred(b, a)
      PROVE  /\ a.state # b.state =>
                   \E tr \in Transitions : tr.from = b.state /\ tr.to = a.state
             /\ a.tx \in T => txStatus'[b.tx] = "COMMITTED" /\ b.state = a.state
  <2>1. b \in versions
    BY <1>1, <1>3 DEF Grown, Pred
  <2>2. CASE a = r
    BY <1>1, <1>2, <1>3, <2>1, <2>2
  <2>3. CASE a \in versions
    BY <1>1, <1>3, <2>1, <2>3 DEF HistoryFollowsLifecycle, PlainRows, Pred
  <2> QED BY <1>1, <2>2, <2>3 DEF Grown
<1> QED BY <1>3 DEF HistoryFollowsLifecycle, PlainRows, Pred

(* A transaction without rows may become pending. *)
LEMMA PendingFresh ==
    ASSUME LifeInv
    PROVE  /\ nextTx \notin PendingTxs
           /\ nextTx \in TxIds => \A v \in versions : v.tx # nextTx
<1>1. ChainInv /\ ReqInv /\ nextTx \in Nat
  BY BoundsAssumption DEF LifeInv, ChainInv, TypeOK
<1>2. \A t \in PendingTxs : t \in TxIds /\ t < nextTx
  BY <1>1 DEF ReqInv, PendingTxs, InPhase
<1>3. \A t \in TxIds : t \in Nat
  BY BoundsAssumption DEF TxIds
<1>4. nextTx \notin PendingTxs
  BY <1>1, <1>2, <1>3
<1>5. nextTx \in TxIds => txStatus[nextTx] = "none"
  BY <1>1 DEF ChainInv, FreshTx
<1> QED BY <1>1, <1>4, <1>5, ChainParts DEF BaseInv, RowHasTx

(* The committed history of every node follows the lifecycle graph, for any *)
(* number of users, nodes, states, transitions and crashes, and with every  *)
(* deviation from the check-out discipline: no transition is applied to a   *)
(* state another request has left meanwhile.                                *)
THEOREM HistoryIsLifecycle == LSpec => []HistoryFollowsLifecycle
<1> DEFINE Inv == LifeInv /\ HistoryFollowsLifecycle /\ PlainRows(PendingTxs)
<1>1. LInit => Inv
  BY LifeInit DEF LInit, Init, HistoryFollowsLifecycle, PlainRows
<1>2. ASSUME Inv, [LNext]_allVars PROVE Inv'
  <2>1. LifeInv' /\ LifeEffect /\ ChainInv
    BY <1>2, LifeNext, LifeEffects DEF LifeInv
  <2>2. nextTx \notin PendingTxs
    BY <1>2, PendingFresh
  <2>3. PICK T : T = PendingTxs
    OBVIOUS
  <2>4. CASE Effect /\ PendingTxs' \subseteq PendingTxs
    <3>1. HistoryFollowsLifecycle' /\ PlainRows(T)'
      BY <1>2, <2>1, <2>2, <2>3, <2>4, EffectFollows
    <3> QED BY <2>1, <2>3, <2>4, <3>1 DEF PlainRows
  <2>5. CASE NothingMoves /\ PendingTxs' \subseteq PendingTxs \cup {nextTx}
    <3>1. HistoryFollowsLifecycle' /\ PlainRows(T)'
      BY <1>2, <2>1, <2>2, <2>3, <2>5, EffectFollows DEF Effect
    <3>2. \A v \in versions : v.tx # nextTx
      BY <1>2, <2>1, PendingFresh, ChainParts
    <3> QED BY <2>1, <2>3, <2>5, <3>1, <3>2 DEF PlainRows, NothingMoves
  <2>6. ASSUME NEW u \in Users, applyTransition(u), PendingTxs' \subseteq PendingTxs \ {req[u].tx}
        PROVE  Inv'
    <3>1. PICK S : S = PendingTxs'
      OBVIOUS
    <3>2. HistoryFollowsLifecycle' /\ PlainRows(S)'
      BY <1>2, <2>6, <3>1, ApplyFollows
    <3> QED BY <2>1, <3>1, <3>2 DEF PlainRows
  <2> QED BY <2>1, <2>4, <2>5, <2>6 DEF LifeEffect
<1> QED BY <1>1, <1>2, PTL DEF LSpec

-----------------------------------------------------------------------------
(***************************************************************************)
(* FrozenContentFixed.  Drafts and edits need a head that is not frozen;   *)
(* what remains is a row that is frozen but not committed yet, that of an  *)
(* applied transition.  Nothing stands on it (Inner), since a request that *)
(* shares the transaction rewrites its node's last row there and adds none *)
(* when there is one, and a transition finds no frozen row in its own      *)
(* transaction (Unfrozen).                                                 *)
(***************************************************************************)
Inner == \A v, w \in versions :
    (Pred(w, v) /\ txStatus[w.tx] = "OPEN") => w.state \notin FrozenStates
Unfrozen(T) == \A v \in versions : v.tx \in T => v.state \notin FrozenStates

(* An open row whose node may be edited does not stand on a frozen one. *)
LEMMA EditedOnUnfrozen ==
    ASSUME FrozenEdit \notin Deviations, ChainInv, Inner,
           NEW v \in versions, txStatus[v.tx] = "OPEN", MayEditStructure(v.node),
           NEW w \in versions, Pred(w, v)
    PROVE  w.state \notin FrozenStates
<1> DEFINE h == getLastCommittedVersion(v.node)
<1>1. h.state \notin FrozenStates /\ v.node \in Nodes
  BY ChainParts DEF MayEditStructure, assertNotFrozen
<1>2. IsHead(h, v.node)
  BY <1>1, HeadChained
<1> HIDE DEF h
<1>3. CASE txStatus[w.tx] = "OPEN"
  BY <1>3 DEF Inner
<1>4. CASE txStatus[w.tx] = "COMMITTED"
  <2>1. h \in versions /\ h.node = v.node /\ txStatus[h.tx] = "COMMITTED" /\ w.num <= h.num
    BY <1>2, <1>4 DEF IsHead, Pred
  <2>2. h.num <= v.prev /\ w.num = v.prev /\ h.num \in Nat /\ w.num \in Nat
    BY <2>1, ChainParts DEF Chained, OnTop, Pred
  <2>3. h.num = w.num
    BY <2>1, <2>2
  <2>4. h = w
    BY <2>1, <2>3 DEF ChainInv, Chained, UniqueKey, Pred
  <2> QED BY <1>1, <2>4
<1>5. txStatus[w.tx] \in {"OPEN", "COMMITTED"}
  BY ChainParts DEF TxTypeOK, Statuses, BaseInv, RowHasTx
<1> QED BY <1>3, <1>4, <1>5

(* Rows that are carried over or added on the head *)
LEMMA EffectFrozen ==
    ASSUME ClosedTx \notin Deviations, CommittedLink \notin Deviations, FrozenEdit \notin Deviations,
           ChainInv, Effect, NEW T, nextTx \notin T,
           FrozenContentFixed, Inner, Unfrozen(T)
    PROVE  FrozenContentFixed' /\ Inner' /\ Unfrozen(T)'
<1>1. ASSUME StatesCarried PROVE Inner' /\ Unfrozen(T)'
  <2>1. ASSUME NEW a \in versions' PROVE a.tx \in T => a.state \notin FrozenStates
    <3>1. PICK v \in versions : From(a, v)
      BY <1>1 DEF StatesCarried
    <3> QED BY <3>1 DEF Unfrozen, From
  <2>2. ASSUME NEW a \in versions', NEW b \in versions', Pred(b, a), txStatus'[b.tx] = "OPEN"
        PROVE  b.state \notin FrozenStates
    <3>1. PICK v \in versions : From(a, v)
      BY <1>1 DEF StatesCarried
    <3>2. PICK w \in versions : From(b, w)
      BY <1>1 DEF StatesCarried
    <3> QED BY <2>2, <3>1, <3>2 DEF Inner, From, Pred
  <2> QED BY <2>1, <2>2 DEF Inner, Unfrozen, Pred
<1>2. CASE Carried
  <2>1. Inner' /\ Unfrozen(T)'
    BY <1>1, <1>2 DEF Carried, StatesCarried
  <2>2. ASSUME NEW a \in versions', NEW b \in versions', Pred(b, a), b.state \in FrozenStates
        PROVE  a.content = b.content
    <3>1. PICK v \in versions : From(a, v) /\ a.content = v.content
      BY <1>2 DEF Carried
    <3>2. PICK w \in versions : From(b, w) /\ b.content = w.content
      BY <1>2 DEF Carried
    <3> QED BY <2>2, <3>1, <3>2 DEF FrozenContentFixed, From, Pred
  <2> QED BY <2>1, <2>2 DEF FrozenContentFixed, Pred
<1>3. ASSUME NEW r, GrownOnHead(r) PROVE FrozenContentFixed' /\ Inner' /\ Unfrozen(T)'
  <2>1. r.state \notin FrozenStates
    BY <1>3 DEF GrownOnHead
  <2>2. ASSUME NEW a \in versions', NEW b \in versions', Pred(b, a)
        PROVE  /\ b.state \in FrozenStates => a.content = b.content
               /\ txStatus'[b.tx] = "OPEN" => b.state \notin FrozenStates
    <3>1. b \in versions
      BY <1>3, <2>2 DEF GrownOnHead, Grown, Pred
    <3>2. txStatus'[b.tx] = txStatus[b.tx]
      BY <1>3, <3>1 DEF GrownOnHead, Grown, StatusKept
    <3>3. CASE a = r
      BY <1>3, <2>1, <2>2, <3>1, <3>2, <3>3 DEF GrownOnHead
    <3>4. CASE a \in versions
      BY <2>2, <3>1, <3>2, <3>4 DEF FrozenContentFixed, Inner, Pred
    <3> QED BY <1>3, <3>3, <3>4 DEF GrownOnHead, Grown
  <2>3. Unfrozen(T)'
    BY <1>3, <2>1 DEF GrownOnHead, Grown, Unfrozen
  <2> QED BY <2>2, <2>3 DEF FrozenContentFixed, Inner, Pred
<1>4. ASSUME NEW v \in versions, NEW c \in Contents, RowEdited(v, c)
      PROVE  FrozenContentFixed' /\ Inner' /\ Unfrozen(T)'
  <2>1. PICK q : From(q, v) /\ versions' = (versions \ {v}) \cup {q}
    BY <1>4, EditCarries
  <2>2. Inner' /\ Unfrozen(T)'
    BY <1>1, <1>4, EditCarries
  <2>3. txStatus[v.tx] = "OPEN" /\ MayEditStructure(v.node)
    BY <1>4 DEF RowEdited
  <2>4. ASSUME NEW a \in versions', NEW b \in versions', Pred(b, a), b.state \in FrozenStates
        PROVE  a.content = b.content
    <3>1. CASE a = q
      <4>1. b \in versions /\ Pred(b, v)
        <5>1. v.num # v.prev
          BY ChainParts DEF Chained, Numbered
        <5> QED BY <2>1, <2>4, <3>1, <5>1 DEF From, Pred
      <4> QED BY <2>3, <2>4, <4>1, EditedOnUnfrozen
    <3>2. CASE a # q /\ b = q
      <4>1. a \in versions /\ Pred(v, a) /\ v.state = b.state
        BY <2>1, <2>4, <3>2 DEF From, Pred
      <4> QED BY <2>3, <2>4, <4>1 DEF Inner
    <3>3. CASE a # q /\ b # q
      BY <2>1, <2>4, <3>3 DEF FrozenContentFixed, Pred
    <3> QED BY <3>1, <3>2, <3>3
  <2> QED BY <2>2, <2>4 DEF FrozenContentFixed, Pred
<1> QED BY <1>2, <1>3, <1>4, EffectRows

(* The row a transition adds copies the content; its predecessor is         *)
(* committed or not frozen.                                                 *)
LEMMA ApplyFrozen ==
    ASSUME LifeInv, NEW u \in Users, applyTransition(u), NEW T, T \subseteq PendingTxs,
           req[u].tx \notin T, FrozenContentFixed, Inner, Unfrozen(PendingTxs)
    PROVE  FrozenContentFixed' /\ Inner' /\ Unfrozen(T)'
<1>1. PICK r : /\ Grown(r) /\ r.tx = req[u].tx /\ txStatus' = txStatus
               /\ \A w \in versions : Pred(w, r) =>
                     /\ r.content = w.content
                     /\ (w.tx = r.tx \/ txStatus[w.tx] = "COMMITTED")
  BY ApplyGrows
<1>2. req[u].tx \in PendingTxs
  BY DEF PendingTxs, applyTransition
<1>3. ASSUME NEW a \in versions', NEW b \in versions', Pred(b, a)
      PROVE  /\ b.state \in FrozenStates => a.content = b.content
             /\ txStatus'[b.tx] = "OPEN" => b.state \notin FrozenStates
  <2>1. b \in versions
    BY <1>1, <1>3 DEF Grown, Pred
  <2>2. CASE a = r
    BY <1>1, <1>2, <1>3, <2>1, <2>2 DEF Unfrozen
  <2>3. CASE a \in versions
    BY <1>1, <1>3, <2>1, <2>3 DEF FrozenContentFixed, Inner, Pred
  <2> QED BY <1>1, <2>2, <2>3 DEF Grown
<1>4. Unfrozen(T)'
  BY <1>1 DEF Grown, Unfrozen
<1> QED BY <1>3, <1>4 DEF FrozenContentFixed, Inner, Pred

(* A version that follows a frozen one carries the same content, for any    *)
(* number of users and nodes, any lifecycle and any crashes: only the       *)
(* deviations named in the hypotheses, which edit frozen nodes or committed *)
(* versions, change what was frozen.                                        *)
THEOREM FrozenStaysFixed ==
    ASSUME ClosedTx \notin Deviations, CommittedLink \notin Deviations, FrozenEdit \notin Deviations
    PROVE  LSpec => []FrozenContentFixed
<1> DEFINE Inv == LifeInv /\ FrozenContentFixed /\ Inner /\ Unfrozen(PendingTxs)
<1>1. LInit => Inv
  BY LifeInit DEF LInit, Init, FrozenContentFixed, Inner, Unfrozen
<1>2. ASSUME Inv, [LNext]_allVars PROVE Inv'
  <2>1. LifeInv' /\ LifeEffect /\ ChainInv
    BY <1>2, LifeNext, LifeEffects DEF LifeInv
  <2>2. nextTx \notin PendingTxs
    BY <1>2, PendingFresh
  <2>3. PICK T : T = PendingTxs
    OBVIOUS
  <2>4. CASE Effect /\ PendingTxs' \subseteq PendingTxs
    <3>1. FrozenContentFixed' /\ Inner' /\ Unfrozen(T)'
      BY <1>2, <2>1, <2>2, <2>3, <2>4, EffectFrozen
    <3> QED BY <2>1, <2>3, <2>4, <3>1 DEF Unfrozen
  <2>5. CASE NothingMoves /\ PendingTxs' \subseteq PendingTxs \cup {nextTx}
    <3>1. FrozenContentFixed' /\ Inner' /\ Unfrozen(T)'
      BY <1>2, <2>1, <2>2, <2>3, <2>5, EffectFrozen DEF Effect
    <3>2. \A v \in versions : v.tx # nextTx
      BY <1>2, <2>1, PendingFresh, ChainParts
    <3> QED BY <2>1, <2>3, <2>5, <3>1, <3>2 DEF Unfrozen, NothingMoves
  <2>6. ASSUME NEW u \in Users, applyTransition(u), PendingTxs' \subseteq PendingTxs \ {req[u].tx}
        PROVE  Inv'
    <3>1. PICK S : S = PendingTxs'
      OBVIOUS
    <3>2. FrozenContentFixed' /\ Inner' /\ Unfrozen(S)'
      BY <1>2, <2>6, <3>1, ApplyFrozen
    <3> QED BY <2>1, <3>1, <3>2 DEF Unfrozen
  <2> QED BY <2>1, <2>4, <2>5, <2>6 DEF LifeEffect
<1> QED BY <1>1, <1>2, PTL DEF LSpec

-----------------------------------------------------------------------------
(***************************************************************************)
(* LocksKeepReasons is Tidy for the nodes on which a transition runs: a    *)
(* lock taken by LockWrapper belongs to a running request until the        *)
(* request ends, and then the node is unlocked whoever holds it.  R is the *)
(* set of nodes that are unexplained before the step.                      *)
(***************************************************************************)
BusyNodes == {req[u].node : u \in {x \in Users : ~ InPhase(x, "idle")}}

(* A running request that moves on stays on its node. *)
LEMMA StaysBusy ==
    ASSUME ReqInv, NEW u \in Users, ~ InPhase(u, "idle"), NEW q,
           q.phase # "idle", q.node = req[u].node, req' = [req EXCEPT ![u] = q]
    PROVE  BusyNodes \subseteq BusyNodes'
<1>1. req'[u] = q /\ \A x \in Users : x # u => req'[x] = req[x]
  BY DEF ReqInv
<1>2. \A x \in Users : req[x].phase # "idle" =>
         req'[x].phase # "idle" /\ req'[x].node = req[x].node
  BY <1>1
<1> QED BY <1>2 DEF BusyNodes, InPhase

(* GoTo keeps the node busy. *)
LEMMA GoesOnBusy ==
    ASSUME ReqInv, NEW u \in Users, ~ InPhase(u, "idle"), NEW p, p # "idle", GoTo(u, p)
    PROVE  BusyNodes \subseteq BusyNodes'
<1> DEFINE q == [req[u] EXCEPT !.phase = p]
<1>1. req[u] \in Running
  BY RunningFields
<1>2. q.phase = p /\ q.node = req[u].node
  BY <1>1 DEF Running
<1>3. req' = [req EXCEPT ![u] = q]
  BY DEF GoTo
<1> HIDE DEF q
<1> QED BY <1>2, <1>3, StaysBusy

(* Locks have a reason when more nodes are busy. *)
LEMMA MoreBusy ==
    ASSUME NEW B, NEW R, Tidy(B, R)', B \subseteq BusyNodes' \cup R
    PROVE  Tidy(BusyNodes \cup R, R)'
  BY DEF Tidy

(* The steps of a transition request leave locks and nodes tidy. *)
LEMMA TransitionTidy ==
    ASSUME LifeInv, NEW B, NEW R, B = BusyNodes \cup R, Tidy(B, R),
           NEW u \in Users, TransitionStep(u), ~ EndTransitionFails(u)
    PROVE  Tidy(BusyNodes \cup R, R)'
<1>0. ChainInv /\ ReqInv /\ BaseInv /\ TidyInv(B, R) /\ nodes \subseteq Nodes
  BY ChainParts DEF LifeInv, TidyInv, ChainInv, TypeOK
<1>1. ASSUME GoTo(u, "applied") \/ GoTo(u, "failed") \/ GoTo(u, "ending"), ~ InPhase(u, "idle"),
             Tidy(B, R)'
      PROVE  Tidy(BusyNodes \cup R, R)'
  BY <1>0, <1>1, GoesOnBusy, MoreBusy
<1>2. CASE OpenIsolated(u)
  <2> DEFINE q == [req[u] EXCEPT !.phase = "opened", !.tx = nextTx]
  <2>1. /\ Opened(u) /\ InPhase(u, "locked") /\ nodes' = nodes /\ lockedBy' = lockedBy
        /\ versions' = versions /\ ~ InPhase(u, "idle")
        /\ req' = [req EXCEPT ![u].phase = "opened", ![u].tx = nextTx]
    BY <1>2 DEF OpenIsolated, InPhase
  <2>2. req[u] \in Running
    BY <1>0, <2>1, RunningFields
  <2>3. q.phase # "idle" /\ q.node = req[u].node
    BY <2>2 DEF Running
  <2>4. req' = [req EXCEPT ![u] = q]
    BY <1>0, <2>1 DEF ReqInv
  <2> HIDE DEF q
  <2>5. BusyNodes \subseteq BusyNodes'
    BY <1>0, <2>1, <2>3, <2>4, StaysBusy
  <2>6. \A v \in versions : txStatus'[v.tx] = txStatus[v.tx]
    BY <1>0, <2>1, OpenedBase
  <2>7. Tidy(B, R)'
    BY <1>0, <2>1, <2>6, StillTidy
  <2> QED BY <2>5, <2>7, MoreBusy
<1>3. CASE \/ OpenIsolatedFails(u) \/ RefuseTransition(u)
           \/ CommitIsolatedFails(u) \/ RollbackIsolatedFails(u)
  <2>1. /\ UNCHANGED vars /\ ~ InPhase(u, "idle") /\ (GoTo(u, "failed") \/ GoTo(u, "ending"))
    BY <1>3 DEF OpenIsolatedFails, RefuseTransition, CommitIsolatedFails, RollbackIsolatedFails, InPhase
  <2>2. nodes' = nodes /\ lockedBy' = lockedBy /\ versions' = versions /\ txStatus' = txStatus
    BY <2>1 DEF vars
  <2>3. Tidy(B, R)'
    BY <1>0, <2>2, StillTidy
  <2> QED BY <1>1, <2>1, <2>3
<1>4. CASE applyTransition(u)
  <2> DEFINE n == req[u].node
             t == req[u].tx
  <2>1. /\ n \in nodes /\ t \in TxIds /\ n \in Nodes /\ txStatus[t] = "OPEN"
        /\ txStatus' = txStatus /\ nodes' = nodes
    BY <1>4, ApplyAdds
  <2>2. /\ Lock(n, u) /\ GoTo(u, "applied") /\ ~ InPhase(u, "idle")
        /\ createVersion(n, t, req[u].tr.to, getCurrentVersionForTx(n, t).content)
    BY <1>4 DEF applyTransition, InPhase
  <2> HIDE DEF n, t
  <2>3. versions \subseteq versions' /\ \E w \in versions' : w.node = n /\ w.tx = t
    BY <2>2, CreateKeeps, CreatedIsThere
  <2>4. nodes' = nodes \cup {n}
    BY <2>1
  <2>5. Tidy(B, R)'
    BY <1>0, <2>1, <2>2, <2>3, <2>4, LockTidy
  <2> QED BY <1>1, <2>2, <2>5
<1>5. CASE CommitIsolated(u)
  <2>1. /\ InPhase(u, "applied") /\ ~ InPhase(u, "idle") /\ GoTo(u, "ending")
        /\ Commit(u, req[u].tx, {})
    BY <1>5 DEF CommitIsolated, InPhase
  <2>2. req[u].tx \in TxIds /\ {} \in SUBSET Nodes
    BY <1>0, <2>1 DEF ReqInv, InPhase
  <2>3. Tidy(B, R)'
    BY <1>0, <2>1, <2>2, CommitTidy
  <2> QED BY <1>1, <2>1, <2>3
<1>6. CASE RollbackIsolated(u)
  <2>1. /\ InPhase(u, "failed") /\ ~ InPhase(u, "idle") /\ GoTo(u, "ending")
        /\ rollbackTransaction(u, req[u].tx)
    BY <1>6 DEF RollbackIsolated, InPhase
  <2>2. req[u].tx \in TxIds
    BY <1>0, <2>1 DEF ReqInv, InPhase
  <2>3. Tidy(B, R)'
    BY <1>0, <2>1, <2>2, RollbackTidy
  <2> QED BY <1>1, <2>1, <2>3
<1>7. CASE EndTransition(u)
  <2>1. /\ Unlock({req[u].node}) /\ req' = [req EXCEPT ![u] = Idle]
        /\ txStatus' = txStatus /\ nodes' = nodes /\ versions' = versions
    BY <1>7 DEF EndTransition, txVars
  <2>2. \A x \in Users : x # u => req'[x] = req[x]
    BY <1>0, <2>1 DEF ReqInv
  <2>3. \A m \in B : m = req[u].node \/ m \in BusyNodes' \cup R
    BY <2>2 DEF BusyNodes, InPhase
  <2>4. \A m \in nodes : lockedBy'[m] = IF m = req[u].node THEN NoUser ELSE lockedBy[m]
    BY <1>0, <2>1 DEF Unlock
  <2> QED BY <1>0, <2>1, <2>3, <2>4 DEF TidyInv, Tidy, hasOpenVersion, OpenRows
<1> QED BY <1>2, <1>3, <1>4, <1>5, <1>6, <1>7 DEF TransitionStep

(* Requests keep the reasons of locks: a step after which a lock has        *)
(* neither a version in progress nor a transition running on its node, or a *)
(* node row no version, found it so, or is the end of the server process,   *)
(* an unlock that fails or the clean-up job; for any number of users, nodes *)
(* and transitions, requests of one user in parallel, administrators, and   *)
(* nodes left behind before included.  The hypotheses exclude the two       *)
(* deviations that lock without checking out.                               *)
THEOREM LocksHaveReasons ==
    ASSUME ClosedTx \notin Deviations, CommittedLink \notin Deviations
    PROVE  LSpec => LocksKeepReasons
<1> DEFINE A == \A n \in Nodes : Unexplained(n)' =>
                    \/ Unexplained(n)
                    \/ \E u \in Users : EndTransitionFails(u)
                    \/ Crash
                    \/ \E cutoff \in TxIds : cleanStaleTransactions(cutoff)
<1>1. ASSUME LifeInv, LNext PROVE A
  <2>1. ChainInv /\ BaseInv /\ ReqInv /\ nodes \subseteq Nodes
    BY <1>1, ChainParts DEF LifeInv, ChainInv, TypeOK
  <2>2. PICK R : R = {n \in Nodes : Unexplained(n)}
    OBVIOUS
  <2>3. PICK B : B = BusyNodes \cup R
    OBVIOUS
  <2>4. TidyInv(B, R)
    BY <2>1, <2>2, <2>3 DEF TidyInv, Tidy, Unexplained, BusyNodes
  <2>5. ASSUME Tidy(BusyNodes \cup R, R)' PROVE A
    BY <2>2, <2>5 DEF Tidy, Unexplained, BusyNodes, hasOpenVersion, OpenRows, InPhase
  <2>6. ASSUME req' = req, Tidy(B, R)' PROVE Tidy(BusyNodes \cup R, R)'
    BY <2>3, <2>6, MoreBusy DEF BusyNodes, InPhase
  <2>7. ASSUME NEW u \in Users, AuthoringStep(u) PROVE A
    BY <2>4, <2>5, <2>6, <2>7, UserTidy DEF AuthoringStep
  <2>8. ASSUME NEW u \in Users, NEW n \in Nodes, NEW tr \in Transitions, RequestTransition(u, n, tr)
        PROVE  A
    <3> DEFINE q == [phase |-> "locked", node |-> n, tr |-> tr, tx |-> NoTx]
    <3>1. /\ Lock(n, u) /\ req' = [req EXCEPT ![u] = q] /\ InPhase(u, "idle")
          /\ txStatus' = txStatus /\ nodes' = nodes /\ versions' = versions
      BY <2>8 DEF RequestTransition, txVars
    <3>2. q.phase # "idle" /\ q.node = n
      OBVIOUS
    <3> HIDE DEF q
    <3>3. req'[u] = q /\ \A x \in Users : x # u => req'[x] = req[x]
      BY <2>1, <3>1 DEF ReqInv
    <3>4. n \in BusyNodes' /\ BusyNodes \subseteq BusyNodes'
      BY <3>1, <3>2, <3>3 DEF BusyNodes, InPhase
    <3>5. \A m \in nodes : lockedBy'[m] = IF m = n THEN u ELSE lockedBy[m]
      BY <2>1, <3>1 DEF Lock, ChainInv, TypeOK
    <3>6. Tidy(BusyNodes \cup R, R)'
      BY <2>3, <2>4, <3>1, <3>4, <3>5 DEF TidyInv, Tidy, hasOpenVersion, OpenRows
    <3> QED BY <2>5, <3>6
  <2>9. ASSUME NEW u \in Users, TransitionStep(u) PROVE A
    <3>1. CASE EndTransitionFails(u)
      BY <3>1
    <3>2. CASE ~ EndTransitionFails(u)
      BY <1>1, <2>3, <2>4, <2>5, <2>9, <3>2, TransitionTidy DEF TidyInv
    <3> QED BY <3>1, <3>2
  <2>10. ASSUME NEW v \in versions, AddComment(v), UNCHANGED req PROVE A
    <3>1. nodes' = nodes /\ lockedBy' = lockedBy /\ versions' = versions /\ txStatus' = txStatus
      BY <2>10 DEF AddComment, txVars
    <3> QED BY <2>4, <2>5, <2>6, <2>10, <3>1, StillTidy
  <2> QED BY <1>1, <2>7, <2>8, <2>9, <2>10 DEF LNext
<1>2. LSpec => [][A]_allVars
  BY <1>1, LifecycleInductive, PTL DEF LSpec
<1> QED BY <1>2 DEF LocksKeepReasons
=============================================================================
