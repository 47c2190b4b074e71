---------------------- MODULE ConfigDistributionProofs ----------------------
(***************************************************************************)
(* Proofs about ConfigDistribution for every set of consumers and every    *)
(* bound, with pulls that overtake the commit they were announced for, and *)
(* with pulls, announcements and rebuilds that fail.                       *)
(***************************************************************************)
EXTENDS ConfigDistribution, TLAPS

(* A snapshot psa has built: its versions start at 1. *)
Built1 == {s \in Snapshot : s.version > 0}
CacheState ==
    [phase : {"down", "subscribed", "up"}, version : Nat \cup {Unset},
     content : [model : Nat \cup {Unset}, actions : Nat \cup {Unset}]]
Held(c) == [version |-> cache[c].version, content |-> cache[c].content]

BudgetOK ==
    /\ budget \in [edits : Nat, catalog : Nat, outages : Nat, admin : Nat, consumers : Nat]
    /\ budget.admin <= MaxAdminRestarts

(* psa is stopped without a snapshot, or holds one that has its counter as  *)
(* version and no metamodel the database has not reached.                   *)
PsaOK ==
    \/ psa = Stopped
    \/ /\ psa.up = TRUE
       /\ psa.cached \in Built1
       /\ psa.counter = psa.cached.version
       /\ psa.cached.content.model <= db

ConsumersOK ==
    /\ cache \in [Consumers -> CacheState]
    /\ \A c \in Consumers : cache[c].version = Unset \/ Held(c) \in Built1
    /\ resp \in [Consumers -> [Threads -> Built1 \cup {None}]]

(* The snapshots held are those psa has built: none is above its own, two   *)
(* of the same version are equal, and a higher version never has an older   *)
(* metamodel.                                                               *)
Coherent(H, p) ==
    /\ H # {} => p.up
    /\ \A s \in H : s.version <= p.counter
    /\ \A s, r \in H \cup ({p.cached} \ {None}) :
         /\ s.version = r.version => s.content = r.content
         /\ s.version <= r.version => s.content.model <= r.content.model

ConfigInv ==
    /\ db \in Nat /\ pending \in {0, db + 1} /\ catalog \in Nat
    /\ BudgetOK /\ PsaOK /\ ConsumersOK
    /\ FirstLife => Coherent(Holdings, psa)

-----------------------------------------------------------------------------
(* A snapshot that has been built is not the absent one. *)
LEMMA BuiltType ==
    ASSUME NEW s \in Built1
    PROVE  /\ s # None /\ s.version \in Nat /\ s.version > 0
           /\ s.content.model \in Nat /\ s.content.actions \in Nat \cup {Unset}
           /\ s = [version |-> s.version, content |-> s.content]
  BY DEF Built1, Snapshot, None

(* Spending keeps the budget in shape, and psa's lives are only ever spent. *)
LEMMA SpendKeeps ==
    ASSUME BudgetOK,
           NEW what \in {"edits", "catalog", "outages", "consumers"}, Spend(what)
    PROVE  BudgetOK' /\ budget'.admin = budget.admin
  BY DEF BudgetOK, Spend

LEMMA SpendLife ==
    ASSUME BudgetOK, Spend("admin")
    PROVE  BudgetOK' /\ budget'.admin < MaxAdminRestarts
  BY ConfigBounds DEF BudgetOK, Spend

(* buildFullSnapshot leaves psa with a snapshot of its counter's version. *)
LEMMA BuildKeepsPsa ==
    ASSUME PsaOK, db \in Nat, catalog \in Nat, NEW fetched \in {catalog, Unset},
           psa' = AfterBuild(Content(fetched)), db' = db
    PROVE  /\ PsaOK' /\ psa'.up /\ psa'.cached = Built(Content(fetched))
           /\ psa'.cached \in Built1
  BY BuiltType DEF PsaOK, AfterBuild, Built, Unchanged, Content, Built1, Snapshot, Stopped, None

(* A snapshot built, perhaps handed out, keeps what is held coherent. *)
LEMMA BuildKeepsCoherent ==
    ASSUME PsaOK, db \in Nat, catalog \in Nat, NEW fetched \in {catalog, Unset},
           psa' = AfterBuild(Content(fetched)), db' = db,
           NEW H, NEW K, H \subseteq Built1, Coherent(H, psa),
           K \subseteq H \cup {Built(Content(fetched))}
    PROVE  Coherent(K, psa')
<1> DEFINE n == Built(Content(fetched))
<1>1. psa'.up /\ psa'.cached = n /\ n \in Built1 /\ psa'.counter = n.version
  BY BuildKeepsPsa DEF AfterBuild
<1>2. n \in Built1 /\ n # None
  BY <1>1, BuiltType
<1>3. CASE Unchanged(Content(fetched))
  <2>1. n = psa.cached /\ psa.cached # None /\ psa.up /\ psa.counter = n.version
    BY <1>3 DEF Unchanged, Built, PsaOK, Stopped
  <2>2. K \cup ({n} \ {None}) \subseteq H \cup ({psa.cached} \ {None})
    BY <2>1
  <2>3. \A s \in K : s.version <= n.version
    BY <2>1, <1>2, BuiltType DEF Coherent
  <2> HIDE DEF n
  <2> QED BY <1>1, <2>1, <2>2, <2>3 DEF Coherent
<1>4. CASE ~ Unchanged(Content(fetched))
  <2>1. n.version = psa.counter + 1 /\ n.content.model = db
    BY <1>4 DEF Built, Content
  <2>2. \A s \in H : s.version \in Nat /\ s.version <= psa.counter /\ psa.counter \in Nat
    BY BuiltType DEF Coherent, PsaOK, Stopped
  <2>3. ASSUME NEW s \in H PROVE s.content.model <= db
    <3>1. psa.up
      BY <2>3 DEF Coherent
    <3>2. psa.cached \in Built1 /\ psa.counter = psa.cached.version /\ psa.cached.content.model <= db
      BY <3>1 DEF PsaOK, Stopped
    <3>3. s.content.model <= psa.cached.content.model
      BY <3>2, <2>2, <2>3, BuiltType DEF Coherent
    <3> QED BY <3>2, <3>3, <2>3, BuiltType
  <2>6. \A s \in K : s \in H \/ s = n
    OBVIOUS
  <2> HIDE DEF n
  <2>4. \A s \in H : s.version < n.version /\ s.content.model <= n.content.model
    BY <2>1, <2>2, <2>3
  <2>5. n.version \in Nat /\ n.content.model \in Nat
    BY <1>2, BuiltType
  <2>7. \A s \in K : s.version <= n.version
    BY <2>2, <2>4, <2>5, <2>6
  <2>8. ASSUME NEW s \in K \cup {n}, NEW r \in K \cup {n}
        PROVE  /\ s.version = r.version => s.content = r.content
               /\ s.version <= r.version => s.content.model <= r.content.model
    <3>1. CASE s = n /\ r = n
      BY <3>1, <2>5
    <3>2. CASE s \in H /\ r \in H
      BY <3>2 DEF Coherent
    <3>3. CASE s \in H /\ r = n
      BY <3>3, <2>2, <2>4, <2>5
    <3>4. CASE s = n /\ r \in H
      BY <3>4, <2>2, <2>4, <2>5
    <3> QED BY <3>1, <3>2, <3>3, <3>4, <2>6
  <2> QED BY <1>1, <1>2, <2>7, <2>8 DEF Coherent
<1> QED BY <1>3, <1>4


(* What is held was built; and where a new holding can come from. *)
LEMMA HoldingsType ==
    ASSUME ConsumersOK
    PROVE  /\ Holdings \subseteq Built1
           /\ \A c \in Consumers : cache[c].version # Unset => Held(c) \in Holdings
           /\ \A c \in Consumers, th \in Threads :
                 resp[c][th] # None => resp[c][th] \in Holdings
  BY DEF ConsumersOK, Holdings, Held

LEMMA HoldingsFrom ==
    ASSUME NEW X,
           \A c \in Consumers : cache'[c].version = Unset \/ Held(c)' \in X,
           \A c \in Consumers, th \in Threads : resp'[c][th] = None \/ resp'[c][th] \in X
    PROVE  Holdings' \subseteq X
  BY DEF Holdings, Held

(* A step that neither builds nor hands out a snapshot and does not stop    *)
(* psa keeps what is held coherent.                                         *)
LEMMA QuietKeepsCoherent ==
    ASSUME NEW H, NEW K, NEW p, Coherent(H, p), K \subseteq H
    PROVE  Coherent(K, p)
  BY DEF Coherent

-----------------------------------------------------------------------------
(* One lemma per action: it keeps the invariant, and the metamodel of a     *)
(* consumer that keeps running only grows.                                  *)
Forward ==
    \A c \in Consumers :
        /\ FirstLife
        /\ Listening(c) /\ cache[c].version # Unset /\ cache'[c].version # Unset
        => cache'[c].content.model >= cache[c].content.model

(* Where no cache is touched, no consumer goes back. *)
LEMMA CacheKept ==
    ASSUME ConsumersOK,
           \A c \in Consumers : cache'[c].version = cache[c].version /\ cache'[c].content = cache[c].content
    PROVE  Forward
<1>1. \A c \in Consumers : cache[c].version # Unset => cache[c].content.model \in Nat
  BY BuiltType DEF ConsumersOK, Held
<1> QED BY <1>1 DEF Forward

LEMMA AdminQuiet ==
    ASSUME ConfigInv, UNCHANGED <<psa, cache, resp>>, BudgetOK',
           budget'.admin = budget.admin,
           db' \in Nat, db' >= db, pending' \in {0, db' + 1}, catalog' \in Nat
    PROVE  ConfigInv' /\ Forward
<1>1. PsaOK'
  BY BuiltType DEF ConfigInv, PsaOK
<1>2. ConsumersOK' /\ Holdings' = Holdings
  BY DEF ConfigInv, ConsumersOK, Holdings, Held
<1>3. FirstLife' => FirstLife
  BY DEF FirstLife
<1>4. Forward
  BY CacheKept DEF ConfigInv
<1> QED BY <1>1, <1>2, <1>3, <1>4 DEF ConfigInv

LEMMA ChangeModelKeeps == ASSUME ConfigInv, ChangeModel PROVE ConfigInv' /\ Forward
<1>1. BudgetOK' /\ budget'.admin = budget.admin
  BY SpendKeeps DEF ConfigInv, ChangeModel
<1> QED BY <1>1, AdminQuiet DEF ConfigInv, ChangeModel

LEMMA CommitChangeKeeps == ASSUME ConfigInv, CommitChange PROVE ConfigInv' /\ Forward
<1>1. BudgetOK' /\ budget'.admin = budget.admin
  BY DEF ConfigInv, CommitChange, BudgetOK
<1> QED BY <1>1, AdminQuiet DEF ConfigInv, CommitChange, consumerVars

LEMMA CatalogChangeKeeps == ASSUME ConfigInv, CatalogChange PROVE ConfigInv' /\ Forward
<1>1. BudgetOK' /\ budget'.admin = budget.admin
  BY SpendKeeps DEF ConfigInv, CatalogChange
<1> QED BY <1>1, AdminQuiet DEF ConfigInv, CatalogChange, consumerVars

LEMMA AdminStopKeeps == ASSUME ConfigInv, AdminStop PROVE ConfigInv' /\ Forward
<1>1. BudgetOK' /\ ~ FirstLife'
  BY SpendLife, ConfigBounds DEF ConfigInv, AdminStop, FirstLife, BudgetOK
<1>2. PsaOK'
  BY DEF AdminStop, PsaOK
<1>3. ConsumersOK'
  BY DEF ConfigInv, AdminStop, consumerVars, ConsumersOK, Held
<1>4. Forward
  BY CacheKept DEF ConfigInv, AdminStop, consumerVars
<1> QED BY <1>1, <1>2, <1>3, <1>4 DEF ConfigInv, AdminStop

(* safeFetchPlatformSnapshot, whether it succeeds or not. *)
LEMMA FetchKeeps ==
    ASSUME BudgetOK, NEW fetched, safeFetchPlatformSnapshot(fetched)
    PROVE  BudgetOK' /\ budget'.admin = budget.admin
<1>1. CASE UNCHANGED budget
  BY <1>1 DEF BudgetOK
<1>2. CASE Spend("outages")
  BY <1>2, SpendKeeps
<1> QED BY <1>1, <1>2 DEF safeFetchPlatformSnapshot

(* A build of which at most the answers in flight and no cache learn. *)
LEMMA BuildKeeps ==
    ASSUME ConfigInv, NEW fetched \in {catalog, Unset},
           safeFetchPlatformSnapshot(fetched), psa' = AfterBuild(Content(fetched)),
           UNCHANGED <<db, pending, catalog>>,
           cache' \in [Consumers -> CacheState],
           resp' \in [Consumers -> [Threads -> Built1 \cup {None}]],
           \A c \in Consumers : cache'[c].version = cache[c].version /\ cache'[c].content = cache[c].content,
           \A c \in Consumers, th \in Threads :
              resp'[c][th] \in {resp[c][th], Built(Content(fetched)), None}
    PROVE  ConfigInv' /\ Forward
<1>1. BudgetOK' /\ budget'.admin = budget.admin
  BY FetchKeeps DEF ConfigInv
<1>2. PsaOK'
  BY BuildKeepsPsa DEF ConfigInv
<1>3. ConsumersOK'
  BY DEF ConfigInv, ConsumersOK, Held
<1>4. Holdings' \subseteq Holdings \cup {Built(Content(fetched))}
  <2> DEFINE X == Holdings \cup {Built(Content(fetched))}
  <2>1. \A c \in Consumers : cache'[c].version = Unset \/ Held(c)' \in X
    BY HoldingsType DEF ConfigInv, Held
  <2>2. \A c \in Consumers, th \in Threads : resp'[c][th] = None \/ resp'[c][th] \in X
    BY HoldingsType DEF ConfigInv
  <2> HIDE DEF X
  <2>3. Holdings' \subseteq X
    BY <2>1, <2>2, HoldingsFrom
  <2> QED BY <2>3 DEF X
<1>5. FirstLife' => Coherent(Holdings', psa')
  <2>1. SUFFICES ASSUME FirstLife' PROVE Coherent(Holdings', psa')
    OBVIOUS
  <2>2. Coherent(Holdings, psa) /\ Holdings \subseteq Built1
    BY <2>1, <1>1, HoldingsType DEF FirstLife, ConfigInv
  <2> QED BY <2>2, <1>4, BuildKeepsCoherent DEF ConfigInv
<1>6. Forward
  BY CacheKept DEF ConfigInv
<1> QED BY <1>1, <1>2, <1>3, <1>5, <1>6 DEF ConfigInv

LEMMA AdminStartKeeps == ASSUME ConfigInv, AdminStart PROVE ConfigInv' /\ Forward
<1>1. PICK fetched \in {catalog, Unset} : buildFullSnapshot(fetched, inbox)
  BY DEF AdminStart
<1> QED BY <1>1, BuildKeeps DEF AdminStart, buildFullSnapshot, ConfigInv, ConsumersOK

LEMMA RelayRebuildKeeps == ASSUME ConfigInv, RelayRebuild PROVE ConfigInv' /\ Forward
<1>1. CASE \E fetched \in {catalog, Unset} : buildFullSnapshot(fetched, inbox)
  BY <1>1, BuildKeeps DEF RelayRebuild, buildFullSnapshot, ConfigInv, ConsumersOK
<1>2. CASE UNCHANGED <<psa, inbox, budget>>
  <2>1. UNCHANGED <<db, pending, catalog, psa, cache, resp, budget>>
    BY <1>2 DEF RelayRebuild
  <2>2. BudgetOK'
    BY <2>1 DEF ConfigInv, BudgetOK
  <2> QED BY <2>1, <2>2, AdminQuiet DEF ConfigInv
<1> QED BY <1>1, <1>2 DEF RelayRebuild

-----------------------------------------------------------------------------
(* A change of a consumer's phase changes no snapshot. *)
LEMMA PhaseOnly ==
    ASSUME ConsumersOK, NEW c \in Consumers, NEW phase \in {"subscribed", "up"},
           cache' = [cache EXCEPT ![c].phase = phase]
    PROVE  /\ cache' \in [Consumers -> CacheState]
           /\ \A d \in Consumers : cache'[d].version = cache[d].version /\ cache'[d].content = cache[d].content
  BY DEF ConsumersOK, CacheState

(* GET /internal/config/snapshot, by whichever thread asks. *)
LEMMA PullKeeps ==
    ASSUME ConfigInv, NEW c \in Consumers, NEW th \in Threads, NEW seen, Pull(c, th, seen),
           UNCHANGED <<db, pending, catalog>>,
           cache' \in [Consumers -> CacheState],
           \A d \in Consumers : cache'[d].version = cache[d].version /\ cache'[d].content = cache[d].content
    PROVE  ConfigInv' /\ Forward
<1>1. CASE UNCHANGED <<psa, resp, silent, budget>>
  <2>1. UNCHANGED <<psa, resp, budget>>
    BY <1>1
  <2>2. ConsumersOK' /\ Holdings' = Holdings
    BY <2>1 DEF ConfigInv, ConsumersOK, Holdings, Held
  <2>3. Forward
    BY CacheKept DEF ConfigInv
  <2> QED BY <2>1, <2>2, <2>3 DEF ConfigInv, BudgetOK, PsaOK, FirstLife
<1>2. ASSUME NEW fetched \in {catalog, Unset}, buildFullSnapshot(fetched, seen),
             resp' = [resp EXCEPT ![c][th] = Built(Content(fetched))] \/ resp' = resp
      PROVE  ConfigInv' /\ Forward
  <2>2. psa' = AfterBuild(Content(fetched)) /\ safeFetchPlatformSnapshot(fetched)
    BY <1>2 DEF buildFullSnapshot
  <2>3. Built(Content(fetched)) \in Built1
    BY <2>2, BuildKeepsPsa DEF ConfigInv
  <2>4. resp' \in [Consumers -> [Threads -> Built1 \cup {None}]]
    <3>1. CASE resp' = [resp EXCEPT ![c][th] = Built(Content(fetched))]
      BY <3>1, <2>3 DEF ConfigInv, ConsumersOK
    <3>2. CASE resp' = resp
      BY <3>2 DEF ConfigInv, ConsumersOK
    <3> QED BY <1>2, <3>1, <3>2
  <2>5. \A d \in Consumers, t \in Threads :
           resp'[d][t] \in {resp[d][t], Built(Content(fetched)), None}
    <3>1. CASE resp' = [resp EXCEPT ![c][th] = Built(Content(fetched))]
      BY <3>1 DEF ConfigInv, ConsumersOK
    <3>2. CASE resp' = resp
      BY <3>2
    <3> QED BY <1>2, <3>1, <3>2
  <2> QED BY <2>2, <2>4, <2>5, BuildKeeps
<1> QED BY <1>1, <1>2 DEF Pull

LEMMA SubscribeKeeps ==
    ASSUME ConfigInv, NEW c \in Consumers, Subscribe(c) PROVE ConfigInv' /\ Forward
<1>1. /\ cache' \in [Consumers -> CacheState]
      /\ \A d \in Consumers : cache'[d].version = cache[d].version /\ cache'[d].content = cache[d].content
  BY PhaseOnly DEF Subscribe, ConfigInv
<1>2. UNCHANGED <<db, pending, catalog, psa, resp, budget>>
  BY DEF Subscribe, adminVars
<1>3. ConsumersOK' /\ Holdings' \subseteq Holdings
  <2>1. \A d \in Consumers : Held(d)' = Held(d)
    BY <1>1 DEF Held
  <2>2. ConsumersOK'
    BY <1>1, <1>2, <2>1 DEF ConfigInv, ConsumersOK
  <2>3. \A d \in Consumers : cache'[d].version = Unset \/ Held(d)' \in Holdings
    BY <1>1, <2>1, HoldingsType DEF ConfigInv
  <2>4. \A d \in Consumers, th \in Threads : resp'[d][th] = None \/ resp'[d][th] \in Holdings
    BY <1>2, HoldingsType DEF ConfigInv
  <2> QED BY <2>2, <2>3, <2>4, HoldingsFrom
<1>4. Forward
  BY <1>1, CacheKept DEF ConfigInv
<1> QED BY <1>2, <1>3, <1>4, QuietKeepsCoherent DEF ConfigInv, BudgetOK, PsaOK, FirstLife

LEMMA BootPullKeeps ==
    ASSUME ConfigInv, NEW c \in Consumers, BootPull(c) PROVE ConfigInv' /\ Forward
  BY PhaseOnly, PullKeeps DEF BootPull, ConfigInv, Threads

LEMMA HandleMessageKeeps ==
    ASSUME ConfigInv, NEW c \in Consumers, HandleMessage(c) PROVE ConfigInv' /\ Forward
<1> DEFINE seen == [inbox EXCEPT ![c] = @ - 1]
<1>1. Pull(c, "nats", seen) /\ UNCHANGED <<db, pending, catalog, cache>>
  BY DEF HandleMessage
<1>2. cache' \in [Consumers -> CacheState]
  BY <1>1 DEF ConfigInv, ConsumersOK
<1> HIDE DEF seen
<1> QED BY <1>1, <1>2, PullKeeps DEF Threads

LEMMA ConsumerStopKeeps ==
    ASSUME ConfigInv, NEW c \in Consumers, ConsumerStop(c) PROVE ConfigInv' /\ Forward
<1>1. BudgetOK' /\ budget'.admin = budget.admin
  BY SpendKeeps DEF ConfigInv, ConsumerStop
<1>2. /\ cache'[c].version = Unset
      /\ \A d \in Consumers : d # c => cache'[d] = cache[d]
      /\ cache' \in [Consumers -> CacheState]
  BY DEF ConsumerStop, ConfigInv, ConsumersOK, Empty, CacheState, NoContent
<1>3. /\ \A d \in Consumers, th \in Threads : resp'[d][th] \in {None, resp[d][th]}
      /\ resp' \in [Consumers -> [Threads -> Built1 \cup {None}]]
  BY DEF ConsumerStop, ConfigInv, ConsumersOK
<1>4. ConsumersOK'
  BY <1>2, <1>3 DEF ConfigInv, ConsumersOK, Held
<1>5. Holdings' \subseteq Holdings
  <2>1. \A d \in Consumers : cache'[d].version = Unset \/ Held(d)' \in Holdings
    BY <1>2, HoldingsType DEF ConfigInv, Held
  <2>2. \A d \in Consumers, th \in Threads : resp'[d][th] = None \/ resp'[d][th] \in Holdings
    BY <1>3, HoldingsType DEF ConfigInv
  <2> QED BY <2>1, <2>2, HoldingsFrom
<1>6. Forward
  <2>1. \A d \in Consumers : cache[d].version # Unset => cache[d].content.model \in Nat
    BY BuiltType DEF ConfigInv, ConsumersOK, Held
  <2> QED BY <2>1, <1>2 DEF Forward
<1>7. UNCHANGED adminVars
  BY DEF ConsumerStop
<1> QED BY <1>1, <1>4, <1>5, <1>6, <1>7, QuietKeepsCoherent DEF adminVars, ConfigInv, PsaOK, FirstLife

(* updateFromSnapshot: what the cache held, and what it holds now, are both *)
(* among the holdings, and the version has grown.                           *)
LEMMA UpdateKeeps ==
    ASSUME ConfigInv, NEW c \in Consumers, NEW th \in Threads, updateFromSnapshot(c, th)
    PROVE  ConfigInv' /\ Forward
<1> DEFINE s == resp[c][th]
<1>1. s \in Built1 /\ s \in Holdings
  BY HoldingsType DEF updateFromSnapshot, ConfigInv, ConsumersOK
<1>2. /\ \A d \in Consumers, t \in Threads : resp'[d][t] \in {None, resp[d][t]}
      /\ resp' \in [Consumers -> [Threads -> Built1 \cup {None}]]
  BY DEF updateFromSnapshot, ConfigInv, ConsumersOK
<1>3. /\ \A d \in Consumers : d # c \/ ~ Accepts(c, s) => cache'[d] = cache[d]
      /\ Accepts(c, s) => cache'[c].version = s.version /\ cache'[c].content = s.content
      /\ cache' \in [Consumers -> CacheState]
  <2>1. CASE ~ Accepts(c, s)
    BY <2>1 DEF updateFromSnapshot, ConfigInv, ConsumersOK
  <2>2. CASE Accepts(c, s)
    <3>1. cache' = [cache EXCEPT ![c].version = s.version, ![c].content = s.content]
      BY <2>2 DEF updateFromSnapshot
    <3>2. s.version \in Nat \cup {Unset}
          /\ s.content \in [model : Nat \cup {Unset}, actions : Nat \cup {Unset}]
      BY <1>1 DEF Built1, Snapshot
    <3> HIDE DEF s
    <3> QED BY <2>2, <3>1, <3>2 DEF ConfigInv, ConsumersOK, CacheState
  <2> QED BY <2>1, <2>2
<1>4. \A d \in Consumers : \/ Held(d)' = Held(d) /\ cache'[d].version = cache[d].version
                           \/ d = c /\ Accepts(c, s) /\ Held(d)' = s
  BY <1>1, <1>3, BuiltType DEF Held
<1> HIDE DEF s
<1>5. ConsumersOK'
  BY <1>1, <1>2, <1>3, <1>4 DEF ConfigInv, ConsumersOK
<1>6. Holdings' \subseteq Holdings
  <2>1. \A d \in Consumers : cache'[d].version = Unset \/ Held(d)' \in Holdings
    BY <1>1, <1>4, HoldingsType DEF ConfigInv
  <2>2. \A d \in Consumers, t \in Threads : resp'[d][t] = None \/ resp'[d][t] \in Holdings
    BY <1>2, HoldingsType DEF ConfigInv
  <2> QED BY <2>1, <2>2, HoldingsFrom
<1>7. UNCHANGED adminVars /\ UNCHANGED budget
  BY DEF updateFromSnapshot
<1>8. Forward
  <2>1. SUFFICES ASSUME NEW d \in Consumers, FirstLife, cache[d].version # Unset
                 PROVE  cache'[d].content.model >= cache[d].content.model
    BY DEF Forward
  <2>2. Held(d) \in Holdings /\ Held(d) \in Built1
    BY <2>1, HoldingsType DEF ConfigInv
  <2>3. cache[d].content.model \in Nat /\ cache[d].version \in Nat
    BY <2>2, BuiltType DEF Held
  <2>4. CASE cache'[d] = cache[d]
    BY <2>3, <2>4
  <2>5. CASE d = c /\ Accepts(c, s)
    <3>1. s.version > Held(d).version /\ s.version \in Nat /\ s.content.model \in Nat
      BY <2>5, <1>1, BuiltType DEF Accepts, Held
    <3>2. Held(d).content.model <= s.content.model
      BY <3>1, <2>1, <2>2, <2>3, <1>1, BuiltType DEF ConfigInv, Coherent
    <3> QED BY <3>1, <3>2, <2>3, <2>5, <1>3 DEF Held
  <2> QED BY <2>4, <2>5, <1>3
<1> QED BY <1>5, <1>6, <1>7, <1>8, QuietKeepsCoherent DEF adminVars, ConfigInv, PsaOK, FirstLife, BudgetOK

-----------------------------------------------------------------------------
LEMMA ConfigNext == ASSUME ConfigInv, Next PROVE ConfigInv' /\ Forward
<1>1. ASSUME NEW c \in Consumers, ConsumerStep(c) PROVE ConfigInv' /\ Forward
  BY <1>1, SubscribeKeeps, BootPullKeeps, HandleMessageKeeps, UpdateKeeps DEF ConsumerStep
<1> QED BY <1>1, ConsumerStopKeeps, ChangeModelKeeps, CommitChangeKeeps, AdminStartKeeps,
           AdminStopKeeps, CatalogChangeKeeps, RelayRebuildKeeps DEF Next

LEMMA ConfigInit == Init => ConfigInv
<1> SUFFICES ASSUME Init PROVE ConfigInv
  OBVIOUS
<1>1. BudgetOK
  BY ConfigBounds DEF Init, BudgetOK
<1>2. ConsumersOK /\ Holdings = {}
  BY DEF Init, ConsumersOK, CacheState, Empty, NoContent, Holdings
<1>3. Coherent({}, psa)
  BY DEF Init, Coherent, Stopped
<1> QED BY <1>1, <1>2, <1>3 DEF Init, ConfigInv, PsaOK

LEMMA ConfigStill == ASSUME ConfigInv, UNCHANGED vars PROVE ConfigInv'
<1>1. UNCHANGED <<db, pending, catalog, psa, cache, resp, budget>>
  BY DEF vars, adminVars, consumerVars
<1>2. BudgetOK'
  BY <1>1 DEF ConfigInv, BudgetOK
<1> QED BY <1>1, <1>2, AdminQuiet DEF ConfigInv

(* The invariant the theorems about versions rest on. *)
THEOREM ConfigInductive == Spec => []ConfigInv
<1>1. ConfigInv /\ [Next]_vars => ConfigInv'
  BY ConfigStill, ConfigNext
<1> QED BY <1>1, ConfigInit, PTL DEF Spec

(* A version number names one content for as long as psm-admin runs: the    *)
(* version test of updateFromSnapshot compares numbers that mean the same   *)
(* to psa, to every cache and to every answer in flight.                    *)
THEOREM VersionsNameContent == Spec => []VersionNamesContent
<1>1. ConfigInv => VersionNamesContent
  BY DEF ConfigInv, Coherent, VersionNamesContent
<1> QED BY <1>1, ConfigInductive, PTL

(* No consumer goes back to an older metamodel while psm-admin runs,        *)
(* whatever the order in which its two threads pull and apply snapshots.    *)
THEOREM ConsumersNeverGoBack == Spec => NeverGoesBack
<1>1. ConfigInv /\ [Next]_vars => [Forward]_vars
  BY ConfigNext
<1>2. Spec => [][Forward]_vars
  BY <1>1, ConfigInductive, PTL DEF Spec
<1> QED BY <1>2 DEF NeverGoesBack, Forward


-----------------------------------------------------------------------------
(***************************************************************************)
(* Informed and CatalogueSeen: every new version and every change of the   *)
(* catalogue is announced in the step that makes it, and an announcement   *)
(* is consumed only by a pull or a rebuild.                                *)
(***************************************************************************)
MailOK ==
    /\ inbox \in [Consumers -> Nat]
    /\ missed \in [Consumers -> BOOLEAN]
    /\ relay \in Nat

Told(c) ==
    \/ Level(c)
    \/ inbox[c] > 0
    \/ cache[c].phase = "subscribed"
    \/ missed[c]
    \/ "psa" \in silent

ToldInv == ConfigInv /\ MailOK /\ Informed /\ CatalogueSeen

(* After an announcement everyone who listens has a message, or it is       *)
(* remembered as lost; platform-api's announcements are not concerned.      *)
Notified == "psa" \in silent' \/ \A c \in Consumers : Listening(c) => inbox'[c] > 0
SamePlatform == "platform" \in silent' <=> "platform" \in silent

LEMMA ChangedNotifies ==
    ASSUME NEW seen \in [Consumers -> Nat], onConfigChanged(seen)
    PROVE  inbox' \in [Consumers -> Nat] /\ Notified /\ SamePlatform
  BY DEF onConfigChanged, Notified, SamePlatform

(* A build raises the counter and announces it, or leaves both alone. *)
LEMMA BuildNotifies ==
    ASSUME ConfigInv, NEW fetched \in {catalog, Unset}, NEW seen \in [Consumers -> Nat],
           buildFullSnapshot(fetched, seen)
    PROVE  /\ inbox' \in [Consumers -> Nat] /\ SamePlatform
           /\ psa'.counter = Built(Content(fetched)).version
           /\ psa'.cached.content.actions = fetched
           /\ Notified \/ (psa.up /\ psa'.counter = psa.counter /\ inbox' = seen /\ silent' = silent)
<1>1. psa' = AfterBuild(Content(fetched))
  BY DEF buildFullSnapshot
<1>2. psa'.counter = Built(Content(fetched)).version /\ psa'.cached = Built(Content(fetched))
  BY <1>1 DEF AfterBuild
<1>3. Built(Content(fetched)).content = Content(fetched)
  BY DEF Built, Unchanged
<1>4. psa'.cached.content.actions = fetched
  BY <1>2, <1>3 DEF Content
<1>5. CASE Unchanged(Content(fetched))
  <2>1. inbox' = seen /\ silent' = silent
    BY <1>5 DEF buildFullSnapshot
  <2>2. psa.cached # None /\ Built(Content(fetched)) = psa.cached
    BY <1>5 DEF Unchanged, Built
  <2>3. psa.up /\ psa.counter = psa.cached.version
    BY <2>2 DEF ConfigInv, PsaOK, Stopped
  <2> QED BY <1>2, <1>4, <2>1, <2>2, <2>3 DEF SamePlatform
<1>6. CASE ~ Unchanged(Content(fetched))
  BY <1>2, <1>4, <1>6, ChangedNotifies DEF buildFullSnapshot
<1> QED BY <1>5, <1>6

(* Consumers whose state is left alone stay told. *)
LEMMA StayTold ==
    ASSUME NEW c, Told(c), psa'.counter = psa.counter,
           cache'[c] = cache[c], resp'[c] = resp[c], missed'[c] = missed[c],
           inbox'[c] = inbox[c], "psa" \in silent => "psa" \in silent'
    PROVE  Told(c)'
  BY DEF Told, Level

(* Steps of psm-admin and platform-api *)
LEMMA ChangeModelTells == ASSUME ToldInv, ChangeModel PROVE MailOK' /\ Informed' /\ CatalogueSeen'
<1>1. /\ onConfigChanged(inbox) /\ inbox \in [Consumers -> Nat]
      /\ UNCHANGED <<catalog, relay, psa, cache, resp, missed>>
  BY DEF ToldInv, MailOK, ChangeModel
<1>2. inbox' \in [Consumers -> Nat] /\ Notified /\ SamePlatform
  BY <1>1, ChangedNotifies
<1> QED BY <1>1, <1>2 DEF ToldInv, MailOK, Informed, CatalogueSeen, Notified, SamePlatform, Listening

LEMMA StillTells ==
    ASSUME ToldInv, UNCHANGED <<catalog, relay, psa, cache, inbox, resp, missed, silent>>
    PROVE  MailOK' /\ Informed' /\ CatalogueSeen'
  BY DEF ToldInv, MailOK, Informed, CatalogueSeen, Listening, Level

LEMMA AdminStartTells == ASSUME ToldInv, AdminStart PROVE MailOK' /\ Informed' /\ CatalogueSeen'
<1>1. PICK fetched \in {catalog, Unset} : buildFullSnapshot(fetched, inbox)
  BY DEF AdminStart
<1>2. ~ psa.up /\ UNCHANGED <<catalog, relay, cache, resp, missed>> /\ inbox \in [Consumers -> Nat]
  BY DEF AdminStart, ToldInv, MailOK
<1>3. inbox' \in [Consumers -> Nat] /\ Notified /\ psa'.cached.content.actions = fetched
  BY <1>1, <1>2, BuildNotifies DEF ToldInv
<1> QED BY <1>2, <1>3 DEF ToldInv, MailOK, Informed, CatalogueSeen, Notified, Listening

LEMMA CatalogChangeTells == ASSUME ToldInv, CatalogChange PROVE MailOK' /\ Informed' /\ CatalogueSeen'
<1>1. /\ UNCHANGED <<psa, cache, resp, inbox, missed>>
      /\ "psa" \in silent' <=> "psa" \in silent
      /\ relay' \in Nat
      /\ psa.up => relay' > 0 \/ "platform" \in silent'
  BY DEF CatalogChange, consumerVars, ToldInv, MailOK
<1> QED BY <1>1 DEF ToldInv, MailOK, Informed, CatalogueSeen, Listening, Level

LEMMA RelayRebuildTells == ASSUME ToldInv, RelayRebuild PROVE MailOK' /\ Informed' /\ CatalogueSeen'
<1>0. /\ psa.up /\ relay' \in Nat /\ UNCHANGED <<catalog, cache, resp, missed>>
      /\ inbox \in [Consumers -> Nat] /\ missed \in [Consumers -> BOOLEAN]
  BY DEF RelayRebuild, ToldInv, MailOK
<1>1. ASSUME NEW fetched \in {catalog, Unset}, buildFullSnapshot(fetched, inbox)
      PROVE  MailOK' /\ Informed' /\ CatalogueSeen'
  <2>1. /\ inbox' \in [Consumers -> Nat] /\ psa'.cached.content.actions = fetched
        /\ Notified \/ (psa'.counter = psa.counter /\ inbox' = inbox /\ silent' = silent)
    BY <1>0, <1>1, BuildNotifies DEF ToldInv
  <2>2. MailOK' /\ CatalogueSeen'
    BY <1>0, <2>1 DEF MailOK, CatalogueSeen
  <2>3. CASE Notified
    BY <1>0, <2>2, <2>3 DEF Informed, Notified, Listening
  <2>4. CASE psa'.counter = psa.counter /\ inbox' = inbox /\ silent' = silent
    BY <1>0, <2>2, <2>4 DEF ToldInv, Informed, Listening, Level
  <2> QED BY <2>1, <2>2, <2>3, <2>4
<1>2. CASE silent' = silent \cup {"platform"} /\ UNCHANGED <<psa, inbox, budget>>
  BY <1>0, <1>2 DEF ToldInv, MailOK, Informed, CatalogueSeen, Listening, Level
<1> QED BY <1>1, <1>2 DEF RelayRebuild

LEMMA AdminStopTells == ASSUME ToldInv, AdminStop PROVE MailOK' /\ Informed' /\ CatalogueSeen'
<1>1. ~ psa'.up /\ relay' = 0 /\ UNCHANGED <<inbox, missed>>
  BY DEF AdminStop, Stopped, consumerVars
<1> QED BY <1>1 DEF ToldInv, MailOK, Informed, CatalogueSeen

-----------------------------------------------------------------------------
(* A pull: whoever pulls holds an answer of psa's version, or has missed it *)
LEMMA PullTells ==
    ASSUME ToldInv, NEW c \in Consumers, NEW th \in Threads,
           NEW seen \in [Consumers -> Nat], \A d \in Consumers : d # c => seen[d] = inbox[d],
           Pull(c, th, seen), UNCHANGED <<catalog, relay>>,
           \A d \in Consumers : d # c => cache'[d] = cache[d]
    PROVE  MailOK' /\ Informed' /\ CatalogueSeen'
<1>0. /\ resp \in [Consumers -> [Threads -> Built1 \cup {None}]] /\ cache \in [Consumers -> CacheState]
      /\ missed \in [Consumers -> BOOLEAN] /\ relay' \in Nat
  BY DEF ToldInv, ConfigInv, ConsumersOK, MailOK
<1>1. \A d \in Consumers : d # c => resp'[d] = resp[d] /\ missed'[d] = missed[d]
  BY <1>0 DEF Pull
<1>2. CASE /\ inbox' = seen
           /\ missed' = [missed EXCEPT ![c] = @ \/ psa.up]
           /\ UNCHANGED <<psa, resp, silent, budget>>
  <2>1. MailOK' /\ CatalogueSeen' /\ (psa.up => missed'[c])
    BY <1>0, <1>2 DEF ToldInv, MailOK, CatalogueSeen
  <2>2. ASSUME psa.up, NEW d \in Consumers, d # c, Listening(d)' PROVE Told(d)'
    BY <1>1, <1>2, <2>2, StayTold DEF ToldInv, Informed, Told, Listening
  <2> QED BY <1>2, <2>1, <2>2 DEF Informed, Told
<1>3. ASSUME NEW fetched \in {catalog, Unset}, psa.up, buildFullSnapshot(fetched, seen),
             \/ /\ resp' = [resp EXCEPT ![c][th] = Built(Content(fetched))]
                /\ missed' = [missed EXCEPT ![c] = FALSE]
             \/ missed' = [missed EXCEPT ![c] = TRUE] /\ resp' = resp
      PROVE  MailOK' /\ Informed' /\ CatalogueSeen'
  <2>1. /\ inbox' \in [Consumers -> Nat] /\ SamePlatform
        /\ psa'.counter = Built(Content(fetched)).version
        /\ psa'.cached.content.actions = fetched
        /\ Notified \/ (psa'.counter = psa.counter /\ inbox' = seen /\ silent' = silent)
    BY <1>3, BuildNotifies DEF ToldInv
  <2>2. MailOK' /\ CatalogueSeen'
    BY <1>0, <1>3, <2>1 DEF MailOK, CatalogueSeen
  <2>3. Told(c)'
    <3>1. CASE missed' = [missed EXCEPT ![c] = TRUE]
      BY <1>0, <3>1 DEF Told
    <3>2. CASE resp' = [resp EXCEPT ![c][th] = Built(Content(fetched))]
      <4>1. Built(Content(fetched)) \in Built1
        BY <1>3, BuildKeepsPsa DEF ToldInv, ConfigInv, buildFullSnapshot, AfterBuild, Built, PsaOK, Content,
           Built1, Snapshot, Unchanged, Stopped, None
      <4>2. Built(Content(fetched)) # None /\ Built(Content(fetched)).version \in Nat
        BY <4>1, BuiltType
      <4>3. resp'[c][th] = Built(Content(fetched))
        BY <1>0, <3>2
      <4> QED BY <2>1, <4>2, <4>3 DEF Told, Level
    <3> QED BY <1>3, <3>1, <3>2
  <2>4. ASSUME NEW d \in Consumers, d # c, Listening(d)' PROVE Told(d)'
    <3>1. CASE Notified
      BY <2>4, <3>1 DEF Notified, Told, Listening
    <3>2. CASE psa'.counter = psa.counter /\ inbox' = seen /\ silent' = silent
      BY <1>1, <1>3, <2>4, <3>2, StayTold DEF ToldInv, Informed, Told, Listening
    <3> QED BY <2>1, <3>1, <3>2
  <2> QED BY <2>2, <2>3, <2>4 DEF Informed, Told
<1> QED BY <1>2, <1>3 DEF Pull

LEMMA BootPullTells ==
    ASSUME ToldInv, NEW c \in Consumers, BootPull(c) PROVE MailOK' /\ Informed' /\ CatalogueSeen'
<1>1. /\ Pull(c, "boot", inbox) /\ UNCHANGED <<catalog, relay>>
      /\ cache' = [cache EXCEPT ![c].phase = "up"] /\ inbox \in [Consumers -> Nat]
  BY DEF BootPull, ToldInv, MailOK
<1>2. \A d \in Consumers : d # c => cache'[d] = cache[d]
  BY <1>1 DEF ToldInv, ConfigInv, ConsumersOK, CacheState
<1> QED BY <1>1, <1>2, PullTells DEF Threads

LEMMA HandleMessageTells ==
    ASSUME ToldInv, NEW c \in Consumers, HandleMessage(c) PROVE MailOK' /\ Informed' /\ CatalogueSeen'
<1> DEFINE seen == [inbox EXCEPT ![c] = @ - 1]
<1>1. Pull(c, "nats", seen) /\ UNCHANGED <<catalog, relay, cache>> /\ inbox[c] > 0
  BY DEF HandleMessage
<1>2. seen \in [Consumers -> Nat] /\ \A d \in Consumers : d # c => seen[d] = inbox[d]
  BY <1>1 DEF ToldInv, MailOK
<1> HIDE DEF seen
<1> QED BY <1>1, <1>2, PullTells DEF Threads


LEMMA SubscribeTells ==
    ASSUME ToldInv, NEW c \in Consumers, Subscribe(c) PROVE MailOK' /\ Informed' /\ CatalogueSeen'
<1>1. /\ UNCHANGED <<catalog, relay, psa, inbox, resp, missed, silent>>
      /\ cache' = [cache EXCEPT ![c].phase = "subscribed"] /\ cache \in [Consumers -> CacheState]
  BY DEF Subscribe, adminVars, ToldInv, ConfigInv, ConsumersOK
<1>2. cache'[c].phase = "subscribed" /\ \A d \in Consumers : d # c => cache'[d] = cache[d]
  BY <1>1 DEF CacheState
<1>3. ASSUME psa.up, NEW d \in Consumers, Listening(d)' PROVE Told(d)'
  <2>1. CASE d = c
    BY <1>2, <2>1 DEF Told
  <2>2. CASE d # c
    BY <1>1, <1>2, <1>3, <2>2, StayTold DEF ToldInv, Informed, Told, Listening
  <2> QED BY <2>1, <2>2
<1> QED BY <1>1, <1>3 DEF ToldInv, MailOK, CatalogueSeen, Informed, Told

LEMMA ConsumerStopTells ==
    ASSUME ToldInv, NEW c \in Consumers, ConsumerStop(c) PROVE MailOK' /\ Informed' /\ CatalogueSeen'
<1>0. /\ cache \in [Consumers -> CacheState] /\ inbox \in [Consumers -> Nat]
      /\ missed \in [Consumers -> BOOLEAN] /\ resp \in [Consumers -> [Threads -> Built1 \cup {None}]]
  BY DEF ToldInv, MailOK, ConfigInv, ConsumersOK
<1>1. /\ UNCHANGED <<catalog, relay, psa, silent>>
      /\ cache'[c].phase = "down" /\ inbox' \in [Consumers -> Nat] /\ missed' \in [Consumers -> BOOLEAN]
      /\ \A d \in Consumers : d # c => /\ cache'[d] = cache[d] /\ inbox'[d] = inbox[d]
                                       /\ resp'[d] = resp[d] /\ missed'[d] = missed[d]
  BY <1>0 DEF ConsumerStop, adminVars, Empty
<1>2. ASSUME psa.up, NEW d \in Consumers, Listening(d)' PROVE Told(d)'
  <2>1. d # c
    BY <1>1, <1>2 DEF Listening
  <2> QED BY <1>1, <1>2, <2>1, StayTold DEF ToldInv, Informed, Told, Listening
<1> QED BY <1>1, <1>2 DEF ToldInv, MailOK, CatalogueSeen, Informed, Told

(* updateFromSnapshot keeps the higher version, so a level consumer is      *)
(* level once the answer is applied or refused.                             *)
LEMMA UpdateTells ==
    ASSUME ToldInv, NEW c \in Consumers, NEW th \in Threads, updateFromSnapshot(c, th)
    PROVE  MailOK' /\ Informed' /\ CatalogueSeen'
<1>0. /\ cache \in [Consumers -> CacheState] /\ resp \in [Consumers -> [Threads -> Built1 \cup {None}]]
      /\ PsaOK
  BY DEF ToldInv, ConfigInv, ConsumersOK
<1>1. /\ UNCHANGED <<catalog, relay, psa, inbox, missed, silent>>
      /\ resp[c][th] \in Built1 /\ resp' = [resp EXCEPT ![c][th] = None]
  BY <1>0 DEF updateFromSnapshot, adminVars
<1>2. PICK s : s = resp[c][th]
  OBVIOUS
<1>3. PICK old : old = cache[c].version
  OBVIOUS
<1>4. s.version \in Nat /\ old \in Nat \cup {Unset}
  BY <1>0, <1>1, <1>2, <1>3, BuiltType DEF CacheState
<1>5. /\ \A d \in Consumers : d # c => cache'[d] = cache[d]
      /\ cache'[c].phase = cache[c].phase
      /\ cache'[c].version = IF s.version > old THEN s.version ELSE old
  <2>1. CASE Accepts(c, s)
    <3>1. cache' = [cache EXCEPT ![c].version = s.version, ![c].content = s.content]
      BY <1>2, <2>1 DEF updateFromSnapshot
    <3>2. s.version > old
      BY <1>3, <2>1 DEF Accepts
    <3> QED BY <1>0, <3>1, <3>2 DEF CacheState
  <2>2. CASE ~ Accepts(c, s)
    BY <1>2, <1>3, <2>2 DEF updateFromSnapshot, Accepts
  <2> QED BY <2>1, <2>2
<1>6. /\ \A d \in Consumers : d # c => resp'[d] = resp[d]
      /\ \A t \in Threads : t # th => resp'[c][t] = resp[c][t]
  BY <1>0, <1>1
<1>7. ASSUME psa.up, NEW d \in Consumers, Listening(d)' PROVE Told(d)'
  <2>1. Told(d)
    BY <1>1, <1>5, <1>7 DEF ToldInv, Informed, Told, Listening
  <2>2. CASE d # c
    BY <1>1, <1>5, <1>6, <2>1, <2>2, StayTold
  <2>3. CASE d = c /\ Level(c)
    <3>1. psa.counter \in Nat
      BY <1>0, <1>7, BuiltType DEF PsaOK, Stopped
    <3>2. CASE old >= psa.counter \/ s.version >= psa.counter
      <4>1. cache'[c].version >= psa.counter
        BY <1>4, <1>5, <3>1, <3>2 DEF Unset
      <4> QED BY <1>1, <2>3, <4>1 DEF Told, Level
    <3>3. CASE \E t \in Threads : t # th /\ resp[c][t] # None /\ resp[c][t].version >= psa.counter
      BY <1>1, <1>6, <2>3, <3>3 DEF Told, Level
    <3> QED BY <1>2, <1>3, <2>3, <3>2, <3>3 DEF Level
  <2>4. CASE d = c /\ ~ Level(c)
    BY <1>1, <1>5, <2>1, <2>4 DEF Told
  <2> QED BY <2>2, <2>3, <2>4
<1> QED BY <1>1, <1>7 DEF ToldInv, MailOK, CatalogueSeen, Informed, Told

LEMMA ToldNext == ToldInv /\ [Next]_vars => ToldInv'
<1> SUFFICES ASSUME ToldInv, [Next]_vars PROVE MailOK' /\ Informed' /\ CatalogueSeen' /\ ConfigInv'
  BY DEF ToldInv
<1>1. CASE UNCHANGED vars
  <2>1. UNCHANGED <<catalog, relay, psa, cache, inbox, resp, missed, silent>>
    BY <1>1 DEF vars, adminVars, consumerVars
  <2> QED BY <1>1, <2>1, StillTells, ConfigStill DEF ToldInv
<1>2. CASE Next
  <2>1. ConfigInv'
    BY <1>2, ConfigNext DEF ToldInv
  <2>2. CASE CommitChange
    BY <2>1, <2>2, StillTells DEF CommitChange, consumerVars
  <2>3. ASSUME NEW c \in Consumers, ConsumerStep(c) \/ ConsumerStop(c)
        PROVE  MailOK' /\ Informed' /\ CatalogueSeen'
    BY <2>3, SubscribeTells, BootPullTells, HandleMessageTells, UpdateTells, ConsumerStopTells
    DEF ConsumerStep
  <2> QED BY <1>2, <2>1, <2>2, <2>3, ChangeModelTells, AdminStartTells, AdminStopTells,
             CatalogChangeTells, RelayRebuildTells DEF Next
<1> QED BY <1>1, <1>2

LEMMA ToldInit == Init => ToldInv
  BY ConfigInit DEF Init, ToldInv, MailOK, Informed, CatalogueSeen, Stopped

(* A consumer behind psm-admin has a message, an answer or a first pull to  *)
(* come, unless a pull or the last announcement failed: for any number of   *)
(* consumers, changes, outages and restarts of either side.                 *)
THEOREM ConsumersAreInformed == Spec => []Informed
<1>1. ToldInv => Informed
  BY DEF ToldInv
<1> QED BY <1>1, ToldInit, ToldNext, PTL DEF Spec

(* psm-admin's snapshot has the current catalogue or none, or the relay has *)
(* an announcement to handle, unless the last announcement was lost.        *)
THEOREM CatalogueIsSeen == Spec => []CatalogueSeen
<1>1. ToldInv => CatalogueSeen
  BY DEF ToldInv
<1> QED BY <1>1, ToldInit, ToldNext, PTL DEF Spec
=============================================================================
