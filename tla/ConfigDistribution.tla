------------------------- MODULE ConfigDistribution -------------------------
(***************************************************************************)
(* How a metamodel change in psm-admin (service code psa) reaches the      *)
(* configuration caches of its consumers.                                  *)
(*                                                                         *)
(* An admin operation writes the database, announces CONFIG_CHANGED on     *)
(* NATS and only then commits, because the announcement is a plain Spring  *)
(* event listener inside the @Transactional method; a pull may therefore   *)
(* overtake the commit it was announced for.  A consumer that hears it     *)
(* pulls a snapshot; psa builds the snapshot from its database and from    *)
(* the action catalogue it fetches from platform-api, raises its version   *)
(* when the content differs from the last one it built, and announces that *)
(* too.  psa also rebuilds when platform-api announces a catalogue change. *)
(* A consumer keeps a snapshot only when its version is above its own.     *)
(*                                                                         *)
(* Failures are logged and nothing is tried again: a publication that NATS *)
(* refuses, a pull that fails, a rebuild that throws.  Two history         *)
(* variables, missed and silent, remember them.                            *)
(***************************************************************************)
EXTENDS Naturals, Integers, FiniteSets

CONSTANTS
    Consumers,          \* instances with a ConfigCache (psm-api)
    MaxEdits,           \* bound: metamodel changes
    MaxCatalogChanges,  \* bound: registrations that change the catalogue
    MaxOutages,         \* bound: snapshots built while platform-api is away
    MaxAdminRestarts,   \* bound: restarts of psm-admin
    MaxRestarts         \* bound: restarts of consumers

ASSUME ConsumersAssumption == IsFiniteSet(Consumers)
ASSUME ConfigBounds ==
    {MaxEdits, MaxCatalogChanges, MaxOutages, MaxAdminRestarts, MaxRestarts} \subseteq Nat

VARIABLES
    db,         \* the committed metamodel, as the number of its last change
    pending,    \* the change whose database transaction has not committed, or 0
    catalog,    \* platform-api's action catalogue, as the number of its last change
    relay,      \* CONFIG_CHANGED messages of platform-api psa has not handled
    psa,        \* psm-admin's memory: up, versionCounter, cachedSnapshot
    cache,      \* each consumer: phase and ConfigCache
    inbox,      \* CONFIG_CHANGED messages not yet handled by each consumer
    resp,       \* the snapshot each pulling thread of a consumer has received
    missed,     \* history: the consumer's last pull failed though psa was up
    silent,     \* history: whose last announcement had no effect ("psa", "platform")
    budget      \* what is left of the bounds

adminVars == <<db, pending, catalog, relay, psa>>
consumerVars == <<cache, inbox, resp, missed>>
vars == <<adminVars, consumerVars, silent, budget>>

Threads == {"boot", "nats"}   \* SmartLifecycle.start, and the NATS dispatcher
None == [version |-> 0]       \* no snapshot
Unset == -1                   \* snapshotVersion before the first snapshot
NoContent == [model |-> Unset, actions |-> Unset]

(* A snapshot's content: the metamodel and the actions fetched from         *)
(* platform-api, Unset for the empty lists safeFetchPlatformSnapshot        *)
(* returns when it cannot be reached.                                       *)
Content(fetched) == [model |-> db, actions |-> fetched]
Current == Content(catalog)

Empty == [phase |-> "down", version |-> Unset, content |-> NoContent]
Stopped == [up |-> FALSE, counter |-> 0, cached |-> None]
Listening(c) == cache[c].phase # "down"

Init ==
    /\ db = 0
    /\ pending = 0
    /\ catalog = 0
    /\ relay = 0
    /\ psa = Stopped
    /\ cache = [c \in Consumers |-> Empty]
    /\ inbox = [c \in Consumers |-> 0]
    /\ resp = [c \in Consumers |-> [th \in Threads |-> None]]
    /\ missed = [c \in Consumers |-> FALSE]
    /\ silent = {}
    /\ budget = [edits |-> MaxEdits, catalog |-> MaxCatalogChanges, outages |-> MaxOutages,
                 admin |-> MaxAdminRestarts, consumers |-> MaxRestarts]

Spend(what) == budget[what] > 0 /\ budget' = [budget EXCEPT ![what] = @ - 1]

(* onConfigChanged: sendInternal("psa", "CONFIG_CHANGED") over core NATS, to *)
(* those subscribed now; a failure is logged.                                *)
onConfigChanged(inboxSeen) ==
    \/ /\ inbox' = [c \in Consumers |-> inboxSeen[c] + (IF Listening(c) THEN 1 ELSE 0)]
       /\ silent' = silent \ {"psa"}
    \/ /\ inbox' = inboxSeen
       /\ silent' = silent \cup {"psa"}

(* safeFetchPlatformSnapshot succeeds, or platform-api is away *)
safeFetchPlatformSnapshot(fetched) ==
    \/ fetched = catalog /\ UNCHANGED budget
    \/ fetched = Unset /\ Spend("outages")

(* buildFullSnapshot (synchronized) *)
Unchanged(content) == psa.cached # None /\ psa.cached.content = content
(* Fault: the version is not raised. *)
BuiltSameVersion(content) ==
    [version |-> IF psa.cached = None THEN 1 ELSE psa.counter, content |-> content]
Built(content) ==
    IF Unchanged(content) THEN psa.cached
    ELSE [version |-> psa.counter + 1, content |-> content]
AfterBuild(content) ==
    [up |-> TRUE, counter |-> Built(content).version, cached |-> Built(content)]
buildFullSnapshot(fetched, inboxSeen) ==
    /\ safeFetchPlatformSnapshot(fetched)
    /\ psa' = AfterBuild(Content(fetched))
    /\ \/ Unchanged(Content(fetched)) /\ inbox' = inboxSeen /\ UNCHANGED silent
       \/ ~ Unchanged(Content(fetched)) /\ onConfigChanged(inboxSeen)

-----------------------------------------------------------------------------
(* psm-admin *)

(* An admin operation up to its end: the change is announced, not visible. *)
ChangeModel ==
    /\ psa.up
    /\ pending = 0
    /\ Spend("edits")
    /\ pending' = db + 1
    /\ onConfigChanged(inbox)
    /\ UNCHANGED <<db, catalog, relay, psa, cache, resp, missed>>

(* Its database transaction commits. *)
CommitChange ==
    /\ pending # 0
    /\ db' = pending
    /\ pending' = 0
    /\ UNCHANGED <<catalog, relay, psa, consumerVars, silent, budget>>

(* Fault: the first snapshot is not announced. *)
AdminStartSilent ==
    /\ ~ psa.up
    /\ \E fetched \in {catalog, Unset} :
          safeFetchPlatformSnapshot(fetched) /\ psa' = AfterBuild(Content(fetched))
    /\ UNCHANGED <<db, pending, catalog, relay, consumerVars, silent>>

(* announceReady: psm-admin comes up and builds its first snapshot. *)
AdminStart ==
    /\ ~ psa.up
    /\ \E fetched \in {catalog, Unset} : buildFullSnapshot(fetched, inbox)
    /\ UNCHANGED <<db, pending, catalog, relay, cache, resp, missed>>

(* platform-api: a registration changes the catalogue, which is announced   *)
(* once it is stored; a failure to publish is logged.                       *)
CatalogChange ==
    /\ Spend("catalog")
    /\ catalog' = catalog + 1
    /\ \/ relay' = relay + (IF psa.up THEN 1 ELSE 0) /\ silent' = silent \ {"platform"}
       \/ relay' = relay /\ silent' = silent \cup {"platform"}
    /\ UNCHANGED <<db, pending, psa, consumerVars>>

(* Fault: the announcement of platform-api is not acted upon. *)
RelayIgnored ==
    /\ psa.up
    /\ relay > 0
    /\ relay' = relay - 1
    /\ UNCHANGED <<db, pending, catalog, psa, consumerVars, silent, budget>>

(* PlatformConfigRelay rebuilds eagerly; a rebuild that throws is dropped. *)
RelayRebuild ==
    /\ psa.up
    /\ relay > 0
    /\ relay' = relay - 1
    /\ \/ \E fetched \in {catalog, Unset} : buildFullSnapshot(fetched, inbox)
       \/ silent' = silent \cup {"platform"} /\ UNCHANGED <<psa, inbox, budget>>
    /\ UNCHANGED <<db, pending, catalog, cache, resp, missed>>

(* psm-admin ends: versionCounter and cachedSnapshot were only in memory. *)
AdminStop ==
    /\ psa.up
    /\ pending = 0
    /\ Spend("admin")
    /\ psa' = Stopped
    /\ relay' = 0
    /\ UNCHANGED <<db, pending, catalog, consumerVars, silent>>

-----------------------------------------------------------------------------
(* A consumer *)

(* start: subscribe to CONFIG_CHANGED before the first pull *)
Subscribe(c) ==
    /\ cache[c].phase = "down"
    /\ cache' = [cache EXCEPT ![c].phase = "subscribed"]
    /\ UNCHANGED <<adminVars, inbox, resp, missed, silent, budget>>

ConsumerStop(c) ==
    /\ Listening(c)
    /\ Spend("consumers")
    /\ cache' = [cache EXCEPT ![c] = Empty]
    /\ inbox' = [inbox EXCEPT ![c] = 0]
    /\ resp' = [resp EXCEPT ![c] = [th \in Threads |-> None]]
    /\ missed' = [missed EXCEPT ![c] = FALSE]
    /\ UNCHANGED <<adminVars, silent>>

(* GET /internal/config/snapshot: psa builds, perhaps announcing, and       *)
(* answers.  The request or its answer may be lost: a failed pull is logged *)
(* and not tried again.                                                     *)
Pull(c, th, inboxSeen) ==
    /\ resp[c][th] = None
    /\ \/ /\ inbox' = inboxSeen
          /\ missed' = [missed EXCEPT ![c] = @ \/ psa.up]
          /\ UNCHANGED <<psa, resp, silent, budget>>
       \/ \E fetched \in {catalog, Unset} :
          /\ psa.up
          /\ buildFullSnapshot(fetched, inboxSeen)
          /\ \/ /\ resp' = [resp EXCEPT ![c][th] = Built(Content(fetched))]
                /\ missed' = [missed EXCEPT ![c] = FALSE]
             \/ /\ missed' = [missed EXCEPT ![c] = TRUE]
                /\ UNCHANGED resp

BootPull(c) ==
    /\ cache[c].phase = "subscribed"
    /\ cache' = [cache EXCEPT ![c].phase = "up"]
    /\ Pull(c, "boot", inbox)
    /\ UNCHANGED <<db, pending, catalog, relay>>

(* The NATS dispatcher handles one message at a time. *)
HandleMessage(c) ==
    /\ inbox[c] > 0
    /\ Pull(c, "nats", [inbox EXCEPT ![c] = @ - 1])
    /\ UNCHANGED <<db, pending, catalog, relay, cache>>

(* Faults: the version is not compared, or must be higher by two. *)
AcceptsAny(c, snapshot) == TRUE
AcceptsLater(c, snapshot) == snapshot.version > cache[c].version + 1

(* updateFromSnapshot: keeps the snapshot only when its version is higher *)
Accepts(c, snapshot) == snapshot.version > cache[c].version
updateFromSnapshot(c, th) ==
    /\ resp[c][th] # None
    /\ resp' = [resp EXCEPT ![c][th] = None]
    /\ cache' = IF Accepts(c, resp[c][th])
                THEN [cache EXCEPT ![c].version = resp[c][th].version,
                                   ![c].content = resp[c][th].content]
                ELSE cache
    /\ UNCHANGED <<adminVars, inbox, missed, silent, budget>>

ConsumerStep(c) ==
    \/ Subscribe(c) \/ BootPull(c) \/ HandleMessage(c)
    \/ \E th \in Threads : updateFromSnapshot(c, th)

Next ==
    \/ ChangeModel \/ CommitChange \/ AdminStart \/ AdminStop
    \/ CatalogChange \/ RelayRebuild
    \/ \E c \in Consumers : ConsumerStep(c) \/ ConsumerStop(c)

(* Services are restarted by their container, admin operations end, and a   *)
(* consumer's threads keep taking messages and applying what they pulled.   *)
Spec ==
    /\ Init /\ [][Next]_vars
    /\ WF_vars(CommitChange) /\ WF_vars(AdminStart) /\ WF_vars(RelayRebuild)
    /\ \A c \in Consumers :
         /\ WF_vars(Subscribe(c)) /\ WF_vars(BootPull(c)) /\ WF_vars(HandleMessage(c))
         /\ \A th \in Threads : WF_vars(updateFromSnapshot(c, th))

-----------------------------------------------------------------------------
(* Snapshots, caches and budgets keep their shape. *)
Snapshot == [version : Nat, content : [model : Nat, actions : Nat \cup {Unset}]]
TypeOK ==
    /\ db \in Nat /\ pending \in {0, db + 1}
    /\ catalog \in Nat /\ relay \in Nat /\ silent \subseteq {"psa", "platform"}
    /\ psa.cached = None \/ psa.cached \in Snapshot
    /\ \A c \in Consumers :
         /\ cache[c].phase \in {"down", "subscribed", "up"}
         /\ inbox[c] \in Nat /\ missed[c] \in BOOLEAN
         /\ cache[c].version = Unset \/
              [version |-> cache[c].version, content |-> cache[c].content] \in Snapshot
         /\ \A th \in Threads : resp[c][th] = None \/ resp[c][th] \in Snapshot

(* Versions count within one life of psm-admin. *)
FirstLife == budget.admin = MaxAdminRestarts

(* Within one life of psm-admin a version number names one content: caches, *)
(* answers in flight and psa itself never disagree about it, and the        *)
(* highest version is the one psa holds.                                    *)
Holdings == {[version |-> cache[c].version, content |-> cache[c].content] :
                c \in {d \in Consumers : cache[d].version # Unset}}
            \cup ({resp[c][th] : c \in Consumers, th \in Threads} \ {None})
VersionNamesContent ==
    FirstLife =>
        \A s \in Holdings :
            /\ psa.up => s.version <= psa.counter
            /\ \A r \in Holdings \cup ({psa.cached} \ {None}) :
                  s.version = r.version => s.content = r.content

(* A running consumer never goes back to an older metamodel, although the   *)
(* answers of its two pulling threads can arrive in either order, until     *)
(* psm-admin is restarted.                                                  *)
NeverGoesBack ==
    [][\A c \in Consumers :
         /\ FirstLife
         /\ Listening(c) /\ cache[c].version # Unset /\ cache'[c].version # Unset
         => cache'[c].content.model >= cache[c].content.model]_vars

(* A consumer behind psm-admin always has a reason to pull, or one of the   *)
(* two losses nobody makes good has happened: its pull failed, or the last  *)
(* announcement was not published.  Subscribing before the first pull, the  *)
(* announcement of psm-admin's start and that of every new version leave no *)
(* gap, whatever is restarted and whichever thread pulls.                   *)
Level(c) ==
    \/ cache[c].version >= psa.counter
    \/ \E th \in Threads : resp[c][th] # None /\ resp[c][th].version >= psa.counter
Informed ==
    psa.up => \A c \in Consumers : Listening(c) =>
        \/ Level(c)
        \/ inbox[c] > 0
        \/ cache[c].phase = "subscribed"
        \/ missed[c]
        \/ "psa" \in silent

(* psm-admin's snapshot has the current catalogue, or the empty one of a    *)
(* failed fetch, or the relay has an announcement to handle; unless the     *)
(* last announcement was not published or its rebuild threw.                *)
CatalogueSeen ==
    psa.up => \/ psa.cached.content.actions \in {catalog, Unset}
              \/ relay > 0
              \/ "platform" \in silent

(* Once changes stop, every running consumer whose last pull succeeded      *)
(* reaches psm-admin's version, unless its last announcement was lost.      *)
CatchesUp ==
    <>[](psa.up /\ "psa" \notin silent =>
            \A c \in Consumers : Listening(c) /\ ~ missed[c] => cache[c].version >= psa.counter)

-----------------------------------------------------------------------------
(* What the comments promise *)

(* "notify consumers so they converge": once changes stop, a running        *)
(* consumer ends up with the committed metamodel and the current catalogue, *)
(* at least if no pull and no announcement failed.                          *)
Converges ==
    <>[](silent = {} => \A c \in Consumers :
            Listening(c) /\ ~ missed[c] => cache[c].content = Current)

(* "pull with backoff": a running consumer ends up with a snapshot, at      *)
(* least if no announcement failed.  It does not hold, because a pull that  *)
(* fails is not tried again (see README.md).                                *)
Configured ==
    <>[](silent = {} => \A c \in Consumers : Listening(c) => cache[c].version # Unset)
=============================================================================
