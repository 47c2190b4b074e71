----------------------------- MODULE MeshCache -----------------------------
(***************************************************************************)
(* A worker of the 3D viewer (frontend/src/workers/stepWorker.js): parts   *)
(* come from memory, from a fetch already under way, from IndexedDB, or    *)
(* from the network, in this order.                                        *)
(*                                                                         *)
(* The test for a fetch under way and the note that there is one are       *)
(* separated by the read of IndexedDB.  Messages to the page name the part *)
(* and not the load, so one answer serves every load of the part.  The     *)
(* pool sends all loads of a part to one worker (stepWorkerInstance.js),   *)
(* and this is the model of one.                                           *)
(***************************************************************************)
EXTENDS Naturals, Sequences, FiniteSets, FiniteSetsExt

CONSTANTS
    Uuids,      \* parts
    Size,       \* bytes of the meshes of each part
    Limits,     \* values of MAX_BYTES
    Loads,      \* messages "load", used once
    MaxOrders,  \* bound: messages "clear" and "setMaxBytes"
    None        \* undefined

ASSUME MeshAssumption ==
    /\ Size \in [Uuids -> Nat \ {0}]
    /\ Limits \subseteq Nat
    /\ MaxOrders \in Nat
    /\ None \notin Uuids \cup Loads

VARIABLES
    lru,         \* the keys of _cache, by lastUsed
    cacheBytes,  \* _cacheBytes
    maxBytes,    \* MAX_BYTES
    inflight,    \* _inflight: the load whose fetch others may join
    load,        \* where each load is
    stored,      \* parts in IndexedDB
    found,       \* loads whose part was in IndexedDB when they began to read it
    owed,        \* parts the page has asked for and heard nothing about since
    overlapped,  \* has a part been loaded twice since the counters were last right?
    orders       \* orders so far

vars == <<lru, cacheBytes, maxBytes, inflight, load, stored, found, owed, overlapped, orders>>

Cached == {lru[i] : i \in DOMAIN lru}
BytesOf(S) == MapThenSumSet(LAMBDA u : Size[u], S)
NewLoad == [is |-> "new", uuid |-> None, on |-> None]

TypeOK ==
    /\ lru \in Seq(Uuids)
    /\ Len(lru) = Cardinality(Cached)
    /\ cacheBytes \in Nat
    /\ maxBytes \in Limits
    /\ inflight \in [Uuids -> Loads \cup {None}]
    /\ load \in [Loads -> [is : {"new", "idb", "fetch", "join", "done"},
                           uuid : Uuids \cup {None}, on : Loads \cup {None}]]
    /\ stored \subseteq Uuids
    /\ found \subseteq Loads
    /\ owed \subseteq Uuids
    /\ overlapped \in BOOLEAN
    /\ orders \in 0 .. MaxOrders

(* The page was opened before: IndexedDB may hold any parts.                *)
Init ==
    /\ lru = <<>> /\ cacheBytes = 0
    /\ maxBytes \in Limits
    /\ inflight = [u \in Uuids |-> None]
    /\ load = [l \in Loads |-> NewLoad]
    /\ stored \in SUBSET Uuids
    /\ found = {}
    /\ owed = {}
    /\ overlapped = FALSE
    /\ orders = 0

-----------------------------------------------------------------------------
(* The cache is a map: a part has one entry.                                *)
Without(s, u) ==
    IF \A i \in DOMAIN s : s[i] # u THEN s
    ELSE LET at == CHOOSE i \in DOMAIN s : s[i] = u
         IN  [i \in 1 .. (Len(s) - 1) |-> IF i < at THEN s[i] ELSE s[i + 1]]
Oldest(k) == {lru[i] : i \in 1 .. k}

(* evict: the least recently used entries go until needed bytes fit, or     *)
(* none is left.                                                            *)
Victims(needed, max) ==
    Min({k \in 0 .. Len(lru) : k = Len(lru) \/ cacheBytes + needed <= max + BytesOf(Oldest(k))})

evict(needed, max) ==
    LET k == Victims(needed, max)
    IN  [lru |-> SubSeq(lru, k + 1, Len(lru)), bytes |-> cacheBytes - BytesOf(Oldest(k))]

(* The fault of counting an entry that does not fit.                        *)
InsertFault(u) ==
    LET e == evict(Size[u], maxBytes)
    IN  /\ lru' = IF e.bytes + Size[u] <= maxBytes THEN Append(Without(e.lru, u), u) ELSE e.lru
        /\ cacheBytes' = e.bytes + Size[u]

(* Meshes enter the cache if they fit; an entry of the same part is         *)
(* replaced, its bytes stay counted.                                        *)
Insert(u) ==
    LET e == evict(Size[u], maxBytes)
    IN  IF e.bytes + Size[u] <= maxBytes
        THEN lru' = Append(Without(e.lru, u), u) /\ cacheBytes' = e.bytes + Size[u]
        ELSE lru' = e.lru /\ cacheBytes' = e.bytes

(* idbPut may fail.                                                         *)
idbPut(u) == stored' \in {stored, stored \cup {u}}

(* Loads of a part that are past the in-flight test.                        *)
Past(u) == {l \in Loads : load[l].uuid = u /\ load[l].is \in {"idb", "fetch"}}

(* loadPart, to its first await.                                            *)
loadPart(l, u) ==
    /\ load[l] = NewLoad
    /\ \/ /\ u \in Cached
          /\ lru' = Append(Without(lru, u), u)
          /\ load' = [load EXCEPT ![l] = [is |-> "done", uuid |-> u, on |-> None]]
          /\ owed' = owed \ {u}
          /\ UNCHANGED <<overlapped, found>>
       \/ /\ u \notin Cached /\ inflight[u] # None
          /\ load' = [load EXCEPT ![l] = [is |-> "join", uuid |-> u, on |-> inflight[u]]]
          /\ owed' = owed \cup {u}
          /\ UNCHANGED <<lru, overlapped, found>>
       \/ /\ u \notin Cached /\ inflight[u] = None
          /\ load' = [load EXCEPT ![l] = [is |-> "idb", uuid |-> u, on |-> None]]
          /\ owed' = owed \cup {u}
          /\ overlapped' = (overlapped \/ Past(u) # {})
          /\ found' = IF u \in stored THEN found \cup {l} ELSE found
          /\ UNCHANGED lru
    /\ UNCHANGED <<cacheBytes, maxBytes, inflight, stored, orders>>

(* idbGet found the part: it was there when the read began, even if "clear" *)
(* has emptied IndexedDB since, or has been put there in the meantime.      *)
IdbHit(l) ==
    LET u == load[l].uuid
    IN  /\ load[l].is = "idb" /\ (l \in found \/ u \in stored)
        /\ Insert(u)
        /\ idbPut(u)
        /\ load' = [load EXCEPT ![l].is = "done"]
        /\ owed' = owed \ {u}
        /\ found' = found \ {l}
        /\ UNCHANGED <<maxBytes, inflight, overlapped, orders>>

(* It did not, or failed: the fetch begins, and others may join it.         *)
IdbMiss(l) ==
    /\ load[l].is = "idb"
    /\ load' = [load EXCEPT ![l].is = "fetch"]
    /\ inflight' = [inflight EXCEPT ![load[l].uuid] = l]
    /\ found' = found \ {l}
    /\ UNCHANGED <<lru, cacheBytes, maxBytes, stored, owed, overlapped, orders>>

(* The loads that end when the fetch of l ends: l and those that joined it. *)
Ended(l) == [k \in Loads |-> IF k = l \/ (load[k].is = "join" /\ load[k].on = l)
                             THEN [load[k] EXCEPT !.is = "done"] ELSE load[k]]

(* _fetchAndParse succeeds: cached, stored, answered; whatever fetch of the *)
(* part is noted is forgotten.  A load that joined finds the part in the    *)
(* cache or says nothing: the page has been answered.                       *)
FetchDone(l) ==
    LET u == load[l].uuid
    IN  /\ load[l].is = "fetch"
        /\ Insert(u)
        /\ idbPut(u)
        /\ load' = Ended(l)
        /\ inflight' = [inflight EXCEPT ![u] = None]
        /\ owed' = owed \ {u}
        /\ UNCHANGED <<maxBytes, found, overlapped, orders>>

(* Two faults: no finally, and an error that only the log hears of.         *)
FetchFailsNotedFault(l) ==
    /\ load[l].is = "fetch"
    /\ load' = Ended(l)
    /\ owed' = owed \ {load[l].uuid}
    /\ UNCHANGED <<lru, cacheBytes, maxBytes, inflight, stored, found, overlapped, orders>>

FetchFailsSilentlyFault(l) ==
    /\ load[l].is = "fetch"
    /\ load' = Ended(l)
    /\ inflight' = [inflight EXCEPT ![load[l].uuid] = None]
    /\ UNCHANGED <<lru, cacheBytes, maxBytes, stored, found, owed, overlapped, orders>>

(* It fails: l and the loads that joined report the error.                  *)
FetchFails(l) ==
    /\ load[l].is = "fetch"
    /\ load' = Ended(l)
    /\ inflight' = [inflight EXCEPT ![load[l].uuid] = None]
    /\ owed' = owed \ {load[l].uuid}
    /\ UNCHANGED <<lru, cacheBytes, maxBytes, stored, found, overlapped, orders>>

-----------------------------------------------------------------------------
(* The message "clear", with or without IndexedDB: the counter is right     *)
(* again, unless two loads of one part are still under way.                 *)
clear(idb) ==
    /\ orders < MaxOrders
    /\ orders' = orders + 1
    /\ lru' = <<>> /\ cacheBytes' = 0
    /\ stored' = IF idb THEN {} ELSE stored
    /\ overlapped' = (\E u \in Uuids : \E k, l \in Past(u) : k # l)
    /\ UNCHANGED <<maxBytes, inflight, load, found, owed>>

(* The fault of a new limit for new entries only.                           *)
setMaxBytesFault(max) ==
    /\ orders < MaxOrders
    /\ orders' = orders + 1
    /\ maxBytes' = max
    /\ UNCHANGED <<lru, cacheBytes, inflight, load, found, stored, owed, overlapped>>

setMaxBytes(max) ==
    /\ orders < MaxOrders
    /\ orders' = orders + 1
    /\ maxBytes' = max
    /\ lru' = evict(0, max).lru
    /\ cacheBytes' = evict(0, max).bytes
    /\ UNCHANGED <<inflight, load, found, stored, owed, overlapped>>

Step(l) == IdbHit(l) \/ IdbMiss(l) \/ FetchDone(l) \/ FetchFails(l)

Next ==
    \/ \E l \in Loads : Step(l) \/ \E u \in Uuids : loadPart(l, u)
    \/ \E idb \in BOOLEAN : clear(idb)
    \/ \E max \in Limits : setMaxBytes(max)

(* IndexedDB answers, and a fetch ends with meshes or with an error.        *)
Spec == Init /\ [][Next]_vars /\ \A l \in Loads : WF_vars(Step(l))

-----------------------------------------------------------------------------
(* The meshes in memory stay within MAX_BYTES, also when the limit is       *)
(* lowered and when the counter is too high.                                *)
MemoryBounded == BytesOf(Cached) <= maxBytes

(* The counter is never below the bytes in memory, and above them only      *)
(* after two loads of one part were past the in-flight test at a time: each *)
(* counts the part, and the cache keeps it once.                            *)
CountedOnce ==
    /\ BytesOf(Cached) <= cacheBytes
    /\ ~overlapped => cacheBytes = BytesOf(Cached)

(* Nobody joins a fetch that is over.                                       *)
JoinsLiveFetch ==
    \A l \in Loads : load[l].is = "join" => /\ load[load[l].on].is = "fetch"
                                            /\ load[load[l].on].uuid = load[l].uuid

(* The viewer hears of every part it asked for: its meshes or an error,     *)
(* also for a load that joined and whose part did not stay in the cache.    *)
EveryLoadAnswered == \A u \in Uuids : u \in owed ~> u \notin owed
=============================================================================
