-------------------------- MODULE MeshCacheProofs --------------------------
(***************************************************************************)
(* For every number of parts and loads, and for parts and limits of every  *)
(* size: whoever joins a fetch of the 3D viewer's worker waits for one     *)
(* that is under way, and the meshes in memory stay within the limit and   *)
(* are counted.                                                            *)
(*                                                                         *)
(* _inflight may forget a fetch that still runs, when two loads of a part  *)
(* were past the test for one; it never remembers one that is over.  The   *)
(* same two loads make the counter too high, never too low.                *)
(***************************************************************************)
EXTENDS MeshCache, FiniteSetTheorems, SequenceTheorems, WellFoundedInduction, TLAPS

USE MeshAssumption

Fetching(ld, l, u) == l \in Loads /\ ld[l].is = "fetch" /\ ld[l].uuid = u

LoadTypeOK ==
    /\ inflight \in [Uuids -> Loads \cup {None}]
    /\ load \in [Loads -> [is : {"new", "idb", "fetch", "join", "done"},
                           uuid : Uuids \cup {None}, on : Loads \cup {None}]]

JoinInv ==
    /\ LoadTypeOK
    /\ \A u \in Uuids : inflight[u] # None => Fetching(load, inflight[u], u)
    /\ \A l \in Loads : load[l].is \in {"idb", "fetch", "join"} => load[l].uuid \in Uuids
    /\ \A l \in Loads : load[l].is = "join" => Fetching(load, load[l].on, load[l].uuid)

LEMMA InitJoin == Init => JoinInv
<1> SUFFICES ASSUME Init PROVE JoinInv
  OBVIOUS
<1>1. LoadTypeOK
  BY DEF Init, LoadTypeOK, NewLoad
<1>2. \A l \in Loads : load[l].is = "new"
  BY DEF Init, NewLoad
<1>3. \A u \in Uuids : inflight[u] = None
  BY DEF Init
<1> QED
  BY <1>1, <1>2, <1>3 DEF JoinInv

(* A load leaves the state "new", or goes from IndexedDB to its end: no     *)
(* fetch is touched.                                                        *)
LEMMA LoadMoves ==
    ASSUME JoinInv, NEW l \in Loads, load[l].is \in {"new", "idb"},
           NEW new, load' = [load EXCEPT ![l] = new],
           inflight' = inflight,
           new \in [is : {"idb", "join", "done"}, uuid : Uuids, on : Loads \cup {None}],
           new.is = "join" => inflight[new.uuid] # None /\ new.on = inflight[new.uuid]
    PROVE  JoinInv'
<1>1. LoadTypeOK'
  BY DEF JoinInv, LoadTypeOK
<1>2. \A k \in Loads : load'[k] = IF k = l THEN new ELSE load[k]
  BY DEF JoinInv, LoadTypeOK
<1>3. ASSUME NEW k, NEW u, Fetching(load, k, u) PROVE Fetching(load', k, u)
  BY <1>2, <1>3 DEF Fetching
<1>4. new.uuid \in Uuids
  OBVIOUS
<1>5. new.is = "join" => Fetching(load, new.on, new.uuid)
  BY <1>4 DEF JoinInv
<1> QED
  BY <1>1, <1>2, <1>3, <1>4, <1>5 DEF JoinInv

LEMMA LoadPartJoin ==
    ASSUME JoinInv, NEW l \in Loads, NEW u \in Uuids, loadPart(l, u) PROVE JoinInv'
<1>1. load[l].is = "new" /\ inflight' = inflight
  BY DEF loadPart, NewLoad
<1>2. inflight[u] \in Loads \cup {None}
  BY DEF JoinInv, LoadTypeOK
<1>3. PICK is \in {"idb", "join", "done"}, on \in Loads \cup {None} :
         /\ load' = [load EXCEPT ![l] = [is |-> is, uuid |-> u, on |-> on]]
         /\ is = "join" => inflight[u] # None /\ on = inflight[u]
  BY <1>2 DEF loadPart
<1> DEFINE new == [is |-> is, uuid |-> u, on |-> on]
<1>4. /\ new \in [is : {"idb", "join", "done"}, uuid : Uuids, on : Loads \cup {None}]
      /\ new.is = is /\ new.uuid = u /\ new.on = on
  OBVIOUS
<1>5. load' = [load EXCEPT ![l] = new]
  BY <1>3
<1> HIDE DEF new
<1> QED
  BY <1>1, <1>3, <1>4, <1>5, LoadMoves

LEMMA IdbHitJoin == ASSUME JoinInv, NEW l \in Loads, IdbHit(l) PROVE JoinInv'
<1>1. /\ load[l].is = "idb" /\ inflight' = inflight
      /\ load' = [load EXCEPT ![l].is = "done"]
  BY DEF IdbHit
<1> DEFINE new == [load[l] EXCEPT !.is = "done"]
<1>2. load[l] \in [is : {"new", "idb", "fetch", "join", "done"},
                   uuid : Uuids \cup {None}, on : Loads \cup {None}]
  BY DEF JoinInv, LoadTypeOK
<1>3. load[l].uuid \in Uuids
  BY <1>1 DEF JoinInv
<1>4. /\ new \in [is : {"idb", "join", "done"}, uuid : Uuids, on : Loads \cup {None}]
      /\ new.is = "done"
  BY <1>2, <1>3
<1>5. load' = [load EXCEPT ![l] = new]
  BY <1>1
<1> HIDE DEF new
<1> QED
  BY <1>1, <1>4, <1>5, LoadMoves

(* The fetch of l begins, and takes the place of a fetch of the same part.  *)
LEMMA IdbMissJoin == ASSUME JoinInv, NEW l \in Loads, IdbMiss(l) PROVE JoinInv'
<1>1. /\ load[l].is = "idb" /\ load[l].uuid \in Uuids
      /\ load' = [load EXCEPT ![l].is = "fetch"]
      /\ inflight' = [inflight EXCEPT ![load[l].uuid] = l]
  BY DEF IdbMiss, JoinInv
<1>2. LoadTypeOK'
  BY <1>1 DEF JoinInv, LoadTypeOK
<1>3. \A k \in Loads : /\ load'[k].is = IF k = l THEN "fetch" ELSE load[k].is
                       /\ load'[k].uuid = load[k].uuid /\ load'[k].on = load[k].on
  BY <1>1 DEF JoinInv, LoadTypeOK
<1>4. ASSUME NEW k, NEW u, Fetching(load, k, u) PROVE Fetching(load', k, u)
  BY <1>3, <1>4 DEF Fetching
<1>5. Fetching(load', l, load[l].uuid)
  BY <1>3 DEF Fetching
<1>6. \A u \in Uuids : inflight'[u] = IF u = load[l].uuid THEN l ELSE inflight[u]
  BY <1>1 DEF JoinInv, LoadTypeOK
<1>7. \A u \in Uuids : inflight'[u] # None => Fetching(load', inflight'[u], u)
  BY <1>4, <1>5, <1>6 DEF JoinInv
<1>8. ASSUME NEW k \in Loads, load'[k].is = "join"
      PROVE  Fetching(load', load'[k].on, load'[k].uuid)
  BY <1>3, <1>4, <1>8 DEF JoinInv
<1> QED
  BY <1>1, <1>2, <1>3, <1>7, <1>8 DEF JoinInv

(* The fetch of l ends: those who joined it end with it, those who joined   *)
(* another fetch of the part wait for that one.                             *)
LEMMA FetchEnds ==
    ASSUME JoinInv, NEW l \in Loads, load[l].is = "fetch", load' = Ended(l),
           inflight' = [inflight EXCEPT ![load[l].uuid] = None]
    PROVE  JoinInv'
<1>1. load[l].uuid \in Uuids
  BY DEF JoinInv
<1> DEFINE over(k) == k = l \/ (load[k].is = "join" /\ load[k].on = l)
<1>2. LoadTypeOK'
  <2>1. ASSUME NEW k \in Loads
        PROVE  load'[k] \in [is : {"new", "idb", "fetch", "join", "done"},
                             uuid : Uuids \cup {None}, on : Loads \cup {None}]
    BY <2>1 DEF JoinInv, LoadTypeOK, Ended
  <2>2. load' = [k \in Loads |-> load'[k]]
    BY DEF Ended
  <2> QED
    BY <2>1, <2>2 DEF JoinInv, LoadTypeOK
<1>3. \A k \in Loads : /\ load'[k].is = IF over(k) THEN "done" ELSE load[k].is
                       /\ load'[k].uuid = load[k].uuid /\ load'[k].on = load[k].on
  BY DEF JoinInv, LoadTypeOK, Ended
<1>4. ASSUME NEW k, NEW u, Fetching(load, k, u), k # l PROVE Fetching(load', k, u)
  BY <1>3, <1>4 DEF Fetching
<1>5. ASSUME NEW u \in Uuids, inflight'[u] # None PROVE Fetching(load', inflight'[u], u)
  <2>1. u # load[l].uuid /\ inflight'[u] = inflight[u]
    BY <1>1, <1>5 DEF JoinInv, LoadTypeOK
  <2>2. Fetching(load, inflight[u], u)
    BY <1>5, <2>1 DEF JoinInv
  <2>3. inflight[u] # l
    BY <2>1, <2>2 DEF Fetching
  <2> QED
    BY <1>4, <2>1, <2>2, <2>3
<1>6. ASSUME NEW k \in Loads, load'[k].is = "join"
      PROVE  Fetching(load', load'[k].on, load'[k].uuid)
  <2>1. load[k].is = "join" /\ load[k].on # l
    BY <1>3, <1>6
  <2> QED
    BY <1>3, <1>4, <2>1 DEF JoinInv
<1>7. ASSUME NEW k \in Loads, load'[k].is \in {"idb", "fetch", "join"}
      PROVE  load'[k].uuid \in Uuids
  BY <1>3, <1>7 DEF JoinInv
<1> QED
  BY <1>2, <1>5, <1>6, <1>7 DEF JoinInv

LEMMA NextJoin == JoinInv /\ [Next]_vars => JoinInv'
<1> SUFFICES ASSUME JoinInv, [Next]_vars PROVE JoinInv'
  OBVIOUS
<1>1. ASSUME UNCHANGED <<inflight, load>> PROVE JoinInv'
  BY <1>1 DEF JoinInv, LoadTypeOK
<1>2. ASSUME NEW l \in Loads, Step(l) PROVE JoinInv'
  <2>1. CASE IdbHit(l) \/ IdbMiss(l)
    BY <2>1, IdbHitJoin, IdbMissJoin
  <2>2. CASE FetchDone(l)
    BY <2>2, FetchEnds DEF FetchDone
  <2>3. CASE FetchFails(l)
    BY <2>3, FetchEnds DEF FetchFails
  <2> QED
    BY <1>2, <2>1, <2>2, <2>3 DEF Step
<1>3. ASSUME NEW l \in Loads, NEW u \in Uuids, loadPart(l, u) PROVE JoinInv'
  BY <1>3, LoadPartJoin
<1>4. CASE \/ \E idb \in BOOLEAN : clear(idb)
           \/ \E max \in Limits : setMaxBytes(max)
  BY <1>1, <1>4 DEF clear, setMaxBytes
<1>5. CASE UNCHANGED vars
  BY <1>1, <1>5 DEF vars
<1> QED
  BY <1>2, <1>3, <1>4, <1>5 DEF Next

(* Nobody waits for a fetch that is over: a load that joined one is woken   *)
(* by its end, also when several fetches of one part overlap and _inflight  *)
(* names only the last of them (stepWorker.js).                             *)
THEOREM JoinedFetchIsLive == Spec => []JoinsLiveFetch
<1>1. JoinInv => JoinsLiveFetch
  BY DEF JoinInv, JoinsLiveFetch, Fetching
<1> QED
  BY <1>1, InitJoin, NextJoin, PTL DEF Spec


-----------------------------------------------------------------------------
(* Sums of sizes.  BytesOf is a fold of the community modules; that it is a *)
(* sum is proved by looking at a smallest set of which it would not be.     *)
LEMMA LeastNat ==
    ASSUME NEW T, T \subseteq Nat, T # {} PROVE \E x \in T : \A y \in T : x <= y
<1>1. PICK R : R = OpToRel(<, Nat)
  OBVIOUS
<1>2. IsWellFoundedOn(R, Nat)
  BY <1>1, NatLessThanWellFounded
<1>3. \A x, y \in Nat : <<y, x>> \in R <=> y < x
  BY <1>1 DEF OpToRel
<1>4. PICK x \in T : \A y \in T : ~(<<y, x>> \in R)
  BY <1>2, WFMin
<1>5. \A y \in T : ~(y < x)
  BY <1>3, <1>4
<1>6. \A y \in T : x <= y
  BY <1>5
<1> QED
  BY <1>6

LEMMA LeastSet ==
    ASSUME NEW B, \A S \in B : IsFiniteSet(S), B # {}
    PROVE  \E S \in B : \A R \in B : Cardinality(S) <= Cardinality(R)
<1> DEFINE T == {Cardinality(S) : S \in B}
<1>1. T \subseteq Nat /\ T # {}
  BY FS_CardinalityType
<1>2. \E n \in T : \A m \in T : n <= m
  BY <1>1, LeastNat
<1> QED
  BY <1>2

LEMMA Smaller ==
    ASSUME NEW S, IsFiniteSet(S), NEW x \in S
    PROVE  IsFiniteSet(S \ {x}) /\ ~(Cardinality(S) <= Cardinality(S \ {x}))
<1>1. Cardinality(S) \in Nat
  BY FS_CardinalityType
<1>2. IsFiniteSet(S \ {x}) /\ Cardinality(S \ {x}) = Cardinality(S) - 1
  BY FS_RemoveElement
<1> QED
  BY <1>1, <1>2

Pick(S) == CHOOSE x \in S : TRUE
SumOn(f, S) ==
    f = [s \in SUBSET S |-> IF s = {} THEN 0 ELSE Size[Pick(s)] + f[s \ {Pick(s)}]]
Sums(S) == \E f : SumOn(f, S)

LEMMA BytesChosen == ASSUME NEW S PROVE BytesOf(S) = (CHOOSE f : SumOn(f, S))[S]
  BY SMT DEF BytesOf, MapThenSumSet, MapThenFoldSet, SumOn, Pick

LEMMA SumOnSubset ==
    ASSUME NEW f, NEW S, SumOn(f, S), NEW s \in SUBSET S
    PROVE  /\ s = {} => f[s] = 0
           /\ s # {} => f[s] = Size[Pick(s)] + f[s \ {Pick(s)}]
  BY DEF SumOn

LEMMA Picked == ASSUME NEW S, S # {} PROVE Pick(S) \in S
  BY DEF Pick

LEMMA SumUnique ==
    ASSUME NEW f, NEW S, SumOn(f, S), NEW g, NEW T, SumOn(g, T),
           NEW s, s \subseteq S, s \subseteq T, IsFiniteSet(s)
    PROVE  f[s] = g[s]
<1> DEFINE B == {r \in SUBSET s : f[r] # g[r]}
<1> SUFFICES ASSUME B # {} PROVE FALSE
  OBVIOUS
<1>1. \A r \in B : IsFiniteSet(r)
  BY FS_Subset
<1>2. PICK r \in B : \A q \in B : Cardinality(r) <= Cardinality(q)
  BY <1>1, LeastSet
<1>3. r # {}
  BY <1>2, SumOnSubset
<1>4. Pick(r) \in r
  BY <1>3, Picked
<1>5. r \ {Pick(r)} \notin B
  BY <1>1, <1>2, <1>4, Smaller
<1>6. f[r \ {Pick(r)}] = g[r \ {Pick(r)}]
  BY <1>5
<1>7. r \in SUBSET S /\ r \in SUBSET T
  OBVIOUS
<1>8. f[r] = Size[Pick(r)] + f[r \ {Pick(r)}]
  BY <1>3, <1>7, SumOnSubset
<1>9. g[r] = Size[Pick(r)] + g[r \ {Pick(r)}]
  BY <1>3, <1>7, SumOnSubset
<1> QED
  BY <1>2, <1>6, <1>8, <1>9

(* Where the fold is defined, it is the sum of a part of a larger set.      *)
LEMMA BytesIsSum ==
    ASSUME NEW S, IsFiniteSet(S), Sums(S), NEW f, NEW T, SumOn(f, T), S \subseteq T
    PROVE  f[S] = BytesOf(S)
<1>1. SumOn(CHOOSE g : SumOn(g, S), S)
  BY DEF Sums
<1> QED
  BY <1>1, BytesChosen, SumUnique

LEMMA SumExists == ASSUME NEW U, IsFiniteSet(U) PROVE Sums(U)
<1> DEFINE B == {S \in SUBSET U : ~Sums(S)}
<1> SUFFICES ASSUME B # {} PROVE FALSE
  OBVIOUS
<1>1. \A S \in SUBSET U : IsFiniteSet(S)
  BY FS_Subset
<1>2. PICK S \in B : \A R \in B : Cardinality(S) <= Cardinality(R)
  BY <1>1, LeastSet
<1>3. ASSUME NEW s \in SUBSET S, s # S PROVE Sums(s) /\ IsFiniteSet(s)
  <2>1. IsFiniteSet(s) /\ IsFiniteSet(S)
    BY <1>1
  <2>2. Cardinality(s) \in Nat /\ Cardinality(S) \in Nat
    BY <2>1, FS_CardinalityType
  <2>3. Cardinality(s) <= Cardinality(S) /\ Cardinality(s) # Cardinality(S)
    BY <1>3, <2>1, FS_Subset
  <2>4. ~(Cardinality(S) <= Cardinality(s))
    BY <2>2, <2>3
  <2> QED
    BY <1>2, <2>1, <2>4
<1> DEFINE h == [s \in SUBSET S |-> IF s = {} THEN 0
                                   ELSE Size[Pick(s)] + BytesOf(s \ {Pick(s)})]
<1>4. ASSUME NEW s \in SUBSET S, s # S PROVE h[s] = BytesOf(s)
  <2>1. PICK f : SumOn(f, s)
    BY <1>3, <1>4 DEF Sums
  <2>2. f[s] = BytesOf(s)
    BY <1>3, <1>4, <2>1, BytesIsSum
  <2>3. CASE s = {}
    BY <2>1, <2>2, <2>3, SumOnSubset
  <2>4. CASE s # {}
    <3>1. Pick(s) \in s
      BY <2>4, Picked
    <3>2. Sums(s \ {Pick(s)}) /\ IsFiniteSet(s \ {Pick(s)})
      BY <1>3, <3>1
    <3>3. f[s \ {Pick(s)}] = BytesOf(s \ {Pick(s)})
      BY <2>1, <3>2, BytesIsSum
    <3>4. f[s] = Size[Pick(s)] + f[s \ {Pick(s)}]
      BY <2>1, <2>4, SumOnSubset
    <3>5. h[s] = Size[Pick(s)] + BytesOf(s \ {Pick(s)})
      BY <2>4
    <3> QED
      BY <2>2, <3>3, <3>4, <3>5
  <2> QED
    BY <2>3, <2>4
<1>5. ASSUME NEW s \in SUBSET S, s # {} PROVE h[s \ {Pick(s)}] = BytesOf(s \ {Pick(s)})
  <2>1. Pick(s) \in s
    BY <1>5, Picked
  <2>2. s \ {Pick(s)} \in SUBSET S /\ s \ {Pick(s)} # S
    BY <2>1
  <2> QED
    BY <1>4, <2>2
<1>6. h = [s \in SUBSET S |-> IF s = {} THEN 0 ELSE Size[Pick(s)] + h[s \ {Pick(s)}]]
  BY <1>5
<1>7. SumOn(h, S)
  BY <1>6 DEF SumOn
<1> QED
  BY <1>2, <1>7 DEF Sums

LEMMA BytesUnfold ==
    ASSUME NEW S, IsFiniteSet(S)
    PROVE  /\ S = {} => BytesOf(S) = 0
           /\ S # {} => BytesOf(S) = Size[Pick(S)] + BytesOf(S \ {Pick(S)})
<1>1. PICK f : SumOn(f, S)
  BY SumExists DEF Sums
<1>2. f[S] = BytesOf(S)
  BY <1>1, SumExists, BytesIsSum
<1>3. ASSUME S # {} PROVE f[S \ {Pick(S)}] = BytesOf(S \ {Pick(S)})
  <2>1. IsFiniteSet(S \ {Pick(S)})
    BY FS_Subset
  <2> QED
    BY <1>1, <2>1, SumExists, BytesIsSum
<1> QED
  BY <1>1, <1>2, <1>3, SumOnSubset

LEMMA BytesType == ASSUME NEW S, IsFiniteSet(S), S \subseteq Uuids PROVE BytesOf(S) \in Nat
<1> DEFINE B == {s \in SUBSET S : BytesOf(s) \notin Nat}
<1> SUFFICES ASSUME B # {} PROVE FALSE
  OBVIOUS
<1>1. \A s \in B : IsFiniteSet(s)
  BY FS_Subset
<1>2. PICK s \in B : \A r \in B : Cardinality(s) <= Cardinality(r)
  BY <1>1, LeastSet
<1>3. s # {}
  BY <1>1, <1>2, BytesUnfold
<1>4. Pick(s) \in s
  BY <1>3, Picked
<1>5. BytesOf(s \ {Pick(s)}) \in Nat
  BY <1>1, <1>2, <1>4, Smaller
<1>6. Size[Pick(s)] \in Nat
  BY <1>4
<1>7. BytesOf(s) = Size[Pick(s)] + BytesOf(s \ {Pick(s)})
  BY <1>1, <1>3, BytesUnfold
<1> QED
  BY <1>2, <1>5, <1>6, <1>7

(* Any element may be the first to be counted.                              *)
LEMMA BytesSplit ==
    ASSUME NEW S, IsFiniteSet(S), S \subseteq Uuids, NEW x \in S
    PROVE  BytesOf(S) = Size[x] + BytesOf(S \ {x})
<1> DEFINE B == {s \in SUBSET S : \E y \in s : BytesOf(s) # Size[y] + BytesOf(s \ {y})}
<1> SUFFICES ASSUME B # {} PROVE FALSE
  OBVIOUS
<1>1. \A s \in SUBSET S : IsFiniteSet(s)
  BY FS_Subset
<1>2. PICK s \in B : \A r \in B : Cardinality(s) <= Cardinality(r)
  BY <1>1, LeastSet
<1>3. PICK y \in s : BytesOf(s) # Size[y] + BytesOf(s \ {y})
  BY <1>2
<1>4. PICK p \in s : p = Pick(s)
  BY <1>3, Picked
<1>5. BytesOf(s) = Size[p] + BytesOf(s \ {p})
  BY <1>1, <1>3, <1>4, BytesUnfold
<1>6. y # p
  BY <1>3, <1>5
<1>7. s \ {p} \notin B /\ s \ {y} \notin B
  BY <1>1, <1>2, <1>3, <1>4, Smaller
<1>8. BytesOf(s \ {p}) = Size[y] + BytesOf((s \ {p}) \ {y})
  BY <1>3, <1>6, <1>7
<1>9. BytesOf(s \ {y}) = Size[p] + BytesOf((s \ {y}) \ {p})
  BY <1>4, <1>6, <1>7
<1>10. (s \ {p}) \ {y} = (s \ {y}) \ {p}
  OBVIOUS
<1>11. /\ BytesOf((s \ {y}) \ {p}) \in Nat
       /\ Size[y] \in Nat /\ Size[p] \in Nat
  BY <1>1, BytesType
<1> QED
  BY <1>3, <1>5, <1>8, <1>9, <1>10, <1>11

LEMMA BytesUnion ==
    ASSUME NEW A, NEW C, IsFiniteSet(A), IsFiniteSet(C), A \subseteq Uuids, C \subseteq Uuids,
           A \cap C = {}
    PROVE  BytesOf(A \cup C) = BytesOf(A) + BytesOf(C)
<1> DEFINE B == {s \in SUBSET A : BytesOf(s \cup C) # BytesOf(s) + BytesOf(C)}
<1> SUFFICES ASSUME B # {} PROVE FALSE
  OBVIOUS
<1>1. \A s \in SUBSET A : IsFiniteSet(s)
  BY FS_Subset
<1>2. PICK s \in B : \A r \in B : Cardinality(s) <= Cardinality(r)
  BY <1>1, LeastSet
<1>3. BytesOf(C) \in Nat
  BY BytesType
<1>4. s # {}
  <2> SUFFICES ASSUME s = {} PROVE FALSE
    OBVIOUS
  <2>1. BytesOf({}) = 0
    BY BytesUnfold, FS_EmptySet
  <2> QED
    BY <1>2, <1>3, <2>1
<1>5. PICK x \in s : TRUE
  BY <1>4
<1>6. BytesOf((s \ {x}) \cup C) = BytesOf(s \ {x}) + BytesOf(C)
  BY <1>1, <1>2, <1>5, Smaller
<1>7. BytesOf(s) = Size[x] + BytesOf(s \ {x})
  BY <1>1, <1>5, BytesSplit
<1>8. BytesOf(s \cup C) = Size[x] + BytesOf((s \cup C) \ {x})
  <2>1. IsFiniteSet(s \cup C)
    BY <1>1, FS_Union
  <2> QED
    BY <1>5, <2>1, BytesSplit
<1>9. (s \cup C) \ {x} = (s \ {x}) \cup C
  BY <1>5
<1>10. BytesOf(s \ {x}) \in Nat /\ Size[x] \in Nat
  BY <1>1, <1>5, BytesType
<1>11. BytesOf(s \cup C) = BytesOf(s) + BytesOf(C)
  BY <1>3, <1>6, <1>7, <1>8, <1>9, <1>10
<1> QED
  BY <1>2, <1>11


-----------------------------------------------------------------------------
(* Lists of different parts, and the set of a list.                         *)
Distinct(s) == \A i, j \in DOMAIN s : i # j => s[i] # s[j]
Entries(s) == {s[i] : i \in DOMAIN s}
List(s) == s \in Seq(Uuids) /\ Distinct(s)

LEMMA EntriesFinite ==
    ASSUME NEW s, List(s)
    PROVE  IsFiniteSet(Entries(s)) /\ Entries(s) \subseteq Uuids /\ BytesOf(Entries(s)) \in Nat
<1>1. s \in Seq(Uuids) /\ Len(s) \in Nat /\ DOMAIN s = 1 .. Len(s)
  BY LenProperties DEF List
<1>2. Entries(s) \subseteq Uuids
  BY <1>1 DEF Entries
<1>3. s \in Surjection(1 .. Len(s), Entries(s))
  <2>1. s \in [1 .. Len(s) -> Entries(s)]
    BY <1>1 DEF Entries
  <2>2. \A y \in Entries(s) : \E x \in 1 .. Len(s) : s[x] = y
    BY <1>1 DEF Entries
  <2> QED
    BY <2>1, <2>2 DEF Surjection
<1>4. IsFiniteSet(1 .. Len(s))
  BY <1>1, FS_Interval
<1>5. IsFiniteSet(Entries(s))
  BY <1>3, <1>4, FS_Surjection
<1> QED
  BY <1>2, <1>5, BytesType

(* A list without one part.                                                 *)
LEMMA WithoutOne ==
    ASSUME NEW s, List(s), NEW u \in Uuids
    PROVE  List(Without(s, u)) /\ Entries(Without(s, u)) = Entries(s) \ {u}
<1> DEFINE r == Without(s, u)
<1>1. /\ s \in Seq(Uuids) /\ Len(s) \in Nat /\ DOMAIN s = 1 .. Len(s)
      /\ \A i \in DOMAIN s : s[i] \in Uuids
  BY LenProperties DEF List
<1>2. CASE \A i \in DOMAIN s : s[i] # u
  BY <1>2 DEF Without, Entries
<1>3. CASE ~ \A i \in DOMAIN s : s[i] # u
  <2>1. PICK at : at = CHOOSE i \in DOMAIN s : s[i] = u
    OBVIOUS
  <2>2. at \in DOMAIN s /\ s[at] = u
    BY <1>3, <2>1
  <2>3. r = [k \in 1 .. (Len(s) - 1) |-> IF k < at THEN s[k] ELSE s[k + 1]]
    BY <1>3, <2>1 DEF Without
  <2>4. /\ Len(s) - 1 \in Nat /\ at \in Nat
        /\ \A k \in 1 .. (Len(s) - 1) : k \in DOMAIN s /\ k + 1 \in DOMAIN s
    BY <1>1, <2>2
  <2>5. r \in Seq(Uuids)
    <3>1. \A k \in 1 .. (Len(s) - 1) : (IF k < at THEN s[k] ELSE s[k + 1]) \in Uuids
      BY <1>1, <2>4
    <3> QED
      BY <2>3, <2>4, <3>1
  <2> DEFINE from(k) == IF k < at THEN k ELSE k + 1
  <2>6. /\ DOMAIN r = 1 .. (Len(s) - 1)
        /\ \A k \in DOMAIN r : r[k] = s[from(k)]
    BY <2>3
  <2>7. \A k \in DOMAIN r : from(k) \in DOMAIN s /\ from(k) # at
    BY <2>4, <2>6
  <2>8. \A k, l \in DOMAIN r : k # l => from(k) # from(l)
    BY <2>4, <2>6
  <2>9. \A i \in DOMAIN s : i # at => \E k \in DOMAIN r : from(k) = i
    <3> SUFFICES ASSUME NEW i \in DOMAIN s, i # at PROVE \E k \in DOMAIN r : from(k) = i
      OBVIOUS
    <3>1. CASE i < at
      <4>1. i \in DOMAIN r /\ from(i) = i
        BY <1>1, <2>2, <2>4, <2>6, <3>1
      <4> QED
        BY <4>1
    <3>2. CASE ~(i < at)
      <4>1. i - 1 \in DOMAIN r /\ from(i - 1) = i
        BY <1>1, <2>2, <2>4, <2>6, <3>2
      <4> QED
        BY <4>1
    <3> QED
      BY <3>1, <3>2
  <2> HIDE DEF r, from
  <2>10. Distinct(r)
    BY <2>6, <2>7, <2>8 DEF Distinct, List
  <2>11. Entries(r) = Entries(s) \ {u}
    <3>1. ASSUME NEW y \in Entries(r) PROVE y \in Entries(s) \ {u}
      BY <2>2, <2>6, <2>7, <3>1 DEF Entries, Distinct, List
    <3>2. ASSUME NEW y \in Entries(s) \ {u} PROVE y \in Entries(r)
      <4>1. PICK i \in DOMAIN s : s[i] = y /\ i # at
        BY <2>2, <3>2 DEF Entries
      <4>2. PICK k \in DOMAIN r : from(k) = i
        BY <2>9, <4>1
      <4> QED
        BY <2>6, <4>1, <4>2 DEF Entries
    <3> QED
      BY <3>1, <3>2
  <2> QED
    BY <2>5, <2>10, <2>11 DEF List, r
<1> QED
  BY <1>2, <1>3

(* A list with one part as its last entry.                                  *)
LEMMA MadeLast ==
    ASSUME NEW s, List(s), NEW u \in Uuids
    PROVE  /\ List(Append(Without(s, u), u))
           /\ Entries(Append(Without(s, u), u)) = (Entries(s) \ {u}) \cup {u}
<1>1. PICK r : r = Without(s, u)
  OBVIOUS
<1>2. List(r) /\ Entries(r) = Entries(s) \ {u}
  BY <1>1, WithoutOne
<1>3. PICK t : t = Append(r, u)
  OBVIOUS
<1>4. /\ t \in Seq(Uuids) /\ Len(r) \in Nat
      /\ DOMAIN r = 1 .. Len(r) /\ DOMAIN t = 1 .. (Len(r) + 1)
      /\ \A i \in DOMAIN r : t[i] = r[i]
      /\ t[Len(r) + 1] = u
  BY <1>2, <1>3, AppendProperties, LenProperties DEF List
<1>5. /\ \A i \in DOMAIN t : i \in DOMAIN r \/ i = Len(r) + 1
      /\ Len(r) + 1 \in DOMAIN t /\ \A i \in DOMAIN r : i \in DOMAIN t
  BY <1>4
<1>6. Entries(t) = Entries(r) \cup {u}
  BY <1>4, <1>5 DEF Entries
<1>7. \A i \in DOMAIN r : r[i] # u
  BY <1>2 DEF Entries
<1>8. Distinct(t)
  BY <1>2, <1>4, <1>5, <1>7 DEF Distinct, List
<1> QED
  BY <1>1, <1>2, <1>3, <1>4, <1>6, <1>8 DEF List

(* A list without its first k entries.                                      *)
LEMMA FirstRemoved ==
    ASSUME NEW s, List(s), NEW k \in 0 .. Len(s)
    PROVE  /\ List(SubSeq(s, k + 1, Len(s)))
           /\ k = Len(s) => SubSeq(s, k + 1, Len(s)) = <<>>
           /\ Entries(SubSeq(s, k + 1, Len(s))) \cap {s[i] : i \in 1 .. k} = {}
           /\ Entries(SubSeq(s, k + 1, Len(s))) \cup {s[i] : i \in 1 .. k} = Entries(s)
<1>1. /\ s \in Seq(Uuids) /\ Len(s) \in Nat /\ DOMAIN s = 1 .. Len(s)
      /\ \A i \in DOMAIN s : s[i] \in Uuids
  BY LenProperties DEF List
<1>2. PICK r : r = SubSeq(s, k + 1, Len(s))
  OBVIOUS
<1>3. \A i \in (k + 1) .. Len(s) : s[i] \in Uuids
  BY <1>1
<1>4. /\ r \in Seq(Uuids) /\ Len(r) = IF k + 1 <= Len(s) THEN Len(s) - (k + 1) + 1 ELSE 0
      /\ \A i \in 1 .. (Len(s) - (k + 1) + 1) : r[i] = s[(k + 1) + i - 1]
  <2>1. k + 1 \in Int /\ Len(s) \in Int
    BY <1>1
  <2> QED
    BY <1>2, <1>3, <2>1, SubSeqProperties
<1>5. Len(r) = Len(s) - k
  <2>1. CASE k + 1 <= Len(s)
    <3>1. Len(r) = Len(s) - (k + 1) + 1
      BY <1>4, <2>1
    <3> QED
      BY <1>1, <3>1
  <2>2. CASE ~(k + 1 <= Len(s))
    <3>1. Len(r) = 0
      BY <1>4, <2>2
    <3>2. Len(s) \in Nat /\ k \in Nat /\ k <= Len(s)
      BY <1>1
    <3> QED
      BY <2>2, <3>1, <3>2
  <2> QED
    BY <2>1, <2>2
<1>6. /\ DOMAIN r = 1 .. (Len(s) - k)
      /\ \A i \in DOMAIN r : k + i \in DOMAIN s /\ r[i] = s[k + i]
  <2>1. DOMAIN r = 1 .. (Len(s) - k)
    BY <1>4, <1>5, LenProperties
  <2>2. ASSUME NEW i \in 1 .. (Len(s) - k) PROVE k + i \in DOMAIN s /\ r[i] = s[k + i]
    <3>1. i \in 1 .. (Len(s) - (k + 1) + 1) /\ (k + 1) + i - 1 = k + i
      BY <1>1
    <3>2. k + i \in DOMAIN s
      BY <1>1
    <3> QED
      BY <1>4, <3>1, <3>2
  <2> QED
    BY <2>1, <2>2
<1>7. /\ \A i, j \in DOMAIN r : i # j => k + i # k + j
      /\ \A i \in DOMAIN r : \A j \in 1 .. k : j # k + i
      /\ \A j \in 1 .. k : j \in DOMAIN s
  BY <1>1, <1>6
<1>8. Distinct(r)
  BY <1>6, <1>7 DEF List, Distinct
<1>9. Entries(r) \cap {s[i] : i \in 1 .. k} = {}
  BY <1>6, <1>7 DEF Entries, List, Distinct
<1>10. \A j \in DOMAIN s : j \in 1 .. k \/ \E i \in DOMAIN r : j = k + i
  <2> SUFFICES ASSUME NEW j \in DOMAIN s, j \notin 1 .. k PROVE \E i \in DOMAIN r : j = k + i
    OBVIOUS
  <2>1. j - k \in DOMAIN r /\ j = k + (j - k)
    BY <1>1, <1>6
  <2> QED
    BY <2>1
<1>11. Entries(r) \cup {s[i] : i \in 1 .. k} = Entries(s)
  BY <1>6, <1>7, <1>10 DEF Entries
<1>12. k = Len(s) => r = <<>>
  BY <1>1, <1>2, SubSeqEmpty
<1> QED
  BY <1>2, <1>4, <1>8, <1>9, <1>11, <1>12 DEF List

LEMMA PartBytes ==
    ASSUME NEW S, IsFiniteSet(S), S \subseteq Uuids, NEW T, T \subseteq S
    PROVE  /\ BytesOf(T) \in Nat /\ BytesOf(S \ T) \in Nat
           /\ BytesOf(S) = BytesOf(T) + BytesOf(S \ T)
<1>1. IsFiniteSet(T) /\ IsFiniteSet(S \ T)
  BY FS_Subset
<1>2. T \cup (S \ T) = S /\ T \cap (S \ T) = {}
  OBVIOUS
<1> QED
  BY <1>1, <1>2, BytesType, BytesUnion


-----------------------------------------------------------------------------
(* evict: entries leave with their bytes, until what is needed fits or none *)
(* is left.  The count keeps its distance from the bytes in memory.         *)
Evicted(e, needed, max) ==
    /\ List(e.lru) /\ e.bytes \in Nat /\ e.bytes <= cacheBytes
    /\ Entries(e.lru) \subseteq Cached
    /\ e.bytes - BytesOf(Entries(e.lru)) = cacheBytes - BytesOf(Cached)
    /\ e.lru = <<>> \/ e.bytes + needed <= max

LEMMA EvictProperties ==
    ASSUME List(lru), cacheBytes \in Nat, BytesOf(Cached) <= cacheBytes,
           NEW needed \in Nat, NEW max \in Nat
    PROVE  Evicted(evict(needed, max), needed, max)
<1> DEFINE Enough == {k \in 0 .. Len(lru) :
                         k = Len(lru) \/ cacheBytes + needed <= max + BytesOf(Oldest(k))}
<1>1. Len(lru) \in Nat
  BY LenProperties DEF List
<1>2. Enough \subseteq Nat /\ Len(lru) \in Enough
  BY <1>1
<1>3. \E k \in Enough : \A j \in Enough : k <= j
  <2> HIDE DEF Enough
  <2> QED
    BY <1>2, LeastNat
<1>4. PICK k : k = Victims(needed, max)
  OBVIOUS
<1>5. k \in Enough
  <2>1. k = Min(Enough)
    BY <1>4 DEF Victims
  <2> HIDE DEF Enough
  <2> QED
    BY <1>3, <2>1 DEF Min
<1>6. k \in 0 .. Len(lru) /\ (k = Len(lru) \/ cacheBytes + needed <= max + BytesOf(Oldest(k)))
  BY <1>5
<1>7. PICK r : r = SubSeq(lru, k + 1, Len(lru))
  OBVIOUS
<1>8. Oldest(k) = {lru[i] : i \in 1 .. k} /\ Cached = Entries(lru)
  BY DEF Oldest, Cached, Entries
<1>9. /\ List(r) /\ (k = Len(lru) => r = <<>>)
      /\ Entries(r) \cap Oldest(k) = {} /\ Entries(r) \cup Oldest(k) = Cached
  BY <1>6, <1>7, <1>8, FirstRemoved
<1>10. IsFiniteSet(Cached) /\ Cached \subseteq Uuids
  BY <1>8, EntriesFinite
<1>11. Oldest(k) = Cached \ Entries(r)
  BY <1>9
<1>12. /\ BytesOf(Entries(r)) \in Nat /\ BytesOf(Oldest(k)) \in Nat
       /\ BytesOf(Cached) = BytesOf(Entries(r)) + BytesOf(Oldest(k))
  <2>1. Entries(r) \subseteq Cached
    BY <1>9
  <2> QED
    BY <1>10, <1>11, <2>1, PartBytes
<1>13. PICK b : b = cacheBytes - BytesOf(Oldest(k))
  OBVIOUS
<1>14. /\ b \in Nat /\ b <= cacheBytes
       /\ b - BytesOf(Entries(r)) = cacheBytes - BytesOf(Cached)
  BY <1>12, <1>13
<1>15. k = Len(lru) \/ b + needed <= max
  BY <1>6, <1>12, <1>13
<1>16. PICK e : e = [lru |-> r, bytes |-> b]
  OBVIOUS
<1>17. evict(needed, max) = e
  BY <1>4, <1>7, <1>13, <1>16 DEF evict
<1>18. e.lru = r /\ e.bytes = b
  BY <1>16
<1> QED
  BY <1>9, <1>14, <1>15, <1>17, <1>18 DEF Evicted

(* What the cache holds and what it counts.  The count may stay above a     *)
(* lowered limit, over an empty cache, when it was too high.                *)
CountInv ==
    /\ List(lru)
    /\ cacheBytes \in Nat /\ maxBytes \in Nat
    /\ BytesOf(Cached) <= cacheBytes
    /\ lru = <<>> \/ cacheBytes <= maxBytes

(* While the counter is right, a part that is being loaded is loaded once   *)
(* and not in the cache.                                                    *)
OnceInv ==
    ~overlapped => /\ cacheBytes = BytesOf(Cached)
                   /\ \A u \in Uuids : Past(u) # {} => u \notin Cached
                   /\ \A u \in Uuids : \A k, l \in Past(u) : k = l

CacheInv == CountInv /\ OnceInv

LEMMA EmptyList == List(<<>>) /\ Entries(<<>>) = {} /\ BytesOf({}) = 0
<1>1. BytesOf({}) = 0
  BY BytesUnfold, FS_EmptySet
<1> QED
  BY <1>1 DEF List, Distinct, Entries

LEMMA InitCache == Init => CacheInv
<1> SUFFICES ASSUME Init PROVE CacheInv
  OBVIOUS
<1>1. lru = <<>> /\ cacheBytes = 0 /\ maxBytes \in Nat
  BY DEF Init
<1>2. Cached = {} /\ List(lru)
  BY <1>1, EmptyList DEF Cached, Entries
<1>3. \A u \in Uuids : Past(u) = {}
  BY DEF Init, Past, NewLoad
<1> QED
  BY <1>1, <1>2, <1>3, EmptyList DEF CacheInv, CountInv, OnceInv

LEMMA InsertCounts ==
    ASSUME CountInv, NEW u \in Uuids, Insert(u), maxBytes' = maxBytes
    PROVE  /\ CountInv'
           /\ Cached' \subseteq Cached \cup {u}
           /\ cacheBytes = BytesOf(Cached) /\ u \notin Cached => cacheBytes' = BytesOf(Cached)'
<1>1. Size[u] \in Nat /\ maxBytes \in Nat /\ cacheBytes \in Nat
  BY DEF CountInv
<1>2. PICK e : e = evict(Size[u], maxBytes)
  OBVIOUS
<1>3. Evicted(e, Size[u], maxBytes)
  BY <1>1, <1>2, EvictProperties DEF CountInv
<1>4. /\ IsFiniteSet(Entries(e.lru)) /\ Entries(e.lru) \subseteq Uuids
      /\ BytesOf(Entries(e.lru)) \in Nat
  BY <1>3, EntriesFinite DEF Evicted
<1>5. BytesOf(Cached) \in Nat
  BY EntriesFinite DEF CountInv, Cached, Entries
<1>6. Cached' = Entries(lru')
  BY DEF Cached, Entries
<1>7. CASE e.bytes + Size[u] <= maxBytes
  <2>1. lru' = Append(Without(e.lru, u), u) /\ cacheBytes' = e.bytes + Size[u]
    BY <1>2, <1>7 DEF Insert
  <2>2. List(lru') /\ Entries(lru') = (Entries(e.lru) \ {u}) \cup {u}
    BY <1>3, <2>1, MadeLast DEF Evicted
  <2>3. PICK old : old = Entries(e.lru) \ {u}
    OBVIOUS
  <2>4. /\ BytesOf(old) \in Nat /\ BytesOf(old) <= BytesOf(Entries(e.lru))
        /\ u \notin Entries(e.lru) => old = Entries(e.lru)
    <3>1. /\ BytesOf(Entries(e.lru) \cap {u}) \in Nat /\ BytesOf(old) \in Nat
          /\ BytesOf(Entries(e.lru)) = BytesOf(old) + BytesOf(Entries(e.lru) \cap {u})
      <4>1. old \subseteq Entries(e.lru) /\ Entries(e.lru) \cap {u} = Entries(e.lru) \ old
        BY <2>3
      <4> QED
        BY <1>4, <4>1, PartBytes
    <3> QED
      BY <1>4, <2>3, <3>1
  <2>5. BytesOf(old \cup {u}) = Size[u] + BytesOf(old)
    <3>1. IsFiniteSet(old \cup {u}) /\ old \cup {u} \subseteq Uuids
      BY <1>4, <2>3, FS_Subset, FS_AddElement
    <3>2. (old \cup {u}) \ {u} = old
      BY <2>3
    <3> QED
      BY <3>1, <3>2, BytesSplit
  <2>6. BytesOf(Cached)' = Size[u] + BytesOf(old)
    <3>1. BytesOf(Cached)' = BytesOf(Cached')
      OBVIOUS
    <3> QED
      BY <1>6, <2>2, <2>3, <2>5, <3>1
  <2>7. cacheBytes' \in Nat /\ cacheBytes' <= maxBytes /\ BytesOf(Cached)' <= cacheBytes'
    BY <1>1, <1>3, <1>4, <1>5, <1>7, <2>1, <2>4, <2>6 DEF Evicted, CountInv
  <2>8. cacheBytes = BytesOf(Cached) /\ u \notin Cached => cacheBytes' = BytesOf(Cached)'
    <3> SUFFICES ASSUME cacheBytes = BytesOf(Cached), u \notin Cached
                 PROVE  cacheBytes' = BytesOf(Cached)'
      OBVIOUS
    <3>1. u \notin Entries(e.lru)
      BY <1>3 DEF Evicted
    <3>2. e.bytes = BytesOf(old)
      BY <1>1, <1>3, <1>4, <1>5, <2>4, <3>1 DEF Evicted
    <3> QED
      BY <1>1, <2>1, <2>4, <2>6, <3>2
  <2>9. Cached' \subseteq Cached \cup {u}
    BY <1>3, <1>6, <2>2 DEF Evicted
  <2> QED
    BY <1>1, <2>2, <2>7, <2>8, <2>9 DEF CountInv
<1>8. CASE ~(e.bytes + Size[u] <= maxBytes)
  <2>1. lru' = e.lru /\ cacheBytes' = e.bytes
    BY <1>2, <1>8 DEF Insert
  <2>2. e.lru = <<>>
    BY <1>3, <1>8 DEF Evicted
  <2>3. Cached' = {} /\ List(lru')
    BY <1>6, <2>1, <2>2, EmptyList
  <2>4. BytesOf(Cached)' = 0 /\ BytesOf(Entries(e.lru)) = 0
    <3>1. BytesOf(Cached)' = BytesOf(Cached')
      OBVIOUS
    <3> QED
      BY <2>2, <2>3, <3>1, EmptyList
  <2>5. cacheBytes' \in Nat /\ (cacheBytes = BytesOf(Cached) => cacheBytes' = 0)
    BY <1>1, <1>3, <1>5, <2>1, <2>4 DEF Evicted
  <2> QED
    BY <1>1, <2>1, <2>2, <2>3, <2>4, <2>5 DEF CountInv
<1> QED
  BY <1>7, <1>8


(* A part enters the cache by a load that is past the in-flight test and    *)
(* leaves it: that was the only one, if the counter was right.              *)
LEMMA InsertKeeps ==
    ASSUME CacheInv, NEW l \in Loads, NEW u \in Uuids, l \in Past(u), Insert(u),
           maxBytes' = maxBytes, overlapped' = overlapped,
           \A v \in Uuids : Past(v)' \subseteq Past(v) \ {l}
    PROVE  CacheInv'
<1>1. /\ CountInv'
      /\ Cached' \subseteq Cached \cup {u}
      /\ cacheBytes = BytesOf(Cached) /\ u \notin Cached => cacheBytes' = BytesOf(Cached)'
  BY InsertCounts DEF CacheInv
<1>2. ASSUME ~overlapped
      PROVE  /\ cacheBytes = BytesOf(Cached) /\ u \notin Cached
             /\ Past(u)' = {}
             /\ \A v \in Uuids : Past(v) # {} => v \notin Cached
             /\ \A v \in Uuids : \A k, m \in Past(v) : k = m
  BY <1>2 DEF CacheInv, OnceInv
<1>3. OnceInv'
  <2> SUFFICES ASSUME ~overlapped
               PROVE  /\ cacheBytes' = BytesOf(Cached)'
                      /\ \A v \in Uuids : Past(v)' # {} => v \notin Cached'
                      /\ \A v \in Uuids : \A k, m \in Past(v)' : k = m
    BY DEF OnceInv
  <2>1. \A v \in Uuids : Past(v)' # {} => v # u /\ Past(v) # {}
    BY <1>2
  <2>2. \A v \in Uuids : Past(v)' # {} => v \notin Cached'
    BY <1>1, <1>2, <2>1
  <2>3. \A v \in Uuids : \A k, m \in Past(v)' : k = m
    BY <1>2
  <2> QED
    BY <1>1, <1>2, <2>2, <2>3
<1> QED
  BY <1>1, <1>3 DEF CacheInv

(* No part enters, and no load passes the in-flight test.                   *)
LEMMA LeftAlone ==
    ASSUME CacheInv, UNCHANGED <<cacheBytes, maxBytes, overlapped>>,
           List(lru)', Cached' = Cached, lru = <<>> <=> lru' = <<>>,
           \A v \in Uuids : Past(v)' \subseteq Past(v)
    PROVE  CacheInv'
<1>1. BytesOf(Cached)' = BytesOf(Cached)
  OBVIOUS
<1>2. CountInv'
  BY <1>1 DEF CacheInv, CountInv
<1>3. OnceInv'
  BY <1>1 DEF CacheInv, OnceInv
<1> QED
  BY <1>2, <1>3 DEF CacheInv

LEMMA LoadPartCache ==
    ASSUME JoinInv, CacheInv, NEW l \in Loads, NEW u \in Uuids, loadPart(l, u)
    PROVE  CacheInv'
<1>1. /\ load[l].is = "new" /\ UNCHANGED <<cacheBytes, maxBytes>>
      /\ load \in [Loads -> [is : {"new", "idb", "fetch", "join", "done"},
                             uuid : Uuids \cup {None}, on : Loads \cup {None}]]
  BY DEF loadPart, NewLoad, JoinInv, LoadTypeOK
<1>2. ASSUME NEW is \in {"join", "done"}, NEW on,
             load' = [load EXCEPT ![l] = [is |-> is, uuid |-> u, on |-> on]]
      PROVE  \A v \in Uuids : Past(v)' \subseteq Past(v)
  BY <1>1, <1>2 DEF Past
<1>3. CASE u \in Cached
  <2>1. /\ lru' = Append(Without(lru, u), u) /\ overlapped' = overlapped
        /\ load' = [load EXCEPT ![l] = [is |-> "done", uuid |-> u, on |-> None]]
    BY <1>3 DEF loadPart
  <2>2. List(lru)' /\ Cached' = (Cached \ {u}) \cup {u}
    <3>1. PICK s : s = Append(Without(lru, u), u)
      OBVIOUS
    <3>2. List(s) /\ Entries(s) = (Entries(lru) \ {u}) \cup {u}
      BY <3>1, MadeLast DEF CacheInv, CountInv
    <3>3. lru' = s /\ Cached = Entries(lru) /\ Cached' = Entries(lru')
      BY <2>1, <3>1 DEF Cached, Entries
    <3>4. List(lru')
      BY <3>2, <3>3
    <3> QED
      BY <3>2, <3>3, <3>4
  <2>3. Cached' = Cached
    BY <1>3, <2>2
  <2>4. ASSUME NEW s, s = <<>> PROVE u \notin Entries(s)
    BY <2>4, EmptyList
  <2>5. lru # <<>> /\ lru' # <<>>
    <3>1. Cached = Entries(lru) /\ Cached' = Entries(lru')
      BY DEF Cached, Entries
    <3> QED
      BY <1>3, <2>3, <2>4, <3>1
  <2> QED
    BY <1>1, <1>2, <2>1, <2>2, <2>3, <2>5, LeftAlone
<1>4. CASE u \notin Cached /\ inflight[u] # None
  <2>1. /\ lru' = lru /\ overlapped' = overlapped
        /\ load' = [load EXCEPT ![l] = [is |-> "join", uuid |-> u, on |-> inflight[u]]]
    BY <1>4 DEF loadPart
  <2>2. List(lru)' /\ Cached' = Cached
    BY <2>1 DEF CacheInv, CountInv, List, Distinct, Cached
  <2> QED
    BY <1>1, <1>2, <2>1, <2>2, LeftAlone
<1>5. CASE u \notin Cached /\ inflight[u] = None
  <2>1. /\ lru' = lru /\ overlapped' = (overlapped \/ Past(u) # {})
        /\ load' = [load EXCEPT ![l] = [is |-> "idb", uuid |-> u, on |-> None]]
    BY <1>5 DEF loadPart
  <2>2. Cached' = Cached /\ BytesOf(Cached)' = BytesOf(Cached)
    BY <2>1 DEF Cached
  <2>3. CountInv'
    BY <1>1, <2>1, <2>2 DEF CacheInv, CountInv, List, Distinct
  <2>4. ASSUME NEW v \in Uuids PROVE Past(v)' = IF v = u THEN Past(u) \cup {l} ELSE Past(v)
    <3>1. \A k \in Loads : load'[k] = IF k = l THEN [is |-> "idb", uuid |-> u, on |-> None]
                                      ELSE load[k]
      BY <1>1, <2>1
    <3> QED
      BY <1>1, <3>1 DEF Past
  <2>5. OnceInv'
    <3> SUFFICES ASSUME ~overlapped, Past(u) = {}
                 PROVE  /\ cacheBytes' = BytesOf(Cached)'
                        /\ \A v \in Uuids : Past(v)' # {} => v \notin Cached'
                        /\ \A v \in Uuids : \A k, m \in Past(v)' : k = m
      BY <2>1 DEF OnceInv
    <3>1. Past(u)' = {l}
      BY <2>4
    <3> QED
      BY <1>1, <1>5, <2>2, <2>4, <3>1 DEF CacheInv, OnceInv
  <2> QED
    BY <2>3, <2>5 DEF CacheInv
<1> QED
  BY <1>3, <1>4, <1>5

LEMMA StepCache == ASSUME JoinInv, CacheInv, NEW l \in Loads, Step(l) PROVE CacheInv'
<1>1. load \in [Loads -> [is : {"new", "idb", "fetch", "join", "done"},
                          uuid : Uuids \cup {None}, on : Loads \cup {None}]]
  BY DEF JoinInv, LoadTypeOK
<1>2. PICK u : u = load[l].uuid
  OBVIOUS
<1>3. u \in Uuids /\ l \in Past(u)
  BY <1>2 DEF JoinInv, Past, Step, IdbHit, IdbMiss, FetchDone, FetchFails
<1>4. ASSUME load' = Ended(l), load[l].is = "fetch"
      PROVE  \A v \in Uuids : Past(v)' \subseteq Past(v) \ {l}
  <2>1. \A k \in Loads : /\ load'[k].uuid = load[k].uuid
                         /\ load'[k].is \in {load[k].is, "done"}
                         /\ load'[l].is = "done"
    BY <1>1, <1>4 DEF Ended
  <2> QED
    BY <2>1 DEF Past
<1>5. CASE IdbHit(l)
  <2>1. \A k \in Loads : /\ load'[k].uuid = load[k].uuid
                         /\ load'[k].is = IF k = l THEN "done" ELSE load[k].is
    BY <1>1, <1>5 DEF IdbHit
  <2>2. \A v \in Uuids : Past(v)' \subseteq Past(v) \ {l}
    BY <2>1 DEF Past
  <2> QED
    BY <1>2, <1>3, <1>5, <2>2, InsertKeeps DEF IdbHit
<1>6. CASE IdbMiss(l)
  <2>1. \A k \in Loads : /\ load'[k].uuid = load[k].uuid
                         /\ load'[k].is = IF k = l THEN "fetch" ELSE load[k].is
    BY <1>1, <1>6 DEF IdbMiss
  <2>2. load[l].is = "idb" /\ lru' = lru
    BY <1>6 DEF IdbMiss
  <2>3. \A v \in Uuids : Past(v)' \subseteq Past(v)
    BY <2>1, <2>2 DEF Past
  <2>4. List(lru)' /\ Cached' = Cached
    BY <2>2 DEF CacheInv, CountInv, List, Distinct, Cached
  <2> QED
    BY <1>6, <2>2, <2>3, <2>4, LeftAlone DEF IdbMiss
<1>7. CASE FetchDone(l)
  BY <1>2, <1>3, <1>4, <1>7, InsertKeeps DEF FetchDone
<1>8. CASE FetchFails(l)
  <2>1. lru' = lru /\ UNCHANGED <<cacheBytes, maxBytes, overlapped>>
    BY <1>8 DEF FetchFails
  <2>2. \A v \in Uuids : Past(v)' \subseteq Past(v)
    BY <1>4, <1>8 DEF FetchFails
  <2>3. List(lru)' /\ Cached' = Cached
    BY <2>1 DEF CacheInv, CountInv, List, Distinct, Cached
  <2> QED
    BY <2>1, <2>2, <2>3, LeftAlone
<1> QED
  BY <1>5, <1>6, <1>7, <1>8 DEF Step

LEMMA ClearCache == ASSUME CacheInv, NEW idb \in BOOLEAN, clear(idb) PROVE CacheInv'
<1>1. /\ lru' = <<>> /\ cacheBytes' = 0 /\ maxBytes' = maxBytes /\ load' = load
      /\ overlapped' = (\E u \in Uuids : \E k, l \in Past(u) : k # l)
  BY DEF clear
<1>2. Cached' = {} /\ List(lru)'
  BY <1>1, EmptyList DEF Cached, List, Distinct
<1>3. BytesOf(Cached)' = 0
  <2>1. BytesOf(Cached)' = BytesOf(Cached')
    OBVIOUS
  <2> QED
    BY <1>2, <2>1, EmptyList
<1>4. \A u \in Uuids : Past(u)' = Past(u)
  BY <1>1 DEF Past
<1> QED
  BY <1>1, <1>2, <1>3, <1>4 DEF CacheInv, CountInv, OnceInv

LEMMA LimitCache == ASSUME CacheInv, NEW max \in Limits, setMaxBytes(max) PROVE CacheInv'
<1>1. max \in Nat /\ 0 \in Nat
  OBVIOUS
<1>2. PICK e : e = evict(0, max)
  OBVIOUS
<1>3. Evicted(e, 0, max)
  BY <1>1, <1>2, EvictProperties DEF CacheInv, CountInv
<1>4. /\ lru' = e.lru /\ cacheBytes' = e.bytes /\ maxBytes' = max
      /\ load' = load /\ overlapped' = overlapped
  BY <1>2 DEF setMaxBytes
<1>5. List(lru)' /\ Cached' = Entries(e.lru)
  BY <1>3, <1>4 DEF Evicted, List, Distinct, Cached, Entries
<1>6. BytesOf(Cached)' = BytesOf(Entries(e.lru))
  <2>1. BytesOf(Cached)' = BytesOf(Cached')
    OBVIOUS
  <2> QED
    BY <1>5, <2>1
<1>7. BytesOf(Entries(e.lru)) \in Nat /\ BytesOf(Cached) \in Nat
  BY <1>3, EntriesFinite DEF Evicted, CacheInv, CountInv, Cached, Entries
<1>8. /\ e.bytes \in Nat /\ BytesOf(Entries(e.lru)) <= e.bytes
      /\ cacheBytes = BytesOf(Cached) => e.bytes = BytesOf(Entries(e.lru))
      /\ e.lru = <<>> \/ e.bytes <= max
  BY <1>1, <1>3, <1>7 DEF Evicted, CacheInv, CountInv
<1>9. \A u \in Uuids : Past(u)' = Past(u)
  BY <1>4 DEF Past
<1>10. Cached' \subseteq Cached
  BY <1>3, <1>5 DEF Evicted
<1>11. CountInv'
  BY <1>1, <1>4, <1>5, <1>6, <1>8 DEF CountInv
<1>12. OnceInv'
  BY <1>4, <1>6, <1>8, <1>9, <1>10 DEF CacheInv, OnceInv
<1> QED
  BY <1>11, <1>12 DEF CacheInv

LEMMA NextCache == JoinInv /\ CacheInv /\ [Next]_vars => CacheInv'
<1> SUFFICES ASSUME JoinInv, CacheInv, [Next]_vars PROVE CacheInv'
  OBVIOUS
<1>1. CASE UNCHANGED vars
  <2>1. /\ List(lru)' /\ Cached' = Cached /\ lru' = lru
        /\ \A v \in Uuids : Past(v)' = Past(v)
        /\ UNCHANGED <<cacheBytes, maxBytes, overlapped>>
    BY <1>1 DEF vars, CacheInv, CountInv, List, Distinct, Cached, Past
  <2> QED
    BY <2>1, LeftAlone
<1>2. CASE Next
  BY <1>2, StepCache, LoadPartCache, ClearCache, LimitCache DEF Next
<1> QED
  BY <1>1, <1>2

LEMMA CacheAlways == Spec => []CacheInv
<1>1. JoinInv /\ CacheInv /\ [Next]_vars => JoinInv' /\ CacheInv'
  BY NextJoin, NextCache
<1>2. Init => JoinInv /\ CacheInv
  BY InitJoin, InitCache
<1> QED
  BY <1>1, <1>2, PTL DEF Spec

(* The meshes in memory stay within MAX_BYTES, for parts and limits of any  *)
(* size: also when the limit is lowered below what is loaded, when a part   *)
(* alone exceeds it, and when the counter is too high.                      *)
THEOREM MemoryStaysBounded == Spec => []MemoryBounded
<1>1. CacheInv => MemoryBounded
  <2> SUFFICES ASSUME CacheInv PROVE MemoryBounded
    OBVIOUS
  <2>1. BytesOf(Cached) \in Nat /\ cacheBytes \in Nat /\ maxBytes \in Nat
    BY EntriesFinite DEF CacheInv, CountInv, Cached, Entries
  <2>2. CASE lru = <<>>
    <3>1. Cached = {}
      BY <2>2 DEF Cached
    <3> QED
      BY <2>1, <3>1, EmptyList DEF MemoryBounded
  <2>3. CASE cacheBytes <= maxBytes
    BY <2>1, <2>3 DEF CacheInv, CountInv, MemoryBounded
  <2> QED
    BY <2>2, <2>3 DEF CacheInv, CountInv
<1> QED
  BY <1>1, CacheAlways, PTL

(* _cacheBytes is never below the bytes in memory, and equal to them until  *)
(* two loads of one part are past the in-flight test at a time.             *)
THEOREM PartsCountedOnce == Spec => []CountedOnce
<1>1. CacheInv => CountedOnce
  BY DEF CacheInv, CountInv, OnceInv, CountedOnce
<1> QED
  BY <1>1, CacheAlways, PTL
=============================================================================
