-------------------------- MODULE CadParserProofs --------------------------
(***************************************************************************)
(* The pool of worker threads keeps its workers and its tasks, for every   *)
(* pool size and any number of requests and dying workers; and the part    *)
(* files of split jobs are served whole.                                   *)
(*                                                                         *)
(* A handler of ConvertPool first changes the lists and then calls _pump.  *)
(* Sound says, of lists given as parameters, everything the pool relies on *)
(* except that _pump has been called; so each handler is one lemma about   *)
(* the state before _pump, and _pump is one lemma for all of them.         *)
(***************************************************************************)
EXTENDS CadParser, FiniteSetTheorems, SequenceTheorems, TLAPS

Alive(thr) == {w \in Workers : thr[w] \in {"up", "down"}}

Typed(idl, q, tsk, thr, box, n, rep) ==
    /\ idl \in Seq(Workers)
    /\ q \in Seq(Tasks)
    /\ tsk \in [Workers -> Tasks \cup {None}]
    /\ thr \in [Workers -> {"new", "up", "down", "gone"}]
    /\ box \in [Workers -> Seq(Mail)]
    /\ n \in Workers
    /\ rep \in [Tasks -> Promise]

(* Idle workers hold no task, and the workers of the pool are those alive.  *)
WorkersSound(idl, tsk, thr, n) ==
    /\ \A i, j \in DOMAIN idl : i # j => idl[i] # idl[j]
    /\ \A i \in DOMAIN idl : tsk[idl[i]] = None
    /\ \A w \in Workers : thr[w] \in {"up", "down"}
                            <=> tsk[w] # None \/ \E i \in DOMAIN idl : idl[i] = w
    /\ \A w \in Workers : thr[w] = "new" <=> w > n
    /\ Cardinality(Alive(thr)) = PoolSize

(* A promise is pending while its task is in one place.                     *)
TasksSound(q, tsk, rep) ==
    /\ \A t \in Tasks : rep[t].is = "pending" <=> \/ \E i \in DOMAIN q : q[i] = t
                                                  \/ \E w \in Workers : tsk[w] = t
    /\ \A i, j \in DOMAIN q : i # j => q[i] # q[j]
    /\ \A v, w \in Workers : v # w /\ tsk[v] # None => tsk[v] # tsk[w]
    /\ \A w \in Workers : \A i \in DOMAIN q : tsk[w] # q[i]
    /\ \A t \in Tasks : rep[t].is = "resolved" => rep[t].of = t

(* At most one message is between a worker and the event loop, and it is    *)
(* about the task the worker holds.                                         *)
MailSound(tsk, box) ==
    \A w \in Workers : box[w] = <<>> \/ (Len(box[w]) = 1 /\ box[w][1].task = tsk[w])

Sound(idl, q, tsk, thr, box, n, rep) ==
    /\ Typed(idl, q, tsk, thr, box, n, rep)
    /\ WorkersSound(idl, tsk, thr, n)
    /\ TasksSound(q, tsk, rep)
    /\ MailSound(tsk, box)

PoolInv == Sound(idle, queue, task, thread, mail, spawned, reply) /\ WorkConserving

USE TasksAssumption, PoolAssumption, RequestsAssumption

-----------------------------------------------------------------------------
(* A list without its last, and without its first, element.                 *)
LEMMA WithoutLast ==
    ASSUME NEW S, NEW s \in Seq(S), Len(s) >= 1
    PROVE  /\ SubSeq(s, 1, Len(s) - 1) \in Seq(S)
           /\ Len(SubSeq(s, 1, Len(s) - 1)) = Len(s) - 1
           /\ DOMAIN SubSeq(s, 1, Len(s) - 1) = 1 .. (Len(s) - 1)
           /\ \A i \in 1 .. (Len(s) - 1) : SubSeq(s, 1, Len(s) - 1)[i] = s[i]
<1>1. Len(s) \in Nat /\ 1 \in Int /\ Len(s) - 1 \in Int
      /\ \A i \in 1 .. (Len(s) - 1) : s[i] \in S
  OBVIOUS
<1> DEFINE m == Len(s) - 1
<1> HIDE DEF m
<1>2. /\ SubSeq(s, 1, m) \in Seq(S)
      /\ Len(SubSeq(s, 1, m)) = IF 1 <= m THEN m - 1 + 1 ELSE 0
      /\ \A i \in 1 .. m - 1 + 1 : SubSeq(s, 1, m)[i] = s[1 + i - 1]
  <2>1. m \in Int /\ \A i \in 1 .. m : s[i] \in S
    BY <1>1 DEF m
  <2> QED
    BY <1>1, <2>1, SubSeqProperties, SMT
<1>3. m \in Nat /\ m - 1 + 1 = m /\ \A i \in 1 .. m : 1 + i - 1 = i
  BY <1>1 DEF m
<1>4. Len(SubSeq(s, 1, m)) = m
  BY <1>2, <1>3
<1>5. DOMAIN SubSeq(s, 1, m) = 1 .. m
  BY <1>2, <1>4, LenProperties
<1> QED
  BY <1>2, <1>3, <1>4, <1>5 DEF m

LEMMA WithoutFirst ==
    ASSUME NEW S, NEW s \in Seq(S), Len(s) >= 1
    PROVE  /\ SubSeq(s, 2, Len(s)) \in Seq(S)
           /\ Len(SubSeq(s, 2, Len(s))) = Len(s) - 1
           /\ DOMAIN SubSeq(s, 2, Len(s)) = 1 .. (Len(s) - 1)
           /\ \A i \in 1 .. (Len(s) - 1) : SubSeq(s, 2, Len(s))[i] = s[i + 1]
<1>1. Len(s) \in Nat /\ s # <<>>
  OBVIOUS
<1>2. Tail(s) = SubSeq(s, 2, Len(s))
  BY <1>1, TailIsSubSeq
<1>3. /\ Tail(s) \in Seq(S) /\ Len(Tail(s)) = Len(s) - 1
      /\ \A i \in 1 .. Len(Tail(s)) : Tail(s)[i] = s[i + 1]
  BY <1>1, HeadTailProperties
<1> QED
  BY <1>2, <1>3, LenProperties

Distinct(s) == \A i, j \in DOMAIN s : i # j => s[i] # s[j]
Has(s, y) == \E i \in DOMAIN s : s[i] = y

(* A list of different elements, with one more that it did not have.        *)
LEMMA OneMore ==
    ASSUME NEW S, NEW s \in Seq(S), NEW x \in S, Distinct(s), ~Has(s, x)
    PROVE  /\ Append(s, x) \in Seq(S) /\ Distinct(Append(s, x))
           /\ \A y : Has(Append(s, x), y) <=> y = x \/ Has(s, y)
<1> DEFINE r == Append(s, x)
<1>1. /\ r \in Seq(S) /\ Len(s) \in Nat
      /\ DOMAIN s = 1 .. Len(s) /\ DOMAIN r = 1 .. (Len(s) + 1)
      /\ \A i \in DOMAIN s : r[i] = s[i]
      /\ r[Len(s) + 1] = x
  BY AppendProperties, LenProperties
<1>2. /\ \A i \in DOMAIN r : i \in DOMAIN s \/ i = Len(s) + 1
      /\ Len(s) + 1 \in DOMAIN r /\ \A i \in DOMAIN s : i \in DOMAIN r
  BY <1>1
<1> HIDE DEF r
<1>3. Distinct(r)
  BY <1>1, <1>2 DEF Distinct, Has
<1>4. \A y : Has(r, y) <=> y = x \/ Has(s, y)
  BY <1>1, <1>2 DEF Has
<1> QED
  BY <1>1, <1>3, <1>4 DEF r

(* A list of different elements, with one of them spliced out.              *)
LEMMA SplicedOut ==
    ASSUME NEW S, NEW s \in Seq(S), NEW x \in S, Distinct(s)
    PROVE  /\ Without(s, x) \in Seq(S) /\ Distinct(Without(s, x))
           /\ s = <<>> => Without(s, x) = <<>>
           /\ \A y : Has(Without(s, x), y) <=> y # x /\ Has(s, y)
<1> DEFINE r == Without(s, x)
<1>1. Len(s) \in Nat /\ DOMAIN s = 1 .. Len(s) /\ \A i \in DOMAIN s : s[i] \in S
  BY LenProperties
<1>2. CASE \A i \in DOMAIN s : s[i] # x
  <2>1. Without(s, x) = s
    BY <1>2 DEF Without
  <2> QED
    BY <1>2, <2>1 DEF Has
<1>3. CASE ~ \A i \in DOMAIN s : s[i] # x
  <2> DEFINE First(i) == s[i] = x /\ \A j \in 1 .. (i - 1) : s[j] # x
             at == CHOOSE i \in DOMAIN s : First(i)
  <2>1. PICK i \in DOMAIN s : s[i] = x
    BY <1>3
  <2>2. \A j \in 1 .. (i - 1) : j \in DOMAIN s /\ j # i
    BY <1>1
  <2>3. First(i)
    BY <2>1, <2>2 DEF Distinct
  <2>4. at \in DOMAIN s /\ First(at)
    <3> HIDE DEF First
    <3> QED
      BY <2>3
  <2>5. r = [k \in 1 .. (Len(s) - 1) |-> IF k < at THEN s[k] ELSE s[k + 1]]
    BY <1>3 DEF Without
  <2> HIDE DEF at
  <2>6. /\ Len(s) - 1 \in Nat /\ at \in Nat /\ s[at] = x
        /\ \A k \in 1 .. (Len(s) - 1) : k \in DOMAIN s /\ k + 1 \in DOMAIN s
    BY <1>1, <2>4
  <2>7. /\ DOMAIN r = 1 .. (Len(s) - 1)
        /\ \A k \in DOMAIN r : k < at => r[k] = s[k]
        /\ \A k \in DOMAIN r : ~(k < at) => r[k] = s[k + 1]
    BY <2>5
  <2>8. r \in Seq(S)
    <3>1. \A k \in 1 .. (Len(s) - 1) : (IF k < at THEN s[k] ELSE s[k + 1]) \in S
      BY <1>1, <2>6
    <3> QED
      BY <2>5, <2>6, <3>1
  <2> HIDE DEF r
  <2>9. \A k, l \in DOMAIN r : k # l => r[k] # r[l]
    <3> SUFFICES ASSUME NEW k \in DOMAIN r, NEW l \in DOMAIN r, k < l
                 PROVE  r[k] # r[l]
      BY <1>1, <2>6, <2>7
    <3>1. \E a, b \in DOMAIN s : a # b /\ r[k] = s[a] /\ r[l] = s[b]
      <4>1. CASE l < at
        BY <4>1, <1>1, <2>6, <2>7
      <4>2. CASE k < at /\ ~(l < at)
        <5>1. r[k] = s[k] /\ r[l] = s[l + 1] /\ k \in DOMAIN s /\ l + 1 \in DOMAIN s
              /\ k # l + 1
          BY <4>2, <1>1, <2>6, <2>7
        <5> QED
          BY <5>1
      <4>3. CASE ~(k < at)
        <5>1. r[k] = s[k + 1] /\ r[l] = s[l + 1] /\ k + 1 \in DOMAIN s /\ l + 1 \in DOMAIN s
              /\ k + 1 # l + 1
          BY <4>3, <1>1, <2>6, <2>7
        <5> QED
          BY <5>1
      <4> QED
        BY <4>1, <4>2, <4>3
    <3> QED
      BY <3>1 DEF Distinct
  <2>10. ASSUME NEW y, y # x, NEW k \in DOMAIN s, s[k] = y
         PROVE  \E l \in DOMAIN r : r[l] = y
    <3>1. k # at
      BY <2>6, <2>10
    <3>2. CASE k < at
      <4>1. k \in DOMAIN r /\ r[k] = s[k]
        BY <3>2, <1>1, <2>4, <2>7
      <4> QED
        BY <2>10, <4>1
    <3>3. CASE ~(k < at)
      <4>1. k - 1 \in DOMAIN r /\ r[k - 1] = s[k]
        BY <3>1, <3>3, <1>1, <2>4, <2>7
      <4> QED
        BY <2>10, <4>1
    <3> QED
      BY <3>2, <3>3
  <2>11. ASSUME NEW k \in DOMAIN r
         PROVE  r[k] # x /\ \E l \in DOMAIN s : s[l] = r[k]
    <3>1. CASE k < at
      <4>1. r[k] = s[k] /\ k \in DOMAIN s /\ k # at
        BY <3>1, <2>6, <2>7
      <4> QED
        BY <4>1, <2>4, <2>6 DEF Distinct
    <3>2. CASE ~(k < at)
      <4>1. r[k] = s[k + 1] /\ k + 1 \in DOMAIN s /\ k + 1 # at
        BY <3>2, <1>1, <2>6, <2>7
      <4> QED
        BY <4>1, <2>4, <2>6 DEF Distinct
    <3> QED
      BY <3>1, <3>2
  <2>12. s # <<>>
    BY <2>4
  <2> QED
    BY <2>8, <2>9, <2>10, <2>11, <2>12 DEF r, Distinct, Has
<1> QED
  BY <1>2, <1>3

-----------------------------------------------------------------------------
(* _pump, when at most one task can be handed out.                          *)

(* Nothing can be handed out.                                               *)
LEMMA PumpNone ==
    ASSUME NEW idl \in Seq(Workers), NEW q \in Seq(Tasks),
           NEW tsk \in [Workers -> Tasks \cup {None}],
           NEW thr \in [Workers -> {"new", "up", "down", "gone"}],
           NEW box \in [Workers -> Seq(Mail)],
           idl = <<>> \/ q = <<>>,
           _pump(idl, q, tsk, thr, box)
    PROVE  idle' = idl /\ queue' = q /\ task' = tsk /\ mail' = box
<1>1. Rounds(idl, q) = 0
  BY DEF Rounds
<1>2. \A w \in Workers : RoundsOf(w, idl, q) = {}
  BY <1>1 DEF RoundsOf
<1>3. idle' = SubSeq(idl, 1, Len(idl)) /\ queue' = SubSeq(q, 1, Len(q))
  BY <1>1 DEF _pump, HandOut
<1>4. idle' = idl /\ queue' = q
  BY <1>3
<1>5. task' = [w \in Workers |-> tsk[w]] /\ mail' = [w \in Workers |-> box[w]]
  BY <1>2 DEF _pump, HandOut
<1> QED
  BY <1>4, <1>5

(* What the worker v is given, and sent, with the task t.                   *)
Given(tsk, v, t) == [tsk EXCEPT ![v] = t]
Sent(box, v, t, thr) == [box EXCEPT ![v] = Posted(@, t, thr[v])]

(* One task is handed to one worker.                                        *)
LEMMA PumpOne ==
    ASSUME NEW idl \in Seq(Workers), NEW q \in Seq(Tasks),
           NEW tsk \in [Workers -> Tasks \cup {None}],
           NEW thr \in [Workers -> {"new", "up", "down", "gone"}],
           NEW box \in [Workers -> Seq(Mail)],
           Len(idl) >= 1, Len(q) >= 1, Len(idl) = 1 \/ Len(q) = 1,
           _pump(idl, q, tsk, thr, box)
    PROVE  /\ idle' = SubSeq(idl, 1, Len(idl) - 1)
           /\ queue' = SubSeq(q, 2, Len(q))
           /\ task' = Given(tsk, idl[Len(idl)], q[1])
           /\ mail' = Sent(box, idl[Len(idl)], q[1], thr)
<1> DEFINE v == idl[Len(idl)]
<1>0. Len(idl) \in Nat /\ Len(q) \in Nat
  OBVIOUS
<1>1. Rounds(idl, q) = 1
  <2>1. CASE Len(idl) <= Len(q)
    BY <1>0, <2>1 DEF Rounds
  <2>2. CASE ~(Len(idl) <= Len(q))
    BY <1>0, <2>2 DEF Rounds
  <2> QED
    BY <2>1, <2>2
<1>2. v \in Workers
  OBVIOUS
<1>3. RoundsOf(v, idl, q) = {1} /\ \A w \in Workers : w # v => RoundsOf(w, idl, q) = {}
  BY <1>1, <1>2 DEF RoundsOf
<1>4. TaskFor(v, idl, q) = q[1]
  BY <1>3 DEF TaskFor
<1>5. idle' = SubSeq(idl, 1, Len(idl) - 1) /\ queue' = SubSeq(q, 2, Len(q))
  BY <1>1 DEF _pump, HandOut
<1>6. task' = [w \in Workers |-> IF w = v THEN q[1] ELSE tsk[w]]
  BY <1>3, <1>4 DEF _pump, HandOut
<1>7. mail' = [w \in Workers |-> IF w = v THEN Posted(box[w], q[1], thr[w]) ELSE box[w]]
  BY <1>3, <1>4 DEF _pump, HandOut
<1> QED
  BY <1>2, <1>5, <1>6, <1>7 DEF Given, Sent

(* Handing the first task to the last idle worker keeps the lists sound.    *)
LEMMA HandedOut ==
    ASSUME NEW idl, NEW q, NEW tsk, NEW thr, NEW box, NEW n, NEW rep,
           Sound(idl, q, tsk, thr, box, n, rep),
           Len(idl) >= 1, Len(q) >= 1
    PROVE  Sound(SubSeq(idl, 1, Len(idl) - 1), SubSeq(q, 2, Len(q)),
                 Given(tsk, idl[Len(idl)], q[1]), thr,
                 Sent(box, idl[Len(idl)], q[1], thr), n, rep)
<1> DEFINE v == idl[Len(idl)]
           idl2 == SubSeq(idl, 1, Len(idl) - 1)
           q2 == SubSeq(q, 2, Len(q))
           tsk2 == [tsk EXCEPT ![v] = q[1]]
           box2 == [box EXCEPT ![v] = Posted(@, q[1], thr[v])]
<1>1. Typed(idl, q, tsk, thr, box, n, rep)
  BY DEF Sound
<1>2. Len(idl) \in Nat /\ Len(q) \in Nat /\ v \in Workers /\ q[1] \in Tasks
  BY <1>1 DEF Typed
<1>3. /\ idl2 \in Seq(Workers) /\ Len(idl2) = Len(idl) - 1
      /\ DOMAIN idl2 = 1 .. (Len(idl) - 1)
      /\ \A i \in 1 .. (Len(idl) - 1) : idl2[i] = idl[i]
  BY <1>1, WithoutLast DEF Typed
<1>4. /\ q2 \in Seq(Tasks) /\ Len(q2) = Len(q) - 1
      /\ DOMAIN q2 = 1 .. (Len(q) - 1)
      /\ \A i \in 1 .. (Len(q) - 1) : q2[i] = q[i + 1]
  BY <1>1, WithoutFirst DEF Typed
<1>5. tsk[v] = None /\ q[1] # None
  BY <1>1, <1>2, TasksAssumption DEF Sound, WorkersSound, Typed
<1>6. box[v] = <<>>
  <2>1. box[v] # <<>> => box[v][1].task = None /\ Len(box[v]) = 1
    BY <1>2, <1>5 DEF Sound, MailSound
  <2>2. box[v] \in Seq(Mail)
    BY <1>1, <1>2 DEF Typed
  <2>3. box[v] # <<>> => box[v][1] \in Mail
    BY <2>1, <2>2
  <2> QED
    BY <2>1, <2>3, TasksAssumption DEF Mail
<1>7. tsk2 \in [Workers -> Tasks \cup {None}] /\ tsk2[v] = q[1]
      /\ \A w \in Workers : w # v => tsk2[w] = tsk[w]
  BY <1>1, <1>2 DEF Typed
<1>8. /\ box2[v] = <<>> \/ box2[v] = <<[task |-> q[1], is |-> "asked"]>>
      /\ \A w \in Workers : w # v => box2[w] = box[w]
      /\ box2 \in [Workers -> Seq(Mail)]
  <2>1. /\ box2[v] = Posted(box[v], q[1], thr[v])
        /\ \A w \in Workers : w # v => box2[w] = box[w]
        /\ DOMAIN box2 = Workers
    BY <1>1, <1>2 DEF Typed
  <2>2. box2[v] = <<>> \/ box2[v] = <<[task |-> q[1], is |-> "asked"]>>
    BY <2>1, <1>6 DEF Posted
  <2>3. [task |-> q[1], is |-> "asked"] \in Mail
    BY <1>2 DEF Mail
  <2>4. box2[v] \in Seq(Mail)
    <3>1. <<>> \in Seq(Mail) /\ \A m \in Mail : <<m>> \in Seq(Mail)
      OBVIOUS
    <3> HIDE DEF box2, v
    <3> QED
      BY <2>2, <2>3, <3>1
  <2>5. box2 = [w \in Workers |-> box2[w]]
    BY <1>1 DEF Typed
  <2> QED
    BY <1>1, <2>1, <2>2, <2>4, <2>5 DEF Typed
<1>9. Typed(idl2, q2, tsk2, thr, box2, n, rep)
  BY <1>1, <1>3, <1>4, <1>7, <1>8 DEF Typed
<1>10. WorkersSound(idl2, tsk2, thr, n)
  <2>1. DOMAIN idl = 1 .. Len(idl) /\ DOMAIN idl2 = 1 .. (Len(idl) - 1)
    BY <1>1, <1>2, <1>3 DEF Typed
  <2>2. \A i, j \in DOMAIN idl2 : i # j => idl2[i] # idl2[j]
    BY <1>2, <1>3, <2>1 DEF Sound, WorkersSound
  <2>3. \A i \in DOMAIN idl2 : idl2[i] # v /\ idl2[i] \in Workers
    <3>1. \A i \in DOMAIN idl2 : i \in DOMAIN idl /\ i # Len(idl) /\ Len(idl) \in DOMAIN idl
      BY <1>2, <2>1
    <3> QED
      BY <1>3, <2>1, <3>1 DEF Sound, WorkersSound
  <2>4. \A i \in DOMAIN idl2 : tsk2[idl2[i]] = None
    <3>1. \A i \in DOMAIN idl2 : tsk[idl2[i]] = None
      BY <1>2, <1>3, <2>1 DEF Sound, WorkersSound
    <3> QED
      BY <1>7, <2>3, <3>1
  <2>5. \A w \in Workers : w # v => ((\E i \in DOMAIN idl2 : idl2[i] = w)
                                       <=> \E i \in DOMAIN idl : idl[i] = w)
    <3>1. \A i \in DOMAIN idl : i \in DOMAIN idl2 \/ i = Len(idl)
      BY <1>2, <2>1
    <3>2. \A i \in DOMAIN idl2 : i \in DOMAIN idl /\ idl2[i] = idl[i]
      BY <1>2, <1>3, <2>1
    <3>3. idl[Len(idl)] = v
      OBVIOUS
    <3> HIDE DEF v, idl2
    <3> QED
      BY <3>1, <3>2, <3>3
  <2>6. \A w \in Workers : thr[w] \in {"up", "down"}
                               <=> tsk2[w] # None \/ \E i \in DOMAIN idl2 : idl2[i] = w
    <3>1. \A w \in Workers : thr[w] \in {"up", "down"}
                               <=> tsk[w] # None \/ \E i \in DOMAIN idl : idl[i] = w
      BY DEF Sound, WorkersSound
    <3>2. \E i \in DOMAIN idl : idl[i] = v
      BY <1>2, <2>1
    <3> HIDE DEF v, idl2, tsk2
    <3> QED
      BY <1>5, <1>7, <2>5, <3>1, <3>2
  <2> QED
    BY <2>2, <2>4, <2>6 DEF Sound, WorkersSound
<1>11. TasksSound(q2, tsk2, rep)
  <2>1. DOMAIN q = 1 .. Len(q) /\ DOMAIN q2 = 1 .. (Len(q) - 1)
    BY <1>1, <1>2, <1>4 DEF Typed
  <2>2. TasksSound(q, tsk, rep)
    BY DEF Sound
  <2>3. \A i \in DOMAIN q2 : i + 1 \in DOMAIN q /\ q2[i] = q[i + 1] /\ i + 1 # 1
    BY <1>2, <1>4, <2>1
  <2>4. 1 \in DOMAIN q /\ \A w \in Workers : tsk[w] # q[1]
    BY <1>2, <2>1, <2>2 DEF TasksSound
  <2>5. \A i \in DOMAIN q2 : q2[i] # q[1]
    BY <2>2, <2>3, <2>4 DEF TasksSound
  <2>6. \A t : (\E i \in DOMAIN q : q[i] = t)
                  <=> t = q[1] \/ \E i \in DOMAIN q2 : q2[i] = t
    <3>1. \A i \in DOMAIN q : i = 1 \/ (i - 1 \in DOMAIN q2 /\ q2[i - 1] = q[i])
      BY <1>2, <1>4, <2>1
    <3> HIDE DEF q2
    <3> QED
      BY <2>3, <2>4, <3>1
  <2>7. \A t \in Tasks : (\E w \in Workers : tsk2[w] = t)
                          <=> t = q[1] \/ \E w \in Workers : tsk[w] = t
    <3>1. \A t \in Tasks : t # None
      BY TasksAssumption
    <3>2. v \in Workers
      BY <1>2
    <3> HIDE DEF v, tsk2
    <3> QED
      BY <3>1, <3>2, <1>5, <1>7
  <2>8. \A t \in Tasks : rep[t].is = "pending" <=> \/ \E i \in DOMAIN q2 : q2[i] = t
                                                   \/ \E w \in Workers : tsk2[w] = t
    <3> HIDE DEF tsk2, q2
    <3> QED
      BY <2>2, <2>6, <2>7 DEF TasksSound
  <2>9. \A i, j \in DOMAIN q2 : i # j => q2[i] # q2[j]
    BY <2>1, <2>2, <2>3, <1>2 DEF TasksSound
  <2>10. \A x, w \in Workers : x # w /\ tsk2[x] # None => tsk2[x] # tsk2[w]
    <3> HIDE DEF v, tsk2
    <3> QED
      BY <1>7, <2>2, <2>4 DEF TasksSound
  <2>11. \A w \in Workers : \A i \in DOMAIN q2 : tsk2[w] # q2[i]
    <3>1. \A w \in Workers : \A i \in DOMAIN q2 : tsk[w] # q2[i]
      BY <2>2, <2>3 DEF TasksSound
    <3> HIDE DEF v, tsk2, q2
    <3> QED
      BY <1>7, <2>5, <3>1
  <2> QED
    BY <2>2, <2>8, <2>9, <2>10, <2>11 DEF TasksSound
<1>12. MailSound(tsk2, box2)
  <2>1. \A w \in Workers : w # v =>
            box2[w] = <<>> \/ (Len(box2[w]) = 1 /\ box2[w][1].task = tsk2[w])
    <3>1. MailSound(tsk, box)
      BY DEF Sound
    <3> HIDE DEF v, tsk2, box2
    <3> QED
      BY <1>7, <1>8, <3>1 DEF MailSound
  <2>2. box2[v] = <<>> \/ (Len(box2[v]) = 1 /\ box2[v][1].task = tsk2[v])
    <3>1. q[1] \in Tasks /\ tsk2[v] = q[1]
      BY <1>2, <1>7
    <3> HIDE DEF v, tsk2, box2
    <3>2. CASE box2[v] = <<[task |-> q[1], is |-> "asked"]>>
      BY <3>1, <3>2
    <3> QED
      BY <1>8, <3>2
  <2> HIDE DEF v, tsk2, box2
  <2> QED
    BY <2>1, <2>2 DEF MailSound
<1> QED
  BY <1>9, <1>10, <1>11, <1>12 DEF Sound, Given, Sent

(* So does _pump, and afterwards nothing waits while a worker is idle.      *)
LEMMA PumpSound ==
    ASSUME NEW idl, NEW q, NEW tsk, NEW thr, NEW box, NEW n, NEW rep,
           Sound(idl, q, tsk, thr, box, n, rep),
           idl = <<>> \/ q = <<>> \/ Len(idl) = 1 \/ Len(q) = 1,
           _pump(idl, q, tsk, thr, box)
    PROVE  Sound(idle', queue', task', thr, mail', n, rep) /\ WorkConserving'
<1>1. Typed(idl, q, tsk, thr, box, n, rep)
  BY DEF Sound
<1>2. CASE idl = <<>> \/ q = <<>>
  <2>1. idle' = idl /\ queue' = q /\ task' = tsk /\ mail' = box
    BY <1>1, <1>2, PumpNone DEF Typed
  <2> QED
    BY <1>2, <2>1 DEF WorkConserving
<1>3. CASE idl # <<>> /\ q # <<>>
  <2>1. Len(idl) \in Nat /\ Len(q) \in Nat /\ Len(idl) >= 1 /\ Len(q) >= 1
    BY <1>1, <1>3, EmptySeq DEF Typed
  <2>2. Len(idl) = 1 \/ Len(q) = 1
    BY <1>3
  <2>3. /\ idle' = SubSeq(idl, 1, Len(idl) - 1)
        /\ queue' = SubSeq(q, 2, Len(q))
        /\ task' = Given(tsk, idl[Len(idl)], q[1])
        /\ mail' = Sent(box, idl[Len(idl)], q[1], thr)
    <3>1. /\ idl \in Seq(Workers) /\ q \in Seq(Tasks)
          /\ tsk \in [Workers -> Tasks \cup {None}]
          /\ thr \in [Workers -> {"new", "up", "down", "gone"}]
          /\ box \in [Workers -> Seq(Mail)]
      BY <1>1 DEF Typed
    <3> QED
      BY <2>1, <2>2, <3>1, PumpOne, Zenon
  <2>4. Sound(idle', queue', task', thr, mail', n, rep)
    BY <2>1, <2>3, HandedOut
  <2>5. Len(idle') = Len(idl) - 1 /\ Len(queue') = Len(q) - 1
        /\ idle' \in Seq(Workers) /\ queue' \in Seq(Tasks)
    BY <1>1, <2>1, <2>3, WithoutLast, WithoutFirst DEF Typed
  <2>6. idle' = <<>> \/ queue' = <<>>
    BY <2>1, <2>2, <2>5, EmptySeq
  <2> QED
    BY <2>4, <2>6 DEF WorkConserving
<1> QED
  BY <1>2, <1>3

-----------------------------------------------------------------------------
(* The handlers, up to their call of _pump.                                 *)

(* run puts a new task at the end of the queue.                             *)
LEMMA QueuedSound ==
    ASSUME PoolInv, NEW t \in Tasks, reply[t] = Unused
    PROVE  Sound(idle, Append(queue, t), task, thread, mail, spawned,
                 [reply EXCEPT ![t] = Pending])
<1> DEFINE q2 == Append(queue, t)
           rep2 == [reply EXCEPT ![t] = Pending]
<1>1. /\ Typed(idle, queue, task, thread, mail, spawned, reply)
      /\ WorkersSound(idle, task, thread, spawned)
      /\ TasksSound(queue, task, reply)
      /\ MailSound(task, mail)
  BY DEF PoolInv, Sound
<1>2. /\ q2 \in Seq(Tasks) /\ Len(queue) \in Nat
      /\ DOMAIN queue = 1 .. Len(queue) /\ DOMAIN q2 = 1 .. (Len(queue) + 1)
      /\ \A i \in DOMAIN queue : q2[i] = queue[i]
      /\ q2[Len(queue) + 1] = t
  BY <1>1, AppendProperties, LenProperties DEF Typed
<1>3. Pending \in Promise /\ Pending.is = "pending" /\ Unused.is = "unused"
  BY DEF Pending, Promise, Unused
<1>4. /\ rep2 \in [Tasks -> Promise] /\ rep2[t] = Pending
      /\ \A u \in Tasks : u # t => rep2[u] = reply[u]
  BY <1>1, <1>3 DEF Typed
<1>5. Typed(idle, q2, task, thread, mail, spawned, rep2)
  BY <1>1, <1>2, <1>4 DEF Typed
<1>6. (\A i \in DOMAIN queue : queue[i] # t) /\ \A w \in Workers : task[w] # t
  BY <1>1, <1>3 DEF TasksSound
<1>7. \A i \in DOMAIN q2 : i \in DOMAIN queue \/ i = Len(queue) + 1
  BY <1>2
<1>8. \A u \in Tasks : (\E i \in DOMAIN q2 : q2[i] = u)
                          <=> u = t \/ \E i \in DOMAIN queue : queue[i] = u
  <2>1. Len(queue) + 1 \in DOMAIN q2 /\ \A i \in DOMAIN queue : i \in DOMAIN q2
    BY <1>2
  <2> HIDE DEF q2
  <2> QED
    BY <1>2, <1>7, <2>1
<1>9. TasksSound(q2, task, rep2)
  <2>1. \A u \in Tasks : rep2[u].is = "pending" <=> \/ \E i \in DOMAIN q2 : q2[i] = u
                                                    \/ \E w \in Workers : task[w] = u
    <3> HIDE DEF q2, rep2
    <3> QED
      BY <1>1, <1>3, <1>4, <1>8 DEF TasksSound
  <2>2. \A i, j \in DOMAIN q2 : i # j => q2[i] # q2[j]
    <3> HIDE DEF q2
    <3> QED
      BY <1>1, <1>2, <1>6, <1>7 DEF TasksSound
  <2>3. \A w \in Workers : \A i \in DOMAIN q2 : task[w] # q2[i]
    <3> HIDE DEF q2
    <3> QED
      BY <1>1, <1>2, <1>6, <1>7 DEF TasksSound
  <2>4. \A u \in Tasks : rep2[u].is = "resolved" => rep2[u].of = u
    <3> HIDE DEF rep2
    <3> QED
      BY <1>1, <1>3, <1>4 DEF TasksSound
  <2> HIDE DEF q2, rep2
  <2> QED
    BY <1>1, <2>1, <2>2, <2>3, <2>4 DEF TasksSound
<1> QED
  BY <1>1, <1>5, <1>9 DEF Sound

(* The lengths for which _pump is called.                                   *)
LEMMA OneMoreQueued ==
    ASSUME PoolInv, NEW t \in Tasks
    PROVE  idle = <<>> \/ Len(Append(queue, t)) = 1
<1>1. queue = <<>> => Append(queue, t) = <<t>>
  OBVIOUS
<1> QED
  BY <1>1 DEF PoolInv, WorkConserving

LEMMA OneMoreIdle ==
    ASSUME NEW idl \in Seq(Workers), NEW w \in Workers, idl = <<>> \/ queue = <<>>
    PROVE  queue = <<>> \/ Len(Append(idl, w)) = 1
  OBVIOUS

(* A worker gives its task up, and the promise of the task, if any, is      *)
(* settled with r.                                                          *)
LEMMA ReleasedTasks ==
    ASSUME NEW q \in Seq(Tasks), NEW tsk \in [Workers -> Tasks \cup {None}],
           NEW rep \in [Tasks -> Promise], TasksSound(q, tsk, rep),
           NEW w \in Workers, NEW r \in Promise,
           r.is \in {"resolved", "rejected"}, r.is = "resolved" => r.of = tsk[w],
           NEW rep2, rep2 = IF tsk[w] = None THEN rep ELSE [rep EXCEPT ![tsk[w]] = r]
    PROVE  rep2 \in [Tasks -> Promise] /\ TasksSound(q, [tsk EXCEPT ![w] = None], rep2)
<1> DEFINE tsk2 == [tsk EXCEPT ![w] = None]
<1>1. \A t \in Tasks : t # None
  BY TasksAssumption
<1>2. tsk2[w] = None /\ \A v \in Workers : v # w => tsk2[v] = tsk[v]
  OBVIOUS
<1>3. CASE tsk[w] = None
  <2>1. tsk2 = tsk /\ rep2 = rep
    BY <1>3
  <2> QED
    BY <2>1
<1>4. CASE tsk[w] # None
  <2>1. tsk[w] \in Tasks
    BY <1>4
  <2>2. /\ rep2 \in [Tasks -> Promise] /\ rep2[tsk[w]] = r
        /\ \A t \in Tasks : t # tsk[w] => rep2[t] = rep[t]
    BY <1>4, <2>1
  <2>3. \A t \in Tasks : (\E v \in Workers : tsk2[v] = t)
                             <=> t # tsk[w] /\ \E v \in Workers : tsk[v] = t
    <3> HIDE DEF tsk2
    <3> QED
      BY <1>1, <1>2, <1>4 DEF TasksSound
  <2> HIDE DEF tsk2
  <2>4. \A i \in DOMAIN q : q[i] # tsk[w]
    BY DEF TasksSound
  <2>5. \A t \in Tasks : rep2[t].is = "pending" <=> \/ \E i \in DOMAIN q : q[i] = t
                                                    \/ \E v \in Workers : tsk2[v] = t
    <3>1. ASSUME NEW t \in Tasks, t # tsk[w]
          PROVE  rep2[t].is = "pending" <=> \/ \E i \in DOMAIN q : q[i] = t
                                            \/ \E v \in Workers : tsk2[v] = t
      BY <2>2, <2>3, <3>1 DEF TasksSound
    <3>2. ~(rep2[tsk[w]].is = "pending") /\ (\A i \in DOMAIN q : q[i] # tsk[w])
          /\ ~ \E v \in Workers : tsk2[v] = tsk[w]
      BY <2>1, <2>2, <2>3, <2>4
    <3> QED
      BY <3>1, <3>2
  <2>6. \A u, v \in Workers : u # v /\ tsk2[u] # None => tsk2[u] # tsk2[v]
    BY <1>2 DEF TasksSound
  <2>7. \A v \in Workers : \A i \in DOMAIN q : tsk2[v] # q[i]
    <3>1. \A i \in DOMAIN q : None # q[i]
      BY <1>1
    <3> QED
      BY <1>2, <3>1 DEF TasksSound
  <2>8. \A t \in Tasks : rep2[t].is = "resolved" => rep2[t].of = t
    BY <2>2 DEF TasksSound
  <2> QED
    BY <2>2, <2>5, <2>6, <2>7, <2>8 DEF TasksSound, tsk2
<1> QED
  BY <1>3, <1>4

(* A message: the worker is idle again, and its task is settled.            *)
LEMMA MessageSound ==
    ASSUME PoolInv, NEW w \in Workers, mail[w] # <<>>
    PROVE  Sound(Append(idle, w), queue, [task EXCEPT ![w] = None], thread,
                 [mail EXCEPT ![w] = Tail(@)], spawned, Settled(w, Head(mail[w])))
<1> DEFINE idl2 == Append(idle, w)
           tsk2 == [task EXCEPT ![w] = None]
           box2 == [mail EXCEPT ![w] = Tail(@)]
           rep2 == Settled(w, Head(mail[w]))
<1>1. /\ Typed(idle, queue, task, thread, mail, spawned, reply)
      /\ WorkersSound(idle, task, thread, spawned)
      /\ TasksSound(queue, task, reply)
      /\ MailSound(task, mail)
  BY DEF PoolInv, Sound
<1>2. mail[w] \in Seq(Mail) /\ Len(mail[w]) = 1 /\ mail[w][1].task = task[w]
  BY <1>1 DEF Typed, MailSound
<1>3. Head(mail[w]) = mail[w][1] /\ Head(mail[w]) \in Mail /\ Tail(mail[w]) = <<>>
  <2>1. Head(mail[w]) = mail[w][1] /\ Head(mail[w]) \in Mail
    BY <1>2
  <2>2. Tail(mail[w]) \in Seq(Mail) /\ Len(Tail(mail[w])) = 0
    BY <1>2, HeadTailProperties
  <2>3. Tail(mail[w]) = <<>>
    BY <2>2, EmptySeq
  <2> QED
    BY <2>1, <2>3
<1>4. task[w] \in Tasks /\ task[w] # None /\ Head(mail[w]).task = task[w]
  BY <1>2, <1>3, TasksAssumption DEF Mail
<1>5. rep2 \in [Tasks -> Promise] /\ TasksSound(queue, tsk2, rep2)
  <2> DEFINE r == IF Head(mail[w]).is = "glb" THEN Resolved(task[w]) ELSE Rejected
  <2>1. Resolved(task[w]) \in Promise /\ Resolved(task[w]).is = "resolved"
        /\ Resolved(task[w]).of = task[w]
    BY <1>4 DEF Resolved, Promise
  <2>2. Rejected \in Promise /\ Rejected.is = "rejected"
    BY DEF Rejected, Promise
  <2>3. r \in Promise /\ r.is \in {"resolved", "rejected"}
        /\ (r.is = "resolved" => r.of = task[w])
    BY <2>1, <2>2
  <2>4. rep2 = IF task[w] = None THEN reply ELSE [reply EXCEPT ![task[w]] = r]
    BY <1>4 DEF Settled
  <2> HIDE DEF r, rep2
  <2> QED
    BY <1>1, <2>3, <2>4, ReleasedTasks DEF Typed
<1>6. /\ box2 \in [Workers -> Seq(Mail)] /\ box2[w] = <<>>
      /\ \A v \in Workers : v # w => box2[v] = mail[v]
  BY <1>1, <1>3 DEF Typed
<1>7. /\ tsk2 \in [Workers -> Tasks \cup {None}] /\ tsk2[w] = None
      /\ \A v \in Workers : v # w => tsk2[v] = task[v]
  BY <1>1 DEF Typed
<1>8. /\ idl2 \in Seq(Workers) /\ Distinct(idl2)
      /\ \A v : Has(idl2, v) <=> v = w \/ Has(idle, v)
  <2>1. idle \in Seq(Workers) /\ Distinct(idle) /\ ~Has(idle, w)
    BY <1>1, <1>4 DEF Typed, WorkersSound, Distinct, Has
  <2> QED
    BY <2>1, OneMore
<1> HIDE DEF idl2, tsk2, box2, rep2
<1>9. WorkersSound(idl2, tsk2, thread, spawned)
  <2>1. \A i \in DOMAIN idl2 : tsk2[idl2[i]] = None
    <3>1. \A i \in DOMAIN idl2 : idl2[i] \in Workers
      BY <1>8, ElementOfSeq, LenProperties
    <3>2. \A i \in DOMAIN idl2 : idl2[i] = w \/ \E j \in DOMAIN idle : idle[j] = idl2[i]
      BY <1>8 DEF Has
    <3>3. \A i \in DOMAIN idl2 : idl2[i] = w \/ task[idl2[i]] = None
      BY <1>1, <3>2 DEF WorkersSound
    <3> QED
      BY <1>7, <3>1, <3>3
  <2>2. \A v \in Workers : thread[v] \in {"up", "down"}
                               <=> tsk2[v] # None \/ \E i \in DOMAIN idl2 : idl2[i] = v
    BY <1>1, <1>4, <1>7, <1>8 DEF WorkersSound, Has
  <2> QED
    BY <1>1, <1>8, <2>1, <2>2 DEF WorkersSound, Distinct
<1>10. MailSound(tsk2, box2)
  BY <1>1, <1>6, <1>7 DEF MailSound
<1>11. Typed(idl2, queue, tsk2, thread, box2, spawned, rep2)
  BY <1>1, <1>5, <1>6, <1>7, <1>8 DEF Typed
<1> QED
  BY <1>5, <1>9, <1>10, <1>11 DEF Sound, idl2, tsk2, box2, rep2

(* A worker is replaced: the number of live threads stays.                  *)
LEMMA Replaced ==
    ASSUME NEW thr \in [Workers -> {"new", "up", "down", "gone"}],
           NEW w \in Workers, NEW v \in Workers,
           thr[w] \in {"up", "down"}, thr[v] = "new"
    PROVE  Cardinality(Alive([thr EXCEPT ![w] = "gone", ![v] = "up"]))
             = Cardinality(Alive(thr))
<1> DEFINE thr2 == [thr EXCEPT ![w] = "gone", ![v] = "up"]
           A == Alive(thr)
<1>1. IsFiniteSet(Workers)
  BY PoolAssumption, FS_Interval DEF Workers
<1>2. A \subseteq Workers /\ IsFiniteSet(A) /\ w \in A /\ v \notin A
  BY <1>1, FS_Subset DEF Alive
<1>3. Alive(thr2) = (A \ {w}) \cup {v}
  BY DEF Alive
<1>4. IsFiniteSet(A \ {w}) /\ Cardinality(A \ {w}) = Cardinality(A) - 1
  BY <1>2, FS_RemoveElement
<1>5. Cardinality((A \ {w}) \cup {v}) = Cardinality(A \ {w}) + 1
  BY <1>2, <1>4, FS_AddElement
<1>6. Cardinality(A) \in Nat
  BY <1>2, FS_CardinalityType
<1>7. Cardinality(Alive(thr2)) = Cardinality(A)
  <2> HIDE DEF A, thr2
  <2> QED
    BY <1>3, <1>4, <1>5, <1>6
<1> QED
  BY <1>7

(* An error: the task of the dead worker is rejected, and a new worker is   *)
(* idle in its place.                                                       *)
LEMMA ErrorSound ==
    ASSUME PoolInv, NEW w \in Workers, thread[w] = "down", spawned < MaxSpawned,
           mail[w] = <<>>
    PROVE  Sound(Append(Without(idle, w), spawned + 1), queue, [task EXCEPT ![w] = None],
                 [thread EXCEPT ![w] = "gone", ![spawned + 1] = "up"], mail,
                 spawned + 1, Dropped(w))
<1> DEFINE n == spawned + 1
           rest == Without(idle, w)
           idl2 == Append(rest, n)
           tsk2 == [task EXCEPT ![w] = None]
           thr2 == [thread EXCEPT ![w] = "gone", ![n] = "up"]
           rep2 == Dropped(w)
<1>1. /\ Typed(idle, queue, task, thread, mail, spawned, reply)
      /\ WorkersSound(idle, task, thread, spawned)
      /\ TasksSound(queue, task, reply)
      /\ MailSound(task, mail)
  BY DEF PoolInv, Sound
<1>2. spawned \in Nat /\ n \in Workers /\ n > spawned
  BY <1>1, PoolAssumption DEF Typed, Workers
<1>3. thread[n] = "new" /\ n # w
  BY <1>1, <1>2 DEF WorkersSound
<1>4. task[n] = None /\ \A i \in DOMAIN idle : idle[i] # n
  BY <1>1, <1>2, <1>3 DEF WorkersSound
<1>5. rep2 \in [Tasks -> Promise] /\ TasksSound(queue, tsk2, rep2)
  <2>1. Rejected \in Promise /\ Rejected.is = "rejected"
    BY DEF Rejected, Promise
  <2>2. rep2 = IF task[w] = None THEN reply ELSE [reply EXCEPT ![task[w]] = Rejected]
    BY DEF Dropped
  <2> HIDE DEF rep2
  <2> QED
    BY <1>1, <2>1, <2>2, ReleasedTasks DEF Typed
<1>6. /\ tsk2 \in [Workers -> Tasks \cup {None}] /\ tsk2[w] = None
      /\ \A v \in Workers : v # w => tsk2[v] = task[v]
  BY <1>1 DEF Typed
<1>7. /\ thr2 \in [Workers -> {"new", "up", "down", "gone"}]
      /\ thr2[w] = "gone" /\ thr2[n] = "up"
      /\ \A v \in Workers : v # w /\ v # n => thr2[v] = thread[v]
  BY <1>1, <1>2, <1>3 DEF Typed
<1>8. Cardinality(Alive(thr2)) = PoolSize
  BY <1>1, <1>2, <1>3, Replaced DEF Typed, WorkersSound
<1>9. /\ rest \in Seq(Workers) /\ Distinct(rest)
      /\ \A v : Has(rest, v) <=> v # w /\ Has(idle, v)
  <2>1. idle \in Seq(Workers) /\ Distinct(idle)
    BY <1>1 DEF Typed, WorkersSound, Distinct
  <2> QED
    BY <2>1, SplicedOut
<1> HIDE DEF rest, n
<1>10. ~Has(rest, n)
  BY <1>4, <1>9 DEF Has
<1>11. /\ idl2 \in Seq(Workers) /\ Distinct(idl2)
       /\ \A v : Has(idl2, v) <=> v = n \/ Has(rest, v)
  BY <1>2, <1>9, <1>10, OneMore
<1> HIDE DEF idl2, tsk2, thr2, rep2
<1>12. WorkersSound(idl2, tsk2, thr2, n)
  <2>1. \A i \in DOMAIN idl2 : idl2[i] \in Workers
    BY <1>11, ElementOfSeq, LenProperties
  <2>2. \A i \in DOMAIN idl2 : idl2[i] = n \/ (idl2[i] # w /\ task[idl2[i]] = None)
    <3>1. \A i \in DOMAIN idl2 :
              idl2[i] = n \/ (idl2[i] # w /\ \E j \in DOMAIN idle : idle[j] = idl2[i])
      BY <1>9, <1>11 DEF Has
    <3> QED
      BY <1>1, <3>1 DEF WorkersSound
  <2>3. \A i \in DOMAIN idl2 : tsk2[idl2[i]] = None
    BY <1>2, <1>3, <1>4, <1>6, <2>1, <2>2
  <2>4. ASSUME NEW v \in Workers
        PROVE  thr2[v] \in {"up", "down"}
                 <=> tsk2[v] # None \/ \E i \in DOMAIN idl2 : idl2[i] = v
    <3>1. thread[v] \in {"up", "down"}
            <=> task[v] # None \/ \E i \in DOMAIN idle : idle[i] = v
      BY <1>1 DEF WorkersSound
    <3>2. (\E i \in DOMAIN idl2 : idl2[i] = v)
            <=> v = n \/ (v # w /\ \E i \in DOMAIN idle : idle[i] = v)
      BY <1>9, <1>11 DEF Has
    <3>3. CASE v = w
      BY <1>3, <1>6, <1>7, <3>2, <3>3
    <3>4. CASE v = n
      BY <1>7, <3>2, <3>4
    <3>5. CASE v # w /\ v # n
      BY <1>6, <1>7, <3>1, <3>2, <3>5
    <3> QED
      BY <3>3, <3>4, <3>5
  <2>5. \A v \in Workers : thr2[v] = "new" <=> v > n
    <3>1. \A v \in Workers : v > n <=> v > spawned /\ v # n
      BY <1>2 DEF n, Workers
    <3>2. ~(w > spawned)
      BY <1>1 DEF WorkersSound
    <3> QED
      BY <1>1, <1>2, <1>7, <3>1, <3>2 DEF WorkersSound
  <2> QED
    BY <1>8, <1>11, <2>3, <2>4, <2>5 DEF WorkersSound, Distinct
<1>13. MailSound(tsk2, mail)
  BY <1>1, <1>6 DEF MailSound
<1>14. Typed(idl2, queue, tsk2, thr2, mail, n, rep2)
  BY <1>1, <1>2, <1>5, <1>6, <1>7, <1>11 DEF Typed
<1> QED
  BY <1>5, <1>12, <1>13, <1>14 DEF Sound, n, rest, idl2, tsk2, thr2, rep2

-----------------------------------------------------------------------------
(* The steps of the pool, one lemma each.                                   *)

LEMMA RunKeeps == ASSUME PoolInv, NEW t \in Tasks, run(t) PROVE PoolInv'
<1>1. Sound(idle, Append(queue, t), task, thread, mail, spawned, reply')
  BY QueuedSound DEF run
<1>2. idle = <<>> \/ Len(Append(queue, t)) = 1
  BY OneMoreQueued
<1>3. Sound(idle', queue', task', thread, mail', spawned, reply') /\ WorkConserving'
  BY <1>1, <1>2, PumpSound DEF run
<1>4. thread' = thread /\ spawned' = spawned
  BY DEF run
<1> QED
  BY <1>3, <1>4 DEF PoolInv

LEMMA MessageKeeps == ASSUME PoolInv, NEW w \in Workers, onMessage(w) PROVE PoolInv'
<1> DEFINE idl == Append(idle, w)
           tsk == [task EXCEPT ![w] = None]
           box == [mail EXCEPT ![w] = Tail(@)]
<1>1. Sound(idl, queue, tsk, thread, box, spawned, reply')
  BY MessageSound DEF onMessage
<1>2. queue = <<>> \/ Len(idl) = 1
  BY OneMoreIdle DEF PoolInv, Sound, Typed, WorkConserving
<1>3. _pump(idl, queue, tsk, thread, box) /\ thread' = thread /\ spawned' = spawned
  BY DEF onMessage
<1> HIDE DEF idl, tsk, box
<1>4. Sound(idle', queue', task', thread, mail', spawned, reply') /\ WorkConserving'
  BY <1>1, <1>2, <1>3, PumpSound
<1> QED
  BY <1>3, <1>4 DEF PoolInv

LEMMA ErrorKeeps == ASSUME PoolInv, NEW w \in Workers, onError(w) PROVE PoolInv'
<1> DEFINE rest == Without(idle, w)
           idl == Append(rest, spawned + 1)
           tsk == [task EXCEPT ![w] = None]
<1>1. Sound(idl, queue, tsk, thread', mail, spawned', reply')
  BY ErrorSound DEF onError
<1>2. queue = <<>> \/ Len(idl) = 1
  <2>1. idle \in Seq(Workers) /\ Distinct(idle) /\ (idle = <<>> \/ queue = <<>>)
    BY DEF PoolInv, Sound, Typed, WorkersSound, Distinct, WorkConserving
  <2>2. rest \in Seq(Workers) /\ (idle = <<>> => rest = <<>>)
    BY <2>1, SplicedOut
  <2> HIDE DEF rest
  <2> QED
    BY <2>1, <2>2
<1>3. _pump(idl, queue, tsk, thread', mail)
  BY DEF onError
<1> HIDE DEF idl, tsk
<1>4. Sound(idle', queue', task', thread', mail', spawned', reply') /\ WorkConserving'
  BY <1>1, <1>2, <1>3, PumpSound
<1> QED
  BY <1>4 DEF PoolInv

LEMMA ConvertKeeps == ASSUME PoolInv, NEW w \in Workers, Convert(w) PROVE PoolInv'
<1>1. /\ Typed(idle, queue, task, thread, mail, spawned, reply)
      /\ MailSound(task, mail)
  BY DEF PoolInv, Sound
<1>2. PICK i \in DOMAIN mail[w], result \in {"glb", "error"} :
          mail' = [mail EXCEPT ![w][i].is = result]
  BY DEF Convert
<1>3. mail[w] \in Seq(Mail) /\ Len(mail[w]) = 1 /\ mail[w][1].task = task[w] /\ i = 1
  BY <1>1, <1>2 DEF Typed, MailSound
<1>4. mail[w][1] \in Mail
  BY <1>3
<1> DEFINE m == [mail[w][1] EXCEPT !.is = result]
<1>5. m \in Mail /\ m.task = task[w]
  BY <1>3, <1>4 DEF Mail
<1>6. mail'[w] = [mail[w] EXCEPT ![1] = m] /\ \A v \in Workers : v # w => mail'[v] = mail[v]
  BY <1>1, <1>2, <1>3 DEF Typed
<1>7. DOMAIN mail' = Workers /\ mail' = [v \in Workers |-> mail'[v]]
  BY <1>1, <1>2 DEF Typed
<1> HIDE DEF m
<1>8. mail'[w] \in Seq(Mail) /\ Len(mail'[w]) = 1 /\ mail'[w][1] = m
  BY <1>3, <1>5, <1>6
<1>9. mail' \in [Workers -> Seq(Mail)]
  BY <1>1, <1>6, <1>7, <1>8 DEF Typed
<1>10. MailSound(task, mail')
  BY <1>1, <1>5, <1>6, <1>8 DEF MailSound
<1> QED
  BY <1>1, <1>9, <1>10 DEF PoolInv, Sound, Typed, Convert, WorkConserving

LEMMA DeathKeeps == ASSUME PoolInv, NEW w \in Workers, WorkerDies(w) PROVE PoolInv'
<1>1. /\ Typed(idle, queue, task, thread, mail, spawned, reply)
      /\ WorkersSound(idle, task, thread, spawned)
      /\ MailSound(task, mail)
  BY DEF PoolInv, Sound
<1>2. mail[w] \in Seq(Mail) /\ Len(mail[w]) \in Nat /\ (mail[w] = <<>> \/ Len(mail[w]) = 1)
  BY <1>1 DEF Typed, MailSound
<1>3. AnswersIn(mail[w]) \in {<<>>, mail[w]}
  <2> DEFINE P(k) == /\ \A i \in 1 .. k : mail[w][i].is # "asked"
                     /\ k < Len(mail[w]) => mail[w][k + 1].is = "asked"
             k0 == CHOOSE k \in 0 .. Len(mail[w]) : P(k)
  <2>1. CASE Len(mail[w]) = 0
    <3>1. P(0) /\ 0 \in 0 .. Len(mail[w])
      BY <2>1
    <3>2. k0 \in 0 .. Len(mail[w])
      <4> HIDE DEF P
      <4> QED
        BY <3>1
    <3> QED
      BY <1>2, <2>1, <3>2 DEF AnswersIn
  <2>2. CASE Len(mail[w]) = 1
    <3>1. P(0) \/ P(1)
      BY <2>2
    <3>2. k0 \in 0 .. 1
      <4> HIDE DEF P
      <4> QED
        BY <2>2, <3>1
    <3>3. AnswersIn(mail[w]) = SubSeq(mail[w], 1, k0)
      BY DEF AnswersIn
    <3> HIDE DEF k0
    <3>4. k0 = 0 => SubSeq(mail[w], 1, k0) = <<>>
      BY <1>2
    <3>5. k0 = 1 => SubSeq(mail[w], 1, k0) = mail[w]
      BY <1>2, <2>2
    <3> QED
      BY <3>2, <3>3, <3>4, <3>5
  <2> QED
    BY <1>2, <2>1, <2>2
<1>4. mail' = [mail EXCEPT ![w] = AnswersIn(mail[w])]
      /\ thread' = [thread EXCEPT ![w] = "down"] /\ thread[w] = "up"
      /\ UNCHANGED <<idle, queue, task, spawned, reply>>
  BY DEF WorkerDies
<1>5. mail' \in [Workers -> Seq(Mail)] /\ MailSound(task, mail')
  <2>1. AnswersIn(mail[w]) \in Seq(Mail)
    BY <1>2, <1>3, EmptySeq
  <2>2. mail' \in [Workers -> Seq(Mail)]
    BY <1>1, <1>4, <2>1 DEF Typed
  <2>3. \A v \in Workers : mail'[v] = <<>> \/ mail'[v] = mail[v]
    BY <1>1, <1>3, <1>4 DEF Typed
  <2> QED
    BY <1>1, <2>2, <2>3 DEF MailSound
<1>6. thread' \in [Workers -> {"new", "up", "down", "gone"}]
  BY <1>1, <1>4 DEF Typed
<1>7. /\ \A v \in Workers : thread'[v] \in {"up", "down"} <=> thread[v] \in {"up", "down"}
      /\ \A v \in Workers : thread'[v] = "new" <=> thread[v] = "new"
  BY <1>1, <1>4 DEF Typed
<1>8. Alive(thread') = Alive(thread)
  BY <1>7 DEF Alive
<1>9. WorkersSound(idle, task, thread', spawned)
  BY <1>1, <1>7, <1>8 DEF WorkersSound
<1>10. Typed(idle, queue, task, thread', mail', spawned, reply)
  BY <1>1, <1>5, <1>6 DEF Typed
<1>11. Sound(idle, queue, task, thread', mail', spawned, reply)
  BY <1>5, <1>9, <1>10 DEF PoolInv, Sound
<1> QED
  BY <1>4, <1>11 DEF PoolInv, WorkConserving

(* The constructor, when the process starts and when it starts again.       *)
LEMMA StartSound ==
    Sound([i \in 1 .. PoolSize |-> i], <<>>, [w \in Workers |-> None],
          [w \in Workers |-> IF w <= PoolSize THEN "up" ELSE "new"],
          [w \in Workers |-> <<>>], PoolSize, [t \in Tasks |-> Unused])
<1> DEFINE idl == [i \in 1 .. PoolSize |-> i]
           tsk == [w \in Workers |-> None]
           thr == [w \in Workers |-> IF w <= PoolSize THEN "up" ELSE "new"]
           rep == [t \in Tasks |-> Unused]
<1>1. PoolSize \in Nat /\ MaxSpawned \in Nat /\ 1 <= PoolSize /\ PoolSize <= MaxSpawned
  BY PoolAssumption
<1>2. DOMAIN idl = 1 .. PoolSize /\ (\A i \in DOMAIN idl : idl[i] = i)
      /\ \A i \in 1 .. PoolSize : i \in Workers
  BY <1>1 DEF Workers
<1>3. idl \in Seq(Workers)
  BY <1>1, <1>2
<1>4. Alive(thr) = 1 .. PoolSize
  BY <1>1 DEF Alive, Workers
<1>5. Cardinality(Alive(thr)) = PoolSize
  BY <1>1, <1>4, FS_Interval
<1>6. Unused \in Promise /\ Unused.is = "unused"
  BY DEF Unused, Promise
<1>7. Typed(idl, <<>>, tsk, thr, [w \in Workers |-> <<>>], PoolSize, rep)
  <2>1. <<>> \in Seq(Mail) /\ <<>> \in Seq(Tasks)
    BY EmptySeq
  <2>2. thr \in [Workers -> {"new", "up", "down", "gone"}]
    OBVIOUS
  <2> QED
    BY <1>1, <1>3, <1>6, <2>1, <2>2 DEF Typed, Workers
<1>8. WorkersSound(idl, tsk, thr, PoolSize)
  <2>1. \A w \in Workers : (\E i \in DOMAIN idl : idl[i] = w) <=> w <= PoolSize
    BY <1>1, <1>2 DEF Workers
  <2>2. \A w \in Workers : thr[w] \in {"up", "down"}
                               <=> tsk[w] # None \/ \E i \in DOMAIN idl : idl[i] = w
    BY <2>1
  <2>3. \A w \in Workers : thr[w] = "new" <=> w > PoolSize
    BY <1>1 DEF Workers
  <2>4. \A i \in DOMAIN idl : tsk[idl[i]] = None
    BY <1>2
  <2>5. \A i, j \in DOMAIN idl : i # j => idl[i] # idl[j]
    BY <1>2
  <2> HIDE DEF idl, thr, tsk
  <2> QED
    BY <1>5, <2>2, <2>3, <2>4, <2>5 DEF WorkersSound
<1>9. TasksSound(<<>>, tsk, rep)
  <2>1. \A t \in Tasks : t # None
    BY TasksAssumption
  <2> QED
    BY <1>6, <2>1 DEF TasksSound
<1>10. MailSound(tsk, [w \in Workers |-> <<>>])
  BY DEF MailSound
<1> QED
  BY <1>7, <1>8, <1>9, <1>10 DEF Sound

LEMMA InitPool == Init => PoolInv
  BY StartSound DEF Init, PoolInit, PoolInv, WorkConserving

(* Of the other actions of cad-parser, ReadInput calls run, StreamFails and *)
(* WriteFails start the pool again, and the rest leave it alone.            *)
LEMMA NextPool == PoolInv /\ [Next]_vars => PoolInv'
<1> SUFFICES ASSUME PoolInv, [Next]_vars PROVE PoolInv'
  OBVIOUS
<1>1. ASSUME UNCHANGED poolVars PROVE PoolInv'
  BY <1>1 DEF poolVars, PoolInv, WorkConserving
<1>2. CASE UNCHANGED vars
  BY <1>1, <1>2 DEF vars
<1>3. CASE PoolAction
  <2>1. PICK w \in Workers : PoolStep(w)
    BY <1>3 DEF PoolAction
  <2> QED
    BY <2>1, ConvertKeeps, DeathKeeps, MessageKeeps, ErrorKeeps DEF PoolStep
<1>4. ASSUME ProcessEnds PROVE PoolInv'
  BY <1>4, StartSound DEF ProcessEnds, PoolInv, WorkConserving
<1>5. ASSUME NEW j \in Jobs, JobAction(j) PROVE PoolInv'
  <2>1. CASE WriteFails(j)
    BY <1>4, <2>1 DEF WriteFails
  <2>2. CASE ~WriteFails(j)
    BY <1>1, <1>5, <2>2 DEF JobAction, PostSplit, PostSplitRefused, ScanDone, WritePart,
       SplitDone, SplitFails, Expire, RemovePart
  <2> QED
    BY <2>1, <2>2
<1>6. ASSUME NEW r \in Requests, RequestAction(r) PROVE PoolInv'
  <2>1. CASE ReadInput(r)
    <3>1. run(r) \/ UNCHANGED poolVars
      BY <2>1 DEF ReadInput
    <3>2. r \in Tasks
      BY RequestsAssumption
    <3> QED
      BY <1>1, <3>1, <3>2, RunKeeps
  <2>2. CASE StreamFails(r)
    BY <1>4, <2>2 DEF StreamFails
  <2>3. CASE \/ PostConvert(r) \/ Answer(r) \/ StreamPart(r)
             \/ \E j \in Jobs, p \in Parts, wait \in {"reading", "opening"} :
                    GetPart(r, j, p, wait)
    BY <1>1, <2>3 DEF PostConvert, Answer, StreamPart, GetPart
  <2> QED
    BY <1>6, <2>1, <2>2, <2>3 DEF RequestAction
<1> QED
  BY <1>2, <1>3, <1>5, <1>6 DEF Next

LEMMA PoolInvAlways == Spec => []PoolInv
  BY InitPool, NextPool, PTL DEF Spec

-----------------------------------------------------------------------------
(* Whatever requests arrive and whichever workers die, the idle workers and *)
(* those that hold a task are different, together the PoolSize live ones.   *)
THEOREM PoolStaysComplete == Spec => []PoolComplete
<1>1. PoolInv => PoolComplete
  <2> SUFFICES ASSUME PoolInv PROVE PoolComplete
    OBVIOUS
  <2>1. idle \in Seq(Workers) /\ WorkersSound(idle, task, thread, spawned)
    BY DEF PoolInv, Sound, Typed
  <2>2. \A w \in Workers : w \in Idle <=> \E i \in DOMAIN idle : idle[i] = w
    BY DEF Idle
  <2>3. Idle \subseteq Workers
    BY <2>1 DEF Idle
  <2>4. Idle \cap Busy = {}
    BY <2>1 DEF Idle, Busy, WorkersSound
  <2>5. Idle \cup Busy = Alive(thread)
    BY <2>1, <2>2, <2>3 DEF Busy, Alive, WorkersSound
  <2> QED
    BY <2>1, <2>4, <2>5 DEF PoolComplete, WorkersSound, Alive
<1> QED
  BY <1>1, PoolInvAlways, PTL

(* A promise is pending exactly while its task waits or is being worked on, *)
(* in one place: no death of a worker loses a conversion or repeats it.     *)
THEOREM TasksNeverLost == Spec => []NoTaskLost
<1>1. PoolInv => NoTaskLost
  <2> SUFFICES ASSUME PoolInv PROVE NoTaskLost
    OBVIOUS
  <2>1. TasksSound(queue, task, reply)
    BY DEF PoolInv, Sound
  <2>2. \A t : t \in Queued <=> \E i \in DOMAIN queue : queue[i] = t
    BY DEF Queued
  <2> QED
    BY <2>1, <2>2 DEF NoTaskLost, TasksSound, Busy
<1> QED
  BY <1>1, PoolInvAlways, PTL

(* No conversion waits while a worker is idle, after any event.             *)
THEOREM PoolConservesWork == Spec => []WorkConserving
<1>1. PoolInv => WorkConserving
  BY DEF PoolInv
<1> QED
  BY <1>1, PoolInvAlways, PTL

(* A request is given the geometry of its own file.                         *)
THEOREM GeometryIsOwn == Spec => []OwnGeometry
<1>1. PoolInv => OwnGeometry
  BY DEF PoolInv, Sound, TasksSound, OwnGeometry
<1> QED
  BY <1>1, PoolInvAlways, PTL


-----------------------------------------------------------------------------
JobTypeOK ==
    /\ splitJobs \in [Jobs -> Status]
    /\ split \in [Jobs -> Split]
    /\ file \in [Jobs -> [Parts -> {"no", "part", "whole"}]]
    /\ expiring \subseteq Jobs
    /\ upload \subseteq Jobs \cup Requests
    /\ ended \in BOOLEAN

Request == [is : {"free"} \cup Waiting \cup Answered,
            job : Jobs \cup {None}, part : Parts \cup {None},
            got : {"no", "part", "whole"}]

(* The writers of a job have ended, and none of its files is half written.  *)
Settling(j) == split[j] = "over" /\ \A p \in Parts : file[j][p] # "part"

(* What is served or being removed is written to no more.  A request that   *)
(* waits for a file may outlive its job: the file is then whole or gone.    *)
ServedInv ==
    /\ JobTypeOK
    /\ req \in [Requests -> Request]
    /\ \A j \in Jobs : splitJobs[j] = "DONE" =>
          split[j] = "over" /\ \A p \in Parts : file[j][p] = "whole"
    /\ \A j \in expiring : Settling(j) /\ splitJobs[j] # "DONE"
    /\ \A r \in Requests : req[r].job # None => req[r].part # None
    /\ \A r \in Requests : req[r].is \in {"reading", "opening"} /\ req[r].job # None
                             => Settling(req[r].job)
    /\ NoTruncatedPart

LEMMA InitServed == Init => ServedInv
<1> SUFFICES ASSUME Init PROVE ServedInv
  OBVIOUS
<1>1. JobTypeOK
  BY DEF Init, JobTypeOK, Status, Split
<1>2. req \in [Requests -> Request] /\ \A r \in Requests : req[r] = Free
  BY DEF Init, Request, Free
<1>3. /\ \A j \in Jobs : splitJobs[j] = "absent"
      /\ expiring = {}
  BY DEF Init
<1>4. Free.is = "free" /\ Free.job = None
  BY DEF Free
<1> QED
  BY <1>1, <1>2, <1>3, <1>4 DEF ServedInv, NoTruncatedPart

(* When the process ends nobody waits for a file any more, and no job that  *)
(* was served before is served after.                                       *)
LEMMA EndServed == ASSUME ServedInv, ProcessEnds PROVE ServedInv'
<1>1. /\ \A j \in Jobs : splitJobs'[j] = "absent"
      /\ splitJobs' \in [Jobs -> Status] /\ split' \in [Jobs -> Split]
      /\ file' = file /\ expiring' = {} /\ upload' = upload /\ ended' = TRUE
  BY DEF ProcessEnds, ServedInv, JobTypeOK, Status, Split
<1>2. req' \in [Requests -> Request]
  <2>1. ASSUME NEW q \in Request PROVE [q EXCEPT !.is = "reset"] \in Request
    BY <2>1 DEF Request, Answered
  <2> QED
    BY <2>1 DEF ProcessEnds, ServedInv
<1>3. \A q \in Requests : /\ \/ req'[q].is = req[q].is /\ req[q].is \notin Waiting
                             \/ req'[q].is = "reset"
                          /\ req'[q].job = req[q].job /\ req'[q].part = req[q].part
                          /\ req'[q].got = req[q].got
  BY DEF ProcessEnds, ServedInv, Request
<1> QED
  BY <1>1, <1>2, <1>3 DEF ServedInv, JobTypeOK, NoTruncatedPart, Waiting

(* A step of a job.  Its writers go on only before the job is DONE, or in a *)
(* job that failed.                                                         *)
LEMMA JobServed ==
    ASSUME ServedInv, NEW j \in Jobs, JobAction(j), ~WriteFails(j)
    PROVE  ServedInv'
<1> USE DEF ServedInv, JobTypeOK, Status, Split, Settling, NoTruncatedPart
<1>1. req' = req /\ ended' = ended
  BY DEF JobAction, PostSplit, PostSplitRefused, ScanDone, WritePart, SplitDone, SplitFails,
     Expire, RemovePart
<1>2. ASSUME NEW k \in Jobs, split[k] = "over" PROVE split'[k] = "over"
  BY <1>2 DEF JobAction, PostSplit, PostSplitRefused, ScanDone, WritePart, SplitDone, SplitFails,
     Expire, RemovePart
<1>3. ASSUME NEW k \in Jobs, split[k] = "over", NEW p \in Parts
      PROVE  file'[k][p] \in {file[k][p], "no"}
  BY <1>3 DEF JobAction, PostSplit, PostSplitRefused, ScanDone, WritePart, SplitDone, SplitFails,
     Expire, RemovePart
<1>4. ASSUME NEW k \in Jobs, Settling(k) PROVE Settling(k)'
  BY <1>2, <1>3, <1>4
<1>5. ASSUME JobTypeOK',
             \A k \in Jobs : splitJobs'[k] = "DONE" =>
                split'[k] = "over" /\ \A p \in Parts : file'[k][p] = "whole",
             \A k \in expiring' : Settling(k)' /\ splitJobs'[k] # "DONE"
      PROVE  ServedInv'
  <2>1. ASSUME NEW r \in Requests, req[r].is \in {"reading", "opening"}, req[r].job # None
        PROVE  Settling(req[r].job)'
    <3>1. req[r].job \in Jobs /\ Settling(req[r].job)
      BY <2>1 DEF Request
    <3>2. Settling(req[r].job)' <=> /\ split'[req[r].job] = "over"
                                   /\ \A p \in Parts : file'[req[r].job][p] # "part"
      BY <1>1
    <3> QED
      BY <1>4, <3>1, <3>2
  <2> QED
    BY <1>1, <1>5, <2>1
<1>6. CASE \/ PostSplit(j) \/ PostSplitRefused(j) \/ ScanDone(j) \/ SplitDone(j)
          \/ SplitFails(j)
  <2>1. /\ split[j] # "over" /\ splitJobs[j] # "DONE" /\ j \notin expiring
        /\ file' = file /\ expiring' = expiring
    BY <1>6 DEF PostSplit, PostSplitRefused, ScanDone, SplitDone, SplitFails
  <2>2. JobTypeOK'
    <3>1. /\ splitJobs' = splitJobs \/ \E s \in Status : splitJobs' = [splitJobs EXCEPT ![j] = s]
          /\ \E s \in Split : split' = [split EXCEPT ![j] = s]
          /\ upload' \subseteq upload \cup {j}
      BY <1>6 DEF PostSplit, PostSplitRefused, ScanDone, SplitDone, SplitFails
    <3> QED
      BY <1>1, <2>1, <3>1
  <2>3. \A k \in Jobs : k # j => splitJobs'[k] = splitJobs[k] /\ split'[k] = split[k]
    BY <1>6 DEF PostSplit, PostSplitRefused, ScanDone, SplitDone, SplitFails
  <2>4. splitJobs'[j] = "DONE" =>
           split'[j] = "over" /\ \A p \in Parts : file'[j][p] = "whole"
    BY <1>6, <2>1 DEF PostSplit, PostSplitRefused, ScanDone, SplitDone, SplitFails
  <2>5. \A k \in expiring' : Settling(k)' /\ splitJobs'[k] # "DONE"
    BY <2>1, <2>3
  <2>6. \A k \in Jobs : splitJobs'[k] = "DONE" =>
           split'[k] = "over" /\ \A p \in Parts : file'[k][p] = "whole"
    BY <2>1, <2>3, <2>4
  <2> QED
    BY <1>5, <2>2, <2>5, <2>6
<1>7. CASE Expire(j)
  <2>1. JobTypeOK'
    BY <1>1, <1>7 DEF Expire
  <2>2. Settling(j)'
    BY <1>4, <1>7 DEF Expire
  <2>3. /\ expiring' = expiring \cup {j} /\ split' = split /\ file' = file
        /\ \A k \in Jobs : splitJobs'[k] = IF k = j THEN "absent" ELSE splitJobs[k]
    BY <1>7 DEF Expire
  <2>4. \A k \in expiring' : Settling(k)' /\ splitJobs'[k] # "DONE"
    BY <1>4, <2>2, <2>3
  <2> QED
    BY <1>5, <2>1, <2>3, <2>4
<1>8. ASSUME NEW p \in Parts, WritePart(j, p) \/ RemovePart(j, p) PROVE ServedInv'
  <2>1. splitJobs[j] # "DONE" /\ UNCHANGED <<splitJobs, split, expiring, upload>>
    BY <1>8 DEF WritePart, RemovePart
  <2>2. PICK what \in {"no", "part", "whole"} : file' = [file EXCEPT ![j][p] = what]
    BY <1>8 DEF WritePart, RemovePart
  <2>3. JobTypeOK'
    BY <1>1, <2>1, <2>2
  <2>4. \A k \in Jobs : k # j => file'[k] = file[k]
    BY <2>2
  <2>5. \A k \in expiring' : Settling(k)' /\ splitJobs'[k] # "DONE"
    BY <1>4, <2>1
  <2> QED
    BY <1>5, <2>1, <2>3, <2>4, <2>5
<1> QED
  BY <1>6, <1>7, <1>8 DEF JobAction

(* A step of a request reads the file of a settled job, or the upload.      *)
LEMMA InputWhole ==
    ASSUME ServedInv, NEW r \in Requests, req[r].is \in {"reading", "opening"},
           Input(r) # "no"
    PROVE  Input(r) = "whole"
<1>1. CASE req[r].job = None
  BY <1>1 DEF Input
<1>2. CASE req[r].job # None
  <2>1. req[r].job \in Jobs /\ req[r].part \in Parts /\ Settling(req[r].job)
    BY <1>2 DEF ServedInv, Request
  <2> QED
    BY <1>2, <2>1 DEF Input, Settling, ServedInv, JobTypeOK
<1> QED
  BY <1>1, <1>2

LEMMA RequestServed == ASSUME ServedInv, NEW r \in Requests, RequestAction(r) PROVE ServedInv'
<1>1. ASSUME UNCHANGED <<jobVars, ended>>, upload' \subseteq upload \cup {r},
             req' \in [Requests -> Request],
             \A q \in Requests : q # r => req'[q] = req[q],
             req'[r].job # None => req'[r].part # None,
             req'[r].is \in {"reading", "opening"} /\ req'[r].job # None
                => Settling(req'[r].job),
             req'[r].is \in {"converting", "sent"} => req'[r].got = "whole"
      PROVE  ServedInv'
  BY <1>1 DEF ServedInv, JobTypeOK, Settling, NoTruncatedPart, jobVars
<1>2. req \in [Requests -> Request] /\ req[r] \in Request
  BY DEF ServedInv
<1>3. CASE PostConvert(r)
  BY <1>1, <1>2, <1>3 DEF PostConvert, Free, Request, Waiting, jobVars
<1>4. CASE ReadInput(r)
  <2>1. req[r].is = "reading" /\ UNCHANGED <<jobVars, ended>>
    BY <1>4 DEF ReadInput
  <2>2. CASE /\ Input(r) # "no" /\ UNCHANGED upload
             /\ req' = [req EXCEPT ![r].is = "converting", ![r].got = Input(r)]
    <3>1. Input(r) = "whole"
      BY <2>1, <2>2, InputWhole
    <3>2. req' = [req EXCEPT ![r].is = "converting", ![r].got = "whole"]
      BY <2>2, <3>1
    <3>3. req' \in [Requests -> Request]
      BY <1>2, <3>2 DEF Request, Waiting
    <3>4. upload' \subseteq upload \cup {r}
      BY <2>2
    <3>5. /\ req'[r].is = "converting" /\ req'[r].got = "whole"
          /\ req'[r].job = req[r].job /\ req'[r].part = req[r].part
          /\ \A q \in Requests : q # r => req'[q] = req[q]
      BY <1>2, <3>2 DEF Request
    <3>6. req[r].job # None => req[r].part # None
      BY DEF ServedInv
    <3> QED
      BY <1>1, <2>1, <3>3, <3>4, <3>5, <3>6
  <2>3. CASE req' = [req EXCEPT ![r].is = "refused"] /\ upload' = upload \ {r}
    <3>1. req' \in [Requests -> Request]
      BY <1>2, <2>3 DEF Request, Answered
    <3> QED
      BY <1>1, <1>2, <2>1, <2>3, <3>1 DEF ServedInv
  <2> QED
    BY <1>4, <2>2, <2>3 DEF ReadInput
<1>5. CASE Answer(r)
  <2>1. PICK how \in {"sent", "refused"} : req' = [req EXCEPT ![r].is = how]
    BY <1>5 DEF Answer
  <2>2. req' \in [Requests -> Request]
    BY <1>2, <2>1 DEF Request, Answered
  <2>3. req[r].got = "whole"
    BY <1>5 DEF Answer, ServedInv, NoTruncatedPart
  <2> QED
    BY <1>1, <1>2, <1>5, <2>1, <2>2, <2>3 DEF Answer, ServedInv
<1>6. CASE StreamPart(r)
  <2>1. req[r].is = "opening" /\ Input(r) = "whole" /\ UNCHANGED <<jobVars, upload, ended>>
    BY <1>6, InputWhole DEF StreamPart
  <2>2. req' = [req EXCEPT ![r].is = "sent", ![r].got = "whole"]
    BY <1>6, <2>1 DEF StreamPart
  <2>3. req' \in [Requests -> Request]
    BY <1>2, <2>2 DEF Request, Answered
  <2> QED
    BY <1>1, <1>2, <2>1, <2>2, <2>3 DEF ServedInv
<1>7. CASE StreamFails(r)
  BY <1>7, EndServed DEF StreamFails
<1>8. ASSUME NEW j \in Jobs, NEW p \in Parts, NEW wait \in {"reading", "opening"},
             GetPart(r, j, p, wait)
      PROVE  ServedInv'
  <2>1. PICK is \in {wait, "refused"} :
           /\ is = wait => splitJobs[j] = "DONE"
           /\ req' = [req EXCEPT ![r] = [is |-> is, job |-> j, part |-> p, got |-> "no"]]
    BY <1>8 DEF GetPart
  <2>2. req' \in [Requests -> Request]
    BY <1>2, <2>1 DEF Request, Answered, Waiting
  <2>3. is = wait => Settling(j)
    BY <2>1 DEF ServedInv, Settling
  <2>4. j # None /\ p # None
    OBVIOUS
  <2> QED
    BY <1>1, <1>2, <1>8, <2>1, <2>2, <2>3, <2>4 DEF GetPart
<1> QED
  BY <1>3, <1>4, <1>5, <1>6, <1>7, <1>8 DEF RequestAction

LEMMA NextServed == ServedInv /\ [Next]_vars => ServedInv'
<1> SUFFICES ASSUME ServedInv, [Next]_vars PROVE ServedInv'
  OBVIOUS
<1>1. CASE UNCHANGED vars \/ PoolAction
  <2>1. UNCHANGED <<jobVars, upload, req, ended>>
    BY <1>1 DEF vars, PoolAction
  <2> QED
    BY <2>1 DEF ServedInv, JobTypeOK, Settling, NoTruncatedPart, jobVars
<1>2. ASSUME NEW j \in Jobs, WriteFails(j) PROVE ServedInv'
  BY <1>2, EndServed DEF WriteFails
<1> QED
  BY <1>1, <1>2, JobServed, RequestServed DEF Next

LEMMA ServedAlways == Spec => []ServedInv
  BY InitServed, NextServed, PTL DEF Spec

(* Every variable of cad-parser keeps its type, whatever clients ask for    *)
(* and whenever the process ends and is started again.                      *)
THEOREM CadTypeCorrect == Spec => []TypeOK
<1>1. PoolInv /\ ServedInv => TypeOK
  BY DEF PoolInv, Sound, Typed, ServedInv, JobTypeOK, Request, TypeOK, PoolTypeOK
<1> QED
  BY <1>1, PoolInvAlways, ServedAlways, PTL

(* No part file is served, or converted, that is still being written, for   *)
(* any number of jobs, parts and requests: also by a request that was       *)
(* accepted when the job was DONE and reads while the job is removed, or    *)
(* after the process was started again over the files of its last life.     *)
THEOREM PartsServedWhole == Spec => []NoTruncatedPart
<1>1. ServedInv => NoTruncatedPart
  BY DEF ServedInv
<1> QED
  BY <1>1, ServedAlways, PTL
=============================================================================
