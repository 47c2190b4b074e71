---------------------------- MODULE ConvertPool ----------------------------
(***************************************************************************)
(* The pool of OCCT worker threads of cad-parser (convert-pool.js and the  *)
(* message handler of worker-convert.js).                                  *)
(*                                                                         *)
(* The event loop keeps a stack of idle workers, a queue of conversions    *)
(* and, on every worker, the task it was given.  A worker answers with a   *)
(* message, or dies, which the event loop learns from an error event after *)
(* the messages the worker had still sent.  A message may therefore bring  *)
(* a dead worker back to the idle stack, and a task into its hands.        *)
(***************************************************************************)
EXTENDS Naturals, Sequences, FiniteSets

CONSTANTS
    Tasks,       \* conversions, each named by the request that asks for it
    PoolSize,    \* CONVERT_POOL_SIZE
    MaxSpawned,  \* bound: worker threads started in one life of the process
    None         \* null

ASSUME TasksAssumption == None \notin Tasks
ASSUME PoolAssumption ==
    /\ PoolSize \in Nat \ {0}
    /\ MaxSpawned \in Nat
    /\ PoolSize <= MaxSpawned

VARIABLES
    idle,     \* this.idle, the last element is the next to be popped
    queue,    \* this.queue, the first element is the next to be shifted
    task,     \* w.task
    thread,   \* each worker thread: "new", "up", "down" (error to be reported), "gone"
    mail,     \* messages between the event loop and each worker thread, in order
    spawned,  \* number of workers started so far
    reply     \* the promise of each conversion

poolVars == <<idle, queue, task, thread, mail, spawned, reply>>

Workers == 1 .. MaxSpawned
Mail == [task : Tasks, is : {"asked", "glb", "error"}]
Promise == [is : {"unused", "pending", "resolved", "rejected"}, of : Tasks \cup {None}]

Unused == [is |-> "unused", of |-> None]
Pending == [is |-> "pending", of |-> None]
Rejected == [is |-> "rejected", of |-> None]
Resolved(t) == [is |-> "resolved", of |-> t]

PoolTypeOK ==
    /\ idle \in Seq(Workers)
    /\ queue \in Seq(Tasks)
    /\ task \in [Workers -> Tasks \cup {None}]
    /\ thread \in [Workers -> {"new", "up", "down", "gone"}]
    /\ mail \in [Workers -> Seq(Mail)]
    /\ spawned \in Workers
    /\ reply \in [Tasks -> Promise]

(* The constructor: PoolSize workers, all idle.                             *)
PoolInit ==
    /\ idle = [i \in 1 .. PoolSize |-> i]
    /\ queue = <<>>
    /\ task = [w \in Workers |-> None]
    /\ thread = [w \in Workers |-> IF w <= PoolSize THEN "up" ELSE "new"]
    /\ mail = [w \in Workers |-> <<>>]
    /\ spawned = PoolSize
    /\ reply = [t \in Tasks |-> Unused]

-----------------------------------------------------------------------------
(* _pump: the i-th round pops the worker i-th from the end of the idle      *)
(* stack and gives it the i-th task of the queue.                           *)
Rounds(idl, q) == IF Len(idl) <= Len(q) THEN Len(idl) ELSE Len(q)
RoundsOf(w, idl, q) == {i \in 1 .. Rounds(idl, q) : idl[Len(idl) + 1 - i] = w}
TaskFor(w, idl, q) == q[CHOOSE i \in RoundsOf(w, idl, q) : TRUE]

(* A worker is sent its task; what is sent to a dead one is dropped.        *)
Posted(box, t, state) ==
    IF state = "up" THEN Append(box, [task |-> t, is |-> "asked"]) ELSE box

HandOut(idl, q, tsk, thr, box) ==
    /\ queue' = SubSeq(q, Rounds(idl, q) + 1, Len(q))
    /\ task' = [w \in Workers |->
                    IF RoundsOf(w, idl, q) = {} THEN tsk[w] ELSE TaskFor(w, idl, q)]
    /\ mail' = [w \in Workers |->
                    IF RoundsOf(w, idl, q) = {} THEN box[w]
                    ELSE Posted(box[w], TaskFor(w, idl, q), thr[w])]

(* The fault of looking at the next idle worker without popping it.         *)
PeekFault(idl, q, tsk, thr, box) ==
    idle' = idl /\ HandOut(idl, q, tsk, thr, box)

_pump(idl, q, tsk, thr, box) ==
    /\ idle' = SubSeq(idl, 1, Len(idl) - Rounds(idl, q))
    /\ HandOut(idl, q, tsk, thr, box)

(* run: queue the conversion and hand out what can be handed out.           *)
run(t) ==
    /\ reply[t] = Unused
    /\ reply' = [reply EXCEPT ![t] = Pending]
    /\ _pump(idle, Append(queue, t), task, thread, mail)
    /\ UNCHANGED <<thread, spawned>>

(* worker-convert.js answers every message, in their order, with geometry   *)
(* or with an error.                                                        *)
NextAsked(w, i) ==
    /\ mail[w][i].is = "asked"
    /\ \A k \in 1 .. (i - 1) : mail[w][k].is # "asked"

ConvertEmptyFault(w) ==
    /\ thread[w] = "up"
    /\ \E i \in DOMAIN mail[w], result \in {"glb", "empty"} :
          NextAsked(w, i) /\ mail' = [mail EXCEPT ![w][i].is = result]
    /\ UNCHANGED <<idle, queue, task, thread, spawned, reply>>

Convert(w) ==
    /\ thread[w] = "up"
    /\ \E i \in DOMAIN mail[w], result \in {"glb", "error"} :
          NextAsked(w, i) /\ mail' = [mail EXCEPT ![w][i].is = result]
    /\ UNCHANGED <<idle, queue, task, thread, spawned, reply>>

(* What a worker has answered of its messages: those before the first one   *)
(* it was only asked.                                                       *)
AnswersIn(box) ==
    SubSeq(box, 1, CHOOSE k \in 0 .. Len(box) :
                       /\ \A i \in 1 .. k : box[i].is # "asked"
                       /\ k < Len(box) => box[k + 1].is = "asked")

(* The thread ends, out of memory or because OCCT could not be loaded;      *)
(* what it was asked is lost, what it had answered still arrives.           *)
WorkerDies(w) ==
    /\ thread[w] = "up"
    /\ spawned + Cardinality({v \in Workers : thread[v] = "down"}) < MaxSpawned
    /\ thread' = [thread EXCEPT ![w] = "down"]
    /\ mail' = [mail EXCEPT ![w] = AnswersIn(@)]
    /\ UNCHANGED <<idle, queue, task, spawned, reply>>

(* What the message of a worker does to the promise of its task.            *)
Settled(w, m) ==
    IF task[w] = None THEN reply
    ELSE [reply EXCEPT ![task[w]] =
             IF m.is = "glb" THEN Resolved(m.task) ELSE Rejected]

(* The fault of a handler that leaves the queue to the next call of run.    *)
onMessageNoPumpFault(w) ==
    /\ mail[w] # <<>>
    /\ Head(mail[w]).is # "asked"
    /\ reply' = Settled(w, Head(mail[w]))
    /\ idle' = Append(idle, w)
    /\ task' = [task EXCEPT ![w] = None]
    /\ mail' = [mail EXCEPT ![w] = Tail(@)]
    /\ UNCHANGED <<queue, thread, spawned>>

(* on('message'): the worker is idle again, its task is settled.            *)
onMessage(w) ==
    /\ mail[w] # <<>>
    /\ Head(mail[w]).is # "asked"
    /\ reply' = Settled(w, Head(mail[w]))
    /\ _pump(Append(idle, w), queue, [task EXCEPT ![w] = None], thread,
             [mail EXCEPT ![w] = Tail(@)])
    /\ UNCHANGED <<thread, spawned>>

(* indexOf and splice: s without the first v.                               *)
Without(s, v) ==
    IF \A i \in DOMAIN s : s[i] # v THEN s
    ELSE LET at == CHOOSE i \in DOMAIN s : s[i] = v /\ \A j \in 1 .. (i - 1) : s[j] # v
         IN  [i \in 1 .. (Len(s) - 1) |-> IF i < at THEN s[i] ELSE s[i + 1]]

(* The task of a worker that died is rejected.                              *)
Dropped(w) == IF task[w] = None THEN reply ELSE [reply EXCEPT ![task[w]] = Rejected]

(* Two faults: the handler forgets the promise of the task, or does not     *)
(* look for the worker among the idle ones.                                 *)
onErrorForgettingFault(w) ==
    /\ thread[w] = "down" /\ spawned < MaxSpawned
    /\ mail[w] = <<>>
    /\ thread' = [thread EXCEPT ![w] = "gone", ![spawned + 1] = "up"]
    /\ spawned' = spawned + 1
    /\ _pump(Append(Without(idle, w), spawned + 1), queue,
             [task EXCEPT ![w] = None], thread', mail)
    /\ UNCHANGED reply

onErrorStillIdleFault(w) ==
    /\ thread[w] = "down" /\ spawned < MaxSpawned
    /\ mail[w] = <<>>
    /\ reply' = Dropped(w)
    /\ thread' = [thread EXCEPT ![w] = "gone", ![spawned + 1] = "up"]
    /\ spawned' = spawned + 1
    /\ _pump(Append(idle, spawned + 1), queue, [task EXCEPT ![w] = None], thread', mail)

(* on('error'), and _spawn: the task of the dead worker is rejected, and a  *)
(* new worker takes its place.                                              *)
onError(w) ==
    /\ thread[w] = "down" /\ spawned < MaxSpawned
    /\ mail[w] = <<>>
    /\ reply' = Dropped(w)
    /\ thread' = [thread EXCEPT ![w] = "gone", ![spawned + 1] = "up"]
    /\ spawned' = spawned + 1
    /\ _pump(Append(Without(idle, w), spawned + 1), queue,
             [task EXCEPT ![w] = None], thread', mail)

PoolStep(w) == Convert(w) \/ WorkerDies(w) \/ onMessage(w) \/ onError(w)

-----------------------------------------------------------------------------
Idle == {idle[i] : i \in DOMAIN idle}
Busy == {w \in Workers : task[w] # None}
Queued == {queue[i] : i \in DOMAIN queue}

(* The pool never shrinks, grows or counts a worker twice: the workers that *)
(* are idle and those that hold a task are different ones, PoolSize         *)
(* together, and none of them is one that was replaced.  It is broken when  *)
(* a worker dies idle, or dies after its last answer (convert-pool.js).     *)
PoolComplete ==
    /\ \A i, j \in DOMAIN idle : i # j => idle[i] # idle[j]
    /\ Idle \cap Busy = {}
    /\ Idle \cup Busy = {w \in Workers : thread[w] \in {"up", "down"}}
    /\ Cardinality(Idle \cup Busy) = PoolSize

(* No conversion is lost or done twice: a promise is pending exactly while  *)
(* its task waits in the queue, once, or is held by one worker.             *)
NoTaskLost ==
    /\ \A t \in Tasks : reply[t].is = "pending" <=> \/ t \in Queued
                                                    \/ \E w \in Workers : task[w] = t
    /\ \A i, j \in DOMAIN queue : i # j => queue[i] # queue[j]
    /\ \A v, w \in Busy : v # w => task[v] # task[w]
    /\ \A w \in Busy : task[w] \notin Queued

(* No conversion waits while a worker is idle.                              *)
WorkConserving == idle = <<>> \/ queue = <<>>

(* A request is given the geometry made from its own file, also when a      *)
(* worker's answer, its death and its next task overlap.                    *)
OwnGeometry == \A t \in Tasks : reply[t].is = "resolved" => reply[t].of = t
=============================================================================
