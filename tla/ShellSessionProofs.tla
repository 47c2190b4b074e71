------------------------- MODULE ShellSessionProofs -------------------------
(***************************************************************************)
(* Proofs about LiveSocket and ShellSession for every set of users and     *)
(* project spaces and every bound.                                         *)
(***************************************************************************)
EXTENDS ShellSession, FiniteSetTheorems, TLAPS

(***************************************************************************)
(* The state n of the module useWebSocket.  Stated over an arbitrary n, so *)
(* that each function of the module has a lemma of its own, also where it  *)
(* is called in the middle of another one.                                 *)
(***************************************************************************)
Linked(n, s) == n.ws[s].wired = "live" /\ n.ws[s].link # "none"

(* The current socket is connected and has its handlers. *)
CurrentLinked(n) == n.socket # None => Linked(n, n.socket)

(* A socket that has not opened has subscribed to nothing; the current one, *)
(* once open, to the space on the screen.                                   *)
Subscribed(n) == \A s \in Sockets :
    /\ n.ws[s].link = "CONNECTING" => n.ws[s].space = None
    /\ n.socket = s /\ n.ws[s].link = "OPEN" => n.ws[s].space = n.currentProjectSpaceId

(* Somebody uses the connection: there is one, or there will be. *)
Connected(n) == n.refCount > 0 => n.socket # None \/ n.timers # {}

(* As long as acquire has not overtaken a scheduled reconnect, only the     *)
(* current socket has handlers, a timer runs only while there is no socket, *)
(* and it is the one reconnectTimer names; nothing is left when nobody uses *)
(* the connection and the close timer has run.                              *)
Alone(n) == ~ n.overtaken =>
    /\ \A s \in Sockets : Linked(n, s) => n.socket = s
    /\ n.socket # None => n.timers = {}
    /\ n.timers \subseteq {n.reconnectTimer}
Idle(n) ==
    (~ n.overtaken /\ n.refCount = 0 /\ ~ n.closeTimer) => n.socket = None /\ n.timers = {}
Single(n) == Alone(n) /\ Idle(n)

NetOK(n) ==
    n \in NetType /\ CurrentLinked(n) /\ Subscribed(n) /\ Connected(n) /\ Single(n)

(* No socket has handlers and no timer runs. *)
Vacant(n) == n.timers = {} /\ \A s \in Sockets : ~ Linked(n, s)

-----------------------------------------------------------------------------
(* openSocket takes a socket that is not in use, and makes it the current one. *)
LEMMA OpenEffect ==
    ASSUME NEW n \in NetType, HasRoom(n), NEW u \in Users \cup {None}
    PROVE  LET r == openSocket(n, u) IN
           /\ r \in NetType
           /\ r.socket \in Sockets /\ r.socket # None
           /\ r.ws[r.socket] = [link |-> "CONNECTING", wired |-> "live", user |-> u, space |-> None]
           /\ \A s \in Sockets : s # r.socket => r.ws[s] = n.ws[s]
           /\ r.refCount = n.refCount /\ r.timers = n.timers /\ r.closeTimer = n.closeTimer
           /\ r.reconnectTimer = n.reconnectTimer /\ r.overtaken = n.overtaken
           /\ r.currentProjectSpaceId = n.currentProjectSpaceId
           /\ r.currentUserId = n.currentUserId
<1>1. Fresh(n) \in Sockets
  BY DEF HasRoom, Fresh
<1>2. Fresh(n) # None
  BY <1>1, UsersAssumption DEF Sockets
<1> QED BY <1>1, <1>2 DEF openSocket, NetType, Socket

(* A socket opened while no other one has handlers is the only one. *)
LEMMA OpenOK ==
    ASSUME NEW n \in NetType, HasRoom(n), NEW u \in Users \cup {None}, Subscribed(n),
           ~ n.overtaken => Vacant(n) /\ (n.refCount # 0 \/ n.closeTimer)
    PROVE  /\ NetOK(openSocket(n, u)) /\ openSocket(n, u).refCount = n.refCount
           /\ openSocket(n, u).socket # None
           /\ openSocket(n, u).currentUserId = n.currentUserId
<1> DEFINE r == openSocket(n, u)
<1>1. /\ r \in NetType
      /\ r.socket \in Sockets /\ r.socket # None
      /\ r.ws[r.socket] = [link |-> "CONNECTING", wired |-> "live", user |-> u, space |-> None]
      /\ \A s \in Sockets : s # r.socket => r.ws[s] = n.ws[s]
      /\ r.refCount = n.refCount /\ r.timers = n.timers /\ r.closeTimer = n.closeTimer
      /\ r.reconnectTimer = n.reconnectTimer /\ r.overtaken = n.overtaken
      /\ r.currentProjectSpaceId = n.currentProjectSpaceId
      /\ r.currentUserId = n.currentUserId
  BY OpenEffect
<1> HIDE DEF r
<1>2. CurrentLinked(r) /\ Connected(r)
  BY <1>1 DEF CurrentLinked, Linked, Connected
<1>3. Subscribed(r)
  BY <1>1 DEF Subscribed
<1>4. Single(r)
  BY <1>1 DEF Single, Alone, Idle, Vacant, Linked
<1> QED BY <1>1, <1>2, <1>3, <1>4 DEF NetOK, r

(* closeSocket: the current socket loses its handlers, at once or when it   *)
(* opens, and the timer reconnectTimer names is cleared.                    *)
LEMMA CloseEffect ==
    ASSUME NEW n \in NetType
    PROVE  LET r == closeSocket(n) IN
           /\ r \in NetType
           /\ r.socket = None
           /\ \A s \in Sockets : s # n.socket => r.ws[s] = n.ws[s]
           /\ n.socket # None =>
                \/ r.ws[n.socket] = NoSocket
                \/ /\ r.ws[n.socket].link = "CONNECTING" /\ r.ws[n.socket].wired = "drop"
                   /\ r.ws[n.socket].space = n.ws[n.socket].space
                   /\ n.ws[n.socket].link = "CONNECTING"
           /\ r.refCount = n.refCount /\ r.closeTimer = n.closeTimer
           /\ r.timers = n.timers \ {n.reconnectTimer}
           /\ r.overtaken = n.overtaken
           /\ r.currentProjectSpaceId = n.currentProjectSpaceId
           /\ r.currentUserId = n.currentUserId
<1> DEFINE c == [clearReconnect(n) EXCEPT !.monitors = FALSE]
<1>1. /\ c \in NetType /\ c.socket = n.socket /\ c.ws = n.ws /\ c.refCount = n.refCount
      /\ c.closeTimer = n.closeTimer /\ c.timers = n.timers \ {n.reconnectTimer}
      /\ c.overtaken = n.overtaken /\ c.currentProjectSpaceId = n.currentProjectSpaceId
      /\ c.currentUserId = n.currentUserId
  BY DEF clearReconnect, NetType
<1>2. CASE n.socket = None
  <2>1. closeSocket(n) = c
    BY <1>1, <1>2 DEF closeSocket
  <2> HIDE DEF c
  <2> QED BY <1>1, <1>2, <2>1
<1>3. CASE n.socket # None
  <2> DEFINE w == n.ws[n.socket]
             x == IF w.link = "CONNECTING" THEN [w EXCEPT !.wired = "drop"] ELSE NoSocket
  <2>1. n.socket \in Sockets /\ w \in Socket
    BY <1>3 DEF NetType
  <2>2. closeSocket(n) = [c EXCEPT !.socket = None, !.ws = [c.ws EXCEPT ![n.socket] = x]]
    BY <1>1, <1>3 DEF closeSocket, NetType
  <2>3. x \in Socket /\ (x = NoSocket \/ /\ x.link = "CONNECTING" /\ x.wired = "drop"
                                         /\ x.space = w.space /\ w.link = "CONNECTING")
    BY <2>1 DEF Socket, NoSocket
  <2> HIDE DEF c, x
  <2>5. n.ws \in [Sockets -> Socket]
    BY DEF NetType
  <2> DEFINE y == [c.ws EXCEPT ![n.socket] = x]
  <2>6. y \in [Sockets -> Socket] /\ y = [n.ws EXCEPT ![n.socket] = x]
    BY <1>1, <2>1, <2>3, <2>5
  <2> HIDE DEF y
  <2>4. /\ closeSocket(n) \in NetType /\ closeSocket(n).ws = y
        /\ closeSocket(n).socket = None
        /\ closeSocket(n).refCount = n.refCount /\ closeSocket(n).closeTimer = n.closeTimer
        /\ closeSocket(n).timers = n.timers \ {n.reconnectTimer}
        /\ closeSocket(n).overtaken = n.overtaken
        /\ closeSocket(n).currentProjectSpaceId = n.currentProjectSpaceId
        /\ closeSocket(n).currentUserId = n.currentUserId
    BY <1>1, <2>2, <2>6 DEF NetType, y
  <2> HIDE DEF w
  <2> QED BY <2>1, <2>3, <2>4, <2>5, <2>6 DEF w
<1> QED BY <1>2, <1>3

(* What is left after closeSocket, unless acquire has overtaken a timer: no *)
(* handlers and no timer.  Room for another socket stays.                   *)
LEMMA CloseLeaves ==
    ASSUME NEW n \in NetType, Subscribed(n), Alone(n)
    PROVE  LET r == closeSocket(n) IN
           /\ r \in NetType /\ Subscribed(r) /\ r.socket = None
           /\ ~ r.overtaken => Vacant(r)
           /\ HasRoom(n) => HasRoom(r)
           /\ r.refCount = n.refCount /\ r.closeTimer = n.closeTimer
           /\ r.currentUserId = n.currentUserId
<1> DEFINE r == closeSocket(n)
<1>1. /\ r \in NetType
      /\ r.socket = None
      /\ \A s \in Sockets : s # n.socket => r.ws[s] = n.ws[s]
      /\ n.socket # None =>
           \/ r.ws[n.socket] = NoSocket
           \/ /\ r.ws[n.socket].link = "CONNECTING" /\ r.ws[n.socket].wired = "drop"
              /\ r.ws[n.socket].space = n.ws[n.socket].space
              /\ n.ws[n.socket].link = "CONNECTING"
      /\ r.refCount = n.refCount /\ r.closeTimer = n.closeTimer
      /\ r.timers = n.timers \ {n.reconnectTimer}
      /\ r.overtaken = n.overtaken
      /\ r.currentProjectSpaceId = n.currentProjectSpaceId
      /\ r.currentUserId = n.currentUserId
  BY CloseEffect
<1> HIDE DEF r
<1>2. None \notin Sockets
  BY UsersAssumption DEF Sockets
<1>3. Subscribed(r)
  BY <1>1, <1>2 DEF Subscribed, NoSocket
<1>4. ~ r.overtaken => Vacant(r)
  BY <1>1, <1>2 DEF Vacant, Single, Alone, Idle, Linked, NoSocket
<1>5. HasRoom(n) => HasRoom(r)
  BY <1>1, <1>2 DEF HasRoom, NoSocket
<1> QED BY <1>1, <1>3, <1>4, <1>5 DEF r

LEMMA CloseOK ==
    ASSUME NEW n \in NetType, Subscribed(n), Alone(n), n.refCount = 0
    PROVE  NetOK(closeSocket(n))
<1> DEFINE r == closeSocket(n)
<1>1. /\ r \in NetType /\ Subscribed(r) /\ r.socket = None
      /\ ~ r.overtaken => Vacant(r)
      /\ r.refCount = n.refCount /\ r.closeTimer = n.closeTimer
  BY CloseLeaves
<1> HIDE DEF r
<1>2. CurrentLinked(r) /\ Connected(r) /\ Single(r)
  BY <1>1 DEF CurrentLinked, Connected, Single, Alone, Idle, Vacant
<1> QED BY <1>1, <1>2 DEF NetOK, r

(* Counting a user in or out, and setting or clearing the close timer. *)
Counted(n, k, b) == [n EXCEPT !.closeTimer = b, !.refCount = k]
LEMMA CountEffect ==
    ASSUME NEW n \in NetType, NEW k \in 0 .. 1, NEW b \in BOOLEAN
    PROVE  LET r == Counted(n, k, b) IN
           /\ r \in NetType /\ r.socket = n.socket /\ r.ws = n.ws /\ r.refCount = k
           /\ r.closeTimer = b /\ r.timers = n.timers /\ r.reconnectTimer = n.reconnectTimer
           /\ r.overtaken = n.overtaken /\ r.currentProjectSpaceId = n.currentProjectSpaceId
           /\ r.currentUserId = n.currentUserId
  BY DEF NetType, Counted

(* acquire: by the first user of the connection, or by another user of the  *)
(* browser after release.                                                   *)
LEMMA AcquireOK ==
    ASSUME NEW n, NetOK(n), n.refCount = 0, NEW u \in Users, NEW t \in Users \cup {None},
           HasRoom(n) \/ (n.socket # None /\ n.currentUserId = u)
    PROVE  /\ NetOK(acquire(n, u, t)) /\ acquire(n, u, t).refCount = 1
           /\ acquire(n, u, t).socket # None /\ acquire(n, u, t).currentUserId = u
<1> DEFINE c == [n EXCEPT !.closeTimer = FALSE, !.refCount = @ + 1]
<1>1. n \in NetType /\ CurrentLinked(n) /\ Subscribed(n) /\ Connected(n) /\ Single(n)
  BY DEF NetOK
<1>a. c = Counted(n, 1, FALSE) /\ 1 \in 0 .. 1
  BY DEF Counted
<1>2. /\ c \in NetType /\ c.socket = n.socket /\ c.ws = n.ws /\ c.refCount = 1
      /\ c.closeTimer = FALSE /\ c.timers = n.timers /\ c.reconnectTimer = n.reconnectTimer
      /\ c.overtaken = n.overtaken /\ c.currentProjectSpaceId = n.currentProjectSpaceId
      /\ c.currentUserId = n.currentUserId
  <2> HIDE DEF c
  <2> QED BY <1>1, <1>a, CountEffect
<1>3. /\ CurrentLinked(c) /\ Subscribed(c)
      /\ HasRoom(c) \/ (c.socket # None /\ c.currentUserId = u)
  BY <1>1, <1>2 DEF CurrentLinked, Subscribed, HasRoom, Linked
<1>4. Single(c)
  BY <1>1, <1>2 DEF Single, Alone, Idle, Linked
<1>5. CASE c.socket = None
  <2> DEFINE d == [c EXCEPT !.currentUserId = u, !.overtaken = @ \/ c.timers # {}]
  <2>1. acquire(n, u, t) = openSocket(d, t)
    BY <1>5 DEF acquire
  <2> HIDE DEF c
  <2>2. /\ d \in NetType /\ d.socket = c.socket /\ d.ws = c.ws /\ d.refCount = 1
        /\ d.timers = c.timers /\ (~ d.overtaken => ~ c.overtaken /\ c.timers = {})
        /\ d.currentUserId = u
        /\ d.currentProjectSpaceId = c.currentProjectSpaceId
    BY <1>2 DEF NetType
  <2> HIDE DEF d
  <2>3. Subscribed(d) /\ HasRoom(d)
    BY <1>3, <1>5, <2>2 DEF Subscribed, HasRoom
  <2>4. ~ d.overtaken => Vacant(d)
    BY <1>4, <1>5, <2>2, UsersAssumption DEF Single, Alone, Idle, Vacant, Linked, Sockets
  <2>5. /\ NetOK(openSocket(d, t)) /\ openSocket(d, t).refCount = 1
        /\ openSocket(d, t).socket # None /\ openSocket(d, t).currentUserId = u
    BY <2>2, <2>3, <2>4, OpenOK
  <2> QED BY <2>1, <2>5
<1>6. CASE c.socket # None /\ u # c.currentUserId
  <2> DEFINE d == [c EXCEPT !.currentUserId = u]
  <2>1. acquire(n, u, t) = reconnect(d, t)
    BY <1>6 DEF acquire
  <2> HIDE DEF c
  <2>2. /\ d \in NetType /\ d.socket = c.socket /\ d.ws = c.ws /\ d.refCount = 1
        /\ d.timers = c.timers /\ d.overtaken = c.overtaken /\ d.closeTimer = c.closeTimer
        /\ d.reconnectTimer = c.reconnectTimer /\ d.currentUserId = u
        /\ d.currentProjectSpaceId = c.currentProjectSpaceId
    BY <1>2 DEF NetType
  <2> HIDE DEF d
  <2>3. Subscribed(d) /\ HasRoom(d) /\ Single(d)
    BY <1>3, <1>4, <1>6, <2>2 DEF Subscribed, HasRoom, Single, Alone, Idle, Linked
  <2> DEFINE e == closeSocket(d)
  <2>4. /\ e \in NetType /\ Subscribed(e) /\ (~ e.overtaken => Vacant(e))
        /\ HasRoom(e) /\ e.refCount = 1 /\ e.currentUserId = u
    BY <2>2, <2>3, CloseLeaves DEF Single
  <2>5. reconnect(d, t) = openSocket(e, t)
    BY <2>4 DEF reconnect
  <2> HIDE DEF e
  <2>6. /\ NetOK(openSocket(e, t)) /\ openSocket(e, t).refCount = 1
        /\ openSocket(e, t).socket # None /\ openSocket(e, t).currentUserId = u
    BY <2>4, OpenOK
  <2> QED BY <2>1, <2>5, <2>6
<1>7. CASE c.socket # None /\ u = c.currentUserId
  <2>1. acquire(n, u, t) = c
    BY <1>7 DEF acquire
  <2> HIDE DEF c
  <2> QED BY <1>2, <1>3, <1>4, <1>7, <2>1 DEF NetOK, Connected
<1> QED BY <1>5, <1>6, <1>7

(* release: the last user leaves the connection to the close timer. *)
LEMMA ReleaseOK ==
    ASSUME NEW n, NetOK(n)
    PROVE  /\ NetOK(release(n)) /\ release(n).refCount = 0 /\ release(n).ws = n.ws
           /\ release(n).socket = n.socket /\ release(n).currentUserId = n.currentUserId
<1> DEFINE r == release(n)
<1>1. n \in NetType /\ CurrentLinked(n) /\ Subscribed(n) /\ Connected(n) /\ Single(n)
  BY DEF NetOK
<1>2. n.refCount \in {0, 1}
  BY <1>1 DEF NetType
<1>a. r = Counted(n, 0, TRUE)
  <2>1. CASE n.refCount = 0
    BY <1>1, <2>1 DEF NetType, release, Counted
  <2>2. CASE n.refCount = 1
    <3>1. n.refCount - 1 = 0
      BY <2>2
    <3> QED BY <1>1, <2>2, <3>1 DEF NetType, release, Counted
  <2> QED BY <1>2, <2>1, <2>2
<1>3. /\ r \in NetType /\ r.socket = n.socket /\ r.ws = n.ws /\ r.refCount = 0
      /\ r.closeTimer = TRUE /\ r.timers = n.timers /\ r.reconnectTimer = n.reconnectTimer
      /\ r.overtaken = n.overtaken /\ r.currentProjectSpaceId = n.currentProjectSpaceId
      /\ r.currentUserId = n.currentUserId
  <2> HIDE DEF r
  <2>1. 0 \in 0 .. 1
    OBVIOUS
  <2> QED BY <1>1, <1>a, <2>1, CountEffect
<1> HIDE DEF r
<1>4. CurrentLinked(r) /\ Subscribed(r) /\ Connected(r) /\ Single(r)
  BY <1>1, <1>3 DEF CurrentLinked, Subscribed, Connected, Single, Alone, Idle, Linked
<1> QED BY <1>3, <1>4 DEF NetOK, r

(* sendSubscribe brings the subscription of an open current socket up to    *)
(* date: the state may be out of date in that one respect when it is called. *)
LEMMA SendOK ==
    ASSUME NEW n \in NetType, CurrentLinked(n), Connected(n), Single(n),
           \A s \in Sockets : n.ws[s].link = "CONNECTING" => n.ws[s].space = None,
           \A s \in Sockets :
              (n.socket = s /\ n.ws[s].link = "OPEN" /\ n.currentProjectSpaceId = None)
              => n.ws[s].space = None
    PROVE  NetOK(sendSubscribe(n)) /\ sendSubscribe(n).refCount = n.refCount
<1> DEFINE go == n.currentProjectSpaceId # None /\ n.socket # None /\ n.ws[n.socket].link = "OPEN"
<1>1. CASE ~ go
  <2>1. Subscribed(n)
    BY <1>1, UsersAssumption DEF Subscribed, Sockets
  <2> QED BY <1>1, <2>1 DEF NetOK, sendSubscribe
<1>2. CASE go
  <2> DEFINE r == sendSubscribe(n)
  <2>1. r = [n EXCEPT !.ws[n.socket].space = n.currentProjectSpaceId]
    BY <1>2 DEF sendSubscribe
  <2>2. n.socket \in Sockets /\ n.ws[n.socket].link = "OPEN"
    BY <1>2 DEF NetType
  <2>3. /\ r \in NetType /\ r.socket = n.socket /\ r.refCount = n.refCount
        /\ r.closeTimer = n.closeTimer /\ r.timers = n.timers
        /\ r.reconnectTimer = n.reconnectTimer /\ r.overtaken = n.overtaken
        /\ r.currentProjectSpaceId = n.currentProjectSpaceId
        /\ \A s \in Sockets : s # n.socket => r.ws[s] = n.ws[s]
        /\ r.ws[n.socket].link = "OPEN" /\ r.ws[n.socket].wired = n.ws[n.socket].wired
        /\ r.ws[n.socket].space = n.currentProjectSpaceId
    <3> DEFINE w == [n.ws[n.socket] EXCEPT !.space = n.currentProjectSpaceId]
               y == [n.ws EXCEPT ![n.socket] = w]
    <3>1. n.ws \in [Sockets -> Socket] /\ n.currentProjectSpaceId \in Spaces \cup {None}
      BY DEF NetType
    <3>2. w \in Socket /\ w.link = "OPEN" /\ w.wired = n.ws[n.socket].wired
          /\ w.space = n.currentProjectSpaceId
      BY <2>2, <3>1 DEF Socket
    <3>3. r = [n EXCEPT !.ws = y]
      BY <2>1
    <3> HIDE DEF w, r
    <3>4. /\ y \in [Sockets -> Socket] /\ y[n.socket] = w
          /\ \A s \in Sockets : s # n.socket => y[s] = n.ws[s]
      BY <2>2, <3>1, <3>2
    <3> HIDE DEF y
    <3>5. /\ r \in NetType /\ r.socket = n.socket /\ r.refCount = n.refCount
          /\ r.closeTimer = n.closeTimer /\ r.timers = n.timers
          /\ r.reconnectTimer = n.reconnectTimer /\ r.overtaken = n.overtaken
          /\ r.currentProjectSpaceId = n.currentProjectSpaceId /\ r.ws = y
      BY <3>3, <3>4 DEF NetType
    <3> QED BY <3>2, <3>4, <3>5
  <2> HIDE DEF r
  <2>4. CurrentLinked(r) /\ Connected(r) /\ Subscribed(r)
    BY <2>2, <2>3 DEF CurrentLinked, Connected, Subscribed, Linked
  <2>5. Single(r)
    BY <2>2, <2>3 DEF Single, Alone, Idle, Linked
  <2> QED BY <2>3, <2>4, <2>5 DEF NetOK, r
<1> QED BY <1>1, <1>2

LEMMA SetSpaceOK ==
    ASSUME NEW n, NetOK(n), NEW ps \in Spaces
    PROVE  NetOK(setProjectSpace(n, ps)) /\ setProjectSpace(n, ps).refCount = n.refCount
<1> DEFINE c == [n EXCEPT !.currentProjectSpaceId = ps]
<1>1. /\ c \in NetType /\ c.socket = n.socket /\ c.ws = n.ws /\ c.refCount = n.refCount
      /\ c.closeTimer = n.closeTimer /\ c.timers = n.timers
      /\ c.reconnectTimer = n.reconnectTimer /\ c.overtaken = n.overtaken
      /\ c.currentProjectSpaceId = ps
  BY DEF NetOK, NetType
<1>2. setProjectSpace(n, ps) = sendSubscribe(c)
  BY DEF setProjectSpace
<1> HIDE DEF c
<1>3. ps # None
  BY UsersAssumption
<1>4. CurrentLinked(c) /\ Connected(c) /\ Single(c)
  BY <1>1 DEF NetOK, CurrentLinked, Connected, Single, Alone, Idle, Linked
<1>5. \A s \in Sockets : c.ws[s].link = "CONNECTING" => c.ws[s].space = None
  BY <1>1 DEF NetOK, Subscribed
<1>6. \A s \in Sockets :
         (c.socket = s /\ c.ws[s].link = "OPEN" /\ c.currentProjectSpaceId = None)
         => c.ws[s].space = None
  BY <1>1, <1>3
<1>7. NetOK(sendSubscribe(c)) /\ sendSubscribe(c).refCount = c.refCount
  BY <1>1, <1>4, <1>5, <1>6, SendOK
<1> QED BY <1>1, <1>2, <1>7

-----------------------------------------------------------------------------
(* Replacing one socket. *)
Rewired(n, s, w) == [n EXCEPT !.ws[s] = w]
LEMMA RewireEffect ==
    ASSUME NEW n \in NetType, NEW s \in Sockets, NEW w \in Socket
    PROVE  LET r == Rewired(n, s, w) IN
           /\ r \in NetType /\ r.ws[s] = w
           /\ \A x \in Sockets : x # s => r.ws[x] = n.ws[x]
           /\ r.socket = n.socket /\ r.refCount = n.refCount /\ r.closeTimer = n.closeTimer
           /\ r.timers = n.timers /\ r.reconnectTimer = n.reconnectTimer
           /\ r.overtaken = n.overtaken /\ r.currentProjectSpaceId = n.currentProjectSpaceId
<1> DEFINE y == [n.ws EXCEPT ![s] = w]
<1>1. y \in [Sockets -> Socket] /\ y[s] = w /\ \A x \in Sockets : x # s => y[x] = n.ws[x]
  BY DEF NetType
<1>2. Rewired(n, s, w) = [n EXCEPT !.ws = y]
  BY DEF Rewired
<1> HIDE DEF y
<1> QED BY <1>1, <1>2 DEF NetType

(* The link of a socket with handlers goes from one state to another that   *)
(* is neither opening nor open.                                             *)
LEMMA LinkLost ==
    ASSUME NEW n, NetOK(n), NEW s \in Sockets, n.ws[s].link # "none",
           NEW l \in {"silent", "closing"}
    PROVE  LET m == [n EXCEPT !.ws[s].link = l] IN NetOK(m) /\ m.refCount = n.refCount
<1> DEFINE w == [n.ws[s] EXCEPT !.link = l]
           m == Rewired(n, s, w)
<1>1. n \in NetType /\ n.ws[s] \in Socket /\ (n.socket # None => n.socket \in Sockets)
  BY DEF NetOK, NetType
<1>2. w \in Socket /\ w.link = l /\ w.wired = n.ws[s].wired
  BY <1>1 DEF Socket
<1>3. m = [n EXCEPT !.ws[s].link = l]
  BY DEF Rewired
<1> HIDE DEF w
<1>4. /\ m \in NetType /\ m.ws[s] = w
      /\ \A x \in Sockets : x # s => m.ws[x] = n.ws[x]
      /\ m.socket = n.socket /\ m.refCount = n.refCount /\ m.closeTimer = n.closeTimer
      /\ m.timers = n.timers /\ m.reconnectTimer = n.reconnectTimer
      /\ m.overtaken = n.overtaken /\ m.currentProjectSpaceId = n.currentProjectSpaceId
  BY <1>1, <1>2, RewireEffect
<1> HIDE DEF m
<1>5. CurrentLinked(m) /\ Connected(m) /\ Subscribed(m)
  BY <1>1, <1>2, <1>4 DEF NetOK, CurrentLinked, Connected, Subscribed, Linked
<1>6. Single(m)
  BY <1>2, <1>4 DEF NetOK, Single, Alone, Idle, Linked
<1> QED BY <1>3, <1>4, <1>5, <1>6 DEF NetOK

(* A socket without handlers goes away. *)
LEMMA DroppedGoes ==
    ASSUME NEW n, NetOK(n), NEW s \in Sockets, n.ws[s].wired = "drop"
    PROVE  NetOK(Rewired(n, s, NoSocket)) /\ Rewired(n, s, NoSocket).refCount = n.refCount
<1> DEFINE m == Rewired(n, s, NoSocket)
<1>1. n \in NetType /\ NoSocket \in Socket
  BY DEF NetOK, NoSocket, Socket
<1>2. /\ m \in NetType /\ m.ws[s] = NoSocket
      /\ \A x \in Sockets : x # s => m.ws[x] = n.ws[x]
      /\ m.socket = n.socket /\ m.refCount = n.refCount /\ m.closeTimer = n.closeTimer
      /\ m.timers = n.timers /\ m.reconnectTimer = n.reconnectTimer
      /\ m.overtaken = n.overtaken /\ m.currentProjectSpaceId = n.currentProjectSpaceId
  BY <1>1, RewireEffect
<1> HIDE DEF m
<1>3. n.socket # s
  BY UsersAssumption DEF NetOK, CurrentLinked, Linked, Sockets
<1>4. n.socket # None => n.socket \in Sockets
  BY <1>1 DEF NetType
<1>5. CurrentLinked(m) /\ Connected(m) /\ Subscribed(m)
  BY <1>2, <1>3, <1>4 DEF NetOK, CurrentLinked, Connected, Subscribed, Linked, NoSocket
<1>6. Single(m)
  BY <1>2, <1>3 DEF NetOK, Single, Alone, Idle, Linked, NoSocket
<1> QED BY <1>2, <1>5, <1>6 DEF NetOK, m

-----------------------------------------------------------------------------
(* The callbacks. *)
NetStepOK == NetOK(net') /\ net'.refCount = net.refCount

LEMMA OnOpenOK == ASSUME NetOK(net), NEW s \in Sockets, onopen(s) PROVE NetStepOK
<1>1. CASE net.ws[s].wired = "drop"
  BY <1>1, DroppedGoes DEF onopen, Rewired, NetStepOK
<1>2. CASE net.ws[s].wired # "drop"
  <2> DEFINE w == [net.ws[s] EXCEPT !.link = "OPEN"]
             d == Rewired(net, s, w)
             c == [d EXCEPT !.monitors = TRUE]
  <2>1. net \in NetType /\ net.ws[s] \in Socket /\ net.ws[s].link = "CONNECTING"
    BY DEF NetOK, NetType, onopen
  <2>2. w \in Socket /\ w.link = "OPEN" /\ w.wired = net.ws[s].wired /\ w.space = None
    BY <2>1 DEF Socket, NetOK, Subscribed
  <2>3. net' = sendSubscribe([net EXCEPT !.ws[s].link = "OPEN", !.monitors = TRUE])
    BY <1>2 DEF onopen
  <2>4. [net EXCEPT !.ws[s].link = "OPEN", !.monitors = TRUE] = c
    BY <2>1 DEF NetType, Rewired
  <2> HIDE DEF w
  <2>5. /\ d \in NetType /\ d.ws[s] = w
        /\ \A x \in Sockets : x # s => d.ws[x] = net.ws[x]
        /\ d.socket = net.socket /\ d.refCount = net.refCount /\ d.closeTimer = net.closeTimer
        /\ d.timers = net.timers /\ d.reconnectTimer = net.reconnectTimer
        /\ d.overtaken = net.overtaken /\ d.currentProjectSpaceId = net.currentProjectSpaceId
    BY <2>1, <2>2, RewireEffect
  <2> HIDE DEF d
  <2>6. /\ c \in NetType /\ c.ws = d.ws
        /\ c.socket = net.socket /\ c.refCount = net.refCount /\ c.closeTimer = net.closeTimer
        /\ c.timers = net.timers /\ c.reconnectTimer = net.reconnectTimer
        /\ c.overtaken = net.overtaken /\ c.currentProjectSpaceId = net.currentProjectSpaceId
    BY <2>5 DEF NetType
  <2> HIDE DEF c
  <2>7. CurrentLinked(c) /\ Connected(c)
    BY <2>1, <2>2, <2>5, <2>6 DEF NetOK, CurrentLinked, Connected, Linked, NetType
  <2>8. Single(c)
    BY <2>1, <2>2, <2>5, <2>6 DEF NetOK, Single, Alone, Idle, Linked
  <2>9. /\ \A x \in Sockets : c.ws[x].link = "CONNECTING" => c.ws[x].space = None
        /\ \A x \in Sockets :
              (c.socket = x /\ c.ws[x].link = "OPEN" /\ c.currentProjectSpaceId = None)
              => c.ws[x].space = None
    BY <2>1, <2>2, <2>5, <2>6 DEF NetOK, Subscribed
  <2>10. NetOK(sendSubscribe(c)) /\ sendSubscribe(c).refCount = c.refCount
    BY <2>6, <2>7, <2>8, <2>9, SendOK
  <2> QED BY <2>3, <2>4, <2>6, <2>10 DEF NetStepOK
<1> QED BY <1>1, <1>2

(* onclose of a socket that still has its handlers: the state after it. *)
LEMMA ClosedEffect ==
    ASSUME NEW n \in NetType, NEW s \in Sockets, n.ws[s].wired # "drop", n.timers # Timers
    PROVE  LET r == closed(n, s) IN
           /\ r \in NetType /\ r.ws[s] = NoSocket
           /\ \A x \in Sockets : x # s => r.ws[x] = n.ws[x]
           /\ r.socket = None /\ r.refCount = n.refCount /\ r.closeTimer = n.closeTimer
           /\ r.overtaken = n.overtaken /\ r.currentProjectSpaceId = n.currentProjectSpaceId
           /\ n.refCount = 0 => r.timers = n.timers /\ r.reconnectTimer = n.reconnectTimer
           /\ n.refCount # 0 => \E t \in Timers : r.timers = n.timers \cup {t} /\ r.reconnectTimer = t
<1> DEFINE c == Rewired(n, s, NoSocket)
<1>1. NoSocket \in Socket
  BY DEF NoSocket, Socket
<1>2. /\ c \in NetType /\ c.ws[s] = NoSocket
      /\ \A x \in Sockets : x # s => c.ws[x] = n.ws[x]
      /\ c.socket = n.socket /\ c.refCount = n.refCount /\ c.closeTimer = n.closeTimer
      /\ c.timers = n.timers /\ c.reconnectTimer = n.reconnectTimer
      /\ c.overtaken = n.overtaken /\ c.currentProjectSpaceId = n.currentProjectSpaceId
  BY <1>1, RewireEffect
<1>3. CASE n.refCount = 0
  <2>1. closed(n, s) = [c EXCEPT !.socket = None, !.monitors = FALSE]
    BY <1>3 DEF closed, Rewired
  <2> HIDE DEF c
  <2> QED BY <1>2, <1>3, <2>1 DEF NetType
<1>4. CASE n.refCount # 0
  <2> DEFINE t == FreshTimer(n)
  <2>1. t \in Timers
    BY DEF FreshTimer, NetType
  <2>2. closed(n, s) = [c EXCEPT !.socket = None, !.monitors = FALSE,
                                 !.timers = @ \cup {t}, !.reconnectTimer = t]
    BY <1>4 DEF closed, Rewired
  <2> HIDE DEF c, t
  <2>3. /\ closed(n, s) \in NetType /\ closed(n, s).ws = c.ws /\ closed(n, s).socket = None
        /\ closed(n, s).refCount = n.refCount /\ closed(n, s).closeTimer = n.closeTimer
        /\ closed(n, s).overtaken = n.overtaken
        /\ closed(n, s).currentProjectSpaceId = n.currentProjectSpaceId
        /\ closed(n, s).timers = n.timers \cup {t} /\ closed(n, s).reconnectTimer = t
    <3> DEFINE T == c.timers \cup {t}
    <3>1. T \in SUBSET Timers /\ t \in Timers \cup {None}
      BY <1>2, <2>1 DEF NetType
    <3>2. closed(n, s) = [c EXCEPT !.socket = None, !.monitors = FALSE,
                                   !.timers = T, !.reconnectTimer = t]
      BY <2>2
    <3>3. T = n.timers \cup {t}
      BY <1>2
    <3> HIDE DEF T
    <3> QED BY <1>2, <3>1, <3>2, <3>3 DEF NetType
  <2> QED BY <1>2, <1>4, <2>1, <2>3
<1> QED BY <1>3, <1>4

LEMMA OnCloseOK == ASSUME NetOK(net), NEW s \in Sockets, onclose(s) PROVE NetStepOK
<1>1. CASE net.ws[s].wired = "drop"
  BY <1>1, DroppedGoes DEF onclose, closed, Rewired, NetStepOK
<1>2. CASE net.ws[s].wired # "drop"
  <2> DEFINE r == closed(net, s)
  <2>1. net \in NetType /\ net.timers # Timers /\ net' = r
    BY DEF NetOK, onclose
  <2>2. net.ws[s].link # "none" /\ net.ws[s].wired = "live"
    BY <1>2, <2>1 DEF onclose, NetType, Socket
  <2>3. /\ r \in NetType /\ r.ws[s] = NoSocket
        /\ \A x \in Sockets : x # s => r.ws[x] = net.ws[x]
        /\ r.socket = None /\ r.refCount = net.refCount /\ r.closeTimer = net.closeTimer
        /\ r.overtaken = net.overtaken /\ r.currentProjectSpaceId = net.currentProjectSpaceId
        /\ net.refCount = 0 => r.timers = net.timers /\ r.reconnectTimer = net.reconnectTimer
        /\ net.refCount # 0 => \E t \in Timers : r.timers = net.timers \cup {t} /\ r.reconnectTimer = t
    BY <1>2, <2>1, ClosedEffect
  <2> HIDE DEF r
  <2>4. CurrentLinked(r) /\ Subscribed(r)
    BY <2>3, UsersAssumption DEF NetOK, CurrentLinked, Subscribed, NoSocket, Sockets
  <2>5. Connected(r)
    BY <2>3 DEF Connected, NetType
  <2>6. ~ net.overtaken => /\ net.socket = s /\ net.timers = {}
                           /\ \A x \in Sockets : x # s => ~ Linked(net, x)
    BY <2>2, UsersAssumption DEF NetOK, Single, Alone, Linked, Sockets
  <2>7. Alone(r)
    BY <2>3, <2>6 DEF Alone, Linked, NoSocket
  <2>8. Idle(r)
    BY <2>3, <2>6 DEF NetOK, Single, Idle
  <2> QED BY <2>1, <2>3, <2>4, <2>5, <2>7, <2>8 DEF NetOK, NetStepOK, Single
<1> QED BY <1>1, <1>2

LEMMA SilentOK == ASSUME NetOK(net), NEW s \in Sockets, GoesSilent(s) PROVE NetStepOK
  BY LinkLost DEF GoesSilent, NetStepOK

LEMMA WatchdogOK == ASSUME NetOK(net), watchdog PROVE NetStepOK
<1>1. net.socket \in Sockets
  BY DEF watchdog, NetOK, NetType
<1> QED BY <1>1, LinkLost DEF watchdog, NetStepOK

(* A timer that fires while no overtaking has happened finds no socket. *)
LEMMA ReconnectOK ==
    ASSUME NetOK(net), NEW t \in Timers, NEW u \in Users \cup {None}, reconnectTimerFires(t, u)
    PROVE  NetStepOK
<1> DEFINE c == [net EXCEPT !.timers = @ \ {t}, !.reconnectTimer = IF @ = t THEN None ELSE @]
<1>1. net \in NetType /\ t \in net.timers /\ HasRoom(net) /\ net' = openSocket(c, u)
  BY DEF NetOK, reconnectTimerFires
<1>2. /\ c \in NetType /\ c.ws = net.ws /\ c.socket = net.socket
      /\ c.refCount = net.refCount /\ c.closeTimer = net.closeTimer
      /\ c.timers = net.timers \ {t} /\ c.overtaken = net.overtaken
      /\ c.currentProjectSpaceId = net.currentProjectSpaceId
  BY <1>1 DEF NetType
<1> HIDE DEF c
<1>3. HasRoom(c) /\ Subscribed(c)
  BY <1>1, <1>2 DEF HasRoom, Subscribed, NetOK
<1>4. ~ c.overtaken => Vacant(c) /\ (c.refCount # 0 \/ c.closeTimer)
  BY <1>1, <1>2, UsersAssumption DEF NetOK, Single, Alone, Idle, Vacant, Linked, Sockets
<1> QED BY <1>1, <1>2, <1>3, <1>4, OpenOK DEF NetStepOK

LEMMA CloseTimerOK == ASSUME NetOK(net), closeTimerFires PROVE NetStepOK
<1> DEFINE c == [net EXCEPT !.closeTimer = FALSE]
<1>1. net \in NetType
  BY DEF NetOK
<1>2. /\ c \in NetType /\ c.ws = net.ws /\ c.socket = net.socket
      /\ c.refCount = net.refCount /\ c.closeTimer = FALSE
      /\ c.timers = net.timers /\ c.overtaken = net.overtaken
      /\ c.reconnectTimer = net.reconnectTimer
      /\ c.currentProjectSpaceId = net.currentProjectSpaceId
  BY <1>1 DEF NetType
<1>3. net' = IF net.refCount = 0 THEN closeSocket(c) ELSE c
  BY DEF closeTimerFires
<1> HIDE DEF c
<1>4. Alone(c) /\ Subscribed(c) /\ CurrentLinked(c) /\ Connected(c)
  BY <1>2 DEF NetOK, Single, Alone, Subscribed, CurrentLinked, Connected, Linked
<1>5. CASE net.refCount = 0
  BY <1>2, <1>3, <1>4, <1>5, CloseOK, CloseLeaves DEF NetStepOK
<1>6. CASE net.refCount # 0
  BY <1>2, <1>3, <1>4, <1>6 DEF NetOK, NetStepOK, Single, Idle
<1> QED BY <1>5, <1>6

-----------------------------------------------------------------------------
(***************************************************************************)
(* The session.  OwnToken is not inductive by itself: an answer to login   *)
(* that is not cancelled must be for the user on the screen, and somebody  *)
(* who sees the application must have a token and a way to renew it.       *)
(***************************************************************************)
SessionType ==
    /\ drops \in 0 .. MaxDrops
    /\ userId \in Users
    /\ projectSpaceId \in Spaces
    /\ authReady \in BOOLEAN /\ authError \in BOOLEAN
    /\ token \in Token \cup {None}
    /\ expiredUser \in Users \cup {None}
    /\ calls \subseteq Call
    /\ req \in [is : {"none", "sent", "relogin", "resent"},
                by : Users \cup {None}, user : Users \cup {None}]
    /\ backendDown \in BOOLEAN /\ stray \in BOOLEAN /\ mounted \in BOOLEAN
    /\ moves \in 0 .. MaxMoves
LoginsOwn == \A c \in calls : c.for = "login" /\ ~ c.cancelled => c.user = userId
SignedIn == authReady => token \in Token /\ expiredUser \in Users
Renewable ==
    /\ req.is # "none" => expiredUser \in Users
    /\ req.is = "relogin" => req.user \in Users
SessionInv == SessionType /\ LoginsOwn /\ SignedIn /\ Renewable /\ OwnToken
ShellInv == NetOK(net) /\ SessionInv

(* A call that is out, and what its answer leaves as the token. *)
LEMMA CallType ==
    ASSUME NEW c \in Call
    PROVE  /\ c.for \in {"login", "switch"} /\ c.user \in Users /\ c.space \in Spaces
           /\ c.cancelled \in BOOLEAN
           /\ [user |-> c.user, space |-> c.space] \in Token
           /\ [user |-> c.user, space |-> c.space].user = c.user
  BY DEF Call, Token

LEMMA LoginType ==
    ASSUME NEW u \in Users, NEW b \in BOOLEAN
    PROVE  /\ Login(u, b) \in Call /\ Login(u, b).user = u /\ Login(u, b).for = "login"
           /\ Login(u, b).cancelled = b
  BY ShellAssumption DEF Login, Call

(* Cancelling the calls of login leaves none that would sign anybody in. *)
LEMMA CancelledType ==
    ASSUME NEW cs \in SUBSET Call
    PROVE  /\ Cancelled(cs) \subseteq Call
           /\ \A c \in Cancelled(cs) : c.for = "login" => c.cancelled
<1>1. ASSUME NEW c \in Call
      PROVE  LET d == IF c.for = "login" THEN [c EXCEPT !.cancelled = TRUE] ELSE c IN
             d \in Call /\ (d.for = "login" => d.cancelled)
  BY DEF Call
<1> QED BY <1>1 DEF Cancelled

(* The token's user, when somebody is signed in. *)
LEMMA TokenUserType == ASSUME SessionType PROVE TokenUser \in Users \cup {None}
  BY DEF SessionType, TokenUser, Token

-----------------------------------------------------------------------------
(* One lemma per action of the session. *)
LEMMA LoginAnswersOK ==
    ASSUME ShellInv, NEW c \in calls, LoginAnswers(c) PROVE ShellInv'
<1> DEFINE tk == [user |-> c.user, space |-> c.space]
<1>1. c \in Call /\ c.for = "login"
  BY DEF ShellInv, SessionInv, SessionType, LoginAnswers
<1>2. tk \in Token /\ tk.user = c.user /\ c.user \in Users /\ c.space \in Spaces
      /\ c.cancelled \in BOOLEAN
  BY <1>1, CallType
<1>3. /\ token' = tk /\ calls' = calls \ {c}
      /\ UNCHANGED <<drops, userId, authError, req, backendDown, mounted, moves>>
  BY DEF LoginAnswers
<1> HIDE DEF tk
<1>4. CASE c.cancelled
  <2>1. /\ stray' = (stray \/ c.user # userId)
        /\ UNCHANGED <<net, projectSpaceId, authReady, expiredUser>>
    BY <1>4 DEF LoginAnswers
  <2>2. SessionType'
    BY <1>2, <1>3, <2>1 DEF ShellInv, SessionInv, SessionType
  <2>3. LoginsOwn' /\ SignedIn' /\ Renewable' /\ OwnToken'
    BY <1>2, <1>3, <2>1 DEF ShellInv, SessionInv, SessionType, LoginsOwn, SignedIn, Renewable, OwnToken
  <2> QED BY <2>1, <2>2, <2>3 DEF ShellInv, SessionInv
<1>5. CASE ~ c.cancelled
  <2>1. /\ projectSpaceId' = c.space /\ net' = setProjectSpace(net, c.space)
        /\ authReady' = TRUE /\ expiredUser' = c.user /\ stray' = FALSE
    BY <1>5 DEF LoginAnswers
  <2>2. c.user = userId
    BY <1>1, <1>5 DEF ShellInv, SessionInv, LoginsOwn
  <2>3. NetOK(net')
    BY <1>2, <2>1, SetSpaceOK DEF ShellInv
  <2>4. SessionType'
    BY <1>2, <1>3, <2>1 DEF ShellInv, SessionInv, SessionType
  <2>5. LoginsOwn' /\ SignedIn' /\ Renewable' /\ OwnToken'
    BY <1>2, <1>3, <2>1, <2>2 DEF ShellInv, SessionInv, SessionType, LoginsOwn, SignedIn, Renewable, OwnToken
  <2> QED BY <2>3, <2>4, <2>5 DEF ShellInv, SessionInv
<1> QED BY <1>2, <1>4, <1>5

LEMMA SwitchAnswersOK ==
    ASSUME ShellInv, NEW c \in calls, SwitchAnswers(c) PROVE ShellInv'
<1> DEFINE tk == [user |-> c.user, space |-> c.space]
<1>1. c \in Call
  BY DEF ShellInv, SessionInv, SessionType
<1>2. tk \in Token /\ tk.user = c.user /\ c.user \in Users /\ c.space \in Spaces
  BY <1>1, CallType
<1>3. /\ token' = tk /\ calls' = calls \ {c} /\ stray' = (stray \/ c.user # userId)
      /\ projectSpaceId' = c.space
      /\ UNCHANGED <<drops, userId, authReady, authError, expiredUser, req, backendDown,
                     mounted, moves>>
  BY DEF SwitchAnswers
<1> HIDE DEF tk
<1>4. NetOK(net')
  BY <1>2, SetSpaceOK DEF SwitchAnswers, ShellInv
<1>5. SessionType'
  BY <1>2, <1>3 DEF ShellInv, SessionInv, SessionType
<1>6. LoginsOwn' /\ SignedIn' /\ Renewable' /\ OwnToken'
  BY <1>2, <1>3 DEF ShellInv, SessionInv, SessionType, LoginsOwn, SignedIn, Renewable, OwnToken
<1> QED BY <1>4, <1>5, <1>6 DEF ShellInv, SessionInv

(* A call that fails. *)
LEMMA CallFailsOK ==
    ASSUME ShellInv, NEW c \in calls, LoginFails(c) \/ SwitchFails(c) PROVE ShellInv'
<1>1. c.cancelled \in BOOLEAN
  BY CallType DEF ShellInv, SessionInv, SessionType
<1>2. SessionType'
  BY <1>1 DEF ShellInv, SessionInv, SessionType, LoginFails, SwitchFails
<1>3. LoginsOwn' /\ SignedIn' /\ Renewable' /\ OwnToken'
  BY DEF ShellInv, SessionInv, SessionType, LoginsOwn, SignedIn, Renewable, OwnToken,
         LoginFails, SwitchFails
<1> QED BY <1>2, <1>3 DEF ShellInv, SessionInv, LoginFails, SwitchFails

LEMMA RetryOK == ASSUME ShellInv, Retry PROVE ShellInv'
<1>1. Login(userId, FALSE) \in Call /\ Login(userId, FALSE).user = userId
  BY LoginType DEF ShellInv, SessionInv, SessionType
<1>2. SessionType'
  BY <1>1 DEF ShellInv, SessionInv, SessionType, Retry
<1>3. LoginsOwn' /\ SignedIn' /\ Renewable' /\ OwnToken'
  BY <1>1 DEF ShellInv, SessionInv, LoginsOwn, SignedIn, Renewable, OwnToken, Retry
<1> QED BY <1>2, <1>3 DEF ShellInv, SessionInv, Retry

LEMMA UserChangeOK == ASSUME ShellInv, NEW u \in Users, handleUserChange(u) PROVE ShellInv'
<1>1. /\ userId' = u /\ authReady' = FALSE /\ net' = acquire(release(net), u, TokenUser)
      /\ calls' = Cancelled(calls) \cup {Login(u, FALSE)} /\ HasRoom(net)
      /\ moves < MaxMoves /\ moves' = moves + 1
      /\ UNCHANGED <<drops, projectSpaceId, authError, token, expiredUser, req, backendDown,
                     stray, mounted>>
  BY DEF handleUserChange, UserMoves
<1>2. NetOK(net')
  <2> DEFINE n == release(net)
  <2>1. NetOK(n) /\ n.refCount = 0 /\ HasRoom(n)
    BY <1>1, ReleaseOK DEF ShellInv, HasRoom
  <2>2. TokenUser \in Users \cup {None}
    BY TokenUserType DEF ShellInv, SessionInv
  <2> HIDE DEF n
  <2>3. NetOK(acquire(n, u, TokenUser))
    BY <2>1, <2>2, AcquireOK
  <2> QED BY <1>1, <2>3 DEF n
<1>3. Login(u, FALSE) \in Call /\ Login(u, FALSE).user = u
  BY LoginType
<1>4. /\ Cancelled(calls) \subseteq Call
      /\ \A c \in Cancelled(calls) : c.for = "login" => c.cancelled
  BY CancelledType DEF ShellInv, SessionInv, SessionType
<1>5. SessionType'
  <2>1. moves' \in 0 .. MaxMoves
    BY <1>1, ShellAssumption DEF ShellInv, SessionInv, SessionType
  <2>2. calls' \subseteq Call
    BY <1>1, <1>3, <1>4
  <2> QED BY <1>1, <2>1, <2>2 DEF ShellInv, SessionInv, SessionType
<1>6. LoginsOwn' /\ SignedIn' /\ Renewable' /\ OwnToken'
  BY <1>1, <1>3, <1>4 DEF ShellInv, SessionInv, LoginsOwn, SignedIn, Renewable, OwnToken
<1> QED BY <1>2, <1>5, <1>6 DEF ShellInv, SessionInv

LEMMA SpaceChangeOK ==
    ASSUME ShellInv, NEW ps \in Spaces, handleProjectSpaceChange(ps) PROVE ShellInv'
<1> DEFINE d == [for |-> "switch", user |-> token.user, space |-> ps, cancelled |-> FALSE]
<1>1. /\ authReady /\ calls' = calls \cup {d} /\ moves < MaxMoves /\ moves' = moves + 1
      /\ UNCHANGED <<net, drops, userId, projectSpaceId, authReady, authError, token,
                     expiredUser, req, backendDown, stray, mounted>>
  BY DEF handleProjectSpaceChange, UserMoves
<1>2. d \in Call /\ d.for = "switch"
  BY <1>1 DEF ShellInv, SessionInv, SignedIn, Token, Call
<1> HIDE DEF d
<1>3. SessionType'
  BY <1>1, <1>2, ShellAssumption DEF ShellInv, SessionInv, SessionType
<1>4. LoginsOwn' /\ SignedIn' /\ Renewable' /\ OwnToken'
  BY <1>1, <1>2 DEF ShellInv, SessionInv, LoginsOwn, SignedIn, Renewable, OwnToken
<1> QED BY <1>1, <1>3, <1>4 DEF ShellInv, SessionInv

LEMMA SendRequestOK == ASSUME ShellInv, SendRequest PROVE ShellInv'
<1> DEFINE q == [is |-> "sent", by |-> userId, user |-> token.user]
<1>1. /\ authReady /\ req' = q /\ moves < MaxMoves /\ moves' = moves + 1
      /\ UNCHANGED <<net, drops, userId, projectSpaceId, authReady, authError, token,
                     expiredUser, calls, backendDown, stray, mounted>>
  BY DEF SendRequest, UserMoves
<1>2. /\ q \in [is : {"none", "sent", "relogin", "resent"},
                by : Users \cup {None}, user : Users \cup {None}]
      /\ q.is = "sent"
  BY <1>1 DEF ShellInv, SessionInv, SessionType, SignedIn, Token
<1> HIDE DEF q
<1>3. SessionType'
  BY <1>1, <1>2, ShellAssumption DEF ShellInv, SessionInv, SessionType
<1>4. LoginsOwn' /\ SignedIn' /\ Renewable' /\ OwnToken'
  BY <1>1, <1>2 DEF ShellInv, SessionInv, LoginsOwn, SignedIn, Renewable, OwnToken
<1> QED BY <1>1, <1>3, <1>4 DEF ShellInv, SessionInv

(* A request that ends, whatever its end. *)
LEMMA RequestEndsOK ==
    ASSUME ShellInv, RequestAnswered \/ ReloginFails \/ onBackendUnreachable PROVE ShellInv'
<1>1. /\ req' = NoReq /\ backendDown' \in {backendDown, TRUE}
      /\ UNCHANGED <<net, drops, userId, projectSpaceId, authReady, authError, token,
                     expiredUser, calls, stray, mounted, moves>>
  BY DEF RequestAnswered, ReloginFails, onBackendUnreachable
<1>2. /\ NoReq \in [is : {"none", "sent", "relogin", "resent"},
                    by : Users \cup {None}, user : Users \cup {None}]
      /\ NoReq.is = "none"
  BY DEF NoReq
<1>3. SessionType'
  BY <1>1, <1>2 DEF ShellInv, SessionInv, SessionType
<1>4. LoginsOwn' /\ SignedIn' /\ Renewable' /\ OwnToken'
  BY <1>1, <1>2 DEF ShellInv, SessionInv, LoginsOwn, SignedIn, Renewable, OwnToken
<1> QED BY <1>1, <1>3, <1>4 DEF ShellInv, SessionInv

LEMMA RequestStaleOK == ASSUME ShellInv, RequestStale PROVE ShellInv'
<1>1. /\ req' \in [is : {"none", "sent", "relogin", "resent"},
                   by : Users \cup {None}, user : Users \cup {None}]
      /\ req'.user = expiredUser /\ expiredUser \in Users
  BY DEF ShellInv, SessionInv, SessionType, Renewable, RequestStale
<1>2. SessionType'
  BY <1>1 DEF ShellInv, SessionInv, SessionType, RequestStale
<1>3. LoginsOwn' /\ SignedIn' /\ Renewable' /\ OwnToken'
  BY <1>1 DEF ShellInv, SessionInv, LoginsOwn, SignedIn, Renewable, OwnToken, RequestStale
<1> QED BY <1>2, <1>3 DEF ShellInv, SessionInv, RequestStale

LEMMA ReloginAnswersOK == ASSUME ShellInv, ReloginAnswers PROVE ShellInv'
<1> DEFINE tk == [user |-> req.user, space |-> HomeSpace[req.user]]
<1>1. req.user \in Users /\ expiredUser \in Users
  BY DEF ReloginAnswers, ShellInv, SessionInv, Renewable
<1>2. tk \in Token /\ tk.user = req.user
  BY <1>1, ShellAssumption DEF Token
<1>3. /\ req' \in [is : {"none", "sent", "relogin", "resent"},
                   by : Users \cup {None}, user : Users \cup {None}]
      /\ req'.is = "resent"
  BY DEF ReloginAnswers, ShellInv, SessionInv, SessionType
<1>4. /\ token' = tk /\ stray' = (stray \/ req.user # userId)
      /\ UNCHANGED <<net, drops, userId, projectSpaceId, authReady, authError, expiredUser,
                     calls, backendDown, mounted, moves>>
  BY DEF ReloginAnswers
<1> HIDE DEF tk
<1>5. SessionType'
  BY <1>2, <1>3, <1>4 DEF ShellInv, SessionInv, SessionType
<1>6. LoginsOwn' /\ SignedIn' /\ Renewable' /\ OwnToken'
  BY <1>1, <1>2, <1>3, <1>4 DEF ShellInv, SessionInv, SessionType, LoginsOwn, SignedIn, Renewable, OwnToken
<1> QED BY <1>4, <1>5, <1>6 DEF ShellInv, SessionInv

LEMMA UnmountOK == ASSUME ShellInv, Unmount PROVE ShellInv'
<1>1. NetOK(net')
  BY ReleaseOK DEF Unmount, ShellInv
<1>2. /\ Cancelled(calls) \subseteq Call
      /\ \A c \in Cancelled(calls) : c.for = "login" => c.cancelled
  BY CancelledType DEF ShellInv, SessionInv, SessionType
<1>3. SessionType'
  <2>1. moves' \in 0 .. MaxMoves
    BY ShellAssumption DEF ShellInv, SessionInv, SessionType, Unmount, UserMoves
  <2> QED BY <1>2, <2>1 DEF ShellInv, SessionInv, SessionType, Unmount
<1>4. LoginsOwn' /\ SignedIn' /\ Renewable' /\ OwnToken'
  BY <1>2 DEF ShellInv, SessionInv, LoginsOwn, SignedIn, Renewable, OwnToken, Unmount
<1> QED BY <1>1, <1>3, <1>4 DEF ShellInv, SessionInv

(* The page is loaded: the effects of a tree mounted once, or twice. *)
LEMMA PageLoadOK ==
    ASSUME NEW n, NEW cs, PageLoad(n, cs)
    PROVE  /\ NetOK(n) /\ cs \subseteq Call
           /\ \A c \in cs : c.user = FirstUser
<1>1. NetOK(NetInit) /\ NetInit.refCount = 0 /\ HasRoom(NetInit)
  <2>1. 1 \in Sockets
    BY SocketsAssumption DEF Sockets
  <2>2. NetInit \in NetType
    BY DEF NetInit, NetType, NoSocket, Socket
  <2>3. HasRoom(NetInit)
    BY <2>1 DEF HasRoom, NetInit, NoSocket
  <2> QED BY <2>2, <2>3 DEF NetOK, NetInit, CurrentLinked, Subscribed, Connected, Single,
                            Alone, Idle, Linked, NoSocket
<1> DEFINE a == acquire(NetInit, FirstUser, None)
           b == release(a)
           c == acquire(b, FirstUser, None)
<1>2. NetOK(a) /\ a.socket # None /\ a.currentUserId = FirstUser
  BY <1>1, ShellAssumption, AcquireOK
<1>3. NetOK(b) /\ b.refCount = 0 /\ b.socket # None /\ b.currentUserId = FirstUser
  <2> HIDE DEF a
  <2> QED BY <1>2, ReleaseOK
<1>4. NetOK(c)
  <2> HIDE DEF b
  <2> QED BY <1>3, ShellAssumption, AcquireOK
<1>5. NetOK(Mounted) /\ NetOK(MountedTwice)
  <2>1. Mounted = setProjectSpace(a, DefaultSpace) /\ MountedTwice = setProjectSpace(c, DefaultSpace)
    BY DEF Mounted, MountedTwice
  <2> HIDE DEF a, c
  <2> QED BY <1>2, <1>4, <2>1, ShellAssumption, SetSpaceOK
<1>6. \A d \in BOOLEAN : Login(FirstUser, d) \in Call /\ Login(FirstUser, d).user = FirstUser
  BY LoginType, ShellAssumption
<1> QED BY <1>5, <1>6 DEF PageLoad

LEMMA ReloadOK == ASSUME ShellInv, Reload PROVE ShellInv'
<1>1. NetOK(net') /\ calls' \subseteq Call /\ \A c \in calls' : c.user = FirstUser
  BY PageLoadOK DEF Reload
<1>2. SessionType'
  BY <1>1, ShellAssumption DEF ShellInv, SessionInv, SessionType, Reload, NoReq
<1>3. LoginsOwn' /\ SignedIn' /\ Renewable' /\ OwnToken'
  BY <1>1 DEF LoginsOwn, SignedIn, Renewable, OwnToken, Reload, NoReq
<1> QED BY <1>1, <1>2, <1>3 DEF ShellInv, SessionInv

LEMMA ShellInit == Init => ShellInv
<1> SUFFICES ASSUME Init PROVE ShellInv
  OBVIOUS
<1>1. NetOK(net) /\ calls \subseteq Call /\ \A c \in calls : c.user = FirstUser
  BY PageLoadOK DEF Init
<1>2. SessionType
  <2>1. drops \in 0 .. MaxDrops /\ moves \in 0 .. MaxMoves
    BY ShellAssumption, SocketsAssumption DEF Init
  <2> QED BY <1>1, <2>1, ShellAssumption DEF SessionType, Init, NoReq
<1>3. LoginsOwn /\ SignedIn /\ Renewable /\ OwnToken
  BY <1>1 DEF LoginsOwn, SignedIn, Renewable, OwnToken, Init, NoReq
<1> QED BY <1>1, <1>2, <1>3 DEF ShellInv, SessionInv

(* The callbacks of sockets and timers leave the session alone. *)
LEMMA SocketActionOK == ASSUME ShellInv, SocketAction PROVE ShellInv'
<1>1. TokenUser \in Users \cup {None}
  BY TokenUserType DEF ShellInv, SessionInv
<1>2. NetOK(net')
  BY <1>1, OnOpenOK, OnCloseOK, SilentOK, ReconnectOK, WatchdogOK, CloseTimerOK
     DEF SocketAction, ShellInv, NetStepOK
<1>3. drops' \in 0 .. MaxDrops
  <2>1. drops' = drops \/ (drops < MaxDrops /\ drops' = drops + 1)
    BY DEF SocketAction, onopen, onclose, GoesSilent, reconnectTimerFires, watchdog, closeTimerFires
  <2> QED BY <2>1, SocketsAssumption DEF ShellInv, SessionInv, SessionType
<1>4. SessionType'
  BY <1>3 DEF SocketAction, ShellInv, SessionInv, SessionType, session
<1>5. LoginsOwn' /\ SignedIn' /\ Renewable' /\ OwnToken'
  BY DEF SocketAction, ShellInv, SessionInv, session, LoginsOwn, SignedIn, Renewable, OwnToken
<1> QED BY <1>2, <1>4, <1>5 DEF ShellInv, SessionInv

LEMMA ShellNext == ASSUME ShellInv, [Next]_vars PROVE ShellInv'
<1>1. CASE SocketAction
  BY <1>1, SocketActionOK
<1>2. CASE SessionAction
  BY <1>2, LoginAnswersOK, SwitchAnswersOK, CallFailsOK, RetryOK, UserChangeOK, SpaceChangeOK,
     SendRequestOK, RequestEndsOK, RequestStaleOK, ReloginAnswersOK, ReloadOK, UnmountOK
     DEF SessionAction
<1>3. CASE UNCHANGED vars
  BY <1>3 DEF vars, session, ShellInv, SessionInv, SessionType, LoginsOwn, SignedIn,
     Renewable, OwnToken
<1> QED BY <1>1, <1>2, <1>3 DEF Next

-----------------------------------------------------------------------------
(* The invariant the theorems rest on. *)
THEOREM ShellInductive == Spec => []ShellInv
  BY ShellInit, ShellNext, PTL DEF Spec

(* Every variable keeps its shape: also the fresh socket and the fresh      *)
(* timer of useWebSocket.js exist whenever they are asked for.              *)
THEOREM ShellTypeOK == Spec => []TypeOK
<1>1. ShellInv => TypeOK
  BY DEF ShellInv, NetOK, SessionInv, SessionType, TypeOK
<1> QED BY <1>1, ShellInductive, PTL

(* The event connection: a mounted shell has a socket or a timer that will  *)
(* open one, and no second one unless acquire has overtaken a scheduled     *)
(* reconnect; a closed one leaves nothing behind.                           *)
THEOREM OneConnectionHolds == Spec => []OneConnection
<1>1. ASSUME ShellInv PROVE OneConnection
  <2>1. Connected(net) /\ Single(net) /\ net \in NetType
    BY <1>1 DEF ShellInv, NetOK
  <2>2. net.refCount > 0 => net.socket # None \/ net.timers # {}
    BY <2>1 DEF Connected
  <2>3. ASSUME ~ net.overtaken
        PROVE  Cardinality(Delivering) + Cardinality(net.timers)
                  <= (IF net.refCount = 0 /\ ~ net.closeTimer THEN 0 ELSE 1)
    <3>1. Delivering \subseteq {net.socket} \ {None}
      BY <2>1, <2>3, UsersAssumption DEF Delivering, Single, Alone, Linked, Sockets
    <3>2. Cardinality({}) = 0 /\ \A x : Cardinality({x}) = 1
      BY FS_EmptySet, FS_Singleton
    <3>3. CASE net.socket = None
      <4>1. Delivering = {}
        BY <3>1, <3>3
      <4>2. net.timers = {} \/ net.timers = {net.reconnectTimer}
        BY <2>1, <2>3 DEF Single, Alone
      <4>3. net.refCount = 0 /\ ~ net.closeTimer => net.timers = {}
        BY <2>1, <2>3 DEF Single, Idle
      <4>4. Cardinality(Delivering) = 0 /\ (net.timers = {} => Cardinality(net.timers) = 0)
            /\ Cardinality({net.reconnectTimer}) = 1
        BY <3>2, <4>1
      <4>5. CASE net.timers = {}
        BY <4>4, <4>5
      <4>6. CASE net.timers = {net.reconnectTimer} /\ net.timers # {}
        <5>1. Cardinality(net.timers) = 1
          BY <4>4, <4>6
        <5> QED BY <4>3, <4>4, <4>6, <5>1
      <4> QED BY <4>2, <4>5, <4>6
    <3>4. CASE net.socket # None
      <4>1. net.timers = {} /\ ~ (net.refCount = 0 /\ ~ net.closeTimer)
        BY <2>1, <2>3, <3>4 DEF Single, Alone, Idle
      <4>2. Delivering = {} \/ Delivering = {net.socket}
        BY <3>1
      <4> QED BY <3>2, <4>1, <4>2
    <3> QED BY <3>3, <3>4
  <2> QED BY <2>2, <2>3 DEF OneConnection
<1> QED BY <1>1, ShellInductive, PTL

(* An open connection is subscribed to the project space on the screen,     *)
(* whether the space or the socket came first.                              *)
THEOREM SubscriptionIsCurrent == Spec => []SubscriptionCurrent
<1>1. ASSUME ShellInv PROVE SubscriptionCurrent
  <2>1. net.socket # None => net.socket \in Sockets
    BY <1>1 DEF ShellInv, NetOK, NetType
  <2> QED BY <1>1, <2>1 DEF ShellInv, NetOK, Subscribed, SubscriptionCurrent
<1> QED BY <1>1, ShellInductive, PTL

(* While the application is on the screen its requests carry the token of   *)
(* the user on the screen, unless a late answer asked for in another user's *)
(* name has replaced it.                                                    *)
THEOREM OwnTokenHolds == Spec => []OwnToken
<1>1. ShellInv => OwnToken
  BY DEF ShellInv, SessionInv
<1> QED BY <1>1, ShellInductive, PTL
=============================================================================
