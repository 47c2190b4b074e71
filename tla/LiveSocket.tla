----------------------------- MODULE LiveSocket -----------------------------
(***************************************************************************)
(* The browser's event connection (frontend/src/hooks/useWebSocket.js).    *)
(*                                                                         *)
(* The module keeps one current socket, a count of the components that use *)
(* it, and timers.  Its functions call each other within one turn of the   *)
(* event loop, so they are operators from the state n of the module to the *)
(* next one; every action is one callback.  Sockets outlive the variable   *)
(* that points to them: a socket that is no longer the current one still   *)
(* runs its handlers unless closeSocket took them away.  Delays and their  *)
(* doubling are left out: a timer that is set may fire at any time.        *)
(***************************************************************************)
EXTENDS Naturals, FiniteSets

CONSTANTS
    Users,       \* users the browser may sign in
    Spaces,      \* project spaces
    MaxSockets,  \* bound: sockets, and reconnect timers, that exist at one time
    MaxDrops,    \* bound: connections refused, closed or silently dropped
    None         \* null

ASSUME UsersAssumption == None \notin Users \cup Spaces \cup (1 .. MaxSockets)
ASSUME SocketsAssumption == MaxSockets \in Nat \ {0} /\ MaxDrops \in Nat

VARIABLES
    net,    \* the state of the module useWebSocket
    drops   \* failures of the network so far

Sockets == 1 .. MaxSockets
Timers == 1 .. MaxSockets

(* A socket: its connection ("silent" if it was dropped without the browser *)
(* noticing, "closing" after close), its handlers ("live", "drop" when      *)
(* closing is put off until it opens), whose token opened it, and the       *)
(* project space it subscribed to.                                          *)
Socket == [link : {"none", "CONNECTING", "OPEN", "silent", "closing"},
           wired : {"live", "drop"}, user : Users \cup {None}, space : Spaces \cup {None}]
NoSocket == [link |-> "none", wired |-> "live", user |-> None, space |-> None]

NetType ==
    [socket : Sockets \cup {None}, ws : [Sockets -> Socket], refCount : 0 .. 1,
     timers : SUBSET Timers, reconnectTimer : Timers \cup {None},
     closeTimer : BOOLEAN, monitors : BOOLEAN,
     currentUserId : Users \cup {None}, currentProjectSpaceId : Spaces \cup {None},
     overtaken : BOOLEAN]

NetInit ==
    [socket |-> None, ws |-> [s \in Sockets |-> NoSocket], refCount |-> 0,
     timers |-> {}, reconnectTimer |-> None, closeTimer |-> FALSE, monitors |-> FALSE,
     currentUserId |-> None, currentProjectSpaceId |-> None, overtaken |-> FALSE]

Fresh(n) == CHOOSE s \in Sockets : n.ws[s].link = "none"
FreshTimer(n) == CHOOSE t \in Timers : t \notin n.timers
HasRoom(n) == \E s \in Sockets : n.ws[s].link = "none"

-----------------------------------------------------------------------------
(* What is sent over a silent connection is lost.                           *)
sendSubscribe(n) ==
    IF n.currentProjectSpaceId # None /\ n.socket # None /\ n.ws[n.socket].link = "OPEN"
    THEN [n EXCEPT !.ws[n.socket].space = n.currentProjectSpaceId]
    ELSE n

openSocket(n, tokenUser) ==
    [n EXCEPT !.socket = Fresh(n),
              !.ws[Fresh(n)] = [link |-> "CONNECTING", wired |-> "live",
                                user |-> tokenUser, space |-> None]]

(* The fault of forgetting a timer that still runs.                         *)
clearReconnectFault(n) == [n EXCEPT !.reconnectTimer = None]

(* clearTimeout(reconnectTimer): of the timers that are set, the last one.  *)
clearReconnect(n) ==
    [n EXCEPT !.timers = @ \ {n.reconnectTimer}, !.reconnectTimer = None]

(* A connecting socket is closed when it opens, any other one at once; both *)
(* have lost their handlers.                                                *)
closeSocket(n) ==
    LET c == [clearReconnect(n) EXCEPT !.monitors = FALSE]
    IN  IF c.socket = None THEN c
        ELSE [c EXCEPT !.socket = None,
                       !.ws[n.socket] = IF @.link = "CONNECTING"
                                        THEN [@ EXCEPT !.wired = "drop"] ELSE NoSocket]

reconnect(n, tokenUser) ==
    LET c == closeSocket(n)
    IN  IF c.refCount > 0 THEN openSocket(c, tokenUser) ELSE c

(* overtaken records that a socket is opened while a reconnect is still     *)
(* scheduled: acquire does not clear that timer.                            *)
acquire(n, u, tokenUser) ==
    LET c == [n EXCEPT !.closeTimer = FALSE, !.refCount = @ + 1]
    IN  IF c.socket = None
        THEN openSocket([c EXCEPT !.currentUserId = u, !.overtaken = @ \/ c.timers # {}],
                        tokenUser)
        ELSE IF u # c.currentUserId
             THEN reconnect([c EXCEPT !.currentUserId = u], tokenUser)
             ELSE c

release(n) ==
    LET count == IF n.refCount = 0 THEN 0 ELSE n.refCount - 1
    IN  [n EXCEPT !.refCount = count, !.closeTimer = @ \/ count = 0]

(* The fault of a subscription that waits for the next socket.              *)
setProjectSpaceFault(n, ps) == [n EXCEPT !.currentProjectSpaceId = ps]

setProjectSpace(n, ps) == sendSubscribe([n EXCEPT !.currentProjectSpaceId = ps])

-----------------------------------------------------------------------------
(* The callbacks of a socket.                                               *)

(* onopen: monitors are started, the subscription sent; a socket to be      *)
(* dropped closes itself.                                                   *)
onopen(s) ==
    /\ net.ws[s].link = "CONNECTING"
    /\ net.ws[s].user # None
    /\ net' = IF net.ws[s].wired = "drop" THEN [net EXCEPT !.ws[s] = NoSocket]
              ELSE sendSubscribe([net EXCEPT !.ws[s].link = "OPEN", !.monitors = TRUE])
    /\ UNCHANGED drops

(* What onclose does when the link of s is gone.                            *)
closed(n, s) ==
    LET c == [n EXCEPT !.ws[s] = NoSocket]
    IN  IF n.ws[s].wired = "drop" THEN c
        ELSE IF n.refCount = 0 THEN [c EXCEPT !.socket = None, !.monitors = FALSE]
        ELSE [c EXCEPT !.socket = None, !.monitors = FALSE,
                       !.timers = @ \cup {FreshTimer(n)}, !.reconnectTimer = FreshTimer(n)]

(* The gateway refuses a connection without a token, and closes one that    *)
(* was asked to close; any other one may be refused or cut.                 *)
onclose(s) ==
    /\ \/ /\ \/ net.ws[s].link = "closing"
             \/ net.ws[s].link = "CONNECTING" /\ net.ws[s].user = None
          /\ UNCHANGED drops
       \/ /\ net.ws[s].user # None
          /\ net.ws[s].link \in {"CONNECTING", "OPEN"}
          /\ drops < MaxDrops
          /\ drops' = drops + 1
    /\ net.timers # Timers
    /\ net' = closed(net, s)

(* A proxy drops an idle connection: neither side is told.                  *)
GoesSilent(s) ==
    /\ net.ws[s].link = "OPEN"
    /\ drops < MaxDrops
    /\ drops' = drops + 1
    /\ net' = [net EXCEPT !.ws[s].link = "silent"]

-----------------------------------------------------------------------------
(* Timers.                                                                  *)

(* The fault of a watchdog that takes the keepalive ping for activity.      *)
watchdogFault == FALSE /\ UNCHANGED <<net, drops>>

(* The watchdog finds no frame within STALE_MS, from any socket that still  *)
(* has its handlers, and closes the current one.                            *)
watchdog ==
    /\ net.monitors
    /\ net.socket # None
    /\ net.ws[net.socket].link = "silent"
    /\ \A s \in Sockets : net.ws[s].wired = "live" => net.ws[s].link # "OPEN"
    /\ net' = [net EXCEPT !.ws[net.socket].link = "closing"]
    /\ UNCHANGED drops

reconnectTimerFires(t, tokenUser) ==
    /\ t \in net.timers
    /\ HasRoom(net)
    /\ net' = openSocket([net EXCEPT !.timers = @ \ {t},
                                     !.reconnectTimer = IF @ = t THEN None ELSE @], tokenUser)
    /\ UNCHANGED drops

closeTimerFires ==
    /\ net.closeTimer
    /\ net' = IF net.refCount = 0 THEN closeSocket([net EXCEPT !.closeTimer = FALSE])
              ELSE [net EXCEPT !.closeTimer = FALSE]
    /\ UNCHANGED drops

-----------------------------------------------------------------------------
(* The connections whose frames reach the event bus.                        *)
Delivering == {s \in Sockets : /\ net.ws[s].wired = "live"
                               /\ net.ws[s].link \in {"CONNECTING", "OPEN", "silent"}}

(* While the shell is mounted there is one connection: a socket, or a timer *)
(* that will open one, however closes, timers, remounts and changes of user *)
(* interleave; and no second one, unless acquire has overtaken a scheduled  *)
(* reconnect.  None is left once the last user of it is gone.               *)
OneConnection ==
    /\ net.refCount > 0 => net.socket # None \/ net.timers # {}
    /\ ~net.overtaken =>
          Cardinality(Delivering) + Cardinality(net.timers)
              <= (IF net.refCount = 0 /\ ~net.closeTimer THEN 0 ELSE 1)

(* The events of the project space on the screen are the ones subscribed    *)
(* to, whether the space or the socket came first.                          *)
SubscriptionCurrent ==
    /\ net.socket # None
    /\ net.ws[net.socket].link = "OPEN"
    => net.ws[net.socket].space = net.currentProjectSpaceId
=============================================================================
