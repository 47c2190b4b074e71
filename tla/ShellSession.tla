---------------------------- MODULE ShellSession ----------------------------
(***************************************************************************)
(* The session of the browser shell: who is signed in, with which token,   *)
(* in which project space (frontend/src/App.jsx, services/api.js), on top  *)
(* of the event connection of LiveSocket.                                  *)
(*                                                                         *)
(* The token lives in a variable of api.js.  Every answer of the gateway   *)
(* that carries a token stores it there at once; what the screen shows is  *)
(* React state, set later and only under conditions.  Answers arrive in    *)
(* any order, and after the user has moved on.                             *)
(***************************************************************************)
EXTENDS LiveSocket

CONSTANTS
    FirstUser,     \* the user the shell starts with
    HomeSpace,     \* the default project space of each user
    DefaultSpace,  \* DEFAULT_PROJECT_SPACE
    MaxMoves       \* bound: actions of the user

ASSUME ShellAssumption ==
    /\ FirstUser \in Users
    /\ HomeSpace \in [Users -> Spaces]
    /\ DefaultSpace \in Spaces
    /\ MaxMoves \in Nat

VARIABLES
    userId,          \* the user on the screen
    projectSpaceId,  \* the project space on the screen
    authReady,       \* has the auth splash given way to the application?
    authError,       \* does the splash show an error, with a retry button?
    token,           \* _sessionToken
    expiredUser,     \* the user _onAuthExpired signs in again
    calls,           \* calls of login (by the auth effect) and of switchProject
    req,             \* a request of the application
    backendDown,     \* _backendDown: the recovery poll is running
    stray,           \* another user's answer has replaced the token since sign-in
    mounted,         \* is the component tree mounted?
    moves            \* actions of the user so far

session == <<userId, projectSpaceId, authReady, authError, token, expiredUser,
             calls, req, backendDown, stray, mounted, moves>>
vars == <<net, drops, session>>

Token == [user : Users, space : Spaces]
Call == [for : {"login", "switch"}, user : Users, space : Spaces, cancelled : BOOLEAN]
NoReq == [is |-> "none", by |-> None, user |-> None]

TypeOK ==
    /\ net \in NetType
    /\ drops \in 0 .. MaxDrops
    /\ userId \in Users
    /\ projectSpaceId \in Spaces
    /\ authReady \in BOOLEAN /\ authError \in BOOLEAN
    /\ token \in Token \cup {None}
    /\ expiredUser \in Users \cup {None}
    /\ calls \subseteq Call
    /\ req \in [is : {"none", "sent", "relogin", "resent"},
                by : Users \cup {None}, user : Users \cup {None}]
    /\ backendDown \in BOOLEAN /\ stray \in BOOLEAN /\ mounted \in BOOLEAN
    /\ moves \in 0 .. MaxMoves

TokenUser == IF token = None THEN None ELSE token.user
Login(u, c) == [for |-> "login", user |-> u, space |-> HomeSpace[u], cancelled |-> c]

(* The page is loaded: the tree is mounted, once or (StrictMode) twice, and *)
(* its effects have opened the event connection and called login.           *)
Mounted == setProjectSpace(acquire(NetInit, FirstUser, None), DefaultSpace)
MountedTwice ==
    setProjectSpace(acquire(release(acquire(NetInit, FirstUser, None)), FirstUser, None),
                    DefaultSpace)

PageLoad(n, cs) ==
    \/ n = Mounted /\ cs = {Login(FirstUser, FALSE)}
    \/ n = MountedTwice /\ cs = {Login(FirstUser, TRUE), Login(FirstUser, FALSE)}

Init ==
    /\ PageLoad(net, calls)
    /\ drops = 0
    /\ userId = FirstUser
    /\ projectSpaceId = DefaultSpace
    /\ authReady = FALSE /\ authError = FALSE
    /\ token = None
    /\ expiredUser = None
    /\ req = NoReq
    /\ backendDown = FALSE /\ stray = FALSE /\ mounted = TRUE
    /\ moves = 0

UserMoves == mounted /\ moves < MaxMoves /\ moves' = moves + 1

-----------------------------------------------------------------------------
(* The auth effect: login stores the token before cancelled is looked at.   *)
LoginAnswers(c) ==
    /\ c \in calls /\ c.for = "login"
    /\ calls' = calls \ {c}
    /\ token' = [user |-> c.user, space |-> c.space]
    /\ \/ /\ c.cancelled
          /\ stray' = (stray \/ c.user # userId)
          /\ UNCHANGED <<net, projectSpaceId, authReady, expiredUser>>
       \/ /\ ~c.cancelled
          /\ projectSpaceId' = c.space
          /\ net' = setProjectSpace(net, c.space)
          /\ authReady' = TRUE
          /\ expiredUser' = c.user
          /\ stray' = FALSE
    /\ UNCHANGED <<drops, userId, authError, req, backendDown, mounted, moves>>

(* The fault of a catch block that reports nothing.                         *)
LoginFailsSilentlyFault(c) ==
    /\ c \in calls /\ c.for = "login"
    /\ calls' = calls \ {c}
    /\ UNCHANGED <<net, drops, userId, projectSpaceId, authReady, authError, token,
                   expiredUser, req, backendDown, stray, mounted, moves>>

LoginFails(c) ==
    /\ c \in calls /\ c.for = "login"
    /\ calls' = calls \ {c}
    /\ authError' = (authError \/ ~c.cancelled)
    /\ UNCHANGED <<net, drops, userId, projectSpaceId, authReady, token, expiredUser,
                   req, backendDown, stray, mounted, moves>>

(* The retry button of the splash.                                          *)
Retry ==
    /\ mounted /\ ~authReady /\ authError
    /\ authError' = FALSE
    /\ calls' = calls \cup {Login(userId, FALSE)}
    /\ UNCHANGED <<net, drops, userId, projectSpaceId, authReady, token, expiredUser,
                   req, backendDown, stray, mounted, moves>>

(* The calls of login that are still out belong to an effect cleaned up.    *)
Cancelled(cs) == {IF c.for = "login" THEN [c EXCEPT !.cancelled = TRUE] ELSE c : c \in cs}

(* The fault of leaving the application on the screen during the login.     *)
handleUserChangeFault(u) ==
    /\ authReady /\ u # userId /\ HasRoom(net) /\ UserMoves
    /\ userId' = u
    /\ net' = acquire(release(net), u, TokenUser)
    /\ calls' = Cancelled(calls) \cup {Login(u, FALSE)}
    /\ UNCHANGED <<drops, projectSpaceId, authReady, authError, token, expiredUser, req,
                   backendDown, stray, mounted>>

(* handleUserChange, and the effects keyed on userId: all clean-ups, then   *)
(* the event connection is acquired, then login is called.  The token is    *)
(* still the previous user's.                                               *)
handleUserChange(u) ==
    /\ authReady /\ u # userId /\ HasRoom(net) /\ UserMoves
    /\ userId' = u
    /\ authReady' = FALSE
    /\ net' = acquire(release(net), u, TokenUser)
    /\ calls' = Cancelled(calls) \cup {Login(u, FALSE)}
    /\ UNCHANGED <<drops, projectSpaceId, authError, token, expiredUser, req, backendDown,
                   stray, mounted>>

-----------------------------------------------------------------------------
(* handleProjectSpaceChange: the token that is sent decides whose token the *)
(* answer carries.                                                          *)
handleProjectSpaceChange(ps) ==
    /\ authReady /\ ps # projectSpaceId /\ UserMoves
    /\ calls' = calls \cup {[for |-> "switch", user |-> token.user, space |-> ps,
                             cancelled |-> FALSE]}
    /\ UNCHANGED <<net, drops, userId, projectSpaceId, authReady, authError, token,
                   expiredUser, req, backendDown, stray, mounted>>

SwitchAnswers(c) ==
    /\ c \in calls /\ c.for = "switch"
    /\ calls' = calls \ {c}
    /\ token' = [user |-> c.user, space |-> c.space]
    /\ stray' = (stray \/ c.user # userId)
    /\ projectSpaceId' = c.space
    /\ net' = IF mounted THEN setProjectSpace(net, c.space) ELSE net
    /\ UNCHANGED <<drops, userId, authReady, authError, expiredUser, req, backendDown,
                   mounted, moves>>

(* 403, or any other failure: a toast.                                      *)
SwitchFails(c) ==
    /\ c \in calls /\ c.for = "switch"
    /\ calls' = calls \ {c}
    /\ UNCHANGED <<net, drops, userId, projectSpaceId, authReady, authError, token,
                   expiredUser, req, backendDown, stray, mounted, moves>>

-----------------------------------------------------------------------------
(* gatewayJson and doFetch.                                                 *)
SendRequest ==
    /\ authReady /\ req = NoReq /\ UserMoves
    /\ req' = [is |-> "sent", by |-> userId, user |-> token.user]
    /\ UNCHANGED <<net, drops, userId, projectSpaceId, authReady, authError, token,
                   expiredUser, calls, backendDown, stray, mounted>>

(* An answer or an error other than 401 TOKEN_STALE; on the second try that *)
(* one too.                                                                 *)
RequestAnswered ==
    /\ req.is \in {"sent", "resent"}
    /\ req' = NoReq
    /\ UNCHANGED <<net, drops, userId, projectSpaceId, authReady, authError, token,
                   expiredUser, calls, backendDown, stray, mounted, moves>>

(* 401 TOKEN_STALE: _onAuthExpired of this moment calls login.              *)
RequestStale ==
    /\ req.is = "sent"
    /\ req' = [req EXCEPT !.is = "relogin", !.user = expiredUser]
    /\ UNCHANGED <<net, drops, userId, projectSpaceId, authReady, authError, token,
                   expiredUser, calls, backendDown, stray, mounted, moves>>

(* The request is sent again with the new token, or its error is reported.  *)
ReloginAnswers ==
    /\ req.is = "relogin"
    /\ token' = [user |-> req.user, space |-> HomeSpace[req.user]]
    /\ stray' = (stray \/ req.user # userId)
    /\ req' = [req EXCEPT !.is = "resent"]
    /\ UNCHANGED <<net, drops, userId, projectSpaceId, authReady, authError, expiredUser,
                   calls, backendDown, mounted, moves>>

ReloginFails ==
    /\ req.is = "relogin"
    /\ req' = NoReq
    /\ UNCHANGED <<net, drops, userId, projectSpaceId, authReady, authError, token,
                   expiredUser, calls, backendDown, stray, mounted, moves>>

(* No answer, or a bare 502 or 503.                                         *)
onBackendUnreachable ==
    /\ req.is \in {"sent", "resent"}
    /\ req' = NoReq
    /\ backendDown' = TRUE
    /\ UNCHANGED <<net, drops, userId, projectSpaceId, authReady, authError, token,
                   expiredUser, calls, stray, mounted, moves>>

(* The poll finds the backend up and reloads the page.                      *)
Reload ==
    /\ backendDown
    /\ PageLoad(net', calls')
    /\ userId' = FirstUser
    /\ projectSpaceId' = DefaultSpace
    /\ authReady' = FALSE /\ authError' = FALSE
    /\ token' = None
    /\ expiredUser' = None
    /\ req' = NoReq
    /\ backendDown' = FALSE /\ stray' = FALSE /\ mounted' = TRUE
    /\ UNCHANGED <<drops, moves>>

(* A component outside the error boundaries throws while rendering: React   *)
(* unmounts the tree and runs the clean-ups.                                *)
Unmount ==
    /\ UserMoves
    /\ mounted' = FALSE
    /\ net' = release(net)
    /\ calls' = Cancelled(calls)
    /\ UNCHANGED <<drops, userId, projectSpaceId, authReady, authError, token, expiredUser,
                   req, backendDown, stray>>

-----------------------------------------------------------------------------
SocketAction ==
    /\ \/ \E s \in Sockets : onopen(s) \/ onclose(s) \/ GoesSilent(s)
       \/ \E t \in Timers : reconnectTimerFires(t, TokenUser)
       \/ watchdog
       \/ closeTimerFires
    /\ UNCHANGED session

SessionAction ==
    \/ \E c \in calls :
          LoginAnswers(c) \/ LoginFails(c) \/ SwitchAnswers(c) \/ SwitchFails(c)
    \/ Retry
    \/ \E u \in Users : handleUserChange(u)
    \/ \E ps \in Spaces : handleProjectSpaceChange(ps)
    \/ SendRequest \/ RequestAnswered \/ RequestStale \/ ReloginAnswers \/ ReloginFails
    \/ onBackendUnreachable \/ Reload \/ Unmount

Next == SocketAction \/ SessionAction

(* Calls are answered or time out, timers fire, connections open or fail.   *)
(* Nothing is assumed about the user, or about which answer comes.          *)
SocketFairness ==
    /\ \A s \in Sockets :
          /\ WF_vars(onopen(s) /\ UNCHANGED session)
          /\ WF_vars(/\ net.ws[s].link = "closing" \/ net.ws[s].user = None
                     /\ onclose(s) /\ UNCHANGED session)
    /\ \A t \in Timers : WF_vars(reconnectTimerFires(t, TokenUser) /\ UNCHANGED session)
    /\ WF_vars(watchdog /\ UNCHANGED session)

SessionFairness ==
    WF_vars(\E c \in calls : ~c.cancelled /\ c.for = "login" /\ (LoginAnswers(c) \/ LoginFails(c)))

Spec == Init /\ [][Next]_vars /\ SocketFairness /\ SessionFairness

-----------------------------------------------------------------------------
(* While the application is on the screen, requests are made in the name of *)
(* the user on the screen.  The one way out is an answer that was asked for *)
(* in another user's name and came after the change (App.jsx gates the tree *)
(* on authReady for this).                                                  *)
OwnToken == authReady => stray \/ token.user = userId

(* The events pushed to the screen are those of the user on the screen      *)
(* (useWebSocket.js: a change of user reconnects with the fresh token).     *)
EventsInOwnName ==
    /\ authReady
    /\ net.socket # None
    /\ net.ws[net.socket].link = "OPEN"
    => net.ws[net.socket].user = userId

(* The splash does not spin for ever: the user gets in, or an error to      *)
(* retry from.                                                              *)
SignsIn == mounted /\ ~authReady ~> authReady \/ authError \/ ~mounted

(* Once somebody is signed in, a connection that feeds the event bus comes  *)
(* up again after every failure, also when reconnects, remounts and changes *)
(* of user meet.                                                            *)
Listens ==
    /\ mounted
    /\ token # None
    ~> \/ \E s \in Sockets : net.ws[s].wired = "live" /\ net.ws[s].link = "OPEN"
       \/ ~mounted
       \/ token = None
=============================================================================
