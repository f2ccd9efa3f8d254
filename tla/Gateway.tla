------------------------------ MODULE Gateway -------------------------------
(***************************************************************************)
(* The WebSocket connection to the QQ platform: connect, identify or       *)
(* resume, heartbeat, disconnect, back off and reconnect, stop.            *)
(*                                                                         *)
(* Sources: adapters/qqOfficialGateway.ts, and the gateway-address cache   *)
(* of adapters/qqOfficialClient.ts.                                        *)
(*                                                                         *)
(* connectOnce awaits twice (the address, the token), so connecting is a   *)
(* small process, `connect`; socket events and stop() may come between its *)
(* steps.  No event names the socket it came from: every handler acts on   *)
(* the fields of the one gateway object, and so does the model.            *)
(***************************************************************************)
EXTENDS Naturals

CONSTANTS
    Sockets,        \* WebSocket objects (closed ones are used again)
    Sessions,       \* session ids the platform hands out (reused when dropped)
    MaxAttempts,    \* reconnect.maxAttempts
    Threshold,      \* reconnect.invalidateGatewayAfterFailures
    MaxMoves,       \* bound: times the platform moves its gateway address
    MaxSeq,         \* bound: events per session, READY included
    None

ASSUME GatewayConstants ==
    /\ {MaxAttempts, Threshold, MaxMoves, MaxSeq} \subseteq Nat
    /\ MaxSeq > 0 /\ Threshold > 0
    /\ None \notin Sockets \union Sessions \union Nat

VARIABLES
    handler, stopped, running,     \* handler # undefined, stopped, running
    reconnecting, timer,           \* reconnecting, reconnectTimer # undefined
    attempts, failures,            \* attempts, failuresSinceOpen (up to Threshold)
    invalidated,                   \* gatewayUrlInvalidated
    connect,                       \* the connectOnce() in progress
    socket,                        \* this.socket
    conn,                          \* the WebSocket objects, seen from both ends
    session, lastSeq, resumeUrl,   \* sessionId, lastSequence (0 = null), resumeGatewayUrl
    heartbeat, acked,              \* heartbeatTimer # undefined, heartbeatAcked
    cachedUrl,                     \* the client's gateway address
    address,                       \* QQ: the address that works now
    produced, delivered            \* QQ: events of a session; how often each was taken

flags   == <<handler, stopped>>
retry   == <<reconnecting, timer, attempts>>
resume  == <<session, lastSeq, resumeUrl>>
beat    == <<heartbeat, acked>>
cache   == <<invalidated, cachedUrl>>
history == <<produced, delivered>>
vars == <<handler, stopped, running, reconnecting, timer, attempts, failures,
          invalidated, connect, socket, conn, session, lastSeq, resumeUrl,
          heartbeat, acked, cachedUrl, address, produced, delivered>>

Addresses == 0 .. MaxMoves
Idle   == [pc |-> "idle"]
Closed == [state |-> "closed"]
Staged(c, stage, x, q) ==
    [state |-> c.state, url |-> c.url, dead |-> c.dead,
     stage |-> stage, session |-> x, cursor |-> q]
Live   == {s \in Sockets : conn[s].state # "closed"}
InState(c, state) ==
    [state |-> state, url |-> c.url, dead |-> c.dead,
     stage |-> c.stage, session |-> c.session, cursor |-> c.cursor]
Counted(n) == IF n > Threshold THEN Threshold ELSE n

Init ==
    /\ handler = FALSE /\ stopped = FALSE /\ running = FALSE
    /\ reconnecting = FALSE /\ timer = FALSE /\ attempts = 0
    /\ failures = 0 /\ invalidated = FALSE
    /\ connect = Idle /\ socket = None
    /\ conn = [s \in Sockets |-> Closed]
    /\ session = None /\ lastSeq = 0 /\ resumeUrl = None
    /\ heartbeat = FALSE /\ acked = TRUE
    /\ cachedUrl \in {None, 0}                   \* the disk cache may hold one
    /\ address = 0
    /\ produced = [x \in Sessions |-> 0]
    /\ delivered = [x \in Sessions |-> [q \in 1 .. MaxSeq |-> 0]]

-----------------------------------------------------------------------------
(* Connecting.                                                             *)

(* `this.resumeGatewayUrl ?? await getGatewayUrl()`                        *)
Target(by) ==
    IF resumeUrl # None THEN [pc |-> "token", by |-> by, url |-> resumeUrl]
    ELSE [pc |-> "url", by |-> by]

(* start(), by the program and again when the first connection failed.     *)
Start ==
    /\ ~stopped /\ connect = Idle /\ socket = None
    /\ handler' = TRUE
    /\ attempts' = 0 /\ failures' = 0 /\ invalidated' = FALSE
    /\ connect' = Target("start")
    /\ UNCHANGED <<stopped, running, reconnecting, timer, socket, conn, resume,
                   beat, cachedUrl, address, history>>

(* The cached address, or a new one from GET /gateway.                     *)
GetGatewayUrl ==
    /\ connect.pc = "url"
    /\ LET url == IF cachedUrl # None THEN cachedUrl ELSE address
       IN  /\ connect' = [pc |-> "token", by |-> connect.by, url |-> url]
           /\ cachedUrl' = url
    /\ UNCHANGED <<flags, running, retry, failures, invalidated, socket, conn,
                   resume, beat, address, history>>

(* The token is there: the socket is created and its listeners attached.   *)
(* stop() may have run meanwhile; nothing looks.                           *)
CreateSocket ==
    /\ connect.pc = "token"
    /\ \E s \in Sockets :
        /\ conn[s] = Closed
        /\ socket' = s
        /\ conn' = [conn EXCEPT ![s] = [state |-> "connecting", url |-> connect.url,
                                        dead |-> FALSE, stage |-> "new",
                                        session |-> None, cursor |-> 0]]
    /\ connect' = Idle
    /\ reconnecting' = IF connect.by = "reconnect" THEN FALSE ELSE reconnecting
    /\ UNCHANGED <<flags, running, timer, attempts, failures, resume, beat,
                   cache, address, history>>

(* scheduleReconnect's bound.                                              *)
GivesUp == attempts >= MaxAttempts

(* scheduleReconnect: give up after MaxAttempts, else arm the timer.       *)
ScheduleReconnect ==
    /\ UNCHANGED handler
    /\ \/ /\ stopped
          /\ reconnecting' = FALSE
          /\ UNCHANGED <<stopped, attempts, timer>>
       \/ /\ ~stopped /\ GivesUp
          /\ stopped' = TRUE /\ reconnecting' = FALSE
          /\ UNCHANGED <<attempts, timer>>
       \/ /\ ~stopped /\ ~GivesUp
          /\ attempts' = attempts + 1
          /\ timer' = TRUE /\ reconnecting' = TRUE
          /\ UNCHANGED stopped

(* maybeInvalidateGatewayUrl's test.                                       *)
DropsAddress(n) == ~invalidated /\ n >= Threshold

(* connectOnce throws: no address, no token, or an unusable address.       *)
(* start() passes the error on; runReconnect counts it and goes on, after  *)
(* clearing the client's cache when that is due.                           *)
ConnectFails ==
    /\ \/ connect.pc = "url" /\ cachedUrl = None
       \/ connect.pc = "token"
    /\ IF connect.by = "start"
       THEN /\ connect' = Idle
            /\ UNCHANGED <<flags, retry, failures, cache>>
       ELSE LET n == Counted(failures + 1)
            IN  /\ failures' = n
                /\ IF DropsAddress(n)
                   THEN /\ invalidated' = TRUE /\ cachedUrl' = None
                        /\ connect' = [pc |-> "invalidate", by |-> "reconnect"]
                        /\ UNCHANGED <<flags, retry>>
                   ELSE /\ connect' = Idle
                        /\ ScheduleReconnect
                        /\ UNCHANGED cache
    /\ UNCHANGED <<running, socket, conn, resume, beat, address, history>>

(* The cleared cache is on disk (or could not be written: only logged).    *)
Invalidated ==
    /\ connect.pc = "invalidate"
    /\ connect' = Idle
    /\ ScheduleReconnect
    /\ UNCHANGED <<running, failures, socket, conn, resume, beat, cache,
                   address, history>>

(* runReconnect's first half.                                              *)
TimerFires ==
    /\ timer
    /\ timer' = FALSE
    /\ IF stopped \/ ~handler
       THEN reconnecting' = FALSE /\ UNCHANGED connect
       ELSE connect' = Target("reconnect") /\ UNCHANGED reconnecting
    /\ UNCHANGED <<flags, running, attempts, failures, socket, conn, resume,
                   beat, cache, address, history>>

-----------------------------------------------------------------------------
(* Socket events.                                                          *)

(* Mutant of SocketOpens: an open socket is taken for a working session.   *)
SocketOpensAfresh(s) ==
    /\ conn[s].state = "connecting" /\ conn[s].url = address
    /\ conn' = [conn EXCEPT ![s] = InState(@, "open")]
    /\ running' = TRUE /\ failures' = 0 /\ attempts' = 0
    /\ UNCHANGED <<flags, reconnecting, timer, connect, socket, resume, beat, cache,
                   address, history>>

(* "open": only READY sets attempts back.                                  *)
SocketOpens(s) ==
    /\ conn[s].state = "connecting" /\ conn[s].url = address
    /\ conn' = [conn EXCEPT ![s] = InState(@, "open")]
    /\ running' = TRUE /\ failures' = 0
    /\ UNCHANGED <<flags, retry, connect, socket, resume, beat, cache, address, history>>

(* Mutant of Disconnect: a disconnect without a running connection is not  *)
(* taken for one.                                                          *)
DisconnectIfRunning(events) ==
    /\ running' = FALSE /\ heartbeat' = FALSE /\ UNCHANGED acked
    /\ IF stopped THEN UNCHANGED <<flags, retry, failures>>
       ELSE /\ failures' = Counted(failures + events)
            /\ IF reconnecting \/ ~running THEN UNCHANGED <<flags, retry>>
               ELSE ScheduleReconnect

(* handleDisconnect, called once for each "error" or "close" event.        *)
Disconnect(events) ==
    /\ running' = FALSE /\ heartbeat' = FALSE /\ UNCHANGED acked
    /\ IF stopped THEN UNCHANGED <<flags, retry, failures>>
       ELSE /\ failures' = Counted(failures + events)
            /\ IF reconnecting THEN UNCHANGED <<flags, retry>> ELSE ScheduleReconnect

(* The socket is gone: a failed connection fires error and close, an       *)
(* orderly end only close.                                                 *)
SocketCloses(s, events) ==
    /\ s \in Live
    /\ conn[s].state = "connecting" => events = 2
    /\ conn[s].state = "closing" => events = 1
    /\ conn' = [conn EXCEPT ![s] = Closed]
    /\ Disconnect(events)
    /\ UNCHANGED <<connect, socket, resume, cache, address, history>>

(* The peer is gone and no packet says so.                                 *)
GoesSilent(s) ==
    /\ conn[s].state = "open" /\ ~conn[s].dead
    /\ conn' = [conn EXCEPT ![s] =
                  [state |-> "open", url |-> @.url, dead |-> TRUE,
                   stage |-> @.stage, session |-> @.session, cursor |-> @.cursor]]
    /\ UNCHANGED <<flags, running, retry, failures, connect, socket, resume, beat,
                   cache, address, history>>

Hears(s) == ~stopped /\ conn[s].state = "open" /\ ~conn[s].dead

(* this.socket.close(): its close event comes later.                       *)
CloseSocket ==
    conn' = IF socket # None /\ conn[socket].state # "closed"
            THEN [conn EXCEPT ![socket] = InState(@, "closing")] ELSE conn

-----------------------------------------------------------------------------
(* Messages of the platform (handleMessage).                               *)

(* op 10: resume when there is a session and a sequence, else identify.    *)
(* The request goes out on this.socket.                                    *)
Hello(s) ==
    /\ Hears(s) /\ conn[s].stage = "new"
    /\ conn' = [conn EXCEPT ![socket] =
                  IF session # None /\ lastSeq # 0
                  THEN Staged(@, "resume", session, lastSeq)
                  ELSE Staged(@, "identify", None, 0)]
    /\ heartbeat' = TRUE /\ acked' = TRUE
    /\ UNCHANGED <<flags, running, retry, failures, connect, socket, resume,
                   cache, address, history>>

(* Mutant of Sequence: only the first dispatch of a session sets it.       *)
SequenceOfReady(n) == IF lastSeq = 0 THEN n ELSE lastSeq

(* The sequence number of a dispatch is taken as it is.                    *)
Sequence(n) == n

(* op 0 READY: a new session, its first event.  Attempts start over.       *)
Ready(s) ==
    /\ Hears(s) /\ conn[s].stage = "identify"
    /\ \E x \in Sessions \ {session} :
        /\ session' = x /\ lastSeq' = Sequence(1) /\ resumeUrl' = address
        /\ produced' = [produced EXCEPT ![x] = 1]
        /\ delivered' = [delivered EXCEPT ![x] =
                            [q \in 1 .. MaxSeq |-> IF q = 1 THEN 1 ELSE 0]]
        /\ conn' = [conn EXCEPT ![s] = Staged(@, "ready", x, 1)]
    /\ attempts' = 0
    /\ UNCHANGED <<flags, running, reconnecting, timer, failures, connect, socket,
                   beat, cache, address>>

(* The platform accepts the resume; RESUMED changes nothing in the bot.    *)
Resumed(s) ==
    /\ Hears(s) /\ conn[s].stage = "resume"
    /\ conn' = [conn EXCEPT ![s] = Staged(@, "ready", @.session, @.cursor)]
    /\ UNCHANGED <<flags, running, retry, failures, connect, socket, resume, beat,
                   cache, address, history>>

(* op 0: the next event of the session, to the handler.                    *)
Dispatch(s) ==
    /\ Hears(s) /\ conn[s].stage = "ready"
    /\ LET x == conn[s].session
           q == conn[s].cursor + 1
       IN  /\ q <= produced[x]
           /\ lastSeq' = Sequence(q)
           /\ conn' = [conn EXCEPT ![s] = Staged(@, "ready", x, q)]
           /\ delivered' = [delivered EXCEPT ![x][q] = @ + 1]
    /\ UNCHANGED <<flags, running, retry, failures, connect, socket, session, resumeUrl,
                   beat, cache, address, produced>>

HeartbeatAck(s) ==
    /\ Hears(s) /\ ~acked
    /\ acked' = TRUE
    /\ UNCHANGED <<flags, running, retry, failures, connect, socket, conn, resume,
                   heartbeat, cache, address, history>>

(* Mutant of ReconnectRequested: the close event is not waited for.        *)
ReconnectAtOnce(s) ==
    /\ Hears(s)
    /\ running' = FALSE /\ heartbeat' = FALSE
    /\ CloseSocket /\ ScheduleReconnect
    /\ UNCHANGED <<failures, connect, socket, resume, acked, cache, address, history>>

(* op 7: the server wants this connection closed.                          *)
ReconnectRequested(s) ==
    /\ Hears(s)
    /\ running' = FALSE /\ heartbeat' = FALSE
    /\ CloseSocket
    /\ UNCHANGED <<flags, retry, failures, connect, socket, resume, acked, cache,
                   address, history>>

(* op 9: the session is void.                                              *)
InvalidSession(s) ==
    /\ Hears(s) /\ conn[s].stage # "new"
    /\ session' = None /\ lastSeq' = 0 /\ resumeUrl' = None
    /\ running' = FALSE /\ heartbeat' = FALSE
    /\ CloseSocket
    /\ UNCHANGED <<flags, retry, failures, connect, socket, acked, cache, address, history>>

(* Mutant of HeartbeatFires: the answer is not looked at.                  *)
HeartbeatUnchecked ==
    /\ heartbeat /\ heartbeat' = TRUE /\ acked' = FALSE
    /\ UNCHANGED <<flags, running, retry, failures, connect, socket, conn, resume,
                   cache, address, history>>

(* The heartbeat timer: an unanswered heartbeat closes the connection.     *)
HeartbeatFires ==
    /\ heartbeat
    /\ IF acked
       THEN acked' = FALSE /\ UNCHANGED <<heartbeat, running, conn>>
       ELSE /\ heartbeat' = FALSE /\ running' = FALSE
            /\ CloseSocket
            /\ UNCHANGED acked
    /\ UNCHANGED <<flags, retry, failures, connect, socket, resume, cache, address, history>>

-----------------------------------------------------------------------------
(* stop(), and the platform's own steps.                                   *)

Stop ==
    /\ handler
    /\ stopped' = TRUE /\ handler' = FALSE /\ running' = FALSE
    /\ heartbeat' = FALSE /\ timer' = FALSE /\ reconnecting' = FALSE
    /\ CloseSocket
    /\ socket' = None
    /\ UNCHANGED <<attempts, failures, connect, resume, acked, cache, address, history>>

(* Something happens in a group.                                           *)
Produce(x) ==
    /\ produced[x] \in 1 .. MaxSeq - 1
    /\ produced' = [produced EXCEPT ![x] = @ + 1]
    /\ UNCHANGED <<flags, running, retry, failures, connect, socket, conn, resume, beat,
                   cache, address, delivered>>

(* QQ moves its gateway; connections to the old address stay.              *)
Move ==
    /\ address < MaxMoves
    /\ address' = address + 1
    /\ UNCHANGED <<flags, running, retry, failures, connect, socket, conn, resume, beat,
                   cache, history>>

Next ==
    \/ Start \/ GetGatewayUrl \/ CreateSocket \/ ConnectFails \/ Invalidated
    \/ TimerFires \/ HeartbeatFires \/ Stop \/ Move
    \/ \E x \in Sessions : Produce(x)
    \/ \E s \in Sockets :
        \/ SocketOpens(s) \/ GoesSilent(s)
        \/ \E events \in {1, 2} : SocketCloses(s, events)
        \/ Hello(s) \/ Ready(s) \/ Resumed(s) \/ Dispatch(s) \/ HeartbeatAck(s)
        \/ ReconnectRequested(s) \/ InvalidSession(s)

Spec == Init /\ [][Next]_vars

(* Timers fire, awaited calls answer, sockets settle, and the platform     *)
(* answers on a connection that is not dead.  Nothing obliges a connection *)
(* to break, a call to fail, or an operator to stop the bot.               *)
FairSpec ==
    /\ Spec
    /\ WF_vars(TimerFires) /\ WF_vars(HeartbeatFires)
    /\ WF_vars(GetGatewayUrl) /\ WF_vars(CreateSocket) /\ WF_vars(Invalidated)
    /\ \A s \in Sockets :
        /\ WF_vars(SocketOpens(s))
        /\ WF_vars(/\ conn[s].state = "closing" \/ (s \in Live /\ conn[s].url # address
                                                    /\ conn[s].state = "connecting")
                   /\ \E events \in {1, 2} : SocketCloses(s, events))
        /\ WF_vars(Hello(s)) /\ WF_vars(Ready(s) \/ Resumed(s) \/ InvalidSession(s))

-----------------------------------------------------------------------------
(* Properties.                                                             *)

Stages == {"new", "identify", "resume", "ready"}

TypeOK ==
    /\ {handler, stopped, running, reconnecting, timer, invalidated,
        heartbeat, acked} \subseteq BOOLEAN
    /\ attempts \in 0 .. MaxAttempts /\ failures \in 0 .. Threshold
    /\ connect.pc \in {"idle", "url", "token", "invalidate"}
    /\ connect.pc # "idle" => connect.by \in {"start", "reconnect"}
    /\ connect.pc = "token" => connect.url \in Addresses
    /\ socket \in Sockets \union {None}
    /\ \A s \in Sockets :
        /\ conn[s].state \in {"closed", "connecting", "open", "closing"}
        /\ s \in Live => conn[s].url \in Addresses /\ conn[s].stage \in Stages
    /\ session \in Sessions \union {None} /\ lastSeq \in 0 .. MaxSeq
    /\ {resumeUrl, cachedUrl} \subseteq Addresses \union {None}
    /\ address \in Addresses
    /\ produced \in [Sessions -> 0 .. MaxSeq]
    /\ \A x \in Sessions : delivered[x] \in [1 .. MaxSeq -> Nat]

(* However error and close events, timers, failing calls and stop() fall,  *)
(* a gateway that was started and is not stopped is always on its way      *)
(* somewhere: it has a socket, a connection attempt or an armed timer.     *)
NoStall ==
    handler /\ ~stopped /\ socket # None =>
        Live # {} \/ connect # Idle \/ timer

(* Two sockets are never alive at once, and none is while a reconnect is   *)
(* scheduled or under way: the bot never identifies twice in parallel and  *)
(* never handles an event twice because of it.                             *)
OneConnection ==
    /\ \A s, t \in Live : s = t
    /\ Live # {} => ~timer /\ connect = Idle
    /\ ~(timer /\ connect # Idle)

(* Of the current session the handler was given every event up to          *)
(* lastSequence exactly once and none beyond, across any number of         *)
(* disconnects, resumes and new sessions.                                  *)
EachEventOnce ==
    session # None =>
        \A q \in 1 .. MaxSeq :
            delivered[session][q] = IF q <= lastSeq THEN 1 ELSE 0

(* A connection that has gone silent after its HELLO is closed: the        *)
(* missing heartbeat answer is noticed.                                    *)
SilenceIsNoticed ==
    \A s \in Sockets :
        (conn[s].state = "open" /\ conn[s].dead /\ heartbeat) ~> (conn[s].state # "open")

Connected == \E s \in Live : conn[s].state = "open" /\ conn[s].stage = "ready"

(* Silent before its HELLO: no heartbeat runs yet, so nothing notices.     *)
Mute == \E s \in Live : conn[s].state = "open" /\ conn[s].dead /\ conn[s].stage = "new"

(* A started gateway that is not connected gets a session again, gives up  *)
(* after MaxAttempts or is stopped, unless its connection died between     *)
(* opening and HELLO, where no timer watches it.                           *)
Recovers ==
    (handler /\ socket # None /\ ~Connected) ~> (Connected \/ stopped \/ Mute)
=============================================================================
