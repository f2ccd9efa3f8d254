--------------------------- MODULE Gateway_proofs ---------------------------
(***************************************************************************)
(* OneConnection and NoStall hold for every number of sockets, attempts,   *)
(* sessions and events.  Neither is inductive: what makes them so is who   *)
(* may be under way (InFlight): `reconnecting` is true only while a timer  *)
(* is armed or runReconnect runs, and before the first socket exists only  *)
(* start() can be connecting.                                              *)
(* What the platform sends needs more (EventInv), and so do the types.     *)
(***************************************************************************)
EXTENDS Gateway, TLAPS

Connecting(by) == connect # Idle /\ connect.by = by

InFlight ==
    /\ reconnecting => timer \/ Connecting("reconnect")
    /\ connect # Idle => connect.by \in {"start", "reconnect"}
    /\ Connecting("start") => socket = None
    /\ connect.pc = "invalidate" => Connecting("reconnect")
    /\ ~stopped /\ socket = None => Live = {} /\ ~timer /\ ~Connecting("reconnect")

(* While nobody stopped it, the one live socket is this.socket.            *)
CurrentIsLive == ~stopped => Live \subseteq {socket}

ConnShape ==
    /\ conn = [s \in Sockets |-> conn[s]]
    /\ socket \in Sockets \union {None}
    /\ timer \in BOOLEAN /\ stopped \in BOOLEAN
    /\ handler \in BOOLEAN /\ reconnecting \in BOOLEAN

IInv == ConnShape /\ InFlight /\ CurrentIsLive /\ OneConnection /\ NoStall

(* What ScheduleReconnect does when no timer is armed and nothing else of  *)
(* a connection is left: it arms the timer or stops the gateway.           *)
LEMMA Scheduled ==
    ASSUME ScheduleReconnect, ~timer,
           timer \in BOOLEAN, stopped \in BOOLEAN, handler \in BOOLEAN
    PROVE  /\ handler' = handler
           /\ timer' \in BOOLEAN /\ stopped' \in BOOLEAN /\ reconnecting' \in BOOLEAN
           /\ stopped => stopped'
           /\ reconnecting' => timer'
           /\ timer' \/ stopped'
           /\ timer' => ~stopped
<1>1. CASE stopped
  <2>1. /\ stopped' = stopped /\ timer' = timer
        /\ reconnecting' = FALSE /\ handler' = handler
    BY <1>1 DEF ScheduleReconnect
  <2> QED BY <1>1, <2>1
<1>2. CASE ~stopped /\ GivesUp
  BY <1>2 DEF ScheduleReconnect
<1>3. CASE ~stopped /\ ~GivesUp
  BY <1>3 DEF ScheduleReconnect
<1> QED BY <1>1, <1>2, <1>3

(* A step that leaves the set of live sockets, the flags of a retry and    *)
(* the connection attempt alone.                                           *)
Quiet ==
    /\ Live' = Live /\ conn' = [s \in Sockets |-> conn'[s]]
    /\ handler' = handler /\ stopped' = stopped /\ reconnecting' = reconnecting
    /\ timer' = timer /\ connect' = connect /\ socket' = socket

LEMMA QuietStep == IInv /\ Quiet => IInv'
<1> SUFFICES ASSUME IInv, Quiet PROVE IInv'
  OBVIOUS
<1>1. ConnShape'
  BY DEF IInv, Quiet, ConnShape
<1>2. InFlight'
  BY DEF IInv, Quiet, InFlight, Connecting, Idle
<1>3. OneConnection' /\ NoStall' /\ CurrentIsLive'
  BY DEF IInv, Quiet, CurrentIsLive, OneConnection, NoStall, Idle
<1> QED BY <1>1, <1>2, <1>3 DEF IInv

LEMMA InitInv == Init => IInv
<1> SUFFICES ASSUME Init PROVE IInv
  OBVIOUS
<1>1. Live = {}
  BY DEF Init, Live, Closed
<1>2. ConnShape
  BY DEF Init, ConnShape
<1>3. connect = Idle /\ connect.pc = "idle" /\ socket = None /\ ~timer /\ ~reconnecting
  BY DEF Init, Idle
<1> QED BY <1>1, <1>2, <1>3 DEF IInv, InFlight, OneConnection, NoStall, Connecting,
                                   CurrentIsLive

(* A connection record replaced by one that is as closed or as live as it   *)
(* was leaves Live alone.                                                  *)
LEMMA Replaced ==
    ASSUME ConnShape, NEW s \in Sockets, NEW c,
           conn' = [conn EXCEPT ![s] = c],
           s \in Live <=> c.state # "closed"
    PROVE  Live' = Live /\ conn' = [t \in Sockets |-> conn'[t]]
<1>1. conn' = [t \in Sockets |-> IF t = s THEN c ELSE conn[t]]
  BY DEF ConnShape
<1>2. \A t \in Sockets : t \in Live <=> conn[t].state # "closed"
  BY DEF Live
<1> QED BY <1>1, <1>2 DEF Live

LEMMA CloseSocketLive ==
    ASSUME ConnShape, CloseSocket
    PROVE  Live' = Live /\ conn' = [s \in Sockets |-> conn'[s]]
<1>1. CASE socket # None /\ conn[socket].state # "closed"
  <2>1. socket \in Sockets /\ socket \in Live
    BY <1>1 DEF ConnShape, Live
  <2>2. InState(conn[socket], "closing").state # "closed"
    BY DEF InState
  <2>3. conn' = [conn EXCEPT ![socket] = InState(conn[socket], "closing")]
    BY <1>1 DEF CloseSocket
  <2> QED BY <2>1, <2>2, <2>3, Replaced
<1>2. CASE ~(socket # None /\ conn[socket].state # "closed")
  BY <1>2 DEF CloseSocket, ConnShape, Live
<1> QED BY <1>1, <1>2

(* Every action that neither opens, loses nor schedules a connection.      *)
LEMMA MessageStep ==
    ASSUME IInv, NEW s \in Sockets,
           \/ SocketOpens(s) \/ GoesSilent(s) \/ Hello(s) \/ Ready(s) \/ Resumed(s)
           \/ Dispatch(s) \/ HeartbeatAck(s) \/ ReconnectRequested(s)
           \/ InvalidSession(s)
    PROVE  Quiet
<1>c. ConnShape
  BY DEF IInv
<1>u. /\ handler' = handler /\ stopped' = stopped /\ reconnecting' = reconnecting
      /\ timer' = timer /\ connect' = connect /\ socket' = socket
  BY DEF SocketOpens, GoesSilent, Hello, Ready, Resumed, Dispatch, HeartbeatAck,
         ReconnectRequested, InvalidSession, retry, flags
<1> DEFINE Kept == Live' = Live /\ conn' = [t \in Sockets |-> conn'[t]]
<1>k. SUFFICES Kept
  BY <1>u DEF Quiet
<1>r. ASSUME NEW t \in Sockets, NEW c, conn[t].state # "closed", c.state # "closed",
             conn' = [conn EXCEPT ![t] = c]
      PROVE  Kept
  BY <1>c, <1>r, Replaced DEF Live
<1>s. ASSUME Hears(s) PROVE conn[s].state = "open" /\ socket = s
  <2>1. s \in Live /\ ~stopped /\ conn[s].state = "open"
    BY <1>s DEF Hears, Live
  <2> QED BY <2>1 DEF IInv, InFlight, ConnShape, CurrentIsLive
<1>1. CASE SocketOpens(s)
  BY <1>1, <1>r DEF SocketOpens, InState
<1>2. CASE GoesSilent(s)
  BY <1>2, <1>r DEF GoesSilent
<1>3. CASE Hello(s)
  BY <1>3, <1>r, <1>s DEF Hello, Staged
<1>4. CASE Ready(s)
  BY <1>4, <1>r, <1>s DEF Ready, Staged
<1>5. CASE Resumed(s)
  BY <1>5, <1>r, <1>s DEF Resumed, Staged
<1>6. CASE Dispatch(s)
  BY <1>6, <1>r, <1>s DEF Dispatch, Staged
<1>7. CASE HeartbeatAck(s)
  BY <1>7, <1>c DEF HeartbeatAck, ConnShape, Live
<1>8. CASE ReconnectRequested(s) \/ InvalidSession(s)
  BY <1>8, <1>c, CloseSocketLive DEF ReconnectRequested, InvalidSession
<1> QED BY <1>1, <1>2, <1>3, <1>4, <1>5, <1>6, <1>7, <1>8

(* The steps of connectOnce and of a reconnect.                            *)
LEMMA StartStep == IInv /\ Start => IInv'
<1> SUFFICES ASSUME IInv, Start PROVE IInv'
  OBVIOUS
<1>1. /\ connect' # Idle /\ connect'.by = "start" /\ connect'.pc # "invalidate"
      /\ handler' = TRUE /\ stopped' = stopped /\ reconnecting' = reconnecting
      /\ timer' = timer /\ socket' = socket /\ conn' = conn
  BY DEF Start, Target, Idle
<1>2. Live' = Live /\ Live = {} /\ ~timer /\ ~reconnecting /\ socket = None
  BY <1>1 DEF Start, Live, IInv, InFlight, Connecting
<1> QED BY <1>1, <1>2 DEF IInv, ConnShape, InFlight, CurrentIsLive, OneConnection,
                          NoStall, Connecting

LEMMA GetGatewayUrlStep == IInv /\ GetGatewayUrl => IInv'
<1> SUFFICES ASSUME IInv, GetGatewayUrl PROVE IInv'
  OBVIOUS
<1>1. /\ connect # Idle /\ connect' # Idle /\ connect'.by = connect.by
      /\ connect'.pc # "invalidate"
      /\ handler' = handler /\ stopped' = stopped /\ reconnecting' = reconnecting
      /\ timer' = timer /\ socket' = socket /\ conn' = conn
  BY DEF GetGatewayUrl, Idle, flags, retry
<1>2. Live' = Live
  BY <1>1 DEF Live
<1> QED BY <1>1, <1>2 DEF IInv, ConnShape, InFlight, CurrentIsLive, OneConnection,
                          NoStall, Connecting

LEMMA CreateSocketStep == IInv /\ CreateSocket => IInv'
<1> SUFFICES ASSUME IInv, CreateSocket PROVE IInv'
  OBVIOUS
<1>1. connect # Idle /\ Live = {} /\ ~timer
  BY DEF CreateSocket, Idle, IInv, OneConnection
<1>2. PICK s \in Sockets :
        /\ conn[s] = Closed /\ socket' = s
        /\ conn' = [conn EXCEPT ![s] =
              [state |-> "connecting", url |-> connect.url, dead |-> FALSE,
               stage |-> "new", session |-> None, cursor |-> 0]]
  BY DEF CreateSocket
<1>3. /\ connect' = Idle /\ handler' = handler /\ stopped' = stopped /\ timer' = timer
      /\ reconnecting' = IF connect.by = "reconnect" THEN FALSE ELSE reconnecting
  BY DEF CreateSocket, flags
<1>4. ~reconnecting'
  BY <1>1, <1>3 DEF IInv, InFlight, Connecting
<1>5. Live' = {s}
  <2>1. \A t \in Sockets : t # s => conn'[t] = conn[t]
    BY <1>2 DEF IInv, ConnShape
  <2>2. conn'[s].state = "connecting"
    BY <1>2 DEF IInv, ConnShape
  <2> QED BY <1>1, <2>1, <2>2 DEF Live
<1>6. conn' = [t \in Sockets |-> conn'[t]]
  BY <1>2 DEF IInv, ConnShape
<1>7. s # None
  BY GatewayConstants
<1> QED BY <1>1, <1>2, <1>3, <1>4, <1>5, <1>6, <1>7
        DEF IInv, ConnShape, InFlight, CurrentIsLive, OneConnection, NoStall, Connecting, Idle

(* runReconnect's failures and a lost socket end the same way: nothing is  *)
(* left but the timer, or the gateway is stopped.                          *)
LEMMA RescheduleStep ==
    ASSUME IInv, ScheduleReconnect, ~timer, Live' = {}, connect' = Idle,
           socket' = socket, conn' = [s \in Sockets |-> conn'[s]],
           ~stopped => socket # None
    PROVE  IInv'
<1>1. /\ handler' = handler
      /\ timer' \in BOOLEAN /\ stopped' \in BOOLEAN /\ reconnecting' \in BOOLEAN
      /\ stopped => stopped'
      /\ reconnecting' => timer'
      /\ timer' \/ stopped'
      /\ timer' => ~stopped
  BY Scheduled DEF IInv, ConnShape
<1>2. connect'.pc = "idle"
  BY DEF Idle
<1> QED BY <1>1, <1>2 DEF IInv, ConnShape, InFlight, CurrentIsLive, OneConnection,
                          NoStall, Connecting

LEMMA ConnectFailsStep == IInv /\ ConnectFails => IInv'
<1> SUFFICES ASSUME IInv, ConnectFails PROVE IInv'
  OBVIOUS
<1>1. connect # Idle /\ Live = {} /\ ~timer
  BY DEF ConnectFails, Idle, IInv, OneConnection
<1>2. socket' = socket /\ conn' = conn
  BY DEF ConnectFails
<1>3. Live' = {} /\ conn' = [s \in Sockets |-> conn'[s]]
  BY <1>1, <1>2 DEF Live, IInv, ConnShape
<1>4. CASE connect.by = "start"
  <2>1. /\ connect' = Idle /\ handler' = handler /\ stopped' = stopped
        /\ reconnecting' = reconnecting /\ timer' = timer
    BY <1>4 DEF ConnectFails, flags, retry
  <2>2. connect'.pc = "idle" /\ socket = None /\ ~reconnecting
    BY <1>1, <1>4, <2>1 DEF Idle, IInv, InFlight, Connecting
  <2> QED BY <1>1, <1>2, <1>3, <2>1, <2>2
          DEF IInv, ConnShape, InFlight, CurrentIsLive, OneConnection, NoStall, Connecting
<1>5. CASE connect.by # "start"
  <2>1. connect.by = "reconnect" /\ (~stopped => socket # None)
    BY <1>1, <1>5 DEF IInv, InFlight, Connecting
  <2>2. CASE DropsAddress(Counted(failures + 1))
    <3>1. /\ connect' = [pc |-> "invalidate", by |-> "reconnect"]
          /\ handler' = handler /\ stopped' = stopped
          /\ reconnecting' = reconnecting /\ timer' = timer
      BY <1>5, <2>2 DEF ConnectFails, flags, retry
    <3>2. connect' # Idle /\ connect'.by = "reconnect"
      BY <3>1 DEF Idle
    <3> QED BY <1>1, <1>2, <1>3, <2>1, <3>1, <3>2
            DEF IInv, ConnShape, InFlight, CurrentIsLive, OneConnection, NoStall, Connecting
  <2>3. CASE ~DropsAddress(Counted(failures + 1))
    <3>1. connect' = Idle /\ ScheduleReconnect
      BY <1>5, <2>3 DEF ConnectFails
    <3> QED BY <1>1, <1>2, <1>3, <2>1, <3>1, RescheduleStep
  <2> QED BY <2>2, <2>3
<1> QED BY <1>4, <1>5

LEMMA InvalidatedStep == IInv /\ Invalidated => IInv'
<1> SUFFICES ASSUME IInv, Invalidated PROVE IInv'
  OBVIOUS
<1>1. connect # Idle /\ Live = {} /\ ~timer /\ connect.by = "reconnect"
  BY DEF Invalidated, Idle, IInv, OneConnection, InFlight, Connecting
<1>2. ~stopped => socket # None
  BY <1>1 DEF IInv, InFlight, Connecting
<1>3. connect' = Idle /\ ScheduleReconnect /\ socket' = socket /\ conn' = conn
  BY DEF Invalidated
<1>4. Live' = {} /\ conn' = [s \in Sockets |-> conn'[s]]
  BY <1>1, <1>3 DEF Live, IInv, ConnShape
<1> QED BY <1>1, <1>2, <1>3, <1>4, RescheduleStep

LEMMA SocketClosesStep ==
    ASSUME IInv, NEW s \in Sockets, NEW events, SocketCloses(s, events)
    PROVE  IInv'
<1>1. s \in Live /\ conn' = [conn EXCEPT ![s] = Closed] /\ Disconnect(events)
  BY DEF SocketCloses
<1>2. connect = Idle /\ ~timer /\ Live = {s} /\ ~reconnecting
  BY <1>1 DEF IInv, OneConnection, InFlight, Connecting
<1>3. Live' = {} /\ conn' = [t \in Sockets |-> conn'[t]]
  <2>1. \A t \in Sockets : conn'[t] = IF t = s THEN Closed ELSE conn[t]
    BY <1>1 DEF IInv, ConnShape
  <2>2. conn' = [t \in Sockets |-> conn'[t]]
    BY <1>1 DEF IInv, ConnShape
  <2> QED BY <1>2, <2>1, <2>2 DEF Live, Closed
<1>4. connect' = Idle /\ socket' = socket
  BY <1>2 DEF SocketCloses
<1>5. CASE stopped
  <2>1. /\ handler' = handler /\ stopped' = stopped
        /\ reconnecting' = reconnecting /\ timer' = timer
    BY <1>1, <1>5 DEF Disconnect, flags, retry
  <2>2. connect'.pc = "idle"
    BY <1>4 DEF Idle
  <2> QED BY <1>2, <1>3, <1>4, <1>5, <2>1, <2>2
          DEF IInv, ConnShape, InFlight, CurrentIsLive, OneConnection, NoStall, Connecting
<1>6. CASE ~stopped
  <2>1. ScheduleReconnect
    BY <1>1, <1>2, <1>6 DEF Disconnect
  <2>2. socket # None
    BY <1>2, <1>6 DEF IInv, InFlight
  <2> QED BY <1>2, <1>3, <1>4, <2>1, <2>2, RescheduleStep
<1> QED BY <1>5, <1>6

LEMMA TimerFiresStep == IInv /\ TimerFires => IInv'
<1> SUFFICES ASSUME IInv, TimerFires PROVE IInv'
  OBVIOUS
<1>1. timer /\ ~timer' /\ Live = {} /\ connect = Idle
  BY DEF TimerFires, IInv, OneConnection
<1>2. /\ handler' = handler /\ stopped' = stopped /\ socket' = socket /\ conn' = conn
      /\ timer' = FALSE
  BY DEF TimerFires, flags
<1>3. Live' = {} /\ conn' = [s \in Sockets |-> conn'[s]]
  BY <1>1, <1>2 DEF Live, IInv, ConnShape
<1>4. CASE stopped \/ ~handler
  <2>1. reconnecting' = FALSE /\ connect' = connect /\ connect'.pc = "idle"
    BY <1>1, <1>4 DEF TimerFires, Idle
  <2> QED BY <1>1, <1>2, <1>3, <1>4, <2>1
          DEF IInv, ConnShape, InFlight, CurrentIsLive, OneConnection, NoStall, Connecting
<1>5. CASE ~(stopped \/ ~handler)
  <2>1. connect' = Target("reconnect") /\ reconnecting' = reconnecting
    BY <1>5 DEF TimerFires
  <2>2. connect' # Idle /\ connect'.by = "reconnect" /\ connect'.pc # "invalidate"
    BY <2>1 DEF Target, Idle
  <2>3. socket # None
    BY <1>1, <1>5 DEF IInv, InFlight
  <2> QED BY <1>1, <1>2, <1>3, <1>5, <2>1, <2>2, <2>3
          DEF IInv, ConnShape, InFlight, CurrentIsLive, OneConnection, NoStall, Connecting
<1> QED BY <1>4, <1>5

LEMMA StopStep == IInv /\ Stop => IInv'
<1> SUFFICES ASSUME IInv, Stop PROVE IInv'
  OBVIOUS
<1>1. /\ stopped' = TRUE /\ handler' = FALSE /\ timer' = FALSE
      /\ reconnecting' = FALSE /\ socket' = None /\ connect' = connect
  BY DEF Stop
<1>2. Live' = Live /\ conn' = [s \in Sockets |-> conn'[s]]
  BY CloseSocketLive DEF Stop, IInv
<1> QED BY <1>1, <1>2 DEF IInv, ConnShape, InFlight, CurrentIsLive, OneConnection,
                          NoStall, Connecting, Idle

LEMMA QuietActions ==
    ASSUME IInv, HeartbeatFires \/ Move \/ \E x \in Sessions : Produce(x)
    PROVE  Quiet
<1>1. /\ handler' = handler /\ stopped' = stopped /\ reconnecting' = reconnecting
      /\ timer' = timer /\ connect' = connect /\ socket' = socket
  BY DEF HeartbeatFires, Move, Produce, flags, retry
<1>2. CASE conn' = conn
  BY <1>1, <1>2 DEF Quiet, Live, IInv, ConnShape
<1>3. CASE HeartbeatFires /\ conn' # conn
  <2>1. CloseSocket
    BY <1>3 DEF HeartbeatFires
  <2> QED BY <1>1, <2>1, CloseSocketLive DEF Quiet, IInv
<1> QED BY <1>2, <1>3 DEF Move, Produce

LEMMA StepInv == IInv /\ [Next]_vars => IInv'
<1> SUFFICES ASSUME IInv, [Next]_vars PROVE IInv'
  OBVIOUS
<1>1. CASE \/ Start \/ GetGatewayUrl \/ CreateSocket \/ ConnectFails
           \/ Invalidated \/ TimerFires \/ Stop
  BY <1>1, StartStep, GetGatewayUrlStep, CreateSocketStep, ConnectFailsStep,
     InvalidatedStep, TimerFiresStep, StopStep
<1>2. CASE HeartbeatFires \/ Move \/ \E x \in Sessions : Produce(x)
  BY <1>2, QuietActions, QuietStep
<1>3. ASSUME NEW s \in Sockets, NEW events \in {1, 2}, SocketCloses(s, events)
      PROVE  IInv'
  BY <1>3, SocketClosesStep
<1>4. ASSUME NEW s \in Sockets,
             \/ SocketOpens(s) \/ GoesSilent(s) \/ Hello(s) \/ Ready(s) \/ Resumed(s)
             \/ Dispatch(s) \/ HeartbeatAck(s) \/ ReconnectRequested(s)
             \/ InvalidSession(s)
      PROVE  IInv'
  BY <1>4, MessageStep, QuietStep
<1>5. CASE UNCHANGED vars
  <2>1. Quiet
    BY <1>5 DEF vars, Quiet, Live, IInv, ConnShape
  <2> QED BY <2>1, QuietStep
<1> QED BY <1>1, <1>2, <1>3, <1>4, <1>5 DEF Next

(* Whatever the order of error and close events, timers, failing calls,    *)
(* platform messages and stop(): there is never a second live socket, and  *)
(* none beside an armed timer or a connection attempt.                     *)
THEOREM SingleConnection == Spec => []OneConnection
<1>1. IInv => OneConnection
  BY DEF IInv
<1> QED BY InitInv, StepInv, <1>1, PTL DEF Spec

(* A gateway that was started and is not stopped always has a socket, a    *)
(* connection attempt or an armed timer.                                   *)
THEOREM NeverStalls == Spec => []NoStall
<1>1. IInv => NoStall
  BY DEF IInv
<1> QED BY InitInv, StepInv, <1>1, PTL DEF Spec

-----------------------------------------------------------------------------
(* Each event once.  What the platform resumes from is what the bot has:   *)
(* an open connection with a session is one of the current session, and    *)
(* its cursor is lastSequence.                                             *)

EventShape ==
    /\ produced \in [Sessions -> 0 .. MaxSeq]
    /\ delivered \in [Sessions -> [1 .. MaxSeq -> Nat]]
    /\ session \in Sessions \union {None}
    /\ lastSeq \in 0 .. MaxSeq

HasSession(c) == c.state = "open" /\ c.stage \in {"resume", "ready"}

InTouch ==
    \A s \in Sockets :
        /\ conn[s].state = "connecting" => conn[s].stage = "new"
        /\ HasSession(conn[s]) => /\ session # None
                                  /\ conn[s].session = session
                                  /\ conn[s].cursor = lastSeq

EventInv == EventShape /\ InTouch /\ EachEventOnce

(* A step that hands over no event and gives no connection a session.      *)
Calm ==
    /\ session' = session /\ lastSeq' = lastSeq /\ delivered' = delivered
    /\ produced' \in [Sessions -> 0 .. MaxSeq]
    /\ \A s \in Sockets :
        /\ conn'[s].state = "connecting" => conn'[s].stage = "new"
        /\ HasSession(conn'[s]) => /\ HasSession(conn[s])
                                   /\ conn'[s].session = conn[s].session
                                   /\ conn'[s].cursor = conn[s].cursor

LEMMA CalmStep == EventInv /\ Calm => EventInv'
  BY DEF EventInv, EventShape, InTouch, EachEventOnce, Calm

LEMMA OneIsHeard ==
    ASSUME IInv, NEW s \in Sockets, Hears(s)
    PROVE  /\ conn[s].state = "open" /\ socket = s
           /\ \A t \in Sockets : t # s => conn[t].state = "closed"
<1>1. s \in Live /\ ~stopped /\ conn[s].state = "open"
  BY DEF Hears, Live
<1>2. socket = s
  BY <1>1 DEF IInv, CurrentIsLive
<1>3. \A t \in Sockets : t # s => t \notin Live
  BY <1>1, <1>2 DEF IInv, CurrentIsLive
<1> QED BY <1>1, <1>2, <1>3 DEF Live

(* One connection record is replaced.                                      *)
LEMMA CalmReplacement ==
    ASSUME IInv, EventInv, NEW s \in Sockets, NEW c, conn' = [conn EXCEPT ![s] = c],
           UNCHANGED <<session, lastSeq, delivered, produced>>,
           c.state = "connecting" => c.stage = "new",
           HasSession(c) => /\ HasSession(conn[s])
                            /\ c.session = conn[s].session /\ c.cursor = conn[s].cursor
    PROVE  Calm
<1>1. \A t \in Sockets : conn'[t] = IF t = s THEN c ELSE conn[t]
  BY DEF IInv, ConnShape
<1> QED BY <1>1 DEF Calm, EventInv, EventShape, InTouch

LEMMA CloseSocketCalm ==
    ASSUME IInv, EventInv, CloseSocket, UNCHANGED <<session, lastSeq, delivered, produced>>
    PROVE  Calm
<1>1. CASE socket # None /\ conn[socket].state # "closed"
  <2>1. socket \in Sockets /\ conn' = [conn EXCEPT ![socket] = InState(conn[socket], "closing")]
    BY <1>1 DEF CloseSocket, IInv, ConnShape
  <2>2. InState(conn[socket], "closing").state = "closing"
    BY DEF InState
  <2> QED BY <2>1, <2>2, CalmReplacement DEF HasSession
<1>2. CASE conn' = conn
  BY <1>2 DEF Calm, EventInv, EventShape, InTouch
<1> QED BY <1>1, <1>2 DEF CloseSocket

LEMMA ConnectingCalm ==
    ASSUME IInv, EventInv,
           \/ Start \/ GetGatewayUrl \/ CreateSocket \/ ConnectFails \/ Invalidated
           \/ TimerFires \/ Move
           \/ \E s \in Sockets, events \in {1, 2} : SocketCloses(s, events)
           \/ UNCHANGED vars
    PROVE  Calm
<1> USE DEF resume, history
<1>1. UNCHANGED <<session, lastSeq, delivered, produced>>
  BY DEF Start, GetGatewayUrl, CreateSocket, ConnectFails, Invalidated, TimerFires,
         Move, SocketCloses, vars
<1>2. CASE conn' = conn
  BY <1>1, <1>2 DEF Calm, EventInv, EventShape, InTouch
<1>3. CASE CreateSocket
  <2>1. PICK s \in Sockets :
           conn' = [conn EXCEPT ![s] =
              [state |-> "connecting", url |-> connect.url, dead |-> FALSE,
               stage |-> "new", session |-> None, cursor |-> 0]]
    BY <1>3 DEF CreateSocket
  <2> QED BY <1>1, <2>1, CalmReplacement DEF HasSession
<1>4. ASSUME NEW s \in Sockets, NEW events \in {1, 2}, SocketCloses(s, events)
      PROVE  Calm
  BY <1>1, <1>4, CalmReplacement DEF SocketCloses, Closed, HasSession
<1> QED BY <1>2, <1>3, <1>4
        DEF Start, GetGatewayUrl, ConnectFails, Invalidated, TimerFires, Move, vars

LEMMA MessageCalm ==
    ASSUME IInv, EventInv, NEW s \in Sockets,
           \/ SocketOpens(s) \/ GoesSilent(s) \/ Resumed(s) \/ HeartbeatAck(s)
           \/ ReconnectRequested(s) \/ HeartbeatFires \/ Stop
    PROVE  Calm
<1> USE DEF resume, history
<1>1. UNCHANGED <<session, lastSeq, delivered, produced>>
  BY DEF SocketOpens, GoesSilent, Resumed, HeartbeatAck, ReconnectRequested,
         HeartbeatFires, Stop
<1>2. CASE conn' = conn
  BY <1>1, <1>2 DEF Calm, EventInv, EventShape, InTouch
<1>3. CASE SocketOpens(s)
  <2>1. conn' = [conn EXCEPT ![s] = InState(conn[s], "open")] /\ conn[s].stage = "new"
    BY <1>3 DEF SocketOpens, EventInv, InTouch
  <2> QED BY <1>1, <2>1, CalmReplacement DEF InState, HasSession
<1>4. CASE GoesSilent(s)
  BY <1>1, <1>4, CalmReplacement DEF GoesSilent, HasSession
<1>5. CASE Resumed(s)
  <2>1. conn[s].state = "open" /\ conn[s].stage = "resume"
        /\ conn' = [conn EXCEPT ![s] = Staged(conn[s], "ready", conn[s].session, conn[s].cursor)]
    BY <1>5 DEF Resumed, Hears
  <2> QED BY <1>1, <2>1, CalmReplacement DEF Staged, HasSession
<1>6. CASE CloseSocket
  BY <1>1, <1>6, CloseSocketCalm
<1> QED BY <1>2, <1>3, <1>4, <1>5, <1>6
        DEF HeartbeatAck, ReconnectRequested, HeartbeatFires, Stop

LEMMA ProduceCalm ==
    ASSUME IInv, EventInv, NEW x \in Sessions, Produce(x)
    PROVE  Calm
<1>1. UNCHANGED <<session, lastSeq, delivered, conn>>
  BY DEF Produce, resume
<1>2. produced' \in [Sessions -> 0 .. MaxSeq]
  <2>1. produced[x] \in 1 .. MaxSeq - 1 /\ MaxSeq \in Nat
    BY GatewayConstants DEF Produce
  <2>2. produced[x] + 1 \in 0 .. MaxSeq
    BY <2>1
  <2> QED BY <2>2 DEF Produce, EventInv, EventShape
<1> QED BY <1>1, <1>2 DEF Calm, EventInv, InTouch

LEMMA HelloEvents ==
    ASSUME IInv, EventInv, NEW s \in Sockets, Hello(s)
    PROVE  EventInv'
<1>1. UNCHANGED <<session, lastSeq, delivered, produced>>
  BY DEF Hello, resume, history
<1>2. socket = s /\ \A t \in Sockets : t # s => conn[t].state = "closed"
  BY OneIsHeard DEF Hello
<1>3. PICK c : /\ conn' = [conn EXCEPT ![s] = c]
               /\ c.state = conn[s].state
               /\ \/ c.stage = "resume" /\ c.session = session /\ c.cursor = lastSeq
                     /\ session # None
                  \/ c.stage = "identify"
  <2>1. CASE session # None /\ lastSeq # 0
    <3> DEFINE c == Staged(conn[s], "resume", session, lastSeq)
    <3>1. conn' = [conn EXCEPT ![s] = c]
      BY <1>2, <2>1 DEF Hello
    <3>2. /\ c.state = conn[s].state /\ c.stage = "resume"
          /\ c.session = session /\ c.cursor = lastSeq
      BY DEF Staged
    <3> HIDE DEF c
    <3> QED BY <2>1, <3>1, <3>2
  <2>2. CASE ~(session # None /\ lastSeq # 0)
    <3> DEFINE c == Staged(conn[s], "identify", None, 0)
    <3>1. conn' = [conn EXCEPT ![s] = c]
      BY <1>2, <2>2 DEF Hello
    <3>2. c.state = conn[s].state /\ c.stage = "identify"
      BY DEF Staged
    <3> HIDE DEF c
    <3> QED BY <3>1, <3>2
  <2> QED BY <2>1, <2>2
<1>4. \A t \in Sockets : conn'[t] = IF t = s THEN c ELSE conn[t]
  BY <1>3 DEF IInv, ConnShape
<1>5. conn[s].state = "open"
  BY DEF Hello, Hears
<1>6. InTouch'
  BY <1>1, <1>2, <1>3, <1>4, <1>5 DEF InTouch, HasSession
<1> QED BY <1>1, <1>6 DEF EventInv, EventShape, EachEventOnce

LEMMA ReadyEvents ==
    ASSUME IInv, EventInv, NEW s \in Sockets, Ready(s)
    PROVE  EventInv'
<1>1. conn[s].state = "open" /\ \A t \in Sockets : t # s => conn[t].state = "closed"
  BY OneIsHeard DEF Ready
<1>2. PICK x \in Sessions \ {session} :
        /\ session' = x /\ lastSeq' = 1
        /\ produced' = [produced EXCEPT ![x] = 1]
        /\ delivered' = [delivered EXCEPT ![x] =
                            [q \in 1 .. MaxSeq |-> IF q = 1 THEN 1 ELSE 0]]
        /\ conn' = [conn EXCEPT ![s] = Staged(conn[s], "ready", x, 1)]
  BY DEF Ready, Sequence
<1>3. MaxSeq \in Nat /\ MaxSeq > 0 /\ x # None
  BY GatewayConstants
<1>4. EventShape'
  BY <1>2, <1>3 DEF EventInv, EventShape
<1>5. \A t \in Sockets : conn'[t] = IF t = s THEN Staged(conn[s], "ready", x, 1) ELSE conn[t]
  BY <1>2 DEF IInv, ConnShape
<1>6. InTouch'
  BY <1>1, <1>2, <1>3, <1>5 DEF InTouch, HasSession, Staged
<1>7. EachEventOnce'
  <2>1. delivered'[x] = [q \in 1 .. MaxSeq |-> IF q = 1 THEN 1 ELSE 0]
    BY <1>2 DEF EventInv, EventShape
  <2>2. \A q \in 1 .. MaxSeq : q = 1 <=> q <= 1
    BY <1>3
  <2> QED BY <1>2, <2>1, <2>2 DEF EachEventOnce
<1> QED BY <1>4, <1>6, <1>7 DEF EventInv

LEMMA DispatchEvents ==
    ASSUME IInv, EventInv, NEW s \in Sockets, Dispatch(s)
    PROVE  EventInv'
<1>1. conn[s].state = "open" /\ \A t \in Sockets : t # s => conn[t].state = "closed"
  BY OneIsHeard DEF Dispatch
<1>2. HasSession(conn[s])
  BY <1>1 DEF Dispatch, HasSession
<1>3. conn[s].session = session /\ session \in Sessions /\ conn[s].cursor = lastSeq
  BY <1>2 DEF EventInv, EventShape, InTouch
<1> DEFINE n == lastSeq + 1
<1>4. /\ n <= produced[session] /\ lastSeq' = n
      /\ conn' = [conn EXCEPT ![s] = Staged(conn[s], "ready", session, n)]
      /\ delivered' = [delivered EXCEPT ![session][n] = @ + 1]
      /\ session' = session /\ produced' = produced
  BY <1>3 DEF Dispatch, Sequence
<1>5. MaxSeq \in Nat /\ lastSeq \in 0 .. MaxSeq /\ produced[session] \in 0 .. MaxSeq
  BY <1>3, GatewayConstants DEF EventInv, EventShape
<1>6. n \in 1 .. MaxSeq
  BY <1>4, <1>5
<1>7. \A q \in 1 .. MaxSeq :
          delivered'[session][q] = IF q = n THEN delivered[session][q] + 1
                                   ELSE delivered[session][q]
  BY <1>3, <1>4, <1>6 DEF EventInv, EventShape
<1>8. delivered' \in [Sessions -> [1 .. MaxSeq -> Nat]]
  <2> HIDE DEF n
  <2>1. delivered[session][n] + 1 \in Nat
    <3>1. delivered[session] \in [1 .. MaxSeq -> Nat]
      BY <1>3 DEF EventInv, EventShape
    <3>2. delivered[session][n] \in Nat
      BY <1>6, <3>1
    <3> QED BY <3>2
  <2> QED BY <1>3, <1>4, <1>6, <2>1 DEF EventInv, EventShape
<1>9. EventShape'
  BY <1>4, <1>6, <1>8 DEF EventInv, EventShape
<1>10. \A t \in Sockets :
          conn'[t] = IF t = s THEN Staged(conn[s], "ready", session, n) ELSE conn[t]
  BY <1>4 DEF IInv, ConnShape
<1>11. InTouch'
  BY <1>1, <1>3, <1>4, <1>10, GatewayConstants DEF InTouch, HasSession, Staged
<1>12. EachEventOnce'
  <2>1. \A q \in 1 .. MaxSeq : delivered[session][q] = IF q <= lastSeq THEN 1 ELSE 0
    BY <1>3, GatewayConstants DEF EventInv, EachEventOnce
  <2>2. ASSUME NEW q \in 1 .. MaxSeq
        PROVE  delivered'[session][q] = IF q <= n THEN 1 ELSE 0
    BY <1>5, <1>7, <2>1
  <2> QED BY <1>4, <2>2 DEF EachEventOnce
<1> QED BY <1>9, <1>11, <1>12 DEF EventInv

LEMMA InvalidEvents ==
    ASSUME IInv, EventInv, NEW s \in Sockets, InvalidSession(s)
    PROVE  EventInv'
<1>1. socket = s /\ conn[s].state = "open"
      /\ \A t \in Sockets : t # s => conn[t].state = "closed"
  BY OneIsHeard DEF InvalidSession
<1>2. session' = None /\ lastSeq' = 0 /\ UNCHANGED <<produced, delivered>>
  BY DEF InvalidSession, history
<1>3. conn' = [conn EXCEPT ![s] = InState(conn[s], "closing")]
  BY <1>1, GatewayConstants DEF InvalidSession, CloseSocket
<1>4. \A t \in Sockets : conn'[t].state \in {"closing", "closed"}
  BY <1>1, <1>3 DEF InState, IInv, ConnShape
<1>5. MaxSeq \in Nat
  BY GatewayConstants
<1> QED BY <1>2, <1>4, <1>5 DEF EventInv, EventShape, InTouch, HasSession, EachEventOnce

LEMMA InitEvents == Init => EventInv
  BY GatewayConstants
  DEF Init, EventInv, EventShape, InTouch, EachEventOnce, HasSession, Closed

LEMMA StepEvents == IInv /\ EventInv /\ [Next]_vars => EventInv'
<1> SUFFICES ASSUME IInv, EventInv, [Next]_vars PROVE EventInv'
  OBVIOUS
<1>1. CASE \/ Start \/ GetGatewayUrl \/ CreateSocket \/ ConnectFails \/ Invalidated
           \/ TimerFires \/ Move
           \/ \E s \in Sockets, events \in {1, 2} : SocketCloses(s, events)
           \/ UNCHANGED vars
  BY <1>1, ConnectingCalm, CalmStep
<1>2. CASE HeartbeatFires \/ Stop
  <2>1. CASE Sockets # {}
    BY <1>2, <2>1, MessageCalm, CalmStep
  <2>2. CASE Sockets = {}
    BY <1>2, <2>2 DEF HeartbeatFires, Stop, resume, history, EventInv, EventShape, InTouch,
                      EachEventOnce
  <2> QED BY <2>1, <2>2
<1>3. ASSUME NEW x \in Sessions, Produce(x) PROVE EventInv'
  BY <1>3, ProduceCalm, CalmStep
<1>4. ASSUME NEW s \in Sockets,
             \/ SocketOpens(s) \/ GoesSilent(s) \/ Resumed(s) \/ HeartbeatAck(s)
             \/ ReconnectRequested(s)
      PROVE  EventInv'
  BY <1>4, MessageCalm, CalmStep
<1> QED BY <1>1, <1>2, <1>3, <1>4, HelloEvents, ReadyEvents, DispatchEvents,
           InvalidEvents DEF Next

(* Across any number of disconnects, resumes and new sessions, the handler *)
(* was given every event of the current session up to lastSequence exactly *)
(* once, and none beyond.                                                  *)
THEOREM NothingTwice == Spec => []EachEventOnce
<1>1. EventInv => EachEventOnce
  BY DEF EventInv
<1> QED BY InitInv, StepInv, InitEvents, StepEvents, <1>1, PTL DEF Spec
-----------------------------------------------------------------------------
(* Types.  The invariants above hold the part their proofs need; the rest  *)
(* is the counters, the addresses, and what a connection is made of.       *)

Counters ==
    /\ running \in BOOLEAN /\ invalidated \in BOOLEAN
    /\ heartbeat \in BOOLEAN /\ acked \in BOOLEAN
    /\ attempts \in 0 .. MaxAttempts /\ failures \in 0 .. Threshold

AddressesOf ==
    /\ address \in Addresses
    /\ resumeUrl \in Addresses \union {None} /\ cachedUrl \in Addresses \union {None}
    /\ connect.pc \in {"idle", "url", "token", "invalidate"}
    /\ connect.pc = "token" => connect.url \in Addresses

WellFormed(c) ==
    /\ c.state \in {"closed", "connecting", "open", "closing"}
    /\ c.state # "closed" => c.url \in Addresses /\ c.stage \in Stages

Connections == \A s \in Sockets : WellFormed(conn[s])

GatewayTypes == Counters /\ AddressesOf /\ Connections

LEMMA ZeroInRange ==
    0 \in 0 .. MaxAttempts /\ 0 \in 0 .. Threshold /\ 0 \in Addresses
<1>1. MaxAttempts \in Nat /\ Threshold \in Nat /\ MaxMoves \in Nat
  BY GatewayConstants
<1> QED BY <1>1 DEF Addresses

LEMMA TypesBegin == Init => GatewayTypes
<1> SUFFICES ASSUME Init PROVE GatewayTypes
  OBVIOUS
<1>1. Counters
  BY ZeroInRange DEF Init, Counters
<1>2. AddressesOf
  BY ZeroInRange DEF Init, AddressesOf, Idle
<1>3. Connections
  BY DEF Init, Connections, WellFormed, Closed
<1> QED BY <1>1, <1>2, <1>3 DEF GatewayTypes

(* A retry counts up to MaxAttempts, a failure up to Threshold.            *)
LEMMA ScheduledCounts ==
    ASSUME Counters, ScheduleReconnect
    PROVE  attempts' \in 0 .. MaxAttempts
  BY GatewayConstants DEF Counters, ScheduleReconnect, GivesUp

LEMMA CountedInRange ==
    ASSUME Counters, NEW k \in Nat
    PROVE  Counted(failures + k) \in 0 .. Threshold
<1>1. Threshold \in Nat /\ failures \in 0 .. Threshold
  BY GatewayConstants DEF Counters
<1> QED BY <1>1 DEF Counted

LEMMA OneConnectionChanges ==
    ASSUME ConnShape, Connections, NEW s \in Sockets, NEW c, WellFormed(c),
           conn' = [conn EXCEPT ![s] = c]
    PROVE  Connections'
<1>1. \A t \in Sockets : conn'[t] = IF t = s THEN c ELSE conn[t]
  BY DEF ConnShape
<1> QED BY <1>1 DEF Connections, WellFormed

LEMMA CloseSocketConnections ==
    ASSUME ConnShape, Connections, CloseSocket
    PROVE  Connections'
<1>1. CASE socket # None /\ conn[socket].state # "closed"
  <2>1. socket \in Sockets /\ conn' = [conn EXCEPT ![socket] = InState(conn[socket], "closing")]
    BY <1>1 DEF CloseSocket, ConnShape
  <2>2. WellFormed(InState(conn[socket], "closing"))
    BY <1>1, <2>1 DEF Connections, WellFormed, InState
  <2> QED BY <2>1, <2>2, OneConnectionChanges
<1>2. CASE conn' = conn
  BY <1>2 DEF Connections
<1> QED BY <1>1, <1>2 DEF CloseSocket

LEMMA CountersStep ==
    ASSUME GatewayTypes, [Next]_vars
    PROVE  Counters'
<1> USE DEF GatewayTypes, flags, retry, beat, cache
<1>1. CASE Start
  <2>1. /\ attempts' = 0 /\ failures' = 0 /\ invalidated' = FALSE
        /\ UNCHANGED <<running, heartbeat, acked>>
    BY <1>1 DEF Start
  <2> QED BY <2>1, ZeroInRange DEF Counters
<1>2. CASE GetGatewayUrl \/ CreateSocket \/ TimerFires \/ Move \/ UNCHANGED vars
  BY <1>2 DEF GetGatewayUrl, CreateSocket, TimerFires, Move, vars, Counters
<1>3. CASE ConnectFails
  <2>1. failures' \in 0 .. Threshold
    BY <1>3, CountedInRange DEF ConnectFails, Counters
  <2>2. attempts' \in 0 .. MaxAttempts
    BY <1>3, ScheduledCounts DEF ConnectFails, Counters
  <2>3. /\ running' = running /\ heartbeat' = heartbeat /\ acked' = acked
        /\ invalidated' \in BOOLEAN
    BY <1>3 DEF ConnectFails, Counters
  <2> QED BY <2>1, <2>2, <2>3 DEF Counters
<1>4. CASE Invalidated
  BY <1>4, ScheduledCounts DEF Invalidated, Counters
<1>5. CASE HeartbeatFires \/ Stop
  BY <1>5 DEF HeartbeatFires, Stop, Counters
<1>6. CASE \E x \in Sessions : Produce(x)
  BY <1>6 DEF Produce, Counters
<1>7. ASSUME NEW s \in Sockets, NEW events \in {1, 2}, SocketCloses(s, events)
      PROVE  Counters'
  <2>1. Disconnect(events) /\ invalidated' = invalidated
    BY <1>7 DEF SocketCloses
  <2>2. failures' \in 0 .. Threshold
    BY <2>1, CountedInRange DEF Disconnect, Counters
  <2>3. attempts' \in 0 .. MaxAttempts
    BY <2>1, ScheduledCounts DEF Disconnect, Counters
  <2> QED BY <2>1, <2>2, <2>3 DEF Disconnect, Counters
<1>8. ASSUME NEW s \in Sockets,
             \/ SocketOpens(s) \/ GoesSilent(s) \/ Hello(s) \/ Ready(s) \/ Resumed(s)
             \/ Dispatch(s) \/ HeartbeatAck(s) \/ ReconnectRequested(s)
             \/ InvalidSession(s)
      PROVE  Counters'
  BY <1>8, ZeroInRange DEF SocketOpens, GoesSilent, Hello, Ready, Resumed, Dispatch, HeartbeatAck,
                    ReconnectRequested, InvalidSession, Counters
<1> QED BY <1>1, <1>2, <1>3, <1>4, <1>5, <1>6, <1>7, <1>8 DEF Next

LEMMA AddressesStep ==
    ASSUME GatewayTypes, [Next]_vars
    PROVE  AddressesOf'
<1> USE DEF GatewayTypes, resume, cache
<1>0. MaxMoves \in Nat /\ None \notin Addresses
  BY GatewayConstants DEF Addresses
<1>1. CASE Start \/ TimerFires
  BY <1>1 DEF Start, TimerFires, Target, AddressesOf
<1>2. CASE GetGatewayUrl
  <2>1. PICK url \in Addresses :
           connect' = [pc |-> "token", by |-> connect.by, url |-> url] /\ cachedUrl' = url
    BY <1>2 DEF GetGatewayUrl, AddressesOf
  <2> QED BY <1>2, <2>1 DEF GetGatewayUrl, AddressesOf
<1>3. CASE CreateSocket \/ Invalidated
  <2>1. connect' = Idle /\ UNCHANGED <<resumeUrl, cachedUrl, address>>
    BY <1>3 DEF CreateSocket, Invalidated
  <2> QED BY <2>1 DEF Idle, AddressesOf
<1>4. CASE ConnectFails
  BY <1>4 DEF ConnectFails, Idle, AddressesOf
<1>5. CASE Move
  BY <1>0, <1>5 DEF Move, AddressesOf, Addresses
<1>6. CASE HeartbeatFires \/ Stop \/ UNCHANGED vars \/ \E x \in Sessions : Produce(x)
  BY <1>6 DEF HeartbeatFires, Stop, Produce, vars, AddressesOf
<1>7. ASSUME NEW s \in Sockets, NEW events \in {1, 2}, SocketCloses(s, events)
      PROVE  AddressesOf'
  BY <1>7 DEF SocketCloses, AddressesOf
<1>8. ASSUME NEW s \in Sockets, Ready(s) \/ InvalidSession(s)
      PROVE  AddressesOf'
  BY <1>8 DEF Ready, InvalidSession, AddressesOf
<1>9. ASSUME NEW s \in Sockets,
             \/ SocketOpens(s) \/ GoesSilent(s) \/ Hello(s) \/ Resumed(s)
             \/ Dispatch(s) \/ HeartbeatAck(s) \/ ReconnectRequested(s)
      PROVE  AddressesOf'
  BY <1>9 DEF SocketOpens, GoesSilent, Hello, Resumed, Dispatch, HeartbeatAck,
              ReconnectRequested, AddressesOf
<1> QED BY <1>1, <1>2, <1>3, <1>4, <1>5, <1>6, <1>7, <1>8, <1>9 DEF Next

LEMMA ConnectionsStep ==
    ASSUME IInv, GatewayTypes, [Next]_vars
    PROVE  Connections'
<1> USE DEF GatewayTypes
<1>0. ConnShape
  BY DEF IInv
<1>1. CASE conn' = conn
  BY <1>1 DEF Connections
<1>2. CASE CloseSocket
  BY <1>0, <1>2, CloseSocketConnections
<1>3. CASE CreateSocket
  <2>1. connect.url \in Addresses
    BY <1>3 DEF CreateSocket, AddressesOf
  <2>2. PICK s \in Sockets :
           conn' = [conn EXCEPT ![s] =
              [state |-> "connecting", url |-> connect.url, dead |-> FALSE,
               stage |-> "new", session |-> None, cursor |-> 0]]
    BY <1>3 DEF CreateSocket
  <2>3. WellFormed([state |-> "connecting", url |-> connect.url, dead |-> FALSE,
                    stage |-> "new", session |-> None, cursor |-> 0])
    BY <2>1 DEF WellFormed, Stages
  <2> QED BY <1>0, <2>2, <2>3, OneConnectionChanges
<1>4. ASSUME NEW s \in Sockets,
             SocketOpens(s) \/ \E events \in {1, 2} : SocketCloses(s, events)
      PROVE  Connections'
  <2>1. PICK c : WellFormed(c) /\ conn' = [conn EXCEPT ![s] = c]
    BY <1>4 DEF SocketOpens, SocketCloses, Connections, WellFormed, InState, Closed
  <2> QED BY <1>0, <2>1, OneConnectionChanges
<1>5. ASSUME NEW s \in Sockets,
             \/ GoesSilent(s) \/ Hello(s) \/ Ready(s) \/ Resumed(s) \/ Dispatch(s)
      PROVE  Connections'
  <2>1. conn[s].state = "open" /\ conn[s].url \in Addresses /\ conn[s].stage \in Stages
    BY <1>5 DEF GoesSilent, Hello, Ready, Resumed, Dispatch, Hears, Connections, WellFormed
  <2>2. Hello(s) => socket = s
    BY OneIsHeard DEF Hello
  <2>3. \A stage \in Stages : \A x, q : WellFormed(Staged(conn[s], stage, x, q))
    BY <2>1 DEF WellFormed, Staged
  <2>4. {"resume", "identify", "ready"} \subseteq Stages
    BY DEF Stages
  <2>5. CASE GoesSilent(s)
    <3> DEFINE c == [state |-> "open", url |-> conn[s].url, dead |-> TRUE, stage |-> conn[s].stage,
                     session |-> conn[s].session, cursor |-> conn[s].cursor]
    <3>1. WellFormed(c)
      BY <2>1 DEF WellFormed
    <3>2. conn' = [conn EXCEPT ![s] = c]
      BY <2>5 DEF GoesSilent
    <3> QED BY <1>0, <3>1, <3>2, OneConnectionChanges
  <2>6. CASE ~GoesSilent(s)
    <3>1. PICK stage \in Stages : \E x, q : conn' = [conn EXCEPT ![s] = Staged(conn[s], stage, x, q)]
      BY <1>5, <2>2, <2>4, <2>6 DEF Hello, Ready, Resumed, Dispatch
    <3> QED BY <1>0, <2>3, <3>1, OneConnectionChanges
  <2> QED BY <2>5, <2>6
<1>6. ASSUME NEW s \in Sockets, HeartbeatAck(s) \/ ReconnectRequested(s) \/ InvalidSession(s)
      PROVE  conn' = conn \/ CloseSocket
  BY <1>6 DEF HeartbeatAck, ReconnectRequested, InvalidSession
<1>7. CASE \/ Start \/ GetGatewayUrl \/ ConnectFails \/ Invalidated \/ TimerFires
           \/ HeartbeatFires \/ Stop \/ Move \/ UNCHANGED vars \/ \E x \in Sessions : Produce(x)
  BY <1>1, <1>2, <1>7 DEF Start, GetGatewayUrl, ConnectFails, Invalidated, TimerFires,
         HeartbeatFires, Stop, Move, Produce, vars
<1> QED BY <1>1, <1>2, <1>3, <1>4, <1>5, <1>6, <1>7 DEF Next

LEMMA StepTypes == IInv /\ GatewayTypes /\ [Next]_vars => GatewayTypes'
  BY CountersStep, AddressesStep, ConnectionsStep DEF GatewayTypes

(* Every variable has its type: connections, the addresses they are opened *)
(* to and what a resume goes on from, whatever fails in between.           *)
THEOREM TypeCorrect == Spec => []TypeOK
<1>1. IInv /\ EventInv /\ GatewayTypes => TypeOK
  <2> SUFFICES ASSUME IInv, EventInv, GatewayTypes PROVE TypeOK
    OBVIOUS
  <2>1. {handler, stopped, running, reconnecting, timer, invalidated, heartbeat, acked}
           \subseteq BOOLEAN
    BY DEF IInv, ConnShape, GatewayTypes, Counters
  <2>2. connect.pc # "idle" => connect # Idle
    BY DEF Idle
  <2>3. \A s \in Sockets :
           /\ conn[s].state \in {"closed", "connecting", "open", "closing"}
           /\ s \in Live => conn[s].url \in Addresses /\ conn[s].stage \in Stages
    BY DEF GatewayTypes, Connections, WellFormed, Live
  <2>4. \A x \in Sessions : delivered[x] \in [1 .. MaxSeq -> Nat]
    BY DEF EventInv, EventShape
  <2> QED BY <2>1, <2>2, <2>3, <2>4
          DEF TypeOK, IInv, ConnShape, InFlight, GatewayTypes, Counters, AddressesOf,
              EventInv, EventShape
<1> QED BY InitInv, StepInv, InitEvents, StepEvents, TypesBegin, StepTypes, <1>1, PTL DEF Spec
=============================================================================
