--------------------------- MODULE TunnelSession ---------------------------
(***************************************************************************)
(* TunnelSession: the WebSocket of a gateway to the relay.  A `flow' is    *)
(* one run of connectAndRegister, made by start() or by the reconnect      *)
(* timer.  Flows may overlap: a socket that closes while its registration  *)
(* is awaited schedules the next flow, and openSocket replaces this.ws.    *)
(* Only this.ws has listeners, so other sockets need no state.             *)
(*                                                                         *)
(* `me' holds the fields of the object.  An event of Node (socket, timer,  *)
(* message) is an action; what follows an await is an action of its own    *)
(* that runs before any other event, as a promise continuation does.       *)
(*                                                                         *)
(* The ws library reports the closing of a socket that is still connecting *)
(* as an `error' event.  detachSocket has removed the listeners by then,   *)
(* and an unheard `error' ends the process (me.crashed).                   *)
(*                                                                         *)
(* index.ts calls start() once and stop() once.  Inbound requests change   *)
(* no field and are left out.                                              *)
(***************************************************************************)
EXTENDS Naturals, FiniteSets

CONSTANTS
    Confs,      \* the configurations tried: registerExtras, a relay that
                \* refuses them, maxReconnectAttempts (0: unlimited)
    Requests,   \* outbound requests
    MaxFlows,   \* bound: flows at a time
    MaxFaults,  \* bound: failures of the network or the relay
    None

VARIABLES conf, me, stopped, faults

vars == <<conf, me, stopped, faults>>

Flows == 1..MaxFlows

ASSUME TunnelConstants ==
    /\ Confs \subseteq [extras : BOOLEAN, refuses : BOOLEAN, max : Nat]
    /\ MaxFlows \in Nat \ {0} /\ MaxFaults \in Nat
    /\ None \notin Nat

NoSocket == [st |-> "none", reg |-> "none", silent |-> FALSE]
NewSocket == [NoSocket EXCEPT !.st = "connecting"]
Sockets == [st : {"none", "connecting", "open", "closing", "closed"},
            reg : {"none", "enriched", "plain", "yes", "no"},   \* REGISTER and its answer
            silent : BOOLEAN]                                   \* half-open: nothing comes in

(* at: awaiting openSocket or the registration, or the promise is settled    *)
(* and the continuation is due; `leaked': the promise is never settled.      *)
Awaiting == {"opening", "waiting"}
Settled == {"opened", "unopened", "registered", "unregistered"}
Idle == [at |-> "idle", kind |-> "retry", second |-> FALSE]
FlowType == [at : Awaiting \cup Settled \cup {"idle", "leaked"}, kind : {"start", "retry"},
             second : BOOLEAN]                       \* the plain registration after a refusal

TypeOK ==
    /\ conf \in Confs
    /\ me \in [ws : Sockets, connected : BOOLEAN, running : BOOLEAN, shouldReconnect : BOOLEAN,
               scheduled : BOOLEAN, attempts : 0..conf.max, heartbeat : BOOLEAN,
               starting : BOOLEAN, preferPlain : BOOLEAN, registerWait : Flows \cup {None},
               flow : [Flows -> FlowType], pending : SUBSET Requests, crashed : BOOLEAN]
    /\ stopped \in BOOLEAN
    /\ faults \in 0..MaxFaults

Object0 ==
    [ws |-> NoSocket, connected |-> FALSE, running |-> FALSE, shouldReconnect |-> FALSE,
     scheduled |-> FALSE, attempts |-> 0, heartbeat |-> FALSE, starting |-> FALSE,
     preferPlain |-> FALSE, registerWait |-> None, flow |-> [f \in Flows |-> Idle],
     pending |-> {}, crashed |-> FALSE]

(* start() has been called: doStart and then openSocket.                     *)
Init ==
    /\ conf \in Confs
    /\ me = [Object0 EXCEPT !.starting = TRUE, !.shouldReconnect = TRUE, !.ws = NewSocket,
                            !.flow[1] = [at |-> "opening", kind |-> "start", second |-> FALSE]]
    /\ stopped = FALSE
    /\ faults = 0

-----------------------------------------------------------------------------
(* The methods, as functions of the object                                  *)

Opening(o) == \E f \in Flows : o.flow[f].at = "opening"

(* Slip: one attempt too many.                                               *)
ScheduleReconnectOnce(o) ==
    IF o.shouldReconnect /\ o.running /\ ~o.scheduled /\ (conf.max = 0 \/ o.attempts <= conf.max)
    THEN [o EXCEPT !.scheduled = TRUE, !.attempts = IF conf.max = 0 THEN 0 ELSE @ + 1]
    ELSE o

(* The attempts are counted only if there is a maximum.                      *)
ScheduleReconnect(o) ==
    IF o.shouldReconnect /\ o.running /\ ~o.scheduled /\ (conf.max = 0 \/ o.attempts < conf.max)
    THEN [o EXCEPT !.scheduled = TRUE, !.attempts = IF conf.max = 0 THEN 0 ELSE @ + 1]
    ELSE o

(* Slip: the wait is dropped without rejecting its promise.                   *)
ClearRegisterWaitOnly(o) == [o EXCEPT !.registerWait = None]

ClearRegisterWait(o) ==
    IF o.registerWait = None THEN o
    ELSE [o EXCEPT !.flow[o.registerWait].at = "unregistered", !.registerWait = None]

DetachSocket(o) ==
    IF o.ws = NoSocket THEN o
    ELSE [o EXCEPT !.ws = NoSocket, !.crashed = Opening(o)]

(* terminate(): the close event follows, unless the socket is closed already. *)
ForceCloseSocket(o) ==
    IF o.ws = NoSocket THEN ScheduleReconnect([o EXCEPT !.connected = FALSE])
    ELSE [o EXCEPT !.connected = FALSE,
                   !.ws.st = IF @ = "closed" THEN "closed" ELSE "closing"]

(* `connected' keeps its value until the new socket opens or fails.           *)
OpenSocket(o, f) ==
    [DetachSocket(o) EXCEPT !.ws = NewSocket, !.flow[f].at = "opening"]

End(o, f) == [o EXCEPT !.flow[f] = Idle]

(* connectAndRegister throws: the catch of doStart, or that of the timer.     *)
Throw(o, f) ==
    IF o.flow[f].kind = "start"
    THEN [DetachSocket(ClearRegisterWait(
              [End(o, f) EXCEPT !.shouldReconnect = FALSE, !.running = FALSE,
                                !.heartbeat = FALSE]))
          EXCEPT !.connected = FALSE, !.starting = FALSE]
    ELSE ScheduleReconnect(End(o, f))

(* The flow that awaits openSocket is told how it went.                       *)
Told(o, news) ==
    [f \in Flows |-> IF o.flow[f].at = "opening" THEN [o.flow[f] EXCEPT !.at = news]
                     ELSE o.flow[f]]

(* Slip: the close handler leaves the reconnecting to the flow that failed.   *)
ClosedUnnoticed(o) ==
    [o EXCEPT !.connected = FALSE, !.ws.st = "closed", !.flow = Told(o, "unopened")]

(* The close event of this.ws, after an error event if it was connecting.     *)
Closed(o) ==
    ScheduleReconnect([o EXCEPT !.connected = FALSE, !.ws.st = "closed",
                                !.flow = Told(o, "unopened")])

-----------------------------------------------------------------------------
(* Continuations                                                            *)

Quiet == ~me.crashed /\ \A f \in Flows : me.flow[f].at \notin Settled

Continue(f, at) ==
    /\ ~me.crashed /\ me.flow[f].at = at
    /\ UNCHANGED <<conf, stopped, faults>>

(* tryRegister.  The socket is still open: its open event was just handled.   *)
Register(f) ==
    /\ Continue(f, "opened")
    /\ me' = [me EXCEPT !.flow[f].at = "waiting", !.registerWait = f,
                        !.ws.reg = IF conf.extras /\ ~me.preferPlain THEN "enriched" ELSE "plain"]

(* Slip: the heartbeat is not started.                                        *)
RegisteredUnwatched(f) ==
    /\ Continue(f, "registered")
    /\ me' = IF me.flow[f].kind = "start"
             THEN [End(me, f) EXCEPT !.attempts = 0, !.running = TRUE, !.starting = FALSE]
             ELSE [End(me, f) EXCEPT !.attempts = 0]

Registered(f) ==
    /\ Continue(f, "registered")
    /\ me' = IF me.flow[f].kind = "start"
             THEN [End(me, f) EXCEPT !.attempts = 0, !.running = TRUE, !.heartbeat = TRUE,
                                     !.starting = FALSE]
             ELSE [End(me, f) EXCEPT !.attempts = 0, !.heartbeat = TRUE]

(* The registration failed.  hadExtras is evaluated now, not when it was sent. *)
HadExtras(f) == conf.extras /\ ~me.preferPlain /\ ~me.flow[f].second

FallBackToPlain(f) ==
    /\ Continue(f, "unregistered") /\ HadExtras(f)
    /\ me' = OpenSocket(ForceCloseSocket([me EXCEPT !.preferPlain = TRUE,
                                                    !.flow[f].second = TRUE]), f)

RegisterFailed(f) ==
    /\ Continue(f, "unregistered") /\ ~HadExtras(f)
    /\ me' = Throw(ForceCloseSocket(me), f)

OpenFailed(f) ==
    /\ Continue(f, "unopened")
    /\ me' = Throw(me, f)

-----------------------------------------------------------------------------
(* Events                                                                   *)

Event == Quiet /\ UNCHANGED <<conf, stopped>>
Fault == faults < MaxFaults /\ faults' = faults + 1

SocketOpens ==
    /\ Event /\ me.ws.st = "connecting" /\ UNCHANGED faults
    /\ me' = [me EXCEPT !.ws.st = "open", !.connected = TRUE,
                        !.flow = Told(me, "opened")]

(* An error event, or the connection timeout, which terminates the socket.    *)
SocketFails ==
    /\ Event /\ me.ws.st = "connecting" /\ Fault
    /\ me' = Closed(me)

PeerCloses ==
    /\ Event /\ me.ws.st = "open" /\ Fault
    /\ me' = Closed(me)

(* After terminate().                                                         *)
SocketCloses ==
    /\ Event /\ me.ws.st = "closing" /\ UNCHANGED faults
    /\ me' = Closed(me)

GoesSilent ==
    /\ Event /\ me.ws.st = "open" /\ ~me.ws.silent /\ Fault
    /\ me' = [me EXCEPT !.ws.silent = TRUE]

Hears == Event /\ me.ws.st = "open" /\ ~me.ws.silent

(* handleMessage, REGISTERED: settles whatever wait is current.               *)
RelayRegisters ==
    /\ Hears /\ UNCHANGED faults
    /\ me.ws.reg = "plain" \/ (me.ws.reg = "enriched" /\ ~conf.refuses)
    /\ me' = IF me.registerWait = None THEN [me EXCEPT !.ws.reg = "yes"]
             ELSE [me EXCEPT !.ws.reg = "yes", !.registerWait = None,
                             !.flow[me.registerWait].at = "registered"]

(* handleMessage, ERROR without a message_id.                                 *)
RelayRefuses ==
    /\ Hears
    /\ \/ me.ws.reg = "enriched" /\ conf.refuses /\ UNCHANGED faults
       \/ me.ws.reg = "plain" /\ Fault
    /\ me' = ClearRegisterWait([me EXCEPT !.ws.reg = "no"])

(* The ten seconds of tryRegister are over.  The callback takes any wait for  *)
(* its own, and without one it settles nothing.  While the relay can still    *)
(* answer this wait, running out of time is a fault.                          *)
Answerable(f) ==
    /\ me.registerWait = f /\ me.ws.st = "open" /\ ~me.ws.silent
    /\ me.ws.reg \in {"plain", "enriched"}

RegisterTimer(f) ==
    /\ Event /\ me.flow[f].at = "waiting"
    /\ IF Answerable(f) THEN Fault ELSE UNCHANGED faults
    /\ me' = IF me.registerWait = None THEN [me EXCEPT !.flow[f].at = "leaked"]
             ELSE [me EXCEPT !.flow[f].at = "unregistered", !.registerWait = None]

Free == {f \in Flows : me.flow[f].at \in {"idle", "leaked"}}

ReconnectTimer ==
    /\ Event /\ me.scheduled /\ Free # {} /\ UNCHANGED faults
    /\ LET f == CHOOSE g \in Free : TRUE
           o == [me EXCEPT !.scheduled = FALSE, !.flow[f] = Idle]
       IN  me' = IF me.shouldReconnect /\ me.running THEN OpenSocket(o, f) ELSE o

(* startHeartbeat's timer finds the socket silent for heartbeatTimeoutMs.     *)
HeartbeatTimeout ==
    /\ Event /\ me.heartbeat /\ me.connected /\ me.ws # NoSocket /\ me.ws.silent
    /\ UNCHANGED faults
    /\ me' = ForceCloseSocket(me)

(* forward(): ws.send throws on a connecting socket, and on a closed one it   *)
(* drops the message.                                                         *)
Forward(r) ==
    /\ Event /\ me.connected /\ me.ws.st \notin {"none", "connecting"} /\ UNCHANGED faults
    /\ r \notin me.pending
    /\ me' = [me EXCEPT !.pending = @ \cup {r}]

(* FORWARD_RESPONSE, or ERROR with the message_id.                            *)
Response(r) ==
    /\ Hears /\ r \in me.pending /\ UNCHANGED faults
    /\ me' = [me EXCEPT !.pending = @ \ {r}]

RequestTimeout(r) ==
    /\ Event /\ r \in me.pending /\ UNCHANGED faults
    /\ me' = [me EXCEPT !.pending = @ \ {r}]

(* Slip: stop forgets the reconnect timer.                                    *)
StopKeepsTimer ==
    /\ Quiet /\ ~stopped /\ stopped' = TRUE /\ UNCHANGED <<conf, faults>>
    /\ me' = [DetachSocket(ClearRegisterWait(
                  [me EXCEPT !.shouldReconnect = FALSE, !.running = FALSE, !.heartbeat = FALSE,
                             !.pending = {}]))
              EXCEPT !.connected = FALSE]

Stop ==
    /\ Quiet /\ ~stopped /\ stopped' = TRUE /\ UNCHANGED <<conf, faults>>
    /\ me' = [DetachSocket(ClearRegisterWait(
                  [me EXCEPT !.shouldReconnect = FALSE, !.running = FALSE, !.heartbeat = FALSE,
                             !.scheduled = FALSE, !.pending = {}]))
              EXCEPT !.connected = FALSE]

Continuation(f) ==
    Register(f) \/ Registered(f) \/ FallBackToPlain(f) \/ RegisterFailed(f) \/ OpenFailed(f)

Next ==
    \/ \E f \in Flows : Continuation(f) \/ RegisterTimer(f)
    \/ SocketOpens \/ SocketFails \/ PeerCloses \/ SocketCloses \/ GoesSilent
    \/ RelayRegisters \/ RelayRefuses
    \/ ReconnectTimer \/ HeartbeatTimeout \/ Stop
    \/ \E r \in Requests : Forward(r) \/ Response(r) \/ RequestTimeout(r)

Spec == Init /\ [][Next]_vars

(* Timers fire, continuations run, and after the faults the network and the   *)
(* relay answer.  The relay's answer needs strong fairness: a timer of an     *)
(* older flow may end a younger wait, but the growing delay between attempts  *)
(* outlasts those timers.                                                     *)
FairSpec ==
    /\ Spec
    /\ \A f \in Flows : WF_vars(Continuation(f)) /\ WF_vars(RegisterTimer(f))
    /\ WF_vars(SocketOpens) /\ WF_vars(SocketCloses)
    /\ WF_vars(ReconnectTimer) /\ WF_vars(HeartbeatTimeout)
    /\ SF_vars(RelayRegisters) /\ SF_vars(RelayRefuses)
    /\ \A r \in Requests : WF_vars(RequestTimeout(r))

-----------------------------------------------------------------------------
(* Properties                                                               *)

OnAir == me.ws.st = "open" /\ me.ws.reg = "yes"
Alive == me.running /\ ~me.crashed

(* A running session always has something that brings it back: it is          *)
(* registered and watched by the heartbeat, or a reconnect is scheduled, or   *)
(* the close event of its socket is due, or a flow is going to end in a       *)
(* registration or in a retry; or it has used up its attempts.  Whatever      *)
(* timers and callbacks of older flows do to the younger one's wait and       *)
(* socket.                                                                    *)
NeverStranded ==
    Alive /\ me.shouldReconnect =>
        \/ OnAir /\ me.heartbeat
        \/ me.scheduled \/ me.ws.st = "closing"
        \/ \E f \in Flows : \/ me.flow[f].at \in Settled \cup {"opening"}
                            \/ me.flow[f].at = "waiting" /\ me.registerWait # None
        \/ conf.max > 0 /\ me.attempts >= conf.max

(* After stop() a session without enriched registration holds no socket, no   *)
(* request and no timer that would connect it again.                          *)
StoppedQuiet ==
    stopped /\ ~conf.extras /\ ~me.crashed =>
        me.ws = NoSocket /\ me.pending = {} /\ ~me.scheduled /\ ~me.heartbeat /\ ~me.connected

(* A session that was stopped does not register with the relay again.  With   *)
(* enriched registration the code does: it takes its own rejection of the     *)
(* wait for a refusal of the enrichment.                                      *)
StoppedOffAir == stopped /\ ~me.crashed => ~OnAir

(* When the faults are over, a session with unlimited reconnects that is      *)
(* running ends up registered for good.                                       *)
Reregisters == conf.max = 0 => <>[](Alive /\ ~stopped => OnAir /\ ~me.ws.silent)

(* start() returns and every request is settled, whatever the relay does.     *)
CallsSettle ==
    /\ <>(~me.starting \/ me.crashed)
    /\ \A r \in Requests : r \in me.pending ~> (r \notin me.pending \/ me.crashed)
=============================================================================
