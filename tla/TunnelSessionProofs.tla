------------------------ MODULE TunnelSessionProofs ------------------------
(***************************************************************************)
(* Safety of TunnelSession for any configuration, any number of            *)
(* overlapping flows, requests and faults: a running session is never      *)
(* stranded, and a stopped one holds nothing.                              *)
(***************************************************************************)
EXTENDS TunnelSession, TLAPS

Objects ==
    [ws : Sockets, connected : BOOLEAN, running : BOOLEAN, shouldReconnect : BOOLEAN,
     scheduled : BOOLEAN, attempts : 0..conf.max, heartbeat : BOOLEAN,
     starting : BOOLEAN, preferPlain : BOOLEAN, registerWait : Flows \cup {None},
     flow : [Flows -> FlowType], pending : SUBSET Requests, crashed : BOOLEAN]

LEMMA ConfType == conf \in Confs => conf.max \in Nat /\ conf.extras \in BOOLEAN
BY TunnelConstants

LEMMA FlowsNotNone == None \notin Flows
BY TunnelConstants DEF Flows

(***************************************************************************)
(* The methods                                                             *)
(***************************************************************************)

(* Whether a reconnect is due or the attempts are used up.                   *)
Due(o) == o.scheduled \/ (conf.max > 0 /\ o.attempts >= conf.max)

LEMMA ScheduleType ==
    ASSUME conf \in Confs, NEW o \in Objects, NEW r, r = ScheduleReconnect(o)
    PROVE  /\ r \in Objects
           /\ r.ws = o.ws /\ r.connected = o.connected /\ r.running = o.running
           /\ r.shouldReconnect = o.shouldReconnect /\ r.heartbeat = o.heartbeat
           /\ r.registerWait = o.registerWait /\ r.flow = o.flow /\ r.pending = o.pending
           /\ r.crashed = o.crashed
           /\ o.running /\ o.shouldReconnect => Due(r)
           /\ ~o.shouldReconnect => r.scheduled = o.scheduled
<1> DEFINE due == /\ o.shouldReconnect /\ o.running /\ ~o.scheduled
                  /\ conf.max = 0 \/ o.attempts < conf.max
           n == IF conf.max = 0 THEN 0 ELSE o.attempts + 1
<1>1. conf.max \in Nat /\ o.attempts \in 0..conf.max
  BY ConfType DEF Objects
<1>2. CASE due
  <2>1. r = [o EXCEPT !.scheduled = TRUE, !.attempts = n]
    BY <1>2 DEF ScheduleReconnect
  <2>2. n \in 0..conf.max
    BY <1>1, <1>2
  <2> HIDE DEF n, due
  <2>3. /\ r \in Objects
        /\ r.ws = o.ws /\ r.connected = o.connected /\ r.running = o.running
        /\ r.shouldReconnect = o.shouldReconnect /\ r.heartbeat = o.heartbeat
        /\ r.registerWait = o.registerWait /\ r.flow = o.flow /\ r.pending = o.pending
        /\ r.crashed = o.crashed /\ r.scheduled = TRUE
    BY <2>1, <2>2 DEF Objects
  <2>4. o.shouldReconnect
    BY <1>2 DEF due
  <2> QED BY <2>3, <2>4 DEF Due
<1>3. CASE ~due
  <2>1. r = o
    BY <1>3 DEF ScheduleReconnect
  <2>2. o.running /\ o.shouldReconnect /\ ~o.scheduled => conf.max > 0 /\ o.attempts >= conf.max
    <3>1. o.running /\ o.shouldReconnect /\ ~o.scheduled =>
              ~(conf.max = 0) /\ ~(o.attempts < conf.max)
      BY <1>3
    <3>2. ~(conf.max = 0) /\ ~(o.attempts < conf.max) => conf.max > 0 /\ o.attempts >= conf.max
      BY <1>1
    <3> QED BY <3>1, <3>2
  <2> QED BY <2>1, <2>2 DEF Due
<1> QED BY <1>2, <1>3

LEMMA ClearWaitType ==
    ASSUME NEW o \in Objects, NEW r, r = ClearRegisterWait(o)
    PROVE  /\ r \in Objects
           /\ r.ws = o.ws /\ r.connected = o.connected /\ r.running = o.running
           /\ r.shouldReconnect = o.shouldReconnect /\ r.heartbeat = o.heartbeat
           /\ r.scheduled = o.scheduled /\ r.attempts = o.attempts
           /\ r.pending = o.pending /\ r.crashed = o.crashed
           /\ r.registerWait = None
           /\ \A f \in Flows : r.flow[f].at = IF f = o.registerWait THEN "unregistered"
                                               ELSE o.flow[f].at
<1>1. CASE o.registerWait = None
  BY <1>1, FlowsNotNone DEF ClearRegisterWait
<1>2. CASE o.registerWait # None
  <2> DEFINE w == o.registerWait
             fl == [o.flow EXCEPT ![w].at = "unregistered"]
  <2>1. r = [o EXCEPT !.flow = fl, !.registerWait = None]
    BY <1>2 DEF ClearRegisterWait, Objects
  <2>2. w \in Flows /\ o.flow \in [Flows -> FlowType] /\ o.flow[w] \in FlowType
    BY <1>2 DEF Objects
  <2>3. /\ [o.flow[w] EXCEPT !.at = "unregistered"] \in FlowType
        /\ [o.flow[w] EXCEPT !.at = "unregistered"].at = "unregistered"
    BY <2>2 DEF FlowType, Settled
  <2>4. fl \in [Flows -> FlowType] /\ \A f \in Flows : fl[f].at = IF f = w THEN "unregistered"
                                                                  ELSE o.flow[f].at
    BY <2>2, <2>3
  <2> HIDE DEF fl, w
  <2>5. /\ r \in Objects /\ r.flow = fl
        /\ r.ws = o.ws /\ r.connected = o.connected /\ r.running = o.running
        /\ r.shouldReconnect = o.shouldReconnect /\ r.heartbeat = o.heartbeat
        /\ r.scheduled = o.scheduled /\ r.attempts = o.attempts
        /\ r.pending = o.pending /\ r.crashed = o.crashed
        /\ r.registerWait = None
    BY <2>1, <2>4 DEF Objects
  <2> QED BY <2>4, <2>5 DEF w
<1> QED BY <1>1, <1>2

LEMMA DetachType ==
    ASSUME NEW o \in Objects, NEW r, r = DetachSocket(o)
    PROVE  /\ r \in Objects /\ r.ws = NoSocket
           /\ r.connected = o.connected /\ r.running = o.running
           /\ r.shouldReconnect = o.shouldReconnect /\ r.heartbeat = o.heartbeat
           /\ r.scheduled = o.scheduled /\ r.attempts = o.attempts
           /\ r.registerWait = o.registerWait /\ r.flow = o.flow /\ r.pending = o.pending
           /\ o.ws = NoSocket => r.crashed = o.crashed
           /\ o.ws # NoSocket => (r.crashed <=> Opening(o))
<1>1. CASE o.ws = NoSocket
  BY <1>1 DEF DetachSocket
<1>2. CASE o.ws # NoSocket
  <2> DEFINE c == Opening(o)
  <2>1. r = [o EXCEPT !.ws = NoSocket, !.crashed = c]
    BY <1>2 DEF DetachSocket
  <2>2. c \in BOOLEAN /\ NoSocket \in Sockets
    BY DEF Opening, NoSocket, Sockets
  <2> HIDE DEF c
  <2>3. /\ r \in Objects /\ r.ws = NoSocket /\ r.crashed = c
        /\ r.connected = o.connected /\ r.running = o.running
        /\ r.shouldReconnect = o.shouldReconnect /\ r.heartbeat = o.heartbeat
        /\ r.scheduled = o.scheduled /\ r.attempts = o.attempts
        /\ r.registerWait = o.registerWait /\ r.flow = o.flow /\ r.pending = o.pending
    BY <2>1, <2>2 DEF Objects
  <2> QED BY <1>2, <2>3 DEF c
<1> QED BY <1>1, <1>2

LEMMA ForceCloseType ==
    ASSUME conf \in Confs, NEW o \in Objects, NEW r, r = ForceCloseSocket(o)
    PROVE  /\ r \in Objects /\ ~r.connected
           /\ r.running = o.running /\ r.shouldReconnect = o.shouldReconnect
           /\ r.heartbeat = o.heartbeat /\ r.registerWait = o.registerWait
           /\ r.flow = o.flow /\ r.pending = o.pending /\ r.crashed = o.crashed
           /\ ~o.shouldReconnect => r.scheduled = o.scheduled
           /\ o.ws = NoSocket => r.ws = NoSocket
           /\ o.ws # NoSocket => /\ r.scheduled = o.scheduled /\ r.attempts = o.attempts
                                 /\ r.ws.st = IF o.ws.st = "closed" THEN "closed" ELSE "closing"
<1>1. CASE o.ws = NoSocket
  <2> DEFINE p == [o EXCEPT !.connected = FALSE]
  <2>1. r = ScheduleReconnect(p)
    BY <1>1 DEF ForceCloseSocket
  <2>2. /\ p \in Objects /\ ~p.connected /\ p.ws = o.ws
        /\ p.running = o.running /\ p.shouldReconnect = o.shouldReconnect
        /\ p.heartbeat = o.heartbeat /\ p.registerWait = o.registerWait
        /\ p.flow = o.flow /\ p.pending = o.pending /\ p.crashed = o.crashed
        /\ p.scheduled = o.scheduled
    BY DEF Objects
  <2> HIDE DEF p
  <2>3. /\ r \in Objects
        /\ r.ws = p.ws /\ r.connected = p.connected /\ r.running = p.running
        /\ r.shouldReconnect = p.shouldReconnect /\ r.heartbeat = p.heartbeat
        /\ r.registerWait = p.registerWait /\ r.flow = p.flow /\ r.pending = p.pending
        /\ r.crashed = p.crashed
        /\ ~p.shouldReconnect => r.scheduled = p.scheduled
    BY <2>1, <2>2, ScheduleType
  <2> QED BY <1>1, <2>2, <2>3
<1>2. CASE o.ws # NoSocket
  <2> DEFINE s == IF o.ws.st = "closed" THEN "closed" ELSE "closing"
             v == [o.ws EXCEPT !.st = s]
  <2>1. r = [o EXCEPT !.connected = FALSE, !.ws = v]
    BY <1>2 DEF ForceCloseSocket, Objects
  <2>2. o.ws \in Sockets /\ s \in {"closed", "closing"}
    BY DEF Objects
  <2> HIDE DEF s
  <2>3. v \in Sockets /\ v.st = s
    BY <2>2 DEF Sockets
  <2> HIDE DEF v
  <2>4. /\ r \in Objects /\ ~r.connected
        /\ r.running = o.running /\ r.shouldReconnect = o.shouldReconnect
        /\ r.heartbeat = o.heartbeat /\ r.registerWait = o.registerWait
        /\ r.flow = o.flow /\ r.pending = o.pending /\ r.crashed = o.crashed
        /\ r.scheduled = o.scheduled /\ r.attempts = o.attempts /\ r.ws = v
    BY <2>1, <2>3 DEF Objects
  <2> QED BY <1>2, <2>3, <2>4 DEF s
<1> QED BY <1>1, <1>2

LEMMA OpenSocketType ==
    ASSUME NEW o \in Objects, NEW f \in Flows, NEW r, r = OpenSocket(o, f)
    PROVE  /\ r \in Objects /\ r.ws = NewSocket
           /\ r.connected = o.connected /\ r.running = o.running
           /\ r.shouldReconnect = o.shouldReconnect /\ r.heartbeat = o.heartbeat
           /\ r.scheduled = o.scheduled /\ r.attempts = o.attempts
           /\ r.registerWait = o.registerWait /\ r.pending = o.pending
           /\ \A g \in Flows : r.flow[g].at = IF g = f THEN "opening" ELSE o.flow[g].at
           /\ o.ws = NoSocket => r.crashed = o.crashed
           /\ o.ws # NoSocket => (r.crashed <=> Opening(o))
<1> DEFINE d == DetachSocket(o)
           fl == [d.flow EXCEPT ![f].at = "opening"]
<1>1. r = [d EXCEPT !.ws = NewSocket, !.flow = fl]
  BY DEF OpenSocket
<1>2. /\ d \in Objects
      /\ d.connected = o.connected /\ d.running = o.running
      /\ d.shouldReconnect = o.shouldReconnect /\ d.heartbeat = o.heartbeat
      /\ d.scheduled = o.scheduled /\ d.attempts = o.attempts
      /\ d.registerWait = o.registerWait /\ d.flow = o.flow /\ d.pending = o.pending
      /\ o.ws = NoSocket => d.crashed = o.crashed
      /\ o.ws # NoSocket => (d.crashed <=> Opening(o))
  BY DetachType
<1> HIDE DEF d
<1>3. d.flow \in [Flows -> FlowType] /\ d.flow[f] \in FlowType
  BY <1>2 DEF Objects
<1>4. /\ [d.flow[f] EXCEPT !.at = "opening"] \in FlowType
      /\ [d.flow[f] EXCEPT !.at = "opening"].at = "opening"
  BY <1>3 DEF FlowType, Awaiting
<1>5. /\ fl \in [Flows -> FlowType]
      /\ \A g \in Flows : fl[g].at = IF g = f THEN "opening" ELSE d.flow[g].at
  BY <1>3, <1>4
<1>6. NewSocket \in Sockets
  BY DEF NewSocket, NoSocket, Sockets
<1> HIDE DEF fl
<1>7. /\ r \in Objects /\ r.ws = NewSocket /\ r.flow = fl
      /\ r.connected = d.connected /\ r.running = d.running
      /\ r.shouldReconnect = d.shouldReconnect /\ r.heartbeat = d.heartbeat
      /\ r.scheduled = d.scheduled /\ r.attempts = d.attempts
      /\ r.registerWait = d.registerWait /\ r.pending = d.pending /\ r.crashed = d.crashed
  BY <1>1, <1>2, <1>5, <1>6 DEF Objects
<1> QED BY <1>2, <1>5, <1>7

LEMMA EndType ==
    ASSUME NEW o \in Objects, NEW f \in Flows, NEW r, r = End(o, f)
    PROVE  /\ r \in Objects /\ r.ws = o.ws
           /\ r.connected = o.connected /\ r.running = o.running
           /\ r.shouldReconnect = o.shouldReconnect /\ r.heartbeat = o.heartbeat
           /\ r.scheduled = o.scheduled /\ r.attempts = o.attempts
           /\ r.registerWait = o.registerWait /\ r.pending = o.pending
           /\ r.crashed = o.crashed
           /\ \A g \in Flows : r.flow[g].at = IF g = f THEN "idle" ELSE o.flow[g].at
<1> DEFINE fl == [o.flow EXCEPT ![f] = Idle]
<1>1. r = [o EXCEPT !.flow = fl]
  BY DEF End, Objects
<1>2. Idle \in FlowType /\ Idle.at = "idle" /\ o.flow \in [Flows -> FlowType]
  BY DEF Idle, FlowType, Objects
<1>3. /\ fl \in [Flows -> FlowType]
      /\ \A g \in Flows : fl[g].at = IF g = f THEN "idle" ELSE o.flow[g].at
  BY <1>2
<1> HIDE DEF fl
<1>4. /\ r \in Objects /\ r.ws = o.ws /\ r.flow = fl
      /\ r.connected = o.connected /\ r.running = o.running
      /\ r.shouldReconnect = o.shouldReconnect /\ r.heartbeat = o.heartbeat
      /\ r.scheduled = o.scheduled /\ r.attempts = o.attempts
      /\ r.registerWait = o.registerWait /\ r.pending = o.pending
      /\ r.crashed = o.crashed
  BY <1>1, <1>3 DEF Objects
<1> QED BY <1>3, <1>4

LEMMA ToldType ==
    ASSUME NEW o \in Objects, NEW news \in Settled
    PROVE  /\ Told(o, news) \in [Flows -> FlowType]
           /\ \A f \in Flows : Told(o, news)[f].at = IF o.flow[f].at = "opening" THEN news
                                                     ELSE o.flow[f].at
<1> SUFFICES ASSUME NEW f \in Flows
             PROVE  /\ Told(o, news)[f] \in FlowType
                    /\ Told(o, news)[f].at = IF o.flow[f].at = "opening" THEN news
                                             ELSE o.flow[f].at
  BY DEF Told
<1>1. o.flow[f] \in FlowType
  BY DEF Objects
<1>2. [o.flow[f] EXCEPT !.at = news] \in FlowType /\ [o.flow[f] EXCEPT !.at = news].at = news
  BY <1>1 DEF FlowType
<1> QED BY <1>1, <1>2 DEF Told

LEMMA ClosedType ==
    ASSUME conf \in Confs, NEW o \in Objects, NEW r, r = Closed(o)
    PROVE  /\ r \in Objects /\ r.ws.st = "closed" /\ ~r.connected
           /\ r.running = o.running /\ r.shouldReconnect = o.shouldReconnect
           /\ r.crashed = o.crashed
           /\ o.running /\ o.shouldReconnect => Due(r)
           /\ \A f \in Flows : r.flow[f].at = IF o.flow[f].at = "opening" THEN "unopened"
                                              ELSE o.flow[f].at
<1> DEFINE v == [o.ws EXCEPT !.st = "closed"]
           fl == Told(o, "unopened")
           p == [o EXCEPT !.connected = FALSE, !.ws = v, !.flow = fl]
<1>1. r = ScheduleReconnect(p)
  BY DEF Closed, Objects
<1>2. v \in Sockets /\ v.st = "closed"
  BY DEF Objects, Sockets
<1>3. /\ fl \in [Flows -> FlowType]
      /\ \A f \in Flows : fl[f].at = IF o.flow[f].at = "opening" THEN "unopened" ELSE o.flow[f].at
  <2>1. "unopened" \in Settled
    BY DEF Settled
  <2> QED BY <2>1, ToldType
<1> HIDE DEF v, fl
<1>4. /\ p \in Objects /\ p.ws = v /\ ~p.connected /\ p.flow = fl
      /\ p.running = o.running /\ p.shouldReconnect = o.shouldReconnect /\ p.crashed = o.crashed
  BY <1>2, <1>3 DEF Objects
<1> HIDE DEF p
<1>5. /\ r \in Objects
      /\ r.ws = p.ws /\ r.connected = p.connected /\ r.running = p.running
      /\ r.shouldReconnect = p.shouldReconnect /\ r.flow = p.flow /\ r.crashed = p.crashed
      /\ p.running /\ p.shouldReconnect => Due(r)
  BY <1>1, <1>4, ScheduleType
<1> QED BY <1>2, <1>3, <1>4, <1>5

(* connectAndRegister throws: start() gives up and takes everything down, a  *)
(* retry sees to the next one.                                               *)
LEMMA ThrowStartType ==
    ASSUME NEW o \in Objects, NEW f \in Flows, o.flow[f].kind = "start", NEW r, r = Throw(o, f)
    PROVE  /\ r \in Objects /\ r.ws = NoSocket /\ ~r.connected /\ ~r.running
           /\ ~r.shouldReconnect /\ ~r.heartbeat /\ r.registerWait = None
           /\ r.scheduled = o.scheduled /\ r.pending = o.pending
           /\ \A g \in Flows : r.flow[g].at = IF g = o.registerWait THEN "unregistered"
                                               ELSE IF g = f THEN "idle" ELSE o.flow[g].at
           /\ o.ws = NoSocket => r.crashed = o.crashed
           /\ o.ws # NoSocket => (r.crashed <=> \E g \in Flows : r.flow[g].at = "opening")
<1> DEFINE e == End(o, f)
           a == [e EXCEPT !.shouldReconnect = FALSE, !.running = FALSE, !.heartbeat = FALSE]
           c == ClearRegisterWait(a)
           d == DetachSocket(c)
<1>1. r = [d EXCEPT !.connected = FALSE, !.starting = FALSE]
  BY DEF Throw
<1>2. /\ e \in Objects /\ e.ws = o.ws
      /\ e.scheduled = o.scheduled /\ e.registerWait = o.registerWait /\ e.pending = o.pending
      /\ e.crashed = o.crashed
      /\ \A g \in Flows : e.flow[g].at = IF g = f THEN "idle" ELSE o.flow[g].at
  BY EndType
<1> HIDE DEF e
<1>3. /\ a \in Objects /\ a.ws = e.ws /\ ~a.shouldReconnect /\ ~a.running /\ ~a.heartbeat
      /\ a.scheduled = e.scheduled /\ a.registerWait = e.registerWait /\ a.pending = e.pending
      /\ a.crashed = e.crashed /\ a.flow = e.flow
  BY <1>2 DEF Objects
<1> HIDE DEF a
<1>4. /\ c \in Objects /\ c.ws = a.ws /\ c.running = a.running
      /\ c.shouldReconnect = a.shouldReconnect /\ c.heartbeat = a.heartbeat
      /\ c.scheduled = a.scheduled /\ c.pending = a.pending /\ c.crashed = a.crashed
      /\ c.registerWait = None
      /\ \A g \in Flows : c.flow[g].at = IF g = a.registerWait THEN "unregistered"
                                          ELSE a.flow[g].at
  BY <1>3, ClearWaitType
<1> HIDE DEF c
<1>5. /\ d \in Objects /\ d.ws = NoSocket /\ d.running = c.running
      /\ d.shouldReconnect = c.shouldReconnect /\ d.heartbeat = c.heartbeat
      /\ d.scheduled = c.scheduled /\ d.registerWait = c.registerWait /\ d.flow = c.flow
      /\ d.pending = c.pending
      /\ c.ws = NoSocket => d.crashed = c.crashed
      /\ c.ws # NoSocket => (d.crashed <=> Opening(c))
  BY <1>4, DetachType
<1> HIDE DEF d
<1>6. /\ r \in Objects /\ r.ws = d.ws /\ ~r.connected /\ r.running = d.running
      /\ r.shouldReconnect = d.shouldReconnect /\ r.heartbeat = d.heartbeat
      /\ r.scheduled = d.scheduled /\ r.registerWait = d.registerWait /\ r.flow = d.flow
      /\ r.pending = d.pending /\ r.crashed = d.crashed
  BY <1>1, <1>5 DEF Objects
<1>7. \A g \in Flows : r.flow[g].at = IF g = o.registerWait THEN "unregistered"
                                       ELSE IF g = f THEN "idle" ELSE o.flow[g].at
  BY <1>2, <1>3, <1>4, <1>5, <1>6
<1>8. Opening(c) <=> \E g \in Flows : r.flow[g].at = "opening"
  BY <1>5, <1>6 DEF Opening
<1> QED BY <1>2, <1>3, <1>4, <1>5, <1>6, <1>7, <1>8

LEMMA ThrowRetryType ==
    ASSUME conf \in Confs, NEW o \in Objects, NEW f \in Flows, o.flow[f].kind # "start",
           NEW r, r = Throw(o, f)
    PROVE  /\ r \in Objects /\ r.ws = o.ws /\ r.connected = o.connected /\ r.running = o.running
           /\ r.shouldReconnect = o.shouldReconnect /\ r.heartbeat = o.heartbeat
           /\ r.registerWait = o.registerWait /\ r.pending = o.pending /\ r.crashed = o.crashed
           /\ o.running /\ o.shouldReconnect => Due(r)
           /\ ~o.shouldReconnect => r.scheduled = o.scheduled
           /\ \A g \in Flows : r.flow[g].at = IF g = f THEN "idle" ELSE o.flow[g].at
<1> DEFINE e == End(o, f)
<1>1. r = ScheduleReconnect(e)
  BY DEF Throw
<1>2. /\ e \in Objects /\ e.ws = o.ws
      /\ e.connected = o.connected /\ e.running = o.running
      /\ e.shouldReconnect = o.shouldReconnect /\ e.heartbeat = o.heartbeat
      /\ e.scheduled = o.scheduled /\ e.registerWait = o.registerWait /\ e.pending = o.pending
      /\ e.crashed = o.crashed
      /\ \A g \in Flows : e.flow[g].at = IF g = f THEN "idle" ELSE o.flow[g].at
  BY EndType
<1> HIDE DEF e
<1>3. /\ r \in Objects
      /\ r.ws = e.ws /\ r.connected = e.connected /\ r.running = e.running
      /\ r.shouldReconnect = e.shouldReconnect /\ r.heartbeat = e.heartbeat
      /\ r.registerWait = e.registerWait /\ r.flow = e.flow /\ r.pending = e.pending
      /\ r.crashed = e.crashed
      /\ e.running /\ e.shouldReconnect => Due(r)
      /\ ~e.shouldReconnect => r.scheduled = e.scheduled
  BY <1>1, <1>2, ScheduleType
<1> QED BY <1>2, <1>3

(***************************************************************************)
(* The inductive invariant                                                 *)
(***************************************************************************)

(* A flow that awaits its socket awaits this.ws, so that detachSocket finds  *)
(* the socket still connecting.                                              *)
OpeningOK ==
    \A f \in Flows : me.flow[f].at = "opening" => me.ws.st \in {"connecting", "closing"}

(* When a flow is told of its registration the socket is still registered:   *)
(* its continuation runs before any other event.                             *)
RegisteredOK ==
    \A f \in Flows : me.flow[f].at = "registered" =>
        OnAir /\ \A g \in Flows \ {f} : me.flow[g].at \notin Settled

(* After stop() no flow can get as far as a socket, a timer or a wait.       *)
StoppedOK ==
    stopped /\ ~conf.extras =>
        /\ me.ws = NoSocket /\ me.pending = {} /\ ~me.scheduled /\ ~me.heartbeat /\ ~me.connected
        /\ ~me.shouldReconnect /\ ~me.running /\ me.registerWait = None
        /\ \A f \in Flows : me.flow[f].at \in {"idle", "leaked", "waiting", "unregistered"}

(* A crashed process takes no step.                                          *)
Sound == ~me.crashed => OpeningOK /\ RegisteredOK /\ StoppedOK /\ NeverStranded

IndInv == TypeOK /\ Sound

LEMMA TypeNow == TypeOK <=> conf \in Confs /\ me \in Objects /\ stopped \in BOOLEAN
                            /\ faults \in 0..MaxFaults
BY DEF TypeOK, Objects

LEMMA TypeNext ==
    ASSUME TypeOK, UNCHANGED conf, me' \in Objects, stopped' \in BOOLEAN, faults' \in 0..MaxFaults
    PROVE  TypeOK'
BY DEF TypeOK, Objects

LEMMA FaultType ==
    ASSUME TypeOK, Fault \/ UNCHANGED faults
    PROVE  faults' \in 0..MaxFaults
BY TunnelConstants DEF TypeOK, Fault

(* A continuation runs when the process has not crashed, and so does an      *)
(* event, which finds no continuation waiting.                               *)
LEMMA Now ==
    ASSUME IndInv, ~me.crashed
    PROVE  /\ OpeningOK /\ RegisteredOK /\ StoppedOK /\ NeverStranded
           /\ conf \in Confs /\ me \in Objects /\ stopped \in BOOLEAN /\ TypeOK
           /\ NoSocket.st = "none" /\ NoSocket \in Sockets
BY TypeNow DEF IndInv, Sound, NoSocket, Sockets

(***************************************************************************)
(* One lemma per step                                                      *)
(***************************************************************************)
LEMMA RegisterStep == ASSUME IndInv, NEW f \in Flows, Register(f) PROVE IndInv'
<1> DEFINE g == IF conf.extras /\ ~me.preferPlain THEN "enriched" ELSE "plain"
           v == [me.ws EXCEPT !.reg = g]
           fl == [me.flow EXCEPT ![f].at = "waiting"]
<1>1. ~me.crashed /\ me.flow[f].at = "opened" /\ UNCHANGED <<conf, stopped, faults>>
  BY DEF Register, Continue
<1>2. /\ OpeningOK /\ RegisteredOK /\ StoppedOK /\ NeverStranded
      /\ conf \in Confs /\ me \in Objects /\ stopped \in BOOLEAN /\ TypeOK
  BY <1>1, Now
<1>3. me' = [me EXCEPT !.flow = fl, !.registerWait = f, !.ws = v]
  BY <1>2 DEF Register, Objects
<1>4. g \in {"enriched", "plain"}
  OBVIOUS
<1> HIDE DEF g
<1>5. v \in Sockets /\ v.st = me.ws.st
  BY <1>2, <1>4 DEF Objects, Sockets
<1>6. me.flow \in [Flows -> FlowType] /\ me.flow[f] \in FlowType
  BY <1>2 DEF Objects
<1>7. /\ [me.flow[f] EXCEPT !.at = "waiting"] \in FlowType
      /\ [me.flow[f] EXCEPT !.at = "waiting"].at = "waiting"
  BY <1>6 DEF FlowType, Awaiting
<1>8. fl \in [Flows -> FlowType] /\ \A h \in Flows : fl[h].at = IF h = f THEN "waiting"
                                                                 ELSE me.flow[h].at
  BY <1>6, <1>7
<1> HIDE DEF v, fl
<1>9. /\ me' \in Objects /\ me'.flow = fl /\ me'.registerWait = f /\ me'.ws = v
      /\ me'.crashed = me.crashed
  BY <1>2, <1>3, <1>5, <1>8 DEF Objects
<1>10. TypeOK'
  BY <1>1, <1>2, <1>9, TypeNext, FaultType
<1>11. OpeningOK'
  BY <1>2, <1>5, <1>8, <1>9 DEF OpeningOK
<1>12. RegisteredOK'
  <2>1. \A h \in Flows : me.flow[h].at # "registered"
    BY <1>1, <1>2 DEF RegisteredOK, Settled
  <2> QED BY <1>8, <1>9, <2>1 DEF RegisteredOK
<1>13. StoppedOK'
  BY <1>1, <1>2 DEF StoppedOK
<1>14. NeverStranded'
  BY <1>8, <1>9, FlowsNotNone DEF NeverStranded
<1> QED BY <1>10, <1>11, <1>12, <1>13, <1>14 DEF IndInv, Sound

LEMMA RegisteredStep == ASSUME IndInv, NEW f \in Flows, Registered(f) PROVE IndInv'
<1>1. ~me.crashed /\ me.flow[f].at = "registered" /\ UNCHANGED <<conf, stopped, faults>>
  BY DEF Registered, Continue
<1>2. /\ OpeningOK /\ RegisteredOK /\ StoppedOK /\ NeverStranded
      /\ conf \in Confs /\ me \in Objects /\ stopped \in BOOLEAN /\ TypeOK
  BY <1>1, Now
<1> DEFINE e == End(me, f)
<1>3. /\ e \in Objects /\ e.ws = me.ws /\ e.crashed = me.crashed
      /\ \A g \in Flows : e.flow[g].at = IF g = f THEN "idle" ELSE me.flow[g].at
  BY <1>2, EndType
<1>4. 0 \in 0..conf.max
  BY <1>2, ConfType
<1>5. \/ me' = [e EXCEPT !.attempts = 0, !.running = TRUE, !.heartbeat = TRUE, !.starting = FALSE]
      \/ me' = [e EXCEPT !.attempts = 0, !.heartbeat = TRUE]
  BY DEF Registered
<1> HIDE DEF e
<1>6. /\ me' \in Objects /\ me'.ws = me.ws /\ me'.heartbeat /\ me'.crashed = me.crashed
      /\ \A g \in Flows : me'.flow[g].at = IF g = f THEN "idle" ELSE me.flow[g].at
  BY <1>3, <1>4, <1>5 DEF Objects
<1>7. OnAir /\ \A g \in Flows \ {f} : me.flow[g].at \notin Settled
  BY <1>1, <1>2 DEF RegisteredOK
<1>8. TypeOK'
  BY <1>1, <1>2, <1>6, TypeNext, FaultType
<1>9. OpeningOK'
  BY <1>2, <1>6 DEF OpeningOK
<1>10. RegisteredOK'
  BY <1>6, <1>7 DEF RegisteredOK, Settled
<1>11. StoppedOK'
  BY <1>1, <1>2 DEF StoppedOK
<1>12. NeverStranded'
  BY <1>6, <1>7 DEF NeverStranded, OnAir
<1> QED BY <1>8, <1>9, <1>10, <1>11, <1>12 DEF IndInv, Sound

(* Nothing is registered while another flow has a continuation due.          *)
LEMMA NotRegistered ==
    ASSUME RegisteredOK, NEW f \in Flows, me.flow[f].at \in Settled \ {"registered"}
    PROVE  \A g \in Flows : me.flow[g].at # "registered"
BY DEF RegisteredOK

LEMMA FallBackStep == ASSUME IndInv, NEW f \in Flows, FallBackToPlain(f) PROVE IndInv'
<1> DEFINE fl == [me.flow EXCEPT ![f].second = TRUE]
           a == [me EXCEPT !.preferPlain = TRUE, !.flow = fl]
           b == ForceCloseSocket(a)
<1>1. /\ ~me.crashed /\ me.flow[f].at = "unregistered" /\ UNCHANGED <<conf, stopped, faults>>
      /\ conf.extras
  BY DEF FallBackToPlain, Continue, HadExtras
<1>2. /\ OpeningOK /\ RegisteredOK /\ StoppedOK /\ NeverStranded
      /\ conf \in Confs /\ me \in Objects /\ stopped \in BOOLEAN /\ TypeOK
  BY <1>1, Now
<1>3. me' = OpenSocket(b, f)
  BY <1>2 DEF FallBackToPlain, Objects
<1>4. me.flow \in [Flows -> FlowType] /\ me.flow[f] \in FlowType
  BY <1>2 DEF Objects
<1>5. /\ [me.flow[f] EXCEPT !.second = TRUE] \in FlowType
      /\ [me.flow[f] EXCEPT !.second = TRUE].at = me.flow[f].at
  BY <1>4 DEF FlowType
<1>6. fl \in [Flows -> FlowType] /\ \A g \in Flows : fl[g].at = me.flow[g].at
  BY <1>4, <1>5
<1> HIDE DEF fl
<1>7. a \in Objects /\ a.flow = fl /\ a.crashed = me.crashed /\ a.ws = me.ws
  BY <1>2, <1>6 DEF Objects
<1> HIDE DEF a
<1>8. b \in Objects /\ b.flow = a.flow /\ b.crashed = a.crashed
  BY <1>2, <1>7, ForceCloseType
<1> HIDE DEF b
<1>9. /\ me' \in Objects /\ me'.ws = NewSocket
      /\ \A g \in Flows : me'.flow[g].at = IF g = f THEN "opening" ELSE b.flow[g].at
  BY <1>3, <1>8, OpenSocketType
<1>10. \A g \in Flows : me'.flow[g].at = IF g = f THEN "opening" ELSE me.flow[g].at
  BY <1>6, <1>7, <1>8, <1>9
<1>11. TypeOK'
  BY <1>1, <1>2, <1>9, TypeNext, FaultType
<1>12. OpeningOK'
  BY <1>9 DEF OpeningOK, NewSocket, NoSocket
<1>13. RegisteredOK'
  BY <1>1, <1>2, <1>10, NotRegistered DEF RegisteredOK, Settled
<1>14. StoppedOK'
  BY <1>1 DEF StoppedOK
<1>15. NeverStranded'
  BY <1>10 DEF NeverStranded
<1> QED BY <1>11, <1>12, <1>13, <1>14, <1>15 DEF IndInv, Sound

(* connectAndRegister has thrown in a session whose socket is that of o.     *)
LEMMA ThrowStep ==
    ASSUME IndInv, ~me.crashed, UNCHANGED <<conf, stopped, faults>>, NEW f \in Flows,
           me.flow[f].at \in {"unregistered", "unopened"},
           NEW o \in Objects, me' = Throw(o, f), o.flow = me.flow, o.crashed = me.crashed,
           o.pending = me.pending, o.registerWait = me.registerWait,
           o.running = me.running, o.shouldReconnect = me.shouldReconnect,
           o.heartbeat = me.heartbeat, me.connected \/ ~o.connected,
           ~me.shouldReconnect => o.scheduled = me.scheduled,
           me.ws = NoSocket <=> o.ws = NoSocket,
           me.ws.st \in {"connecting", "closing"} => o.ws.st \in {"connecting", "closing"}
    PROVE  IndInv'
<1>1. /\ OpeningOK /\ RegisteredOK /\ StoppedOK /\ NeverStranded
      /\ conf \in Confs /\ me \in Objects /\ stopped \in BOOLEAN /\ TypeOK
  BY Now
<1>2. \A g \in Flows : me.flow[g].at # "registered"
  BY <1>1, NotRegistered DEF Settled
<1>3. \A g \in Flows : me.flow[g].at = "opening" =>
          o.ws # NoSocket /\ o.ws.st \in {"connecting", "closing"}
  BY <1>1, Now DEF OpeningOK
<1>4. CASE o.flow[f].kind = "start"
  <2>1. /\ me' \in Objects /\ me'.ws = NoSocket /\ ~me'.connected /\ ~me'.running
        /\ ~me'.shouldReconnect /\ ~me'.heartbeat /\ me'.registerWait = None
        /\ me'.scheduled = o.scheduled /\ me'.pending = o.pending
        /\ \A g \in Flows : me'.flow[g].at = IF g = o.registerWait THEN "unregistered"
                                              ELSE IF g = f THEN "idle" ELSE o.flow[g].at
        /\ o.ws = NoSocket => me'.crashed = o.crashed
        /\ o.ws # NoSocket => (me'.crashed <=> \E g \in Flows : me'.flow[g].at = "opening")
    BY <1>4, ThrowStartType
  <2>2. TypeOK'
    BY <1>1, <2>1, TypeNext, FaultType
  <2>3. ~me'.crashed => OpeningOK'
    BY <1>3, <2>1 DEF OpeningOK
  <2>4. RegisteredOK'
    BY <1>2, <2>1 DEF RegisteredOK
  <2>5. StoppedOK'
    BY <1>1, <2>1 DEF StoppedOK
  <2>6. NeverStranded'
    BY <2>1 DEF NeverStranded
  <2> QED BY <2>2, <2>3, <2>4, <2>5, <2>6 DEF IndInv, Sound
<1>5. CASE o.flow[f].kind # "start"
  <2>1. /\ me' \in Objects /\ me'.ws = o.ws /\ me'.connected = o.connected
        /\ me'.running = o.running
        /\ me'.shouldReconnect = o.shouldReconnect /\ me'.heartbeat = o.heartbeat
        /\ me'.registerWait = o.registerWait /\ me'.pending = o.pending
        /\ me'.crashed = o.crashed
        /\ o.running /\ o.shouldReconnect => Due(me')
        /\ ~o.shouldReconnect => me'.scheduled = o.scheduled
        /\ \A g \in Flows : me'.flow[g].at = IF g = f THEN "idle" ELSE o.flow[g].at
    BY <1>1, <1>5, ThrowRetryType
  <2>2. TypeOK'
    BY <1>1, <2>1, TypeNext, FaultType
  <2>3. OpeningOK'
    BY <1>3, <2>1 DEF OpeningOK
  <2>4. RegisteredOK'
    BY <1>2, <2>1 DEF RegisteredOK
  <2>5. StoppedOK'
    BY <1>1, <2>1 DEF StoppedOK
  <2>6. NeverStranded'
    BY <2>1 DEF NeverStranded, Alive, Due
  <2> QED BY <2>2, <2>3, <2>4, <2>5, <2>6 DEF IndInv, Sound
<1> QED BY <1>4, <1>5

LEMMA OpenFailedStep == ASSUME IndInv, NEW f \in Flows, OpenFailed(f) PROVE IndInv'
<1>1. /\ ~me.crashed /\ me.flow[f].at = "unopened" /\ UNCHANGED <<conf, stopped, faults>>
      /\ me' = Throw(me, f)
  BY DEF OpenFailed, Continue
<1>2. me \in Objects
  BY <1>1, Now
<1> QED BY <1>1, <1>2, ThrowStep

LEMMA RegisterFailedStep == ASSUME IndInv, NEW f \in Flows, RegisterFailed(f) PROVE IndInv'
<1> DEFINE o == ForceCloseSocket(me)
<1>1. /\ ~me.crashed /\ me.flow[f].at = "unregistered" /\ UNCHANGED <<conf, stopped, faults>>
      /\ me' = Throw(o, f)
  BY DEF RegisterFailed, Continue
<1>2. me \in Objects /\ conf \in Confs /\ NoSocket.st = "none"
  BY <1>1, Now
<1>3. /\ o \in Objects /\ ~o.connected
      /\ o.running = me.running /\ o.shouldReconnect = me.shouldReconnect
      /\ o.heartbeat = me.heartbeat /\ o.registerWait = me.registerWait
      /\ o.flow = me.flow /\ o.pending = me.pending /\ o.crashed = me.crashed
      /\ ~me.shouldReconnect => o.scheduled = me.scheduled
      /\ me.ws = NoSocket => o.ws = NoSocket
      /\ me.ws # NoSocket => /\ o.scheduled = me.scheduled /\ o.attempts = me.attempts
                             /\ o.ws.st = IF me.ws.st = "closed" THEN "closed" ELSE "closing"
  BY <1>2, ForceCloseType
<1> HIDE DEF o
<1>4. /\ me.ws = NoSocket <=> o.ws = NoSocket
      /\ me.ws.st \in {"connecting", "closing"} => o.ws.st \in {"connecting", "closing"}
  BY <1>2, <1>3
<1> QED BY <1>1, <1>3, <1>4, ThrowStep

LEMMA RegisterTimerStep == ASSUME IndInv, NEW f \in Flows, RegisterTimer(f) PROVE IndInv'
<1> DEFINE n == IF me.registerWait = None THEN "leaked" ELSE "unregistered"
           fl == [me.flow EXCEPT ![f].at = n]
<1>1. /\ ~me.crashed /\ (\A g \in Flows : me.flow[g].at \notin Settled)
      /\ me.flow[f].at = "waiting" /\ UNCHANGED <<conf, stopped>>
      /\ (Fault \/ UNCHANGED faults)
  BY DEF RegisterTimer, Event, Quiet
<1>2. /\ OpeningOK /\ RegisteredOK /\ StoppedOK /\ NeverStranded
      /\ conf \in Confs /\ me \in Objects /\ stopped \in BOOLEAN /\ TypeOK
  BY <1>1, Now
<1>3. me' = [me EXCEPT !.flow = fl, !.registerWait = None]
  <2>1. CASE me.registerWait = None
    BY <1>2, <2>1 DEF RegisterTimer, Objects
  <2>2. CASE me.registerWait # None
    BY <1>2, <2>2 DEF RegisterTimer, Objects
  <2> QED BY <2>1, <2>2
<1>4. me.flow \in [Flows -> FlowType] /\ me.flow[f] \in FlowType /\ n \in {"leaked", "unregistered"}
  BY <1>2 DEF Objects
<1>5. /\ me.registerWait = None => n = "leaked"
      /\ me.registerWait # None => n = "unregistered"
  OBVIOUS
<1> HIDE DEF n
<1>6. [me.flow[f] EXCEPT !.at = n] \in FlowType /\ [me.flow[f] EXCEPT !.at = n].at = n
  BY <1>4 DEF FlowType, Settled
<1>7. fl \in [Flows -> FlowType] /\ \A g \in Flows : fl[g].at = IF g = f THEN n ELSE me.flow[g].at
  BY <1>4, <1>6
<1> HIDE DEF fl
<1>8. /\ me' \in Objects /\ me'.flow = fl /\ me'.registerWait = None /\ me'.ws = me.ws
      /\ me'.crashed = me.crashed /\ me'.pending = me.pending
      /\ me'.scheduled = me.scheduled /\ me'.heartbeat = me.heartbeat
      /\ me'.connected = me.connected /\ me'.shouldReconnect = me.shouldReconnect
      /\ me'.running = me.running /\ me'.attempts = me.attempts
  BY <1>2, <1>3, <1>7 DEF Objects
<1>9. TypeOK'
  BY <1>1, <1>2, <1>8, TypeNext, FaultType
<1>10. OpeningOK'
  BY <1>2, <1>4, <1>7, <1>8 DEF OpeningOK
<1>11. RegisteredOK'
  BY <1>1, <1>4, <1>7, <1>8 DEF RegisteredOK, Settled
<1>12. StoppedOK'
  BY <1>1, <1>2, <1>4, <1>7, <1>8 DEF StoppedOK
<1>13. NeverStranded'
  <2>1. CASE me.registerWait # None
    <3>1. fl[f].at \in Settled
      BY <1>5, <1>7, <2>1 DEF Settled
    <3> QED BY <1>8, <3>1 DEF NeverStranded
  <2>2. CASE me.registerWait = None
    <3>1. \A g \in Flows : me.flow[g].at = "opening" => fl[g].at = "opening"
      BY <1>1, <1>7
    <3> QED BY <1>1, <1>2, <1>8, <2>2, <3>1 DEF NeverStranded, Alive, OnAir
  <2> QED BY <2>1, <2>2
<1> QED BY <1>9, <1>10, <1>11, <1>12, <1>13 DEF IndInv, Sound

(* What is known when an event is handled.                                   *)
LEMMA EventNow ==
    ASSUME IndInv, Event, Fault \/ UNCHANGED faults
    PROVE  /\ ~me.crashed /\ (\A g \in Flows : me.flow[g].at \notin Settled)
           /\ UNCHANGED <<conf, stopped>> /\ faults' \in 0..MaxFaults
           /\ OpeningOK /\ RegisteredOK /\ StoppedOK /\ NeverStranded
           /\ conf \in Confs /\ me \in Objects /\ stopped \in BOOLEAN /\ TypeOK
           /\ NoSocket.st = "none" /\ NoSocket \in Sockets
<1>1. ~me.crashed /\ (\A g \in Flows : me.flow[g].at \notin Settled) /\ UNCHANGED <<conf, stopped>>
  BY DEF Event, Quiet
<1>2. TypeOK
  BY <1>1, Now
<1> QED BY <1>1, <1>2, Now, FaultType

LEMMA SocketOpensStep == ASSUME IndInv, SocketOpens PROVE IndInv'
<1> DEFINE v == [me.ws EXCEPT !.st = "open"]
           fl == Told(me, "opened")
<1>1. Event /\ me.ws.st = "connecting" /\ UNCHANGED faults
  BY DEF SocketOpens
<1>2. /\ ~me.crashed /\ (\A g \in Flows : me.flow[g].at \notin Settled)
      /\ UNCHANGED <<conf, stopped>> /\ faults' \in 0..MaxFaults
      /\ OpeningOK /\ StoppedOK /\ NeverStranded
      /\ conf \in Confs /\ me \in Objects /\ stopped \in BOOLEAN /\ TypeOK
      /\ NoSocket.st = "none"
  BY <1>1, EventNow
<1>3. me' = [me EXCEPT !.ws = v, !.connected = TRUE, !.flow = fl]
  BY <1>2 DEF SocketOpens, Objects
<1>4. v \in Sockets /\ v.st = "open"
  BY <1>2 DEF Objects, Sockets
<1>5. /\ fl \in [Flows -> FlowType]
      /\ \A f \in Flows : fl[f].at = IF me.flow[f].at = "opening" THEN "opened" ELSE me.flow[f].at
  <2>1. "opened" \in Settled
    BY DEF Settled
  <2> QED BY <1>2, <2>1, ToldType
<1> HIDE DEF v, fl
<1>6. /\ me' \in Objects /\ me'.flow = fl /\ me'.registerWait = me.registerWait /\ me'.ws = v
      /\ me'.scheduled = me.scheduled /\ me'.shouldReconnect = me.shouldReconnect
      /\ me'.running = me.running /\ me'.attempts = me.attempts
  BY <1>2, <1>3, <1>4, <1>5 DEF Objects
<1>7. TypeOK'
  BY <1>2, <1>6, TypeNext
<1>8. OpeningOK'
  BY <1>5, <1>6 DEF OpeningOK
<1>9. RegisteredOK'
  BY <1>2, <1>5, <1>6 DEF RegisteredOK, Settled
<1>10. StoppedOK'
  BY <1>1, <1>2 DEF StoppedOK
<1>11. NeverStranded'
  <2>1. \A f \in Flows : /\ me.flow[f].at = "opening" => fl[f].at \in Settled
                         /\ me.flow[f].at = "waiting" => fl[f].at = "waiting"
    BY <1>5 DEF Settled
  <2> QED BY <1>1, <1>2, <1>6, <2>1 DEF NeverStranded, Alive, OnAir
<1> QED BY <1>7, <1>8, <1>9, <1>10, <1>11 DEF IndInv, Sound

(* this.ws closes, whoever closed it.                                        *)
LEMMA ClosedStep ==
    ASSUME IndInv, Event, Fault \/ UNCHANGED faults, me.ws.st # "none", me' = Closed(me)
    PROVE  IndInv'
<1>1. /\ ~me.crashed /\ (\A g \in Flows : me.flow[g].at \notin Settled)
      /\ UNCHANGED <<conf, stopped>> /\ faults' \in 0..MaxFaults
      /\ StoppedOK /\ conf \in Confs /\ me \in Objects /\ stopped \in BOOLEAN /\ TypeOK
      /\ NoSocket.st = "none"
  BY EventNow
<1>2. /\ me' \in Objects
      /\ me'.running = me.running /\ me'.shouldReconnect = me.shouldReconnect
      /\ me.running /\ me.shouldReconnect => Due(me')
      /\ \A f \in Flows : me'.flow[f].at = IF me.flow[f].at = "opening" THEN "unopened"
                                            ELSE me.flow[f].at
  BY <1>1, ClosedType
<1>3. TypeOK'
  BY <1>1, <1>2, TypeNext
<1>4. OpeningOK'
  BY <1>2 DEF OpeningOK
<1>5. RegisteredOK'
  BY <1>1, <1>2 DEF RegisteredOK, Settled
<1>6. StoppedOK'
  BY <1>1 DEF StoppedOK
<1>7. NeverStranded'
  BY <1>1, <1>2 DEF NeverStranded, Alive, Due
<1> QED BY <1>3, <1>4, <1>5, <1>6, <1>7 DEF IndInv, Sound

LEMMA CloseSteps ==
    ASSUME IndInv, SocketFails \/ PeerCloses \/ SocketCloses
    PROVE  IndInv'
BY ClosedStep DEF SocketFails, PeerCloses, SocketCloses

LEMMA GoesSilentStep == ASSUME IndInv, GoesSilent PROVE IndInv'
<1> DEFINE v == [me.ws EXCEPT !.silent = TRUE]
<1>1. Event /\ me.ws.st = "open" /\ Fault
  BY DEF GoesSilent
<1>2. /\ ~me.crashed /\ (\A g \in Flows : me.flow[g].at \notin Settled)
      /\ UNCHANGED <<conf, stopped>> /\ faults' \in 0..MaxFaults
      /\ OpeningOK /\ StoppedOK /\ NeverStranded
      /\ conf \in Confs /\ me \in Objects /\ stopped \in BOOLEAN /\ TypeOK
      /\ NoSocket.st = "none"
  BY <1>1, EventNow
<1>3. me' = [me EXCEPT !.ws = v]
  BY <1>2 DEF GoesSilent, Objects
<1>4. v \in Sockets /\ v.st = me.ws.st /\ v.reg = me.ws.reg
  BY <1>2 DEF Objects, Sockets
<1> HIDE DEF v
<1>5. /\ me' \in Objects /\ me'.flow = me.flow /\ me'.registerWait = me.registerWait /\ me'.ws = v
      /\ me'.scheduled = me.scheduled /\ me'.shouldReconnect = me.shouldReconnect
      /\ me'.running = me.running /\ me'.attempts = me.attempts
      /\ me'.heartbeat = me.heartbeat
  BY <1>2, <1>3, <1>4 DEF Objects
<1>6. TypeOK'
  BY <1>2, <1>5, TypeNext
<1>7. OpeningOK' /\ RegisteredOK'
  BY <1>2, <1>4, <1>5 DEF OpeningOK, RegisteredOK, Settled
<1>8. StoppedOK'
  BY <1>1, <1>2 DEF StoppedOK
<1>9. NeverStranded'
  BY <1>2, <1>4, <1>5 DEF NeverStranded, Alive, OnAir
<1> QED BY <1>6, <1>7, <1>8, <1>9 DEF IndInv, Sound

LEMMA RelayRegistersStep == ASSUME IndInv, RelayRegisters PROVE IndInv'
<1> DEFINE v == [me.ws EXCEPT !.reg = "yes"]
           w == me.registerWait
           fl == [me.flow EXCEPT ![w].at = "registered"]
<1>1. Event /\ me.ws.st = "open" /\ UNCHANGED faults
  BY DEF RelayRegisters, Hears
<1>2. /\ ~me.crashed /\ (\A g \in Flows : me.flow[g].at \notin Settled)
      /\ UNCHANGED <<conf, stopped>> /\ faults' \in 0..MaxFaults
      /\ OpeningOK /\ StoppedOK /\ NeverStranded
      /\ conf \in Confs /\ me \in Objects /\ stopped \in BOOLEAN /\ TypeOK
      /\ NoSocket.st = "none"
  BY <1>1, EventNow
<1>3. v \in Sockets /\ v.st = "open" /\ v.reg = "yes"
  BY <1>1, <1>2 DEF Objects, Sockets
<1>4. StoppedOK'
  BY <1>1, <1>2 DEF StoppedOK
<1>5. CASE w = None
  <2>1. me' = [me EXCEPT !.ws = v]
    BY <1>2, <1>5 DEF RelayRegisters, Objects
  <2> HIDE DEF v
  <2>2. /\ me' \in Objects /\ me'.flow = me.flow /\ me'.registerWait = me.registerWait
        /\ me'.ws = v /\ me'.scheduled = me.scheduled
        /\ me'.shouldReconnect = me.shouldReconnect /\ me'.running = me.running
        /\ me'.attempts = me.attempts /\ me'.heartbeat = me.heartbeat
    BY <1>2, <1>3, <2>1 DEF Objects
  <2>3. TypeOK'
    BY <1>2, <2>2, TypeNext
  <2>4. OpeningOK' /\ RegisteredOK'
    BY <1>1, <1>2, <2>2 DEF OpeningOK, RegisteredOK, Settled
  <2>5. NeverStranded'
    BY <1>1, <1>2, <1>3, <2>2 DEF NeverStranded, Alive, OnAir
  <2> QED BY <1>4, <2>3, <2>4, <2>5 DEF IndInv, Sound
<1>6. CASE w # None
  <2>1. me' = [me EXCEPT !.ws = v, !.registerWait = None, !.flow = fl]
    BY <1>2, <1>6 DEF RelayRegisters, Objects
  <2>2. w \in Flows /\ me.flow \in [Flows -> FlowType] /\ me.flow[w] \in FlowType
    BY <1>2, <1>6 DEF Objects
  <2>3. /\ [me.flow[w] EXCEPT !.at = "registered"] \in FlowType
        /\ [me.flow[w] EXCEPT !.at = "registered"].at = "registered"
    BY <2>2 DEF FlowType, Settled
  <2>4. /\ fl \in [Flows -> FlowType]
        /\ \A g \in Flows : fl[g].at = IF g = w THEN "registered" ELSE me.flow[g].at
    BY <2>2, <2>3
  <2> HIDE DEF v, fl
  <2>5. me' \in Objects /\ me'.flow = fl /\ me'.ws = v
    BY <1>2, <1>3, <2>1, <2>4 DEF Objects
  <2>6. TypeOK'
    BY <1>2, <2>5, TypeNext
  <2>7. OpeningOK'
    BY <1>1, <1>2, <2>4, <2>5 DEF OpeningOK
  <2> HIDE DEF w
  <2>8. RegisteredOK'
    BY <1>2, <1>3, <2>4, <2>5 DEF RegisteredOK, OnAir, Settled
  <2>9. NeverStranded'
    <3>1. me'.flow[w].at \in Settled
      BY <2>2, <2>4, <2>5 DEF Settled
    <3> QED BY <2>2, <3>1 DEF NeverStranded
  <2> QED BY <1>4, <2>6, <2>7, <2>8, <2>9 DEF IndInv, Sound
<1> QED BY <1>5, <1>6

LEMMA RelayRefusesStep == ASSUME IndInv, RelayRefuses PROVE IndInv'
<1> DEFINE v == [me.ws EXCEPT !.reg = "no"]
           a == [me EXCEPT !.ws = v]
<1>1. /\ Event /\ me.ws.st = "open" /\ (Fault \/ UNCHANGED faults)
      /\ me.ws.reg \in {"enriched", "plain"}
  BY DEF RelayRefuses, Hears
<1>2. /\ ~me.crashed /\ (\A g \in Flows : me.flow[g].at \notin Settled)
      /\ UNCHANGED <<conf, stopped>> /\ faults' \in 0..MaxFaults
      /\ OpeningOK /\ StoppedOK /\ NeverStranded
      /\ conf \in Confs /\ me \in Objects /\ stopped \in BOOLEAN /\ TypeOK
      /\ NoSocket.st = "none"
  BY <1>1, EventNow
<1>3. me' = ClearRegisterWait(a)
  BY <1>2 DEF RelayRefuses, Objects
<1>4. v \in Sockets
  BY <1>1, <1>2 DEF Objects, Sockets
<1> HIDE DEF v
<1>5. /\ a \in Objects /\ a.flow = me.flow /\ a.registerWait = me.registerWait
      /\ a.scheduled = me.scheduled
      /\ a.shouldReconnect = me.shouldReconnect /\ a.running = me.running
      /\ a.attempts = me.attempts
  BY <1>2, <1>4 DEF Objects
<1> HIDE DEF a
<1>6. /\ me' \in Objects /\ me'.running = a.running
      /\ me'.shouldReconnect = a.shouldReconnect
      /\ me'.scheduled = a.scheduled /\ me'.attempts = a.attempts
      /\ \A f \in Flows : me'.flow[f].at = IF f = a.registerWait THEN "unregistered"
                                            ELSE a.flow[f].at
  BY <1>3, <1>5, ClearWaitType
<1>7. TypeOK'
  BY <1>2, <1>6, TypeNext
<1>8. OpeningOK'
  BY <1>1, <1>2, <1>5, <1>6 DEF OpeningOK
<1>9. RegisteredOK'
  BY <1>2, <1>5, <1>6 DEF RegisteredOK, Settled
<1>10. StoppedOK'
  BY <1>1, <1>2 DEF StoppedOK
<1>11. NeverStranded'
  <2>1. CASE me.registerWait = None
    <3>1. \A f \in Flows : me.flow[f].at = "opening" => me'.flow[f].at = "opening"
      BY <1>5, <1>6, <2>1, FlowsNotNone
    <3> QED BY <1>1, <1>2, <1>5, <1>6, <2>1, <3>1 DEF NeverStranded, Alive, OnAir
  <2>2. CASE me.registerWait # None
    <3>1. PICK w \in Flows : w = me.registerWait
      BY <1>2, <2>2 DEF Objects
    <3>2. me'.flow[w].at \in Settled
      BY <1>5, <1>6, <3>1 DEF Settled
    <3> QED BY <3>2 DEF NeverStranded
  <2> QED BY <2>1, <2>2
<1> QED BY <1>7, <1>8, <1>9, <1>10, <1>11 DEF IndInv, Sound

LEMMA ReconnectTimerStep == ASSUME IndInv, ReconnectTimer PROVE IndInv'
<1>1. Event /\ me.scheduled /\ Free # {} /\ UNCHANGED faults
  BY DEF ReconnectTimer
<1>2. PICK f \in Free : f = CHOOSE g \in Free : TRUE
  BY <1>1
<1> DEFINE fl == [me.flow EXCEPT ![f] = Idle]
           o == [me EXCEPT !.scheduled = FALSE, !.flow = fl]
<1>3. /\ ~me.crashed /\ (\A g \in Flows : me.flow[g].at \notin Settled)
      /\ UNCHANGED <<conf, stopped>> /\ faults' \in 0..MaxFaults
      /\ OpeningOK /\ StoppedOK /\ NeverStranded
      /\ conf \in Confs /\ me \in Objects /\ stopped \in BOOLEAN /\ TypeOK
  BY <1>1, EventNow
<1>4. me' = IF me.shouldReconnect /\ me.running THEN OpenSocket(o, f) ELSE o
  BY <1>2, <1>3 DEF ReconnectTimer, Objects
<1>5. f \in Flows /\ me.flow[f].at \in {"idle", "leaked"}
  BY DEF Free
<1>6. /\ fl \in [Flows -> FlowType]
      /\ \A g \in Flows : fl[g].at = IF g = f THEN "idle" ELSE me.flow[g].at
  <2>1. me.flow \in [Flows -> FlowType] /\ Idle \in FlowType /\ Idle.at = "idle"
    BY <1>3 DEF Objects, Idle, FlowType
  <2> QED BY <1>5, <2>1
<1> HIDE DEF fl
<1>7. /\ o \in Objects /\ o.flow = fl /\ o.ws = me.ws
      /\ o.running = me.running /\ o.shouldReconnect = me.shouldReconnect
      /\ o.crashed = me.crashed
  BY <1>3, <1>6 DEF Objects
<1> HIDE DEF o
<1>8. StoppedOK'
  BY <1>1, <1>3 DEF StoppedOK
<1>9. CASE me.shouldReconnect /\ me.running
  <2>1. /\ me' \in Objects /\ me'.ws = NewSocket
        /\ \A g \in Flows : me'.flow[g].at = IF g = f THEN "opening" ELSE o.flow[g].at
    BY <1>4, <1>5, <1>7, <1>9, OpenSocketType
  <2>2. TypeOK'
    BY <1>3, <2>1, TypeNext
  <2>3. OpeningOK'
    BY <2>1 DEF OpeningOK, NewSocket, NoSocket
  <2>4. RegisteredOK'
    BY <1>3, <1>6, <1>7, <2>1 DEF RegisteredOK, Settled
  <2>5. NeverStranded'
    BY <1>5, <2>1 DEF NeverStranded
  <2> QED BY <1>8, <2>2, <2>3, <2>4, <2>5 DEF IndInv, Sound
<1>10. CASE ~(me.shouldReconnect /\ me.running)
  <2>1. me' = o
    BY <1>4, <1>10
  <2>2. TypeOK'
    BY <1>3, <1>7, <2>1, TypeNext
  <2>3. OpeningOK' /\ RegisteredOK'
    BY <1>3, <1>6, <1>7, <2>1 DEF OpeningOK, RegisteredOK, Settled
  <2>4. NeverStranded'
    BY <1>7, <1>10, <2>1 DEF NeverStranded, Alive
  <2> QED BY <1>8, <2>2, <2>3, <2>4 DEF IndInv, Sound
<1> QED BY <1>9, <1>10

LEMMA HeartbeatTimeoutStep == ASSUME IndInv, HeartbeatTimeout PROVE IndInv'
<1>1. /\ Event /\ me.heartbeat /\ me.connected /\ me.ws # NoSocket /\ UNCHANGED faults
      /\ me' = ForceCloseSocket(me)
  BY DEF HeartbeatTimeout
<1>2. /\ ~me.crashed /\ (\A g \in Flows : me.flow[g].at \notin Settled)
      /\ UNCHANGED <<conf, stopped>> /\ faults' \in 0..MaxFaults
      /\ OpeningOK /\ StoppedOK /\ NeverStranded
      /\ conf \in Confs /\ me \in Objects /\ stopped \in BOOLEAN /\ TypeOK
  BY <1>1, EventNow
<1>3. /\ me' \in Objects
      /\ me'.running = me.running /\ me'.shouldReconnect = me.shouldReconnect
      /\ me'.registerWait = me.registerWait /\ me'.flow = me.flow
      /\ me'.scheduled = me.scheduled /\ me'.attempts = me.attempts
      /\ me'.ws.st = IF me.ws.st = "closed" THEN "closed" ELSE "closing"
  BY <1>1, <1>2, ForceCloseType
<1>4. TypeOK'
  BY <1>2, <1>3, TypeNext
<1>5. OpeningOK' /\ RegisteredOK'
  BY <1>2, <1>3 DEF OpeningOK, RegisteredOK, Settled
<1>6. StoppedOK'
  BY <1>1, <1>2 DEF StoppedOK
<1>7. NeverStranded'
  BY <1>2, <1>3 DEF NeverStranded, Alive, OnAir
<1> QED BY <1>4, <1>5, <1>6, <1>7 DEF IndInv, Sound

(* Only the outbound requests change.                                        *)
LEMMA RequestSteps ==
    ASSUME IndInv, NEW r \in Requests, Forward(r) \/ Response(r) \/ RequestTimeout(r)
    PROVE  IndInv'
<1>1. Event /\ UNCHANGED faults
  BY DEF Forward, Response, RequestTimeout, Hears
<1>2. /\ ~me.crashed /\ (\A g \in Flows : me.flow[g].at \notin Settled)
      /\ UNCHANGED <<conf, stopped>> /\ faults' \in 0..MaxFaults
      /\ OpeningOK /\ RegisteredOK /\ StoppedOK /\ NeverStranded
      /\ conf \in Confs /\ me \in Objects /\ stopped \in BOOLEAN /\ TypeOK
  BY <1>1, EventNow
<1>3. stopped => conf.extras
  BY <1>2 DEF StoppedOK, Forward, Response, RequestTimeout
<1>4. \E p \in SUBSET Requests : me' = [me EXCEPT !.pending = p]
  <2>1. me.pending \cup {r} \in SUBSET Requests /\ me.pending \ {r} \in SUBSET Requests
    BY <1>2 DEF Objects
  <2>2. \/ me' = [me EXCEPT !.pending = me.pending \cup {r}]
        \/ me' = [me EXCEPT !.pending = me.pending \ {r}]
    BY <1>2 DEF Forward, Response, RequestTimeout, Objects
  <2> QED BY <2>1, <2>2
<1>5. /\ me' \in Objects /\ me'.flow = me.flow /\ me'.registerWait = me.registerWait
      /\ me'.ws = me.ws /\ me'.scheduled = me.scheduled /\ me'.heartbeat = me.heartbeat
      /\ me'.shouldReconnect = me.shouldReconnect /\ me'.running = me.running
      /\ me'.attempts = me.attempts /\ me'.crashed = me.crashed
  BY <1>2, <1>4 DEF Objects
<1>6. TypeOK'
  BY <1>2, <1>5, TypeNext
<1>7. OpeningOK' /\ RegisteredOK'
  BY <1>2, <1>5 DEF OpeningOK, RegisteredOK, Settled
<1>8. StoppedOK'
  BY <1>2, <1>3 DEF StoppedOK
<1>9. NeverStranded'
  BY <1>2, <1>5 DEF NeverStranded, Alive, OnAir
<1> QED BY <1>6, <1>7, <1>8, <1>9 DEF IndInv, Sound

LEMMA StopStep == ASSUME IndInv, Stop PROVE IndInv'
<1> DEFINE a == [me EXCEPT !.shouldReconnect = FALSE, !.running = FALSE, !.heartbeat = FALSE,
                           !.scheduled = FALSE, !.pending = {}]
           c == ClearRegisterWait(a)
           d == DetachSocket(c)
<1>1. /\ Quiet /\ stopped' = TRUE /\ UNCHANGED <<conf, faults>>
      /\ me' = [d EXCEPT !.connected = FALSE]
  BY DEF Stop
<1>2. ~me.crashed /\ (\A g \in Flows : me.flow[g].at \notin Settled)
  BY <1>1 DEF Quiet
<1>3. /\ OpeningOK /\ me \in Objects /\ TypeOK /\ NoSocket.st = "none"
      /\ faults' \in 0..MaxFaults
  BY <1>1, <1>2, Now, FaultType
<1>4. /\ a \in Objects /\ a.ws = me.ws /\ ~a.shouldReconnect /\ ~a.running /\ ~a.heartbeat
      /\ ~a.scheduled /\ a.pending = {} /\ a.registerWait = me.registerWait
      /\ a.flow = me.flow /\ a.crashed = me.crashed
  BY <1>3 DEF Objects
<1> HIDE DEF a
<1>5. /\ c \in Objects /\ c.ws = a.ws /\ c.running = a.running
      /\ c.shouldReconnect = a.shouldReconnect /\ c.heartbeat = a.heartbeat
      /\ c.scheduled = a.scheduled /\ c.pending = a.pending
      /\ c.registerWait = None
      /\ \A g \in Flows : c.flow[g].at = IF g = a.registerWait THEN "unregistered"
                                          ELSE a.flow[g].at
  BY <1>4, ClearWaitType
<1> HIDE DEF c
<1>6. /\ d \in Objects /\ d.ws = NoSocket /\ d.running = c.running
      /\ d.shouldReconnect = c.shouldReconnect /\ d.heartbeat = c.heartbeat
      /\ d.scheduled = c.scheduled /\ d.registerWait = c.registerWait /\ d.flow = c.flow
      /\ d.pending = c.pending
      /\ c.ws # NoSocket => (d.crashed <=> Opening(c))
  BY <1>5, DetachType
<1> HIDE DEF d
<1>7. /\ me' \in Objects /\ me'.ws = NoSocket /\ ~me'.connected /\ ~me'.running
      /\ ~me'.shouldReconnect /\ ~me'.heartbeat /\ ~me'.scheduled /\ me'.registerWait = None
      /\ me'.pending = {} /\ me'.flow = c.flow /\ me'.crashed = d.crashed
  BY <1>1, <1>4, <1>5, <1>6 DEF Objects
<1>8. \A f \in Flows : me'.flow[f].at = IF f = me.registerWait THEN "unregistered"
                                         ELSE me.flow[f].at
  BY <1>4, <1>5, <1>7
<1>9. TypeOK'
  BY <1>1, <1>3, <1>7, TypeNext
(* A flow that was opening had a socket, and detaching that crashed.         *)
<1>10. ~me'.crashed => \A f \in Flows : me'.flow[f].at # "opening"
  <2>1. CASE me.ws = NoSocket
    BY <1>3, <1>8, <2>1 DEF OpeningOK
  <2>2. CASE me.ws # NoSocket
    BY <1>4, <1>5, <1>6, <1>7, <2>2 DEF Opening
  <2> QED BY <2>1, <2>2
<1>11. ~me'.crashed =>
          \A f \in Flows : me'.flow[f].at \in {"idle", "leaked", "waiting", "unregistered"}
  <2>1. \A f \in Flows : me.flow[f].at \in {"opening", "waiting", "idle", "leaked"}
    BY <1>2, <1>3 DEF Objects, FlowType, Awaiting
  <2> QED BY <1>8, <1>10, <2>1
<1>12. ~me'.crashed => OpeningOK' /\ RegisteredOK' /\ StoppedOK'
  BY <1>7, <1>11 DEF OpeningOK, RegisteredOK, StoppedOK
<1>13. NeverStranded'
  BY <1>7 DEF NeverStranded
<1> QED BY <1>9, <1>12, <1>13 DEF IndInv, Sound

LEMMA StutterStep == ASSUME IndInv, UNCHANGED vars PROVE IndInv'
BY DEF IndInv, Sound, TypeOK, OpeningOK, RegisteredOK, StoppedOK, NeverStranded, OnAir, Alive, vars

(***************************************************************************)
(* The theorems                                                            *)
(***************************************************************************)
LEMMA IndInit == ASSUME Init PROVE IndInv
<1> DEFINE first == [at |-> "opening", kind |-> "start", second |-> FALSE]
           fl == [[f \in Flows |-> Idle] EXCEPT ![1] = first]
<1>1. conf \in Confs /\ stopped = FALSE /\ faults = 0
  BY DEF Init
<1>2. /\ fl \in [Flows -> FlowType] /\ \A f \in Flows : fl[f].at \in {"opening", "idle"}
  <2>1. first \in FlowType /\ Idle \in FlowType /\ first.at = "opening" /\ Idle.at = "idle"
    BY DEF Idle, FlowType, Awaiting
  <2> HIDE DEF first
  <2> QED BY <2>1
<1>3. NewSocket \in Sockets /\ NewSocket.st = "connecting"
  BY DEF NewSocket, NoSocket, Sockets
<1>4. me = [ws |-> NewSocket, connected |-> FALSE, running |-> FALSE, shouldReconnect |-> TRUE,
            scheduled |-> FALSE, attempts |-> 0, heartbeat |-> FALSE, starting |-> TRUE,
            preferPlain |-> FALSE, registerWait |-> None, flow |-> fl,
            pending |-> {}, crashed |-> FALSE]
  <2>1. me = [Object0 EXCEPT !.starting = TRUE, !.shouldReconnect = TRUE, !.ws = NewSocket,
                             !.flow = fl]
    BY DEF Init, Object0
  <2> HIDE DEF fl
  <2> QED BY <2>1 DEF Object0
<1>5. 0 \in 0..conf.max
  BY <1>1, ConfType
<1> HIDE DEF fl
<1>6. me \in Objects /\ me.flow = fl /\ me.ws = NewSocket /\ ~me.running
  BY <1>2, <1>3, <1>4, <1>5 DEF Objects
<1>7. TypeOK
  <2>1. faults \in 0..MaxFaults
    <3>1. MaxFaults \in Nat /\ faults = 0
      BY <1>1, TunnelConstants
    <3> QED BY <3>1
  <2>2. stopped \in BOOLEAN
    BY <1>1
  <2> QED BY <1>1, <1>6, <2>1, <2>2, TypeNow
<1>8. OpeningOK /\ RegisteredOK /\ StoppedOK /\ NeverStranded
  BY <1>1, <1>2, <1>3, <1>6 DEF OpeningOK, RegisteredOK, StoppedOK, NeverStranded, Alive
<1> QED BY <1>7, <1>8 DEF IndInv, Sound

LEMMA IndStep == ASSUME IndInv, [Next]_vars PROVE IndInv'
<1>1. CASE \E f \in Flows : Continuation(f) \/ RegisterTimer(f)
  BY <1>1, RegisterStep, RegisteredStep, FallBackStep, RegisterFailedStep, OpenFailedStep,
     RegisterTimerStep DEF Continuation
<1>2. CASE SocketOpens \/ SocketFails \/ PeerCloses \/ SocketCloses \/ GoesSilent
  BY <1>2, SocketOpensStep, CloseSteps, GoesSilentStep
<1>3. CASE RelayRegisters \/ RelayRefuses \/ ReconnectTimer \/ HeartbeatTimeout \/ Stop
  BY <1>3, RelayRegistersStep, RelayRefusesStep, ReconnectTimerStep, HeartbeatTimeoutStep,
     StopStep
<1>4. CASE \E r \in Requests : Forward(r) \/ Response(r) \/ RequestTimeout(r)
  BY <1>4, RequestSteps
<1>5. CASE UNCHANGED vars
  BY <1>5, StutterStep
<1> QED BY <1>1, <1>2, <1>3, <1>4, <1>5 DEF Next

LEMMA IndAlways == Spec => []IndInv
BY IndInit, IndStep, PTL DEF Spec

(* The fields of the session keep their types; the attempts never exceed     *)
(* maxReconnectAttempts.                                                     *)
THEOREM TunnelTypeCorrect == Spec => []TypeOK
<1>1. IndInv => TypeOK
  BY DEF IndInv
<1> QED BY <1>1, IndAlways, PTL

(* A running session always has something that brings it back to the relay,  *)
(* or has used up its attempts (scheduleReconnect, clearRegisterWait and the *)
(* timers and continuations of overlapping connectAndRegister runs).         *)
THEOREM TunnelNeverStranded == Spec => []NeverStranded
<1>1. IndInv => NeverStranded
  BY DEF IndInv, Sound, NeverStranded, Alive
<1> QED BY <1>1, IndAlways, PTL

(* After stop() a session without enriched registration holds no socket, no  *)
(* request and no timer, whatever its flows still awaited.                   *)
THEOREM TunnelStoppedQuiet == Spec => []StoppedQuiet
<1>1. IndInv => StoppedQuiet
  BY DEF IndInv, Sound, StoppedOK, StoppedQuiet
<1> QED BY <1>1, IndAlways, PTL
=============================================================================
