-------------------------- MODULE FileRelayProofs --------------------------
(***************************************************************************)
(* Proofs that the file relay keeps its safety properties for any number   *)
(* of sockets, ids and headers and any limits.                             *)
(***************************************************************************)
EXTENDS FileRelay, ReservedBytes, TLAPS

(* What a session object satisfies by itself, given the headers H: it is     *)
(* consistent with the headers of its parties, and its byte counts with its  *)
(* state.                                                                    *)
PartyOK(r, p, role, H) ==
    p # None => /\ H[p] # None
                /\ H[p].id = r.id
                /\ H[p].token = r.token
                /\ H[p].role = role

PairOK(r, H) ==
    /\ r.sender # None /\ r.receiver # None
    /\ H[r.sender].source = H[r.receiver].target
    /\ H[r.sender].target = H[r.receiver].source
    /\ r.received = r.taken
    /\ r.remaining + r.received = H[r.sender].size

RecOK(r, H) ==
    /\ r \in SessionType
    /\ r.state # "absent" => r.id \in Ids
    /\ r.overrun => r.state # "absent"
    /\ PartyOK(r, r.sender, "sender", H)
    /\ PartyOK(r, r.receiver, "receiver", H)
    /\ r.state \in {"absent", "PAIRING"} => r.received = 0 /\ r.taken = r.extra
    /\ r.ackWait => r.state \in {"WAIT_ACK", "DONE", "FAILED"}
    /\ r.state \in {"TRANSFERRING", "WAIT_ACK", "DONE"} => PairOK(r, H)
    /\ r.state \in {"WAIT_ACK", "DONE"} => r.remaining = 0

(* releaseSession keeps a session object consistent and clears its timers.   *)
LEMMA ReleasedOK ==
    ASSUME NEW H \in [Sockets -> Headers \cup {None}], NEW r, RecOK(r, H)
    PROVE  /\ RecOK(Released(r), H)
           /\ Released(r).id = r.id
           /\ Released(r).state = r.state
           /\ Released(r).timers = {}
BY DEF RecOK, PartyOK, PairOK, Released, SessionType

(* So does destroySession, which also marks it FAILED.                       *)
LEMMA FailedOK ==
    ASSUME NEW H \in [Sockets -> Headers \cup {None}], NEW r, RecOK(r, H), r.id \in Ids
    PROVE  /\ RecOK([Released(r) EXCEPT !.state = "FAILED"], H)
           /\ [Released(r) EXCEPT !.state = "FAILED"].id = r.id
           /\ [Released(r) EXCEPT !.state = "FAILED"].state = "FAILED"
           /\ [Released(r) EXCEPT !.state = "FAILED"].timers = {}
<1> DEFINE q == [Released(r) EXCEPT !.state = "FAILED"]
<1>2. q \in SessionType
  BY DEF RecOK, Released, SessionType, SessionStates
<1>3. /\ q.id = r.id /\ q.token = r.token /\ q.sender = r.sender /\ q.receiver = r.receiver
      /\ q.state = "FAILED" /\ q.timers = {}
  BY DEF RecOK, Released, SessionType
<1> HIDE DEF q
<1>4. RecOK(q, H)
  BY <1>2, <1>3 DEF RecOK, PartyOK
<1> QED BY <1>3, <1>4 DEF q

(* waitForAck keeps a session object consistent once all bytes are through.  *)
LEMMA AwaitAckOK ==
    ASSUME NEW H \in [Sockets -> Headers \cup {None}], NEW r, RecOK(r, H),
           r.state = "TRANSFERRING", r.remaining = 0
    PROVE  /\ RecOK(AwaitAck(r), H)
           /\ AwaitAck(r).id = r.id
           /\ AwaitAck(r).sender = r.sender /\ AwaitAck(r).receiver = r.receiver
           /\ AwaitAck(r).state = "WAIT_ACK"
           /\ AwaitAck(r).timers = r.timers \cup {"stall"}
BY DEF RecOK, PartyOK, PairOK, AwaitAck, SessionType, SessionStates

(* The byte counts and flags a chunk changes stay of their types.            *)
LEMMA FedType ==
    ASSUME NEW r \in SessionType, NEW x \in Nat, NEW y \in Nat, NEW z \in Nat,
           NEW b \in BOOLEAN, NEW w \in SUBSET {"immediate", "drain"}
    PROVE  [r EXCEPT !.taken = x, !.remaining = y, !.received = z, !.paused = b, !.wake = w]
              \in SessionType
BY DEF SessionType

(* consume forwards n bytes: the object stays consistent, and a paused       *)
(* sender has a callback that wakes it.                                      *)
LEMMA ConsumedOK ==
    ASSUME NEW H \in [Sockets -> Headers \cup {None}], NEW r, RecOK(r, H),
           r.state = "TRANSFERRING", NEW n \in Nat, n <= r.remaining, NEW full \in BOOLEAN
    PROVE  LET q == Consumed([r EXCEPT !.taken = @ + n], n, full)
           IN /\ RecOK(q, H)
              /\ q.id = r.id /\ q.sender = r.sender /\ q.receiver = r.receiver
              /\ q.state \in {"TRANSFERRING", "WAIT_ACK"}
              /\ q.timers = r.timers \cup (IF q.state = "WAIT_ACK" THEN {"stall"} ELSE {})
              /\ q.state = "TRANSFERRING" /\ q.paused /\ ~r.paused => q.wake # {}
<1> DEFINE p == [r EXCEPT !.taken = @ + n]
           P == p.paused \/ (full /\ n > 0)
           W == IF full /\ n > 0 THEN p.wake \cup {"drain"} ELSE p.wake
           fed == [p EXCEPT !.remaining = @ - n, !.received = @ + n, !.paused = P, !.wake = W]
<1>1. p \in SessionType
  BY DEF RecOK, SessionType
<1>2. P \in BOOLEAN /\ W \in SUBSET {"immediate", "drain"}
  BY <1>1 DEF SessionType
<1>3. /\ RecOK(fed, H) /\ fed.id = r.id /\ fed.sender = r.sender /\ fed.receiver = r.receiver
      /\ fed.state = "TRANSFERRING" /\ fed.timers = r.timers
  <2> HIDE DEF P, W
  <2>1. r.remaining \in Nat /\ r.received \in Nat /\ r.taken \in Nat
    BY DEF RecOK, SessionType
  <2>2. r.remaining - n \in Nat /\ r.received + n \in Nat
    BY <2>1
  <2>3. fed = [r EXCEPT !.taken = r.taken + n, !.remaining = r.remaining - n,
                        !.received = r.received + n, !.paused = P, !.wake = W]
    BY DEF RecOK, SessionType
  <2>4. fed \in SessionType
    <3>1. r \in SessionType /\ r.taken + n \in Nat
      BY <2>1 DEF RecOK
    <3> HIDE DEF fed, p
    <3> QED BY <1>2, <2>2, <2>3, <3>1, FedType, Zenon
  <2>5. /\ fed.id = r.id /\ fed.token = r.token /\ fed.state = r.state /\ fed.timers = r.timers
        /\ fed.sender = r.sender /\ fed.receiver = r.receiver /\ fed.ackWait = r.ackWait
        /\ fed.remaining = r.remaining - n /\ fed.received = r.received + n
        /\ fed.taken = r.taken + n
    BY <2>3 DEF RecOK, SessionType
  <2> HIDE DEF fed
  <2> QED BY <2>1, <2>4, <2>5 DEF RecOK, PartyOK, PairOK
<1>a. fed.paused /\ ~r.paused => fed.wake # {}
  <2> SUFFICES ASSUME fed.paused, ~r.paused PROVE fed.wake # {}
    OBVIOUS
  <2>1. fed.paused = P /\ fed.wake = W /\ p.paused = r.paused
    BY DEF RecOK, SessionType
  <2>2. full /\ n > 0
    BY <2>1
  <2> QED BY <2>1, <2>2
<1>4. Consumed(p, n, full) = IF fed.remaining = 0 THEN AwaitAck(fed) ELSE fed
  BY DEF Consumed
<1> HIDE DEF fed, p
<1>5. CASE fed.remaining = 0
  BY <1>3, <1>4, <1>5, AwaitAckOK DEF p
<1>6. CASE fed.remaining # 0
  BY <1>a, <1>3, <1>4, <1>6 DEF p
<1> QED BY <1>5, <1>6

(* startTransfer takes the bytes the sender sent along with its header: the  *)
(* object stays consistent.                                                  *)
LEMMA StartedOK ==
    ASSUME NEW H \in [Sockets -> Headers \cup {None}], NEW r, RecOK(r, H),
           r.state = "PAIRING", NEW size \in Nat, r.extra <= size, NEW full \in BOOLEAN,
           r.sender # None, r.receiver # None, H[r.sender].size = size,
           H[r.sender].source = H[r.receiver].target,
           H[r.sender].target = H[r.receiver].source
    PROVE  /\ RecOK(Started(r, size, full), H)
           /\ Started(r, size, full).id = r.id
           /\ Started(r, size, full).state \in {"TRANSFERRING", "WAIT_ACK"}
           /\ Started(r, size, full).timers = {"stall", "deadline"}
           /\ Started(r, size, full).sender = r.sender
           /\ Started(r, size, full).receiver = r.receiver
           /\ Started(r, size, full).state = "TRANSFERRING" =>
                 Started(r, size, full).wake # {}
<1> DEFINE zero == [r EXCEPT !.taken = 0, !.state = "TRANSFERRING", !.remaining = size,
                             !.timers = {"stall", "deadline"}]
           begun == [r EXCEPT !.state = "TRANSFERRING", !.remaining = size,
                              !.timers = {"stall", "deadline"}]
           fed == Consumed(begun, r.extra, full)
<1>1. r \in SessionType /\ r.extra \in Nat /\ r.taken = r.extra /\ r.received = 0
  BY DEF RecOK, SessionType
<1>2. zero \in SessionType
  BY <1>1 DEF SessionType, SessionStates
<1>3. /\ zero.id = r.id /\ zero.token = r.token /\ zero.sender = r.sender
      /\ zero.receiver = r.receiver /\ zero.ackWait = r.ackWait /\ zero.received = r.received
      /\ zero.state = "TRANSFERRING" /\ zero.remaining = size /\ zero.taken = 0
      /\ zero.timers = {"stall", "deadline"}
  BY <1>1 DEF SessionType
<1>4. [zero EXCEPT !.taken = @ + r.extra] = begun
  <2>1. zero.taken + r.extra = r.taken
    BY <1>1, <1>3
  <2>2. [zero EXCEPT !.taken = r.taken] = begun
    BY <1>1 DEF SessionType
  <2> HIDE DEF zero, begun
  <2> QED BY <2>1, <2>2
<1>5. RecOK(zero, H)
  <2> HIDE DEF zero
  <2> QED BY <1>1, <1>2, <1>3 DEF RecOK, PartyOK, PairOK
<1>6. /\ RecOK(fed, H) /\ fed.id = r.id /\ fed.state \in {"TRANSFERRING", "WAIT_ACK"}
      /\ fed.timers = {"stall", "deadline"}
      /\ fed.sender = r.sender /\ fed.receiver = r.receiver
  <2> HIDE DEF zero, begun
  <2>1. fed = Consumed([zero EXCEPT !.taken = @ + r.extra], r.extra, full)
    BY <1>4
  <2> HIDE DEF fed
  <2> QED BY <1>1, <1>3, <1>5, <2>1, ConsumedOK
<1>7. Started(r, size, full) = IF fed.state = "TRANSFERRING"
                               THEN [fed EXCEPT !.wake = @ \cup {"immediate"}] ELSE fed
  BY DEF Started
<1> HIDE DEF fed
<1>8. CASE fed.state = "TRANSFERRING"
  BY <1>6, <1>7, <1>8 DEF RecOK, PartyOK, PairOK, SessionType
<1>9. CASE fed.state # "TRANSFERRING"
  BY <1>6, <1>7, <1>9
<1> QED BY <1>8, <1>9

-----------------------------------------------------------------------------
(* The inductive invariant                                                  *)

Unbound == {"idle", "header", "expired"}
Active == {"PAIRING", "TRANSFERRING", "WAIT_ACK"}

SessionsOK == \A o \in Sockets : RecOK(ses[o], hdr)

(* A socket that has not registered is bound by no header and has created no *)
(* session.                                                                  *)
Unregistered ==
    \A s \in Sockets : conn[s] \in Unbound => hdr[s] = None /\ ses[s] = NoSession

(* The map holds active sessions under their own ids.                        *)
Placed ==
    \A i \in Ids : sessions[i] # None =>
        ses[sessions[i]].id = i /\ ses[sessions[i]].state \in Active

Acked ==
    \A s \in Sockets : reply[s] = "ack" =>
        \E o \in Sockets : ses[o].sender = s /\ ses[o].state = "DONE"

IndInv ==
    /\ TypeOK
    /\ SessionsOK
    /\ Unregistered
    /\ Placed
    /\ TimersMatchPhase
    /\ Acked
    /\ NoOrphanSocket
    /\ NoWedgedSender
    /\ InFlightBounded

(* Session x of the objects m differs from the current one at most in the    *)
(* one-shot listeners that a callback consumes.                              *)
SameSession(q, r) ==
    /\ q.id = r.id /\ q.state = r.state /\ q.timers = r.timers
    /\ q.sender = r.sender /\ q.receiver = r.receiver
    /\ q.paused = r.paused /\ q.wake = r.wake

(* The release of bytes never goes below zero.                               *)
LEMMA MinusOK ==
    ASSUME NEW a \in Nat, NEW b \in Nat
    PROVE  Minus(a, b) \in Nat /\ Minus(a, b) <= a
BY DEF Minus

(* Session o of the objects m is torn down, over the connections c and b     *)
(* bytes in flight.                                                          *)
TearDownStep(o, m, c, b) ==
    /\ TearDown(o, m, c, b)
    /\ m \in [Sockets -> SessionType] /\ c \in [Sockets -> ConnStates]
    /\ b \in Nat /\ b <= MaxInFlight
    /\ up' \in BOOLEAN /\ hdr' \in [Sockets -> Headers \cup {None}]
    /\ \A x \in Sockets : RecOK(m[x], hdr')
    /\ \A x \in Sockets \ {o} :
          m[x] # ses[x] => conn[x] \notin Unbound /\ SameSession(m[x], ses[x])
    /\ m[o].id \in Ids /\ sessions[m[o].id] \in {o, None}
    /\ sessions[m[o].id] = None => ses[o].state = "absent"
    /\ ses[o].sender \in {None, m[o].sender}
    /\ ses[o].receiver \in {None, m[o].receiver}
    /\ \A s \in Sockets : c[s] = "bound" =>
          conn[s] = "bound" \/ s \in {m[o].sender, m[o].receiver}
    /\ \A s \in Sockets : c[s] \in Unbound =>
          conn[s] = c[s] /\ s # o /\ hdr'[s] = hdr[s]

(* Tearing a session down preserves the invariant, for every caller.         *)
LEMMA TearDownInv ==
    ASSUME IndInv, NEW o \in Sockets, NEW m, NEW c, NEW b, TearDownStep(o, m, c, b)
    PROVE  IndInv'
<1> USE DEF TearDownStep
<1> DEFINE q == [Released(m[o]) EXCEPT !.state = "FAILED"]
           i == m[o].id
<1> USE DEF IndInv
<1>1. /\ RecOK(q, hdr') /\ q.id = i /\ q.state = "FAILED" /\ q.timers = {}
  BY FailedOK
<1>2. /\ sessions' = [sessions EXCEPT ![i] = None]
      /\ ses' = [m EXCEPT ![o] = q]
      /\ conn' = Ended(c, {m[o].sender, m[o].receiver})
      /\ reply' = Told(c, {m[o].sender, m[o].receiver}, "error")
      /\ inFlight' = Minus(b, m[o].accounted)
  BY DEF TearDown
<1> HIDE DEF q
<1>3. inFlight' \in Nat /\ inFlight' <= MaxInFlight
  BY <1>2, MinusOK, RelayConstants DEF SessionType
<1>4. /\ conn' \in [Sockets -> ConnStates]
      /\ \A s \in Sockets : conn'[s] = "bound" =>
            c[s] = "bound" /\ s \notin {m[o].sender, m[o].receiver}
      /\ \A s \in Sockets : conn'[s] \in Unbound => c[s] \in Unbound
  BY <1>2 DEF Ended, Open, ConnStates, Unbound
<1>5. /\ reply' \in [Sockets -> Replies]
      /\ \A s \in Sockets : reply'[s] = "ack" => reply[s] = "ack"
  BY <1>2 DEF Told, Replies, TypeOK
<1>6. ses'[o] = q /\ \A x \in Sockets \ {o} : ses'[x] = m[x]
  BY <1>2
<1>7. TypeOK'
  BY <1>1, <1>2, <1>3, <1>4, <1>5 DEF TypeOK, RecOK
<1>8. SessionsOK'
  BY <1>1, <1>6 DEF SessionsOK
<1>9. Unregistered'
  BY <1>4, <1>6 DEF Unregistered
<1>10. ses[o].state \in Active \/ ses[o].state = "absent"
  BY DEF Placed
<1>11. \A x \in Sockets \ {o} : SameSession(ses'[x], ses[x])
  BY <1>6 DEF SameSession
<1>a. /\ \A j \in Ids : sessions'[j] = IF j = i THEN None ELSE sessions[j]
      /\ \A j \in Ids : sessions[j] = o => j = i
      /\ None \notin Sockets
  BY <1>2, RelayConstants DEF Placed, TypeOK, Active
<1>12. Placed'
  <2> SUFFICES ASSUME NEW j \in Ids, sessions'[j] # None
               PROVE  ses'[sessions'[j]].id = j /\ ses'[sessions'[j]].state \in Active
    BY DEF Placed
  <2>1. sessions'[j] = sessions[j] /\ sessions[j] \in Sockets \ {o}
    BY <1>a DEF TypeOK
  <2> QED BY <2>1, <1>11 DEF Placed, SameSession
<1>13. \A x \in Sockets \ {o} : InMap(x)' <=> InMap(x)
  <2> SUFFICES ASSUME NEW x \in Sockets \ {o} PROVE InMap(x)' <=> InMap(x)
    OBVIOUS
  <2>1. ses'[x].id = ses[x].id /\ ses[x].id \in Ids \cup {None}
    BY <1>11 DEF SameSession, TypeOK, SessionType
  <2> QED BY <2>1, <1>a DEF InMap
<1>14. ~InMap(o)'
  BY <1>1, <1>6, <1>a DEF InMap
<1>15. TimersMatchPhase'
  <2> SUFFICES ASSUME NEW x \in Sockets
               PROVE  ses'[x].timers = IF ~InMap(x)' THEN {}
                         ELSE IF ses'[x].state = "PAIRING" THEN {"pairing"}
                         ELSE {"stall", "deadline"}
    BY DEF TimersMatchPhase
  <2>1. CASE x = o
    BY <2>1, <1>1, <1>6, <1>14
  <2>2. CASE x # o
    BY <2>2, <1>11, <1>13 DEF TimersMatchPhase, SameSession
  <2> QED BY <2>1, <2>2
<1>16. Acked'
  BY <1>5, <1>6, <1>10, <1>11 DEF Acked, SameSession, Active
<1>17. NoOrphanSocket'
  <2> SUFFICES ASSUME NEW s \in Sockets, conn'[s] = "bound"
               PROVE  \E x \in Sockets : InMap(x)' /\ s \in {ses'[x].sender, ses'[x].receiver}
    BY DEF NoOrphanSocket
  <2>1. conn[s] = "bound" /\ s \notin {m[o].sender, m[o].receiver} /\ s # None
    BY <1>4, <1>a
  <2>2. PICK x \in Sockets : InMap(x) /\ s \in {ses[x].sender, ses[x].receiver}
    BY <2>1 DEF NoOrphanSocket
  <2>3. x # o
    BY <2>1, <2>2
  <2> QED BY <2>2, <2>3, <1>11, <1>13 DEF SameSession
<1>18. NoWedgedSender'
  <2> SUFFICES ASSUME NEW x \in Sockets, InMap(x)', ses'[x].state = "TRANSFERRING", ses'[x].paused
               PROVE  ses'[x].wake # {}
    BY DEF NoWedgedSender
  <2> QED BY <1>11, <1>13, <1>14 DEF NoWedgedSender, SameSession
<1> QED BY <1>3, <1>7, <1>8, <1>9, <1>12, <1>15, <1>16, <1>17, <1>18 DEF InFlightBounded

(* A step that leaves sessions, headers and bytes alone.                     *)
LEMMA ConnInv ==
    ASSUME IndInv, UNCHANGED <<hdr, sessions, ses, inFlight>>, up' \in BOOLEAN,
           conn' \in [Sockets -> ConnStates], reply' \in [Sockets -> Replies],
           \A s \in Sockets : conn'[s] = "bound" => conn[s] = "bound",
           \A s \in Sockets : conn'[s] \in Unbound => conn[s] \in Unbound,
           \A s \in Sockets : reply'[s] = "ack" => reply[s] = "ack"
    PROVE  IndInv'
<1> USE DEF IndInv
<1>1. TypeOK'
  BY DEF TypeOK
<1>2. SessionsOK' /\ Unregistered' /\ Placed'
  BY DEF SessionsOK, Unregistered, Placed
<1>3. \A o \in Sockets : InMap(o)' <=> InMap(o)
  BY DEF InMap
<1>4. TimersMatchPhase' /\ NoWedgedSender' /\ InFlightBounded'
  BY <1>3 DEF TimersMatchPhase, NoWedgedSender, InFlightBounded
<1>5. Acked' /\ NoOrphanSocket'
  BY <1>3 DEF Acked, NoOrphanSocket
<1> QED BY <1>1, <1>2, <1>4, <1>5

(* A callback that only consumes a one-shot listener of session o, or wakes  *)
(* its sender.                                                               *)
FlagStep(o, q) ==
    /\ UNCHANGED <<up, conn, hdr, reply, sessions, inFlight>>
    /\ ses' = [ses EXCEPT ![o] = q]
    /\ RecOK(q, hdr)
    /\ conn[o] \notin Unbound
    /\ q.id = ses[o].id /\ q.state = ses[o].state /\ q.timers = ses[o].timers
    /\ q.sender = ses[o].sender /\ q.receiver = ses[o].receiver
    /\ InMap(o) /\ q.state = "TRANSFERRING" /\ q.paused => q.wake # {}

(* A step that only changes flags and counts of one session keeps the        *)
(* invariant.                                                                *)
LEMMA FlagInv ==
    ASSUME IndInv, NEW o \in Sockets, NEW q, FlagStep(o, q)
    PROVE  IndInv'
<1> USE DEF FlagStep
<1> USE DEF IndInv
<1>1. ses'[o] = q /\ \A x \in Sockets \ {o} : ses'[x] = ses[x]
  BY DEF TypeOK
<1>2. TypeOK'
  BY DEF TypeOK, RecOK
<1>3. SessionsOK'
  BY <1>1 DEF SessionsOK
<1>4. Unregistered'
  BY <1>1 DEF Unregistered
<1>5. Placed'
  BY <1>1 DEF Placed, TypeOK
<1>6. \A x \in Sockets : InMap(x)' <=> InMap(x)
  BY <1>1 DEF InMap
<1>7. TimersMatchPhase'
  BY <1>1, <1>6 DEF TimersMatchPhase
<1>8. Acked'
  BY <1>1 DEF Acked
<1>9. NoOrphanSocket'
  BY <1>1, <1>6 DEF NoOrphanSocket
<1>10. NoWedgedSender'
  BY <1>1, <1>6 DEF NoWedgedSender
<1> QED BY <1>2, <1>3, <1>4, <1>5, <1>7, <1>8, <1>9, <1>10 DEF InFlightBounded

(* Session o becomes q; under its id the map then holds k: o, or nothing.    *)
UpdateStep(o, q, k) ==
    /\ up' \in BOOLEAN /\ hdr' \in [Sockets -> Headers \cup {None}]
    /\ conn' \in [Sockets -> ConnStates] /\ reply' \in [Sockets -> Replies]
    /\ inFlight' \in Nat /\ inFlight' <= MaxInFlight
    /\ ses' = [ses EXCEPT ![o] = q]
    /\ RecOK(q, hdr')
    /\ \A x \in Sockets \ {o} : RecOK(ses[x], hdr')
    /\ q.id \in Ids /\ sessions[q.id] \in {o, None} /\ k \in {o, None}
    /\ sessions[q.id] = None => ses[o].state = "absent"
    /\ sessions' = [sessions EXCEPT ![q.id] = k]
    /\ k = o => q.state \in Active
    /\ q.timers = IF k # o THEN {}
                  ELSE IF q.state = "PAIRING" THEN {"pairing"} ELSE {"stall", "deadline"}
    /\ \A s \in Sockets : reply'[s] = "ack" =>
          reply[s] = "ack" \/ (q.sender = s /\ q.state = "DONE")
    /\ \A s \in Sockets : conn'[s] = "bound" =>
          \/ k = o /\ s \in {q.sender, q.receiver}
          \/ conn[s] = "bound" /\ s \notin {ses[o].sender, ses[o].receiver}
    /\ \A s \in Sockets : conn'[s] \in Unbound =>
          conn[s] \in Unbound /\ s # o /\ hdr'[s] = hdr[s]
    /\ k = o /\ q.state = "TRANSFERRING" /\ q.paused => q.wake # {}

(* A step that replaces one session object and its entry in the map keeps    *)
(* the invariant.                                                            *)
LEMMA UpdateInv ==
    ASSUME IndInv, NEW o \in Sockets, NEW q, NEW k, UpdateStep(o, q, k)
    PROVE  IndInv'
<1> USE DEF UpdateStep
<1> USE DEF IndInv
<1>1. ses'[o] = q /\ \A x \in Sockets \ {o} : ses'[x] = ses[x]
  BY DEF TypeOK
<1>2. /\ \A j \in Ids : sessions'[j] = IF j = q.id THEN k ELSE sessions[j]
      /\ \A j \in Ids : sessions[j] = o => j = q.id
      /\ None \notin Sockets /\ None \notin Ids
  BY RelayConstants DEF Placed, TypeOK, Active
<1>3. TypeOK'
  BY DEF TypeOK, RecOK
<1>4. SessionsOK'
  BY <1>1 DEF SessionsOK
<1>5. Unregistered'
  BY <1>1 DEF Unregistered
<1>6. Placed'
  <2> SUFFICES ASSUME NEW j \in Ids, sessions'[j] # None
               PROVE  ses'[sessions'[j]].id = j /\ ses'[sessions'[j]].state \in Active
    BY DEF Placed
  <2>1. CASE j = q.id
    BY <2>1, <1>1, <1>2
  <2>2. CASE j # q.id
    BY <2>2, <1>1, <1>2 DEF Placed, TypeOK
  <2> QED BY <2>1, <2>2
<1>7. InMap(o)' <=> k = o
  BY <1>1, <1>2 DEF InMap
<1>8. \A x \in Sockets \ {o} : InMap(x)' <=> InMap(x)
  <2> SUFFICES ASSUME NEW x \in Sockets \ {o} PROVE InMap(x)' <=> InMap(x)
    OBVIOUS
  <2>1. ses'[x].id = ses[x].id /\ ses[x].id \in Ids \cup {None}
    BY <1>1 DEF TypeOK, SessionType
  <2> QED BY <2>1, <1>2 DEF InMap
<1>9. TimersMatchPhase'
  <2> SUFFICES ASSUME NEW x \in Sockets
               PROVE  ses'[x].timers = IF ~InMap(x)' THEN {}
                         ELSE IF ses'[x].state = "PAIRING" THEN {"pairing"}
                         ELSE {"stall", "deadline"}
    BY DEF TimersMatchPhase
  <2>1. CASE x = o
    BY <2>1, <1>1, <1>7
  <2>2. CASE x # o
    BY <2>2, <1>1, <1>8 DEF TimersMatchPhase
  <2> QED BY <2>1, <2>2
<1>10. ses[o].state # "DONE"
  BY DEF Placed, Active
<1>11. Acked'
  BY <1>1, <1>10 DEF Acked
<1>12. NoOrphanSocket'
  <2> SUFFICES ASSUME NEW s \in Sockets, conn'[s] = "bound"
               PROVE  \E x \in Sockets : InMap(x)' /\ s \in {ses'[x].sender, ses'[x].receiver}
    BY DEF NoOrphanSocket
  <2>1. CASE k = o /\ s \in {q.sender, q.receiver}
    BY <2>1, <1>1, <1>7
  <2>2. CASE conn[s] = "bound" /\ s \notin {ses[o].sender, ses[o].receiver}
    BY <2>2, <1>1, <1>8 DEF NoOrphanSocket
  <2> QED BY <2>1, <2>2
<1>13. NoWedgedSender'
  BY <1>1, <1>7, <1>8 DEF NoWedgedSender
<1> QED BY <1>3, <1>4, <1>5, <1>6, <1>9, <1>11, <1>12, <1>13 DEF InFlightBounded

-----------------------------------------------------------------------------
(* One lemma per operation                                                  *)

(* The invariant holds when the relay starts.                                *)
LEMMA InitInv == Init => IndInv
<1> SUFFICES ASSUME Init PROVE IndInv
  OBVIOUS
<1>1. NoSession \in SessionType
  BY DEF NoSession, SessionType, SessionStates
<1>2. TypeOK
  BY <1>1 DEF Init, TypeOK, ConnStates, Replies
<1>3. SessionsOK
  BY <1>1 DEF Init, SessionsOK, RecOK, PartyOK, PairOK, NoSession
<1>4. Unregistered /\ Placed /\ Acked /\ NoOrphanSocket
  BY DEF Init, Unregistered, Placed, Acked, NoOrphanSocket
<1>5. TimersMatchPhase /\ NoWedgedSender
  BY DEF Init, TimersMatchPhase, NoWedgedSender, InMap, NoSession
<1>6. InFlightBounded
  BY RelayConstants DEF Init, InFlightBounded
<1> QED BY <1>2, <1>3, <1>4, <1>5, <1>6 DEF IndInv

(* closeSocket adds no ACK.                                                  *)
LEMMA ToldOK ==
    ASSUME TypeOK, NEW c, NEW S, NEW s \in Sockets
    PROVE  /\ Told(c, S, "error") \in [Sockets -> Replies]
           /\ Told(c, S, "error")[s] = "ack" => reply[s] = "ack"
BY DEF TypeOK, Told, Replies

(* Connections that have not registered keep the invariant.                  *)
LEMMA ConnectionInv ==
    ASSUME IndInv, NEW s \in Sockets, Accept(s) \/ HeaderFails(s) \/ HeaderTimeout(s)
    PROVE  IndInv'
<1>1. TypeOK
  BY DEF IndInv
<1>2. CASE Accept(s)
  <2>1. PICK k \in {"closed", "header"} : conn' = [conn EXCEPT ![s] = k]
    BY <1>2 DEF Accept
  <2> QED BY <1>1, <1>2, <2>1, ConnInv DEF Accept, TypeOK, ConnStates, Unbound
<1>3. CASE HeaderFails(s)
  BY <1>1, <1>3, ToldOK, ConnInv DEF HeaderFails, TypeOK, ConnStates, Unbound
<1>4. CASE HeaderTimeout(s)
  <2>1. /\ conn' = [conn EXCEPT ![s] = "expired"] /\ reply' = Told(conn, {s}, "error")
        /\ conn[s] = "header" /\ UNCHANGED <<up, hdr, sessions, ses, inFlight>>
    BY <1>4 DEF HeaderTimeout
  <2> QED BY <1>1, <2>1, ToldOK, ConnInv DEF TypeOK, ConnStates, Unbound
<1> QED BY <1>2, <1>3, <1>4

(* A refused registration keeps the invariant.                               *)
LEMMA RefusedInv ==
    ASSUME IndInv, NEW s \in Sockets, NEW h \in Headers, RegisterRefused(s, h)
    PROVE  IndInv'
<1>1. TypeOK
  BY DEF IndInv
<1>2. /\ conn' = [conn EXCEPT ![s] = "closing"] /\ reply' = Told(conn, {s}, "error")
      /\ UNCHANGED <<up, hdr, sessions, ses, inFlight>>
  BY DEF RegisterRefused, Refuse
<1> QED BY <1>1, <1>2, ToldOK, ConnInv DEF TypeOK, ConnStates, Unbound

(* A new session is empty, pairing, and has its pairing timer.               *)
LEMMA NewSessionOK ==
    ASSUME NEW i \in Ids, NEW t \in Tokens
    PROVE  LET r == NewSession(i, t)
           IN /\ r \in SessionType
              /\ r.state = "PAIRING" /\ r.id = i /\ r.token = t /\ r.timers = {"pairing"}
              /\ r.sender = None /\ r.receiver = None /\ ~r.ackWait /\ ~r.overrun
              /\ r.received = 0 /\ r.taken = r.extra
BY DEF NewSession, NoSession, SessionType, SessionStates

(* What a registration finds: its session pairs, and s is new to the relay.  *)
LEMMA RegistrationFacts ==
    ASSUME IndInv, NEW s \in Sockets, NEW h \in Headers, Registers(s), Admitted(h)
    PROVE  LET o == Owner(s, h)
               r == SessionFor(h)
           IN /\ o \in Sockets /\ h.id \in Ids
              /\ RecOK(r, hdr)
              /\ r.id = h.id /\ r.token = h.token /\ r.state = "PAIRING"
              /\ r.timers = {"pairing"}
              /\ sessions[h.id] \in {o, None}
              /\ sessions[h.id] = None => ses[o].state = "absent"
              /\ ses[o].sender = r.sender /\ ses[o].receiver = r.receiver
              /\ o # s => conn[o] \notin Unbound
              /\ hdr[s] = None
<1> USE DEF IndInv
<1>1. h \in HeaderType
  BY RelayConstants
<1>2. h.id \in Ids /\ h.token \in Tokens
  BY <1>1 DEF HeaderType
<1>3. hdr[s] = None /\ ses[s] = NoSession
  BY DEF Unregistered, Registers, Unbound
<1>4. SessionFor(h).state = "PAIRING" /\ SessionFor(h).token = h.token
  BY DEF Admitted
<1>5. CASE Fresh(h)
  <2>1. SessionFor(h) = NewSession(h.id, h.token)
    BY <1>5 DEF SessionFor
  <2>2. RecOK(SessionFor(h), hdr)
    <3> DEFINE r == NewSession(h.id, h.token)
    <3>1. /\ r \in SessionType /\ r.id = h.id /\ ~r.overrun
          /\ r.state = "PAIRING" /\ r.sender = None /\ r.receiver = None /\ ~r.ackWait /\ ~r.overrun
          /\ r.received = 0 /\ r.taken = r.extra
      BY <1>2, NewSessionOK
    <3> HIDE DEF r
    <3>2. RecOK(r, hdr)
      BY <1>2, <3>1 DEF RecOK, PartyOK
    <3> QED BY <2>1, <3>2 DEF r
  <2> QED BY <1>2, <1>3, <1>4, <1>5, <2>1, <2>2, NewSessionOK DEF Owner, Fresh, NoSession
<1>6. CASE ~Fresh(h)
  <2>1. /\ SessionFor(h) = ses[sessions[h.id]] /\ Owner(s, h) = sessions[h.id]
        /\ sessions[h.id] # None
    BY <1>6 DEF SessionFor, Owner, Fresh
  <2>2. sessions[h.id] \in Sockets
    BY <1>2, <2>1 DEF TypeOK
  <2>3. InMap(sessions[h.id]) /\ ses[sessions[h.id]].id = h.id
    BY <1>2, <2>1, RelayConstants DEF Placed, InMap
  <2>4. ses[sessions[h.id]].timers = {"pairing"}
    BY <1>4, <2>1, <2>2, <2>3 DEF TimersMatchPhase
  <2>5. conn[sessions[h.id]] \notin Unbound
    BY <1>4, <2>1, <2>2 DEF Unregistered, NoSession
  <2> QED BY <1>2, <1>3, <1>4, <2>1, <2>2, <2>3, <2>4, <2>5 DEF SessionsOK
<1> QED BY <1>5, <1>6

(* A sender refused for its metadata, which may leave an empty session,      *)
(* keeps the invariant.                                                      *)
LEMMA BadMetadataInv ==
    ASSUME IndInv, NEW s \in Sockets, NEW h \in Headers, RegisterBadMetadata(s, h)
    PROVE  IndInv'
<1> DEFINE o == Owner(s, h)
           r == SessionFor(h)
<1>1. /\ o \in Sockets /\ h.id \in Ids /\ RecOK(r, hdr) /\ r.id = h.id
      /\ r.state = "PAIRING" /\ r.timers = {"pairing"} /\ sessions[h.id] \in {o, None}
      /\ sessions[h.id] = None => ses[o].state = "absent"
      /\ ses[o].sender = r.sender /\ ses[o].receiver = r.receiver
      /\ o # s => conn[o] \notin Unbound
  BY RegistrationFacts DEF RegisterBadMetadata
<1>2. /\ conn' = [conn EXCEPT ![s] = "closing"] /\ reply' = Told(conn, {s}, "error")
      /\ UNCHANGED <<up, hdr, inFlight>>
      /\ sessions' = [sessions EXCEPT ![h.id] = o]
      /\ ses' = [ses EXCEPT ![o] = r]
  BY DEF RegisterBadMetadata, Refuse
<1> HIDE DEF o, r
<1>3. /\ TypeOK /\ InFlightBounded
      /\ \A x \in Sockets : RecOK(ses[x], hdr)
  BY DEF IndInv, SessionsOK
<1>4. /\ conn' \in [Sockets -> ConnStates] /\ reply' \in [Sockets -> Replies]
      /\ up' \in BOOLEAN /\ hdr' \in [Sockets -> Headers \cup {None}]
      /\ inFlight' \in Nat /\ inFlight' <= MaxInFlight
  BY <1>2, <1>3, ToldOK DEF TypeOK, ConnStates, InFlightBounded
<1>5. /\ \A x \in Sockets : reply'[x] = "ack" => reply[x] = "ack"
      /\ \A x \in Sockets : conn'[x] = "bound" => conn[x] = "bound"
      /\ \A x \in Sockets : conn'[x] \in Unbound => conn[x] \in Unbound /\ x # o
  BY <1>1, <1>2, <1>3, ToldOK DEF TypeOK, Unbound
<1>6. sessions' = [sessions EXCEPT ![r.id] = o]
  BY <1>1, <1>2
<1>7. /\ hdr' = hdr /\ r.state \in Active /\ r.id \in Ids
      /\ \A x \in Sockets : conn'[x] = "bound" =>
            \/ x \in {r.sender, r.receiver}
            \/ conn[x] = "bound" /\ x \notin {ses[o].sender, ses[o].receiver}
  BY <1>1, <1>2, <1>5 DEF Active
<1>8. RecOK(r, hdr') /\ \A x \in Sockets \ {o} : RecOK(ses[x], hdr')
  BY <1>1, <1>3, <1>7
<1>9. ~(r.state = "TRANSFERRING" /\ r.paused)
  BY <1>1
<1>10. UpdateStep(o, r, o)
  BY <1>1, <1>2, <1>4, <1>5, <1>6, <1>7, <1>8, <1>9 DEF UpdateStep
<1> QED BY <1>1, <1>10, UpdateInv

(* A sender refused for the byte budget, whose session is released, keeps    *)
(* the invariant.                                                            *)
LEMMA OverLimitInv ==
    ASSUME IndInv, NEW s \in Sockets, NEW h \in Headers, RegisterOverLimit(s, h)
    PROVE  IndInv'
<1> DEFINE o == Owner(s, h)
           r == SessionFor(h)
           q == Released(r)
<1>1. /\ o \in Sockets /\ h.id \in Ids /\ RecOK(r, hdr) /\ r.id = h.id
      /\ r.state = "PAIRING" /\ r.timers = {"pairing"} /\ sessions[h.id] \in {o, None}
      /\ sessions[h.id] = None => ses[o].state = "absent"
      /\ ses[o].sender = r.sender /\ ses[o].receiver = r.receiver
      /\ o # s => conn[o] \notin Unbound
      /\ r.sender = None
  BY RegistrationFacts DEF RegisterOverLimit
<1>2. /\ conn' = [conn EXCEPT ![s] = "closing"] /\ reply' = Told(conn, {s}, "error")
      /\ UNCHANGED <<up, hdr, inFlight>>
      /\ IF r.receiver = None
         THEN /\ sessions' = [sessions EXCEPT ![h.id] = None]
              /\ ses' = [ses EXCEPT ![o] = q]
         ELSE UNCHANGED <<sessions, ses>>
  BY DEF RegisterOverLimit, Refuse
<1>3. /\ TypeOK /\ InFlightBounded /\ hdr \in [Sockets -> Headers \cup {None}]
      /\ \A x \in Sockets : RecOK(ses[x], hdr)
  BY DEF IndInv, SessionsOK, TypeOK
<1>4. /\ RecOK(q, hdr) /\ q.id = h.id /\ q.state = "PAIRING" /\ q.timers = {}
  BY <1>1, <1>3, ReleasedOK
<1> HIDE DEF o, r, q
<1>5. /\ conn' \in [Sockets -> ConnStates] /\ reply' \in [Sockets -> Replies]
      /\ up' \in BOOLEAN /\ hdr' \in [Sockets -> Headers \cup {None}]
      /\ inFlight' \in Nat /\ inFlight' <= MaxInFlight
  BY <1>2, <1>3, ToldOK DEF TypeOK, ConnStates, InFlightBounded
<1>6. /\ \A x \in Sockets : reply'[x] = "ack" => reply[x] = "ack"
      /\ \A x \in Sockets : conn'[x] = "bound" => conn[x] = "bound"
      /\ \A x \in Sockets : conn'[x] \in Unbound => conn[x] \in Unbound /\ x # o
  BY <1>1, <1>2, <1>3, ToldOK DEF TypeOK, Unbound
<1>7. CASE r.receiver = None
  <2>1. /\ sessions' = [sessions EXCEPT ![q.id] = None]
        /\ ses' = [ses EXCEPT ![o] = q] /\ hdr' = hdr
    BY <1>2, <1>4, <1>7
  <2>2. \A x \in Sockets : x \notin {ses[o].sender, ses[o].receiver}
    BY <1>1, <1>7, RelayConstants
  <2>3. None # o
    BY <1>1, RelayConstants
  <2>4. UpdateStep(o, q, None)
    BY <1>1, <1>3, <1>4, <1>5, <1>6, <2>1, <2>2, <2>3 DEF UpdateStep
  <2> QED BY <1>1, <2>4, UpdateInv
<1>8. CASE r.receiver # None
  BY <1>2, <1>5, <1>6, <1>8, ConnInv
<1> QED BY <1>7, <1>8

(* Binding an unregistered socket leaves what is known of a session.         *)
LEMMA HdrExtend ==
    ASSUME NEW H \in [Sockets -> Headers \cup {None}], NEW s \in Sockets, NEW h \in Headers,
           H[s] = None, NEW r, RecOK(r, H)
    PROVE  RecOK(r, [H EXCEPT ![s] = h])
<1>1. r.sender \in Sockets \cup {None} /\ r.receiver \in Sockets \cup {None}
  BY DEF RecOK, SessionType
<1>2. /\ r.sender # None => r.sender # s /\ [H EXCEPT ![s] = h][r.sender] = H[r.sender]
      /\ r.receiver # None => r.receiver # s /\ [H EXCEPT ![s] = h][r.receiver] = H[r.receiver]
  BY <1>1 DEF RecOK, PartyOK
<1> DEFINE G == [H EXCEPT ![s] = h]
<1> HIDE DEF G
<1>3. /\ r.sender # None => G[r.sender] = H[r.sender]
      /\ r.receiver # None => G[r.receiver] = H[r.receiver]
  BY <1>2 DEF G
<1>4. RecOK(r, G)
  BY <1>3 DEF RecOK, PartyOK, PairOK
<1> QED BY <1>4 DEF G

(* The end of a registration: s has joined session r, with b bytes in        *)
(* flight.                                                                   *)
LEMMA JoinInv ==
    ASSUME IndInv, NEW s \in Sockets, NEW h \in Headers, Registers(s), Admitted(h),
           NEW r, NEW b \in Nat, b <= MaxInFlight, Join(s, h, r, b),
           RecOK(r, [hdr EXCEPT ![s] = h]), r.state = "PAIRING", r.id = h.id,
           r.timers = {"pairing"}, s \in {r.sender, r.receiver},
           ses[Owner(s, h)].sender \in {None, r.sender},
           ses[Owner(s, h)].receiver \in {None, r.receiver}
    PROVE  IndInv'
<1> DEFINE o == Owner(s, h)
           c == [conn EXCEPT ![s] = IF conn[s] = "header" THEN "bound" ELSE "closing"]
           hs == [hdr EXCEPT ![s] = h]
           both == r.sender # None /\ r.receiver # None
           snd == hs[r.sender]
           rcv == hs[r.receiver]
           mismatch == snd.source # rcv.target \/ snd.target # rcv.source
           m == [ses EXCEPT ![o] = r]
<1>1. /\ o \in Sockets /\ h.id \in Ids /\ sessions[h.id] \in {o, None}
      /\ sessions[h.id] = None => ses[o].state = "absent"
      /\ o # s => conn[o] \notin Unbound
      /\ hdr[s] = None
  BY RegistrationFacts
<1>2. TypeOK /\ SessionsOK
  BY DEF IndInv
<1>3. /\ hs \in [Sockets -> Headers \cup {None}]
      /\ \A x \in Sockets : RecOK(ses[x], hs)
      /\ \A x \in Sockets \ {s} : hs[x] = hdr[x]
  BY <1>1, <1>2, HdrExtend DEF TypeOK, SessionsOK
<1>4. /\ c \in [Sockets -> ConnStates]
      /\ \A x \in Sockets : c[x] = "bound" => conn[x] = "bound" \/ x = s
      /\ \A x \in Sockets : c[x] \in Unbound => conn[x] = c[x] /\ x # s
  BY <1>2 DEF TypeOK, ConnStates, Unbound
<1>5. \A x \in Sockets : c[x] \in Unbound => x # o /\ hs[x] = hdr[x]
  <2> HIDE DEF o, c, hs
  <2> QED BY <1>1, <1>3, <1>4
<1>6. hdr' = hs /\ up' = up
  BY DEF Join
<1>7. CASE both /\ (mismatch \/ r.extra > snd.size)
  <2>1. TearDown(o, m, c, b)
    BY <1>7 DEF Join
  <2>2. /\ m \in [Sockets -> SessionType] /\ m[o] = r
        /\ \A x \in Sockets \ {o} : m[x] = ses[x]
    BY <1>1, <1>2 DEF TypeOK, RecOK
  <2>3. \A x \in Sockets : RecOK(m[x], hdr')
    <3> HIDE DEF m, o
    <3> QED BY <1>3, <1>6, <2>2
  <2>4. up' \in BOOLEAN /\ hdr' \in [Sockets -> Headers \cup {None}]
    BY <1>2, <1>3, <1>6 DEF TypeOK
  <2> HIDE DEF m, o, c, hs
  <2>5. TearDownStep(o, m, c, b)
    BY <1>1, <1>4, <1>5, <1>6, <2>1, <2>2, <2>3, <2>4 DEF TearDownStep, o
  <2> QED BY <1>1, <2>5, TearDownInv
<1>8. CASE ~(both /\ (mismatch \/ r.extra > snd.size))
  <2>1. PICK full \in BOOLEAN :
           ses' = [ses EXCEPT ![o] = IF both THEN Started(r, snd.size, full) ELSE r]
    BY <1>8 DEF Join
  <2>2. /\ sessions' = [sessions EXCEPT ![h.id] = o]
        /\ inFlight' = b /\ conn' = c
        /\ reply' = [t \in Sockets |->
              CASE both /\ t = r.sender /\ Open(c, t) -> "ready"
                [] t = s /\ s = r.receiver /\ Open(c, t) -> "registered"
                [] OTHER -> reply[t]]
    BY <1>8 DEF Join
  <2>3. /\ reply' \in [Sockets -> Replies]
        /\ \A x \in Sockets : reply'[x] = "ack" => reply[x] = "ack"
    <3> HIDE DEF both, c
    <3> QED BY <1>2, <2>2 DEF TypeOK, Replies
  <2> DEFINE q == IF both THEN Started(r, snd.size, full) ELSE r
  <2>4. /\ RecOK(q, hs) /\ q.id = h.id /\ q.state \in Active
        /\ q.sender = r.sender /\ q.receiver = r.receiver
        /\ q.timers = IF q.state = "PAIRING" THEN {"pairing"} ELSE {"stall", "deadline"}
        /\ q.state = "TRANSFERRING" => q.wake # {}
    <3>1. CASE both
      <4>1. /\ r \in SessionType /\ r.sender \in Sockets
            /\ snd \in Headers /\ rcv # None
        BY <1>3, <3>1 DEF RecOK, PartyOK, SessionType
      <4>2. snd.size \in Nat /\ r.extra \in Nat
        BY <4>1, RelayConstants DEF HeaderType, SessionType
      <4>3. r.extra <= snd.size /\ snd.source = rcv.target /\ snd.target = rcv.source
        BY <1>8, <3>1, <4>2
      <4> HIDE DEF hs
      <4>4. q = Started(r, snd.size, full)
        BY <3>1
      <4> HIDE DEF q
      <4>5. RecOK(r, hs)
        BY DEF hs
      <4>6. /\ RecOK(q, hs) /\ q.id = r.id /\ q.state \in {"TRANSFERRING", "WAIT_ACK"}
            /\ q.timers = {"stall", "deadline"} /\ q.sender = r.sender
            /\ q.receiver = r.receiver /\ (q.state = "TRANSFERRING" => q.wake # {})
        <5> DEFINE size == snd.size
        <5>1. size \in Nat /\ r.extra <= size /\ hs[r.sender].size = size
          BY <4>2, <4>3
        <5>2. q = Started(r, size, full)
          BY <4>4
        <5> HIDE DEF size
        <5> QED BY <1>3, <3>1, <4>3, <4>5, <5>1, <5>2, StartedOK
      <4> QED BY <4>6 DEF Active
    <3>2. CASE ~both
      BY <3>2 DEF Active
    <3> QED BY <3>1, <3>2
  <2>5. up' \in BOOLEAN /\ hdr' \in [Sockets -> Headers \cup {None}]
    BY <1>2, <1>3, <1>6 DEF TypeOK
  <2> HIDE DEF q, o, c, hs
  <2>6. \A x \in Sockets : conn'[x] = "bound" =>
           \/ x \in {q.sender, q.receiver}
           \/ conn[x] = "bound" /\ x \notin {ses[o].sender, ses[o].receiver}
    BY <1>1, <1>4, <2>2, <2>4, RelayConstants DEF o
  <2>7. UpdateStep(o, q, o)
    BY <1>1, <1>3, <1>4, <1>5, <1>6, <2>1, <2>2, <2>3, <2>4, <2>5, <2>6 DEF UpdateStep, q
  <2> QED BY <1>1, <2>7, UpdateInv
<1> QED BY <1>7, <1>8

(* A receiver joins a session with its id and ticket.                        *)
LEMMA ReceiverJoins ==
    ASSUME NEW H \in [Sockets -> Headers \cup {None}], NEW s \in Sockets, NEW r, RecOK(r, H),
           H[s] # None, H[s].id = r.id, H[s].token = r.token, H[s].role = "receiver",
           r.state = "PAIRING"
    PROVE  LET q == [r EXCEPT !.receiver = s]
           IN /\ RecOK(q, H) /\ q.id = r.id /\ q.state = r.state /\ q.timers = r.timers
              /\ q.sender = r.sender /\ q.receiver = s
<1> DEFINE q == [r EXCEPT !.receiver = s]
<1>1. q \in SessionType
  BY DEF RecOK, SessionType
<1>2. /\ q.id = r.id /\ q.state = r.state /\ q.timers = r.timers /\ q.token = r.token
      /\ q.sender = r.sender /\ q.receiver = s /\ q.received = r.received
      /\ q.taken = r.taken /\ q.extra = r.extra /\ q.ackWait = r.ackWait
  BY DEF RecOK, SessionType
<1> HIDE DEF q
<1>3. RecOK(q, H)
  BY <1>1, <1>2 DEF RecOK, PartyOK
<1> QED BY <1>2, <1>3 DEF q

(* A sender joins a session with its id and ticket.                          *)
LEMMA SenderJoins ==
    ASSUME NEW H \in [Sockets -> Headers \cup {None}], NEW s \in Sockets, NEW r, RecOK(r, H),
           H[s] # None, H[s].id = r.id, H[s].token = r.token, H[s].role = "sender",
           r.state = "PAIRING", NEW n \in Nat, NEW size \in Nat
    PROVE  LET q == WithSender(r, s, n, size)
           IN /\ RecOK(q, H) /\ q.id = r.id /\ q.state = r.state /\ q.timers = r.timers
              /\ q.receiver = r.receiver /\ q.sender = s
<1> DEFINE q == WithSender(r, s, n, size)
<1>1. q \in SessionType
  BY DEF RecOK, SessionType, WithSender
<1>2. /\ q.id = r.id /\ q.state = r.state /\ q.timers = r.timers /\ q.token = r.token
      /\ q.receiver = r.receiver /\ q.sender = s /\ q.received = r.received
      /\ q.taken = n /\ q.extra = n /\ q.ackWait = r.ackWait
  BY DEF RecOK, SessionType, WithSender
<1> HIDE DEF q
<1>3. RecOK(q, H)
  BY <1>1, <1>2 DEF RecOK, PartyOK
<1> QED BY <1>2, <1>3 DEF q

(* A successful registration keeps the invariant.                            *)
LEMMA RegisterInv ==
    ASSUME IndInv, NEW s \in Sockets, NEW h \in Headers, NEW n \in 0..MaxChunk,
           RegisterReceiver(s, h) \/ RegisterSender(s, h, n)
    PROVE  IndInv'
<1> DEFINE o == Owner(s, h)
           r == SessionFor(h)
           hs == [hdr EXCEPT ![s] = h]
<1>1. Registers(s) /\ Admitted(h)
  BY DEF RegisterReceiver, RegisterSender
<1>2. /\ RecOK(r, hdr) /\ r.id = h.id /\ r.token = h.token /\ r.state = "PAIRING"
      /\ r.timers = {"pairing"}
      /\ ses[o].sender = r.sender /\ ses[o].receiver = r.receiver
      /\ hdr[s] = None
  BY <1>1, RegistrationFacts
<1>3. /\ TypeOK /\ inFlight <= MaxInFlight /\ hdr \in [Sockets -> Headers \cup {None}]
  BY DEF IndInv, TypeOK, InFlightBounded
<1>4. /\ hs \in [Sockets -> Headers \cup {None}] /\ hs[s] = h /\ h # None /\ h.size \in Nat
      /\ inFlight \in Nat
  BY <1>3, RelayConstants DEF TypeOK, HeaderType
<1>5. RecOK(r, hs)
  BY <1>2, <1>3, HdrExtend
<1> HIDE DEF r, hs
<1>6. CASE RegisterReceiver(s, h)
  <2> DEFINE q == [r EXCEPT !.receiver = s]
  <2>1. Join(s, h, q, inFlight) /\ h.role = "receiver" /\ r.receiver = None
    BY <1>6 DEF RegisterReceiver, r
  <2>2. /\ RecOK(q, hs) /\ q.id = r.id /\ q.state = r.state /\ q.timers = r.timers
        /\ q.sender = r.sender /\ q.receiver = s
    BY <1>2, <1>4, <1>5, <2>1, ReceiverJoins
  <2> HIDE DEF q
  <2> QED BY <1>1, <1>2, <1>3, <1>4, <2>1, <2>2, JoinInv DEF hs
<1>7. CASE RegisterSender(s, h, n)
  <2> DEFINE q == WithSender(r, s, n, h.size)
             b == inFlight + h.size
  <2>1. /\ Join(s, h, q, b) /\ h.role = "sender" /\ r.sender = None
        /\ inFlight + h.size <= MaxInFlight
    BY <1>7 DEF RegisterSender, r
  <2>2. n \in Nat /\ b \in Nat
    BY <1>4, RelayConstants
  <2>3. /\ RecOK(q, hs) /\ q.id = r.id /\ q.state = r.state /\ q.timers = r.timers
        /\ q.receiver = r.receiver /\ q.sender = s
    <3>1. /\ hs[s] # None /\ hs[s].id = r.id /\ hs[s].token = r.token
          /\ hs[s].role = "sender" /\ r.state = "PAIRING"
      BY <1>2, <1>4, <2>1
    <3> QED BY <1>4, <1>5, <2>2, <3>1, SenderJoins
  <2>4. b <= MaxInFlight
    BY <2>1
  <2> HIDE DEF q, b
  <2> QED BY <1>1, <1>2, <2>1, <2>2, <2>3, <2>4, JoinInv DEF hs
<1> QED BY <1>6, <1>7

(* A session in the map is active, is not of an unregistered socket, and its *)
(* id is one of the relay's.                                                 *)
LEMMA InMapFacts ==
    ASSUME IndInv, NEW o \in Sockets, InMap(o)
    PROVE  /\ ses[o].id \in Ids /\ sessions[ses[o].id] = o
           /\ ses[o].state \in Active /\ conn[o] \notin Unbound
           /\ RecOK(ses[o], hdr)
<1> USE DEF IndInv
<1>1. ses[o].id \in Ids /\ sessions[ses[o].id] = o
  BY DEF InMap, TypeOK, SessionType
<1>2. ses[o].state \in Active
  BY <1>1, RelayConstants DEF Placed
<1>3. conn[o] \notin Unbound
  BY <1>2 DEF Unregistered, Active, NoSession
<1> QED BY <1>1, <1>2, <1>3 DEF SessionsOK

(* A chunk of the sender keeps the invariant.                                *)
LEMMA SenderDataInv ==
    ASSUME IndInv, NEW o \in Sockets, NEW n \in 1..MaxChunk, NEW full \in BOOLEAN,
           SenderData(o, n, full)
    PROVE  IndInv'
<1>1. InMap(o) /\ ses[o].state = "TRANSFERRING" /\ ~ses[o].paused /\ up' = up /\ hdr' = hdr
  BY DEF SenderData
<1>2. /\ ses[o].id \in Ids /\ sessions[ses[o].id] = o /\ conn[o] \notin Unbound
      /\ RecOK(ses[o], hdr)
  BY <1>1, InMapFacts
<1>3. /\ TypeOK /\ inFlight \in Nat /\ inFlight <= MaxInFlight
      /\ hdr \in [Sockets -> Headers \cup {None}] /\ ses \in [Sockets -> SessionType]
      /\ conn \in [Sockets -> ConnStates] /\ up \in BOOLEAN
      /\ \A x \in Sockets : RecOK(ses[x], hdr)
      /\ None \notin Sockets /\ MaxChunk \in Nat
  BY RelayConstants DEF IndInv, TypeOK, SessionsOK, InFlightBounded
<1>4. CASE n > ses[o].remaining
  <2>1. TearDownStep(o, ses, conn, inFlight)
    BY <1>1, <1>2, <1>3, <1>4 DEF SenderData, TearDownStep
  <2> QED BY <2>1, TearDownInv
<1>5. CASE ~(n > ses[o].remaining)
  <2> DEFINE r == ses[o]
             q == Consumed([r EXCEPT !.taken = @ + n], n, full)
  <2>1. ses' = [ses EXCEPT ![o] = q] /\ UNCHANGED <<conn, reply, sessions, inFlight>>
    BY <1>5 DEF SenderData
  <2>2. n \in Nat /\ n <= ses[o].remaining
    BY <1>2, <1>3, <1>5 DEF RecOK, SessionType
  <2>3. /\ RecOK(q, hdr) /\ q.id = ses[o].id
        /\ q.sender = ses[o].sender /\ q.receiver = ses[o].receiver
        /\ q.state \in {"TRANSFERRING", "WAIT_ACK"}
        /\ q.timers = ses[o].timers \cup (IF q.state = "WAIT_ACK" THEN {"stall"} ELSE {})
        /\ q.state = "TRANSFERRING" /\ q.paused => q.wake # {}
    <3>1. RecOK(r, hdr) /\ r.state = "TRANSFERRING" /\ n <= r.remaining /\ ~r.paused
      BY <1>1, <1>2, <2>2
    <3> HIDE DEF r
    <3>2. /\ RecOK(q, hdr) /\ q.id = r.id /\ q.sender = r.sender /\ q.receiver = r.receiver
          /\ q.state \in {"TRANSFERRING", "WAIT_ACK"}
          /\ q.timers = r.timers \cup (IF q.state = "WAIT_ACK" THEN {"stall"} ELSE {})
          /\ q.state = "TRANSFERRING" /\ q.paused => q.wake # {}
      BY <1>3, <2>2, <3>1, ConsumedOK
    <3> QED BY <3>2 DEF r
  <2> HIDE DEF q
  <2>4. q.timers = {"stall", "deadline"}
    BY <1>1, <2>3 DEF IndInv, TimersMatchPhase
  <2>5. sessions' = [sessions EXCEPT ![q.id] = o]
    BY <1>2, <1>3, <2>1, <2>3 DEF TypeOK
  <2>6. reply' \in [Sockets -> Replies] /\ conn' = conn /\ inFlight' = inFlight /\ reply' = reply
    BY <1>3, <2>1 DEF TypeOK
  <2>7. UpdateStep(o, q, o)
    BY <1>1, <1>2, <1>3, <2>1, <2>3, <2>4, <2>5, <2>6 DEF UpdateStep, Active
  <2> QED BY <2>7, UpdateInv
<1> QED BY <1>4, <1>5

(* The wake-up callbacks touch nothing but the pause flag and themselves.    *)
LEMMA WokenOK ==
    ASSUME NEW r \in SessionType, NEW cb, NEW flows
    PROVE  LET q == Woken(r, cb, flows)
           IN /\ q \in SessionType /\ q.id = r.id /\ q.state = r.state /\ q.timers = r.timers
              /\ q.sender = r.sender /\ q.receiver = r.receiver /\ q.token = r.token
              /\ q.received = r.received /\ q.taken = r.taken /\ q.extra = r.extra
              /\ q.remaining = r.remaining /\ q.ackWait = r.ackWait /\ q.overrun = r.overrun
              /\ flows => ~q.paused
<1>1. CASE flows
  BY <1>1 DEF Woken, SessionType
<1>2. CASE ~flows
  BY <1>2 DEF Woken, SessionType
<1> QED BY <1>1, <1>2

(* The drain and setImmediate callbacks keep the invariant, late ones        *)
(* included.                                                                 *)
LEMMA ResumeSenderInv ==
    ASSUME IndInv, NEW o \in Sockets, NEW cb \in {"immediate", "drain"}, ResumeSender(o, cb)
    PROVE  IndInv'
<1> DEFINE r == ses[o]
           flows == InMap(o) /\ ses[o].state = "TRANSFERRING"
           q == Woken(r, cb, flows)
<1>1. /\ ses' = [ses EXCEPT ![o] = q] /\ UNCHANGED <<up, conn, hdr, reply, sessions, inFlight>>
      /\ cb \in ses[o].wake
  BY DEF ResumeSender
<1>2. RecOK(r, hdr) /\ r \in SessionType
  BY DEF IndInv, SessionsOK, RecOK
<1>3. conn[o] \notin Unbound
  BY <1>1 DEF IndInv, Unregistered, NoSession
<1> HIDE DEF r
<1>4. /\ q \in SessionType /\ q.id = r.id /\ q.state = r.state /\ q.timers = r.timers
      /\ q.sender = r.sender /\ q.receiver = r.receiver /\ q.token = r.token
      /\ q.received = r.received /\ q.taken = r.taken /\ q.extra = r.extra
      /\ q.remaining = r.remaining /\ q.ackWait = r.ackWait /\ q.overrun = r.overrun
      /\ flows => ~q.paused
  <2> HIDE DEF flows
  <2> QED BY <1>2, WokenOK
<1> HIDE DEF q
<1>5. RecOK(q, hdr)
  BY <1>2, <1>4 DEF RecOK, PartyOK, PairOK
<1>6. FlagStep(o, q)
  BY <1>1, <1>3, <1>4, <1>5 DEF FlagStep, r
<1> QED BY <1>6, FlagInv

(* destroySession(i) by a callback that consumed a listener of session o     *)
(* (q is o without it), or by one that touched connections only.             *)
LEMMA DestroyInv ==
    ASSUME IndInv, NEW i \in Ids, NEW o \in Sockets, NEW q, NEW c,
           DestroySession(i, [ses EXCEPT ![o] = q], c), UNCHANGED <<up, hdr>>,
           RecOK(q, hdr), SameSession(q, ses[o]),
           c \in [Sockets -> ConnStates],
           (c = conn /\ conn[o] \notin Unbound) \/ q = ses[o],
           \A s \in Sockets : c[s] = "bound" => conn[s] = "bound",
           \A s \in Sockets : c[s] \in Unbound => conn[s] = c[s]
    PROVE  IndInv'
<1> DEFINE m == [ses EXCEPT ![o] = q]
<1>1. /\ TypeOK /\ inFlight \in Nat /\ inFlight <= MaxInFlight
      /\ hdr \in [Sockets -> Headers \cup {None}] /\ ses \in [Sockets -> SessionType]
      /\ up \in BOOLEAN /\ reply \in [Sockets -> Replies]
      /\ \A x \in Sockets : RecOK(ses[x], hdr)
  BY DEF IndInv, TypeOK, SessionsOK, InFlightBounded
<1>2. /\ m \in [Sockets -> SessionType] /\ m[o] = q
      /\ \A x \in Sockets \ {o} : m[x] = ses[x]
  BY <1>1 DEF RecOK
<1>3. CASE sessions[i] = None
  <2>1. conn' = c /\ ses' = m /\ UNCHANGED <<sessions, inFlight, reply>>
    BY <1>3 DEF DestroySession
  <2>2. CASE q = ses[o]
    <3>1. ses' = ses
      BY <1>1, <2>1, <2>2
    <3> QED BY <1>1, <2>1, <3>1, ConnInv
  <2>3. CASE c = conn /\ conn[o] \notin Unbound
    <3>1. InMap(o) /\ q.state = "TRANSFERRING" /\ q.paused => q.wake # {}
      BY DEF IndInv, NoWedgedSender, SameSession
    <3>2. FlagStep(o, q)
      BY <2>1, <2>3, <3>1 DEF FlagStep, SameSession
    <3> QED BY <3>2, FlagInv
  <2> QED BY <2>2, <2>3
<1>4. CASE sessions[i] # None
  <2> DEFINE k == sessions[i]
  <2>1. TearDown(k, m, c, inFlight)
    BY <1>4 DEF DestroySession
  <2>2. k \in Sockets /\ ses[k].id = i /\ ses[k].state \in Active
    BY <1>1, <1>4 DEF IndInv, Placed, TypeOK
  <2>3. conn[k] \notin Unbound
    BY <2>2 DEF IndInv, Unregistered, Active, NoSession
  <2> HIDE DEF m
  <2>4. /\ m[k].id = i /\ m[k].sender = ses[k].sender /\ m[k].receiver = ses[k].receiver
    BY <1>2, <2>2 DEF SameSession
  <2>5. \A x \in Sockets : RecOK(m[x], hdr)
    BY <1>1, <1>2
  <2>6. \A x \in Sockets \ {k} :
           m[x] # ses[x] => conn[x] \notin Unbound /\ SameSession(m[x], ses[x])
    BY <1>2
  <2>7. sessions[m[k].id] = k /\ k # None
    BY <1>4, <2>4
  <2> HIDE DEF k
  <2>8. TearDownStep(k, m, c, inFlight)
    BY <1>1, <1>2, <2>1, <2>2, <2>3, <2>4, <2>5, <2>6, <2>7 DEF TearDownStep
  <2> QED BY <2>2, <2>8, TearDownInv
<1> QED BY <1>3, <1>4

(* Dropping a one-shot listener of a session.                                *)
LEMMA ListenerOK ==
    ASSUME NEW H, NEW r, RecOK(r, H)
    PROVE  /\ RecOK([r EXCEPT !.overrun = FALSE], H)
           /\ SameSession([r EXCEPT !.overrun = FALSE], r)
           /\ RecOK([r EXCEPT !.ackWait = FALSE], H)
           /\ SameSession([r EXCEPT !.ackWait = FALSE], r)
<1>1. RecOK([r EXCEPT !.overrun = FALSE], H)
  BY DEF RecOK, PartyOK, PairOK, SessionType
<1>2. RecOK([r EXCEPT !.ackWait = FALSE], H)
  BY DEF RecOK, PartyOK, PairOK, SessionType
<1>3. /\ SameSession([r EXCEPT !.overrun = FALSE], r)
      /\ SameSession([r EXCEPT !.ackWait = FALSE], r)
  BY DEF RecOK, SameSession, SessionType
<1> QED BY <1>1, <1>2, <1>3

(* An overrun of the sender or a missing ACK, late ones included, keeps the  *)
(* invariant.                                                                *)
LEMMA CallbackInv ==
    ASSUME IndInv, NEW o \in Sockets, SenderOverrun(o) \/ ReceiverNoAck(o)
    PROVE  IndInv'
<1>1. RecOK(ses[o], hdr) /\ conn \in [Sockets -> ConnStates] /\ TypeOK
  BY DEF IndInv, SessionsOK, TypeOK
<1>2. ses[o].overrun \/ ses[o].ackWait
  BY DEF SenderOverrun, ReceiverNoAck
<1>3. conn[o] \notin Unbound
  BY <1>2 DEF IndInv, Unregistered, NoSession
<1>4. CASE SenderOverrun(o)
  <2> DEFINE q == [ses[o] EXCEPT !.overrun = FALSE]
  <2>1. DestroySession(ses[o].id, [ses EXCEPT ![o] = q], conn) /\ UNCHANGED <<up, hdr>>
    BY <1>4 DEF SenderOverrun
  <2>2. RecOK(q, hdr) /\ SameSession(q, ses[o])
    BY <1>1, ListenerOK
  <2>3. ses[o].id \in Ids
    BY <1>1, <1>2 DEF RecOK
  <2> HIDE DEF q
  <2> QED BY <1>1, <1>3, <2>1, <2>2, <2>3, DestroyInv
<1>5. CASE ReceiverNoAck(o)
  <2> DEFINE q == [ses[o] EXCEPT !.ackWait = FALSE]
  <2>1. DestroySession(ses[o].id, [ses EXCEPT ![o] = q], conn) /\ UNCHANGED <<up, hdr>>
    BY <1>5 DEF ReceiverNoAck
  <2>2. RecOK(q, hdr) /\ SameSession(q, ses[o])
    BY <1>1, ListenerOK
  <2>3. ses[o].id \in Ids
    BY <1>1, <1>2 DEF RecOK
  <2> HIDE DEF q
  <2> QED BY <1>1, <1>3, <2>1, <2>2, <2>3, DestroyInv
<1> QED BY <1>4, <1>5

(* A timer that fires keeps the invariant.                                   *)
LEMMA TimerInv ==
    ASSUME IndInv, NEW o \in Sockets, NEW k, TimerFires(o, k)
    PROVE  IndInv'
<1> DEFINE q == [ses[o] EXCEPT !.timers = @ \ {k}]
           m == [ses EXCEPT ![o] = q]
<1>1. k \in ses[o].timers /\ DestroySession(ses[o].id, m, conn) /\ UNCHANGED <<up, hdr>>
  BY DEF TimerFires
<1>2. InMap(o)
  BY <1>1 DEF IndInv, TimersMatchPhase
<1>3. /\ ses[o].id \in Ids /\ sessions[ses[o].id] = o
      /\ conn[o] \notin Unbound /\ RecOK(ses[o], hdr)
  BY <1>2, InMapFacts
<1>4. /\ TypeOK /\ inFlight \in Nat /\ inFlight <= MaxInFlight
      /\ hdr \in [Sockets -> Headers \cup {None}] /\ ses \in [Sockets -> SessionType]
      /\ conn \in [Sockets -> ConnStates] /\ up \in BOOLEAN
      /\ \A x \in Sockets : RecOK(ses[x], hdr)
      /\ None \notin Sockets
  BY RelayConstants DEF IndInv, TypeOK, SessionsOK, InFlightBounded
<1>5. TearDown(o, m, conn, inFlight)
  BY <1>1, <1>3, <1>4 DEF DestroySession
<1>6. /\ RecOK(q, hdr) /\ q.id = ses[o].id /\ q.sender = ses[o].sender
      /\ q.receiver = ses[o].receiver
  BY <1>3 DEF RecOK, PartyOK, PairOK, SessionType
<1> HIDE DEF q
<1>7. /\ m \in [Sockets -> SessionType] /\ m[o] = q
      /\ \A x \in Sockets \ {o} : m[x] = ses[x]
  BY <1>4, <1>6 DEF RecOK
<1> HIDE DEF m
<1>8. TearDownStep(o, m, conn, inFlight)
  BY <1>1, <1>3, <1>4, <1>5, <1>6, <1>7 DEF TearDownStep
<1> QED BY <1>8, TearDownInv

(* An error or the end of a connection keeps the invariant, even when its    *)
(* session is gone.                                                          *)
LEMMA SocketInv ==
    ASSUME IndInv, NEW s \in Sockets, SocketError(s) \/ SocketClose(s)
    PROVE  IndInv'
<1>1. PICK k \in {"closing", "closed"} :
         LET c == [conn EXCEPT ![s] = k]
         IN /\ IF hdr[s] = None
               THEN conn' = c /\ UNCHANGED <<reply, sessions, ses, inFlight>>
               ELSE DestroySession(hdr[s].id, ses, c)
            /\ UNCHANGED <<up, hdr>>
  BY DEF SocketError, SocketClose
<1> DEFINE c == [conn EXCEPT ![s] = k]
<1>2. /\ TypeOK /\ ses \in [Sockets -> SessionType] /\ reply \in [Sockets -> Replies]
      /\ up \in BOOLEAN /\ RecOK(ses[s], hdr)
  BY DEF IndInv, TypeOK, SessionsOK
<1>3. /\ c \in [Sockets -> ConnStates]
      /\ \A x \in Sockets : c[x] = "bound" => conn[x] = "bound"
      /\ \A x \in Sockets : c[x] \in Unbound => conn[x] = c[x]
  BY <1>2 DEF TypeOK, ConnStates, Unbound
<1>4. CASE hdr[s] = None
  <2>1. /\ conn' = c /\ UNCHANGED <<reply, sessions, ses, inFlight>> /\ UNCHANGED <<up, hdr>>
    BY <1>1, <1>4
  <2> HIDE DEF c
  <2> QED BY <1>2, <1>3, <2>1, ConnInv
<1>5. CASE hdr[s] # None
  <2>1. hdr[s].id \in Ids
    BY <1>2, <1>5, RelayConstants DEF TypeOK, HeaderType
  <2> DEFINE q == ses[s]
  <2>2. [ses EXCEPT ![s] = q] = ses
    BY <1>2
  <2>3. DestroySession(hdr[s].id, [ses EXCEPT ![s] = q], c) /\ UNCHANGED <<up, hdr>>
    BY <1>1, <1>5, <2>2
  <2>4. SameSession(q, ses[s])
    BY DEF SameSession
  <2>5. RecOK(q, hdr) /\ q = ses[s]
    BY <1>2
  <2> HIDE DEF c, q
  <2> QED BY <1>3, <2>1, <2>3, <2>4, <2>5, DestroyInv
<1> QED BY <1>4, <1>5

(* A released session that ends as DONE, from WAIT_ACK.                      *)
LEMMA DoneOK ==
    ASSUME NEW H \in [Sockets -> Headers \cup {None}], NEW r, RecOK(r, H), r.state = "WAIT_ACK"
    PROVE  LET q == [Released([r EXCEPT !.ackWait = FALSE]) EXCEPT !.state = "DONE"]
           IN /\ RecOK(q, H) /\ q.id = r.id /\ q.state = "DONE" /\ q.timers = {}
              /\ q.sender = r.sender /\ q.receiver = r.receiver
<1> DEFINE q == [Released([r EXCEPT !.ackWait = FALSE]) EXCEPT !.state = "DONE"]
<1>1. q \in SessionType
  BY DEF RecOK, Released, SessionType, SessionStates
<1>2. /\ q.id = r.id /\ q.token = r.token /\ q.sender = r.sender /\ q.receiver = r.receiver
      /\ q.state = "DONE" /\ q.timers = {} /\ q.taken = r.taken /\ q.received = r.received
      /\ q.remaining = r.remaining
  BY DEF RecOK, Released, SessionType
<1> HIDE DEF q
<1>3. RecOK(q, H)
  BY <1>1, <1>2 DEF RecOK, PartyOK, PairOK
<1> QED BY <1>2, <1>3 DEF q

(* The receiver's ACK line, good or bad, keeps the invariant.                *)
LEMMA ReceiverAckInv ==
    ASSUME IndInv, NEW o \in Sockets, NEW good \in BOOLEAN, ReceiverAck(o, good)
    PROVE  IndInv'
<1> DEFINE f == [ses[o] EXCEPT !.ackWait = FALSE]
           m == [ses EXCEPT ![o] = f]
           snd == ses[o].sender
           rcv == ses[o].receiver
<1>1. ses[o].ackWait /\ UNCHANGED <<up, hdr>>
  BY DEF ReceiverAck
<1>2. /\ TypeOK /\ inFlight \in Nat /\ inFlight <= MaxInFlight
      /\ hdr \in [Sockets -> Headers \cup {None}] /\ ses \in [Sockets -> SessionType]
      /\ conn \in [Sockets -> ConnStates] /\ up \in BOOLEAN /\ reply \in [Sockets -> Replies]
      /\ \A x \in Sockets : RecOK(ses[x], hdr)
      /\ None \notin Sockets
  BY RelayConstants DEF IndInv, TypeOK, SessionsOK, InFlightBounded
<1>3. conn[o] \notin Unbound
  BY <1>1 DEF IndInv, Unregistered, NoSession
<1>4. RecOK(f, hdr) /\ SameSession(f, ses[o])
  BY <1>2, ListenerOK
<1>5. /\ m \in [Sockets -> SessionType] /\ m[o] = f
      /\ \A x \in Sockets \ {o} : m[x] = ses[x]
  BY <1>2, <1>4 DEF RecOK
<1>6. CASE ~InMap(o)
  <2>1. ses' = m /\ UNCHANGED <<conn, reply, sessions, inFlight>>
    BY <1>6 DEF ReceiverAck
  <2> HIDE DEF f
  <2>2. FlagStep(o, f)
    BY <1>1, <1>3, <1>4, <1>6, <2>1 DEF FlagStep, SameSession
  <2> QED BY <2>2, FlagInv
<1>7. CASE InMap(o) /\ ~good
  <2>1. TearDown(o, m, conn, inFlight)
    BY <1>7 DEF ReceiverAck
  <2>2. ses[o].id \in Ids /\ sessions[ses[o].id] = o
    BY <1>7, InMapFacts
  <2> HIDE DEF f, m
  <2>3. TearDownStep(o, m, conn, inFlight)
    BY <1>1, <1>2, <1>3, <1>4, <1>5, <2>1, <2>2 DEF TearDownStep, SameSession
  <2> QED BY <2>3, TearDownInv
<1>8. CASE InMap(o) /\ good
  <2> DEFINE q == [Released(f) EXCEPT !.state = "DONE"]
  <2>1. /\ sessions' = [sessions EXCEPT ![ses[o].id] = None]
        /\ ses' = [m EXCEPT ![o] = [Released(@) EXCEPT !.state = "DONE"]]
        /\ inFlight' = Minus(inFlight, ses[o].accounted)
        /\ conn' = Ended(conn, {snd, rcv})
        /\ reply' = [Told(conn, {rcv}, "end")
                        EXCEPT ![snd] = IF Open(conn, snd) THEN "ack" ELSE @]
    BY <1>8 DEF ReceiverAck
  <2>2. ses' = [ses EXCEPT ![o] = q]
    <3> HIDE DEF f
    <3> QED BY <1>2, <1>5, <2>1
  <2>3. ses[o].id \in Ids /\ sessions[ses[o].id] = o /\ ses[o].state \in Active
    BY <1>8, InMapFacts
  <2>4. ses[o].state = "WAIT_ACK"
    BY <1>1, <1>2, <2>3 DEF RecOK, Active
  <2>5. /\ RecOK(q, hdr) /\ q.id = ses[o].id /\ q.state = "DONE" /\ q.timers = {}
        /\ q.sender = snd /\ q.receiver = rcv
    <3> DEFINE r == ses[o]
    <3>1. RecOK(r, hdr) /\ r.state = "WAIT_ACK"
      BY <1>2, <2>4
    <3>2. q = [Released([r EXCEPT !.ackWait = FALSE]) EXCEPT !.state = "DONE"]
      OBVIOUS
    <3> HIDE DEF r, q
    <3> QED BY <1>2, <3>1, <3>2, DoneOK DEF r
  <2>6. inFlight' \in Nat /\ inFlight' <= MaxInFlight
    <3>1. ses[o].accounted \in Nat
      BY <1>2 DEF SessionType
    <3>2. Minus(inFlight, ses[o].accounted) \in Nat /\ Minus(inFlight, ses[o].accounted) <= inFlight
      BY <1>2, <3>1, MinusOK
    <3> QED BY <1>2, <2>1, <3>2, RelayConstants
  <2>7. /\ conn' \in [Sockets -> ConnStates]
        /\ \A s \in Sockets : conn'[s] = "bound" => conn[s] = "bound" /\ s \notin {snd, rcv}
        /\ \A s \in Sockets : conn'[s] \in Unbound => conn[s] \in Unbound /\ s # o
    BY <1>2, <1>3, <2>1 DEF Ended, Open, ConnStates, Unbound
  <2>8. /\ reply' \in [Sockets -> Replies]
        /\ \A s \in Sockets : reply'[s] = "ack" => reply[s] = "ack" \/ s = snd
    <3>1. /\ Told(conn, {rcv}, "end") \in [Sockets -> Replies]
          /\ \A s \in Sockets : Told(conn, {rcv}, "end")[s] = "ack" => reply[s] = "ack"
      BY <1>2 DEF Told, Replies
    <3>2. "ack" \in Replies
      BY DEF Replies
    <3> QED BY <2>1, <3>1, <3>2
  <2> HIDE DEF q, snd, rcv
  <2>9. sessions' = [sessions EXCEPT ![q.id] = None] /\ None # o
    BY <1>2, <2>1, <2>5
  <2>10. UpdateStep(o, q, None)
    BY <1>1, <1>2, <2>2, <2>3, <2>5, <2>6, <2>7, <2>8, <2>9 DEF UpdateStep, snd, rcv
  <2> QED BY <2>10, UpdateInv
<1> QED BY <1>6, <1>7, <1>8

(* The shutdown of the relay keeps the invariant.                            *)
LEMMA ShutdownInv ==
    ASSUME IndInv, Shutdown
    PROVE  IndInv'
<1>1. /\ TypeOK /\ hdr \in [Sockets -> Headers \cup {None}] /\ ses \in [Sockets -> SessionType]
      /\ \A x \in Sockets : RecOK(ses[x], hdr)
      /\ None \notin Sockets
  BY RelayConstants DEF IndInv, TypeOK, SessionsOK
<1>2. /\ up' = FALSE /\ hdr' = hdr /\ sessions' = [i \in Ids |-> None] /\ inFlight' = 0
      /\ \A o \in Sockets : ses'[o] = IF InMap(o)
                                       THEN [Released(ses[o]) EXCEPT !.state = "FAILED"]
                                       ELSE ses[o]
      /\ conn' = [s \in Sockets |-> IF s \in Tracked THEN "closing" ELSE conn[s]]
  BY DEF Shutdown
<1>3. \A o \in Sockets : InMap(o) =>
         /\ RecOK(ses'[o], hdr) /\ ses'[o].state = "FAILED" /\ ses'[o].timers = {}
         /\ conn[o] \notin Unbound /\ ses[o].state \in Active
  <2> SUFFICES ASSUME NEW o \in Sockets, InMap(o)
               PROVE  /\ RecOK(ses'[o], hdr) /\ ses'[o].state = "FAILED" /\ ses'[o].timers = {}
                      /\ conn[o] \notin Unbound /\ ses[o].state \in Active
    OBVIOUS
  <2>1. ses[o].id \in Ids /\ conn[o] \notin Unbound /\ ses[o].state \in Active
    BY InMapFacts
  <2> DEFINE r == ses[o]
  <2>2. ses'[o] = [Released(r) EXCEPT !.state = "FAILED"] /\ RecOK(r, hdr) /\ r.id \in Ids
    BY <1>1, <1>2, <2>1
  <2> HIDE DEF r
  <2> QED BY <1>1, <2>1, <2>2, FailedOK
<1>4. \A o \in Sockets : ~InMap(o) => ses'[o] = ses[o] /\ ses[o].timers = {}
  BY <1>2 DEF IndInv, TimersMatchPhase
<1>5. SessionsOK'
  BY <1>1, <1>2, <1>3, <1>4 DEF SessionsOK
<1>6. /\ conn' \in [Sockets -> ConnStates]
      /\ \A s \in Sockets : conn'[s] # "bound"
      /\ \A s \in Sockets : conn'[s] \in Unbound => conn[s] \in Unbound
  BY <1>1, <1>2 DEF TypeOK, Tracked, ConnStates, Unbound
<1>7. /\ reply' \in [Sockets -> Replies]
      /\ \A s \in Sockets : reply'[s] = "ack" => reply[s] = "ack"
  <2>1. PICK S : reply' = Told(conn, S, "error")
    BY DEF Shutdown
  <2> QED BY <1>1, <2>1 DEF Told, TypeOK, Replies
<1>8. ses' \in [Sockets -> SessionType]
  <2>1. \A o \in Sockets : ses'[o] \in SessionType
    BY <1>5 DEF SessionsOK, RecOK
  <2>2. ses' = [o \in Sockets |-> ses'[o]]
    BY DEF Shutdown
  <2> QED BY <2>1, <2>2
<1>9. TypeOK'
  BY <1>1, <1>2, <1>6, <1>7, <1>8 DEF TypeOK
<1>10. Unregistered'
  BY <1>2, <1>3, <1>4, <1>6 DEF IndInv, Unregistered
<1>11. \A o \in Sockets : ~InMap(o)'
  <2> SUFFICES ASSUME NEW o \in Sockets, InMap(o)' PROVE FALSE
    OBVIOUS
  <2>1. ses'[o].id \in Ids
    BY <1>8 DEF InMap, SessionType
  <2> QED BY <1>1, <1>2, <2>1 DEF InMap
<1>12. Placed' /\ NoOrphanSocket' /\ NoWedgedSender'
  BY <1>2, <1>6, <1>11 DEF Placed, NoOrphanSocket, NoWedgedSender
<1>13. TimersMatchPhase'
  BY <1>3, <1>4, <1>11 DEF TimersMatchPhase
<1>14. Acked'
  BY <1>3, <1>4, <1>7 DEF IndInv, Acked, Active
<1>15. InFlightBounded'
  BY <1>2, RelayConstants DEF InFlightBounded
<1> QED BY <1>5, <1>9, <1>10, <1>12, <1>13, <1>14, <1>15 DEF IndInv

(* Every step keeps the invariant.                                           *)
LEMMA StepInv ==
    ASSUME IndInv, [Next]_vars
    PROVE  IndInv'
<1>1. CASE UNCHANGED vars
  <2>1. UNCHANGED <<hdr, sessions, ses, inFlight>> /\ UNCHANGED <<up, conn, reply>>
    BY <1>1 DEF vars
  <2>2. /\ up' \in BOOLEAN /\ conn' \in [Sockets -> ConnStates]
        /\ reply' \in [Sockets -> Replies]
    BY <2>1 DEF IndInv, TypeOK
  <2> QED BY <2>1, <2>2, ConnInv
<1>2. ASSUME NEW s \in Sockets, Accept(s) \/ HeaderFails(s) \/ HeaderTimeout(s)
      PROVE  IndInv'
  BY <1>2, ConnectionInv
<1>3. ASSUME NEW s \in Sockets, SocketError(s) \/ SocketClose(s) PROVE IndInv'
  BY <1>3, SocketInv
<1>4. ASSUME NEW s \in Sockets, NEW h \in Headers,
             RegisterRefused(s, h) \/ RegisterBadMetadata(s, h) \/ RegisterOverLimit(s, h)
      PROVE  IndInv'
  BY <1>4, RefusedInv, BadMetadataInv, OverLimitInv
<1>5. ASSUME NEW s \in Sockets, NEW h \in Headers, RegisterReceiver(s, h) PROVE IndInv'
  <2>1. 0 \in 0..MaxChunk
    BY RelayConstants
  <2> QED BY <1>5, <2>1, RegisterInv
<1>6. ASSUME NEW s \in Sockets, NEW h \in Headers, NEW n \in 0..MaxChunk, RegisterSender(s, h, n)
      PROVE  IndInv'
  BY <1>6, RegisterInv
<1>7. ASSUME NEW o \in Sockets, NEW n \in 1..MaxChunk, NEW full \in BOOLEAN, SenderData(o, n, full)
      PROVE  IndInv'
  BY <1>7, SenderDataInv
<1>8. ASSUME NEW o \in Sockets, NEW cb \in {"immediate", "drain"}, ResumeSender(o, cb)
      PROVE  IndInv'
  BY <1>8, ResumeSenderInv
<1>9. ASSUME NEW o \in Sockets, SenderOverrun(o) \/ ReceiverNoAck(o) PROVE IndInv'
  BY <1>9, CallbackInv
<1>10. ASSUME NEW o \in Sockets, NEW good \in BOOLEAN, ReceiverAck(o, good) PROVE IndInv'
  BY <1>10, ReceiverAckInv
<1>11. ASSUME NEW o \in Sockets, NEW k \in {"pairing", "stall", "deadline"}, TimerFires(o, k)
       PROVE  IndInv'
  BY <1>11, TimerInv
<1>12. CASE Shutdown
  BY <1>12, ShutdownInv
<1> QED BY <1>1, <1>2, <1>3, <1>4, <1>5, <1>6, <1>7, <1>8, <1>9, <1>10, <1>11, <1>12 DEF Next

-----------------------------------------------------------------------------
(* The invariant implies the properties that quantify over the parties of a  *)
(* session.                                                                  *)
LEMMA InvMatched ==
    ASSUME IndInv, NEW o \in Sockets, ses[o].state \in {"TRANSFERRING", "WAIT_ACK", "DONE"}
    PROVE  /\ Matched(o)
           /\ ses[o].received = ses[o].taken
           /\ ses[o].remaining + ses[o].received = hdr[ses[o].sender].size
           /\ ses[o].state # "TRANSFERRING" => ses[o].remaining = 0
           /\ ses[o].received \in Nat
<1>1. RecOK(ses[o], hdr) /\ ses[o] \in SessionType
  BY DEF IndInv, SessionsOK, RecOK
<1>2. PairOK(ses[o], hdr) /\ (ses[o].state # "TRANSFERRING" => ses[o].remaining = 0)
  BY <1>1 DEF RecOK
<1>3. /\ ses[o].sender \in Sockets /\ ses[o].receiver \in Sockets
      /\ PartyOK(ses[o], ses[o].sender, "sender", hdr)
      /\ PartyOK(ses[o], ses[o].receiver, "receiver", hdr)
  BY <1>1, <1>2 DEF RecOK, PairOK, SessionType
<1>4. Matched(o)
  BY <1>2, <1>3 DEF Matched, PairOK, PartyOK
<1> QED BY <1>1, <1>2, <1>4 DEF PairOK, SessionType

(* The invariant gives the two properties about the payload and the ACK.     *)
LEMMA InvImplies ==
    ASSUME IndInv
    PROVE  PayloadAccounted /\ AckMeansDelivered
<1>1. PayloadAccounted
  BY InvMatched DEF PayloadAccounted
<1>2. AckMeansDelivered
  <2> SUFFICES ASSUME NEW s \in Sockets, reply[s] = "ack"
               PROVE  \E o \in Sockets : /\ ses[o].sender = s /\ ses[o].state = "DONE"
                                         /\ Matched(o) /\ ses[o].received = hdr[s].size
    BY DEF AckMeansDelivered
  <2>1. PICK o \in Sockets : ses[o].sender = s /\ ses[o].state = "DONE"
    BY DEF IndInv, Acked
  <2>2. /\ Matched(o) /\ ses[o].received \in Nat /\ ses[o].remaining = 0
        /\ ses[o].remaining + ses[o].received = hdr[s].size
    BY <2>1, InvMatched
  <2>3. ses[o].received = hdr[s].size
    BY <2>2
  <2> QED BY <2>1, <2>2, <2>3
<1> QED BY <1>1, <1>2

(* The inductive invariant holds in every reachable state of the relay.      *)
THEOREM RelayInvariant == Spec => []IndInv
<1>1. Init => IndInv
  BY InitInv
<1>2. IndInv /\ [Next]_vars => IndInv'
  BY StepInv
<1> QED BY <1>1, <1>2, PTL DEF Spec

(* The relay's state is well typed: in particular no byte count ever goes    *)
(* below zero, for any sizes, chunks and limits.                             *)
THEOREM RelayTypeCorrect == Spec => []TypeOK
<1>1. IndInv => TypeOK
  BY DEF IndInv
<1> QED BY <1>1, RelayInvariant, PTL

(* Every byte taken from a sender is forwarded to the one receiver with the  *)
(* same id and ticket and the mirrored devices, and never more than declared.*)
THEOREM RelayForwardsExactly == Spec => []PayloadAccounted
<1>1. IndInv => PayloadAccounted
  BY InvImplies
<1> QED BY <1>1, RelayInvariant, PTL

(* An ACK reaches a sender only after its own matched receiver was given the *)
(* whole payload.                                                            *)
THEOREM RelayAckSound == Spec => []AckMeansDelivered
<1>1. IndInv => AckMeansDelivered
  BY InvImplies
<1> QED BY <1>1, RelayInvariant, PTL

(* The timers of a session are those of its phase, and none outlives it.     *)
THEOREM RelayTimers == Spec => []TimersMatchPhase
<1>1. IndInv => TimersMatchPhase
  BY DEF IndInv
<1> QED BY <1>1, RelayInvariant, PTL

(* Dropping a session (destroySession) never leaves one of its sockets open. *)
THEOREM RelaySocketsManaged == Spec => []NoOrphanSocket
<1>1. IndInv => NoOrphanSocket
  BY DEF IndInv
<1> QED BY <1>1, RelayInvariant, PTL

(* A paused sender is always going to be resumed: the drain or setImmediate  *)
(* callback survives every change of phase.                                  *)
THEOREM RelaySenderResumed == Spec => []NoWedgedSender
<1>1. IndInv => NoWedgedSender
  BY DEF IndInv
<1> QED BY <1>1, RelayInvariant, PTL

(* The in-flight budget is respected.                                        *)
THEOREM RelayBudget == Spec => []InFlightBounded
<1>1. IndInv => InFlightBounded
  BY DEF IndInv
<1> QED BY <1>1, RelayInvariant, PTL

-----------------------------------------------------------------------------
(* The caps and the byte counter                                            *)

(* The counter is the sum of the reservations, and a session that waits for  *)
(* its sender has none: RegisterSender adds to nothing.                      *)
Reservations == [i \in Ids |-> Reserved(i)]
UnsentFree == \A o \in Sockets : ses[o].sender = None => ses[o].accounted = 0
BytesInv ==
    /\ IsFiniteSet(Bytes(Ids, Reservations))
    /\ inFlight = Cardinality(Bytes(Ids, Reservations))
    /\ UnsentFree

TablesInv ==
    /\ IsFiniteSet(Live) /\ Cardinality(Live) <= MaxSessions
    /\ IsFiniteSet(Tracked) /\ Cardinality(Tracked) <= MaxConnections

(* A reservation is a number of bytes.                                       *)
LEMMA ReservedType == ASSUME TypeOK, NEW i \in Ids PROVE Reserved(i) \in Nat
BY DEF TypeOK, SessionType, Reserved

(* One id changes its reservation and the counter moves with it.             *)
LEMMA ReservationMoves ==
    ASSUME TypeOK, TypeOK', BytesInv, UnsentFree', NEW i \in Ids,
           \A j \in Ids \ {i} : Reserved(j)' = Reserved(j),
           inFlight' = Minus(inFlight + Reserved(i)', Reserved(i))
    PROVE  BytesInv'
<1>1. PICK f \in [Ids -> Nat] : f = Reservations
  BY ReservedType DEF Reservations
<1>2. \A j \in Ids : Reserved(j)' \in Nat
  BY DEF TypeOK, SessionType, Reserved
<1>3. PICK g \in [Ids -> Nat] : g = Reservations'
  BY <1>2 DEF Reservations
<1>4. f[i] = Reserved(i) /\ g[i] = Reserved(i)' /\ \A j \in Ids \ {i} : g[j] = f[j]
  BY <1>1, <1>3 DEF Reservations
<1>5. IsFiniteSet(Bytes(Ids, f)) /\ inFlight = Cardinality(Bytes(Ids, f))
  BY <1>1 DEF BytesInv
<1>6. /\ IsFiniteSet(Bytes(Ids, g)) /\ inFlight \in Nat /\ f[i] <= inFlight
      /\ Cardinality(Bytes(Ids, g)) = inFlight - f[i] + g[i]
  BY <1>4, <1>5, BytesChanged
<1>7. inFlight' = inFlight - f[i] + g[i]
  BY <1>4, <1>6 DEF Minus
<1>8. inFlight' = Cardinality(Bytes(Ids, g))
  BY <1>6, <1>7
<1> QED BY <1>3, <1>6, <1>8 DEF BytesInv

(* No reservation changes.                                                   *)
LEMMA ReservationsStay ==
    ASSUME BytesInv, UnsentFree', \A j \in Ids : Reserved(j)' = Reserved(j), inFlight' = inFlight
    PROVE  BytesInv'
<1>1. Reservations' = Reservations
  BY DEF Reservations
<1> QED BY <1>1 DEF BytesInv

(* Session o changes, and at most the entry of its id i in the map.          *)
Changes(o, i) ==
    /\ \A x \in Sockets \ {o} : ses'[x].accounted = ses[x].accounted
    /\ \A x \in Sockets \ {o} : ses'[x].sender = ses[x].sender
    /\ \A j \in Ids \ {i} : sessions'[j] = sessions[j] /\ sessions[j] # o

(* Only the reservation of i moves, and UnsentFree survives the change.      *)
LEMMA ChangesOne ==
    ASSUME TypeOK, BytesInv, NEW o \in Sockets, NEW i \in Ids, Changes(o, i),
           ses'[o].sender = None => ses'[o].accounted = 0
    PROVE  UnsentFree' /\ \A j \in Ids \ {i} : Reserved(j)' = Reserved(j)
<1>1. UnsentFree'
  BY DEF Changes, UnsentFree, BytesInv
<1>2. \A j \in Ids \ {i} : sessions[j] # None => sessions[j] \in Sockets \ {o}
  BY DEF TypeOK, Changes
<1>3. \A j \in Ids \ {i} : Reserved(j)' = Reserved(j)
  BY <1>2 DEF Changes, Reserved
<1> QED BY <1>1, <1>3

(* Only the map entry of i can be session o if o's id is i, or o is new.     *)
LEMMA OnlyEntry ==
    ASSUME IndInv, NEW o \in Sockets, NEW i \in Ids, ses[o].id \in {i, None}
    PROVE  \A j \in Ids \ {i} : sessions[j] # o
BY RelayConstants DEF IndInv, Placed, TypeOK

(* The callbacks only touch flags: parties and bytes of the objects m are    *)
(* those of the sessions.                                                    *)
SameBytes(m) ==
    \A x \in Sockets : /\ m[x].accounted = ses[x].accounted
                       /\ m[x].sender = ses[x].sender /\ m[x].id = ses[x].id

(* A released session reserves nothing and keeps its sender.                 *)
LEMMA ReleasedBytes ==
    ASSUME NEW r \in SessionType, NEW s \in SessionStates
    PROVE  LET q == [Released(r) EXCEPT !.state = s]
           IN q.accounted = 0 /\ q.sender = r.sender
BY DEF Released, SessionType

(* A session that is torn down gives back exactly its bytes.                 *)
LEMMA ReleaseBytes ==
    ASSUME IndInv, IndInv', BytesInv, NEW i \in Ids, sessions[i] # None,
           NEW m \in [Sockets -> SessionType], SameBytes(m),
           NEW s \in SessionStates,
           sessions' = [sessions EXCEPT ![i] = None],
           ses' = [m EXCEPT ![sessions[i]] = [Released(@) EXCEPT !.state = s]],
           inFlight' = Minus(inFlight, m[sessions[i]].accounted)
    PROVE  BytesInv'
<1> DEFINE o == sessions[i]
           q == [Released(m[o]) EXCEPT !.state = s]
<1>1. TypeOK /\ TypeOK' /\ o \in Sockets /\ ses[o].id = i
  BY DEF IndInv, TypeOK, Placed
<1>2. m[o] \in SessionType
  BY <1>1
<1>3. q.accounted = 0 /\ q.sender = m[o].sender
  BY <1>2, ReleasedBytes
<1>4. ses' = [m EXCEPT ![o] = q]
  OBVIOUS
<1> HIDE DEF q
<1>5. ses'[o] = q /\ \A x \in Sockets \ {o} : ses'[x] = m[x]
  BY <1>1, <1>4
<1>6. /\ \A j \in Ids \ {i} : sessions'[j] = sessions[j]
      /\ sessions'[i] = None
  BY <1>1 DEF TypeOK
<1>7. Changes(o, i)
  BY <1>1, <1>5, <1>6, OnlyEntry DEF Changes, SameBytes
<1>8. UnsentFree' /\ \A j \in Ids \ {i} : Reserved(j)' = Reserved(j)
  BY <1>1, <1>3, <1>5, <1>7, ChangesOne
<1>9. Reserved(i) = m[o].accounted /\ Reserved(i)' = 0
  BY <1>6 DEF Reserved, SameBytes, IndInv, TypeOK
<1>10. inFlight' = Minus(inFlight + Reserved(i)', Reserved(i))
  <2>1. inFlight + 0 = inFlight
    BY <1>1 DEF TypeOK
  <2> QED BY <1>9, <2>1
<1> QED BY <1>1, <1>8, <1>10, ReservationMoves

(* destroySession by a callback, whether or not the map still has the id.    *)
LEMMA DestroyBytes ==
    ASSUME IndInv, IndInv', BytesInv, NEW i \in Ids, NEW m \in [Sockets -> SessionType],
           SameBytes(m), NEW c, DestroySession(i, m, c)
    PROVE  BytesInv'
<1>1. CASE sessions[i] = None
  <2>1. ses' = m /\ UNCHANGED <<sessions, inFlight>>
    BY <1>1 DEF DestroySession
  <2>2. UnsentFree'
    BY <2>1 DEF UnsentFree, SameBytes, BytesInv
  <2>3. \A j \in Ids : Reserved(j)' = Reserved(j)
    BY <2>1 DEF Reserved, SameBytes, IndInv, TypeOK
  <2> QED BY <2>1, <2>2, <2>3, ReservationsStay
<1>2. CASE sessions[i] # None
  <2> DEFINE o == sessions[i]
  <2>1. o \in Sockets /\ m[o].id = i
    BY <1>2 DEF IndInv, TypeOK, Placed, SameBytes
  <2>2. /\ sessions' = [sessions EXCEPT ![m[o].id] = None]
        /\ ses' = [m EXCEPT ![o] = [Released(@) EXCEPT !.state = "FAILED"]]
        /\ inFlight' = Minus(inFlight, m[o].accounted)
    BY <1>2 DEF DestroySession, TearDown
  <2>3. "FAILED" \in SessionStates
    BY DEF SessionStates
  <2> QED BY <1>2, <2>1, <2>2, <2>3, ReleaseBytes
<1> QED BY <1>1, <1>2

(* A callback of session o that leaves its bytes and its sender alone, while *)
(* the map and the counter stay.                                             *)
LEMMA FlagBytes ==
    ASSUME TypeOK, BytesInv, NEW o \in Sockets, NEW q,
           ses' = [ses EXCEPT ![o] = q], UNCHANGED <<sessions, inFlight>>,
           q.accounted = ses[o].accounted, q.sender = ses[o].sender
    PROVE  BytesInv'
<1>1. \A x \in Sockets : ses'[x].accounted = ses[x].accounted /\ ses'[x].sender = ses[x].sender
  BY DEF TypeOK
<1>2. UnsentFree'
  BY <1>1 DEF UnsentFree, BytesInv
<1>3. \A j \in Ids : Reserved(j)' = Reserved(j)
  BY <1>1 DEF Reserved, TypeOK
<1> QED BY <1>2, <1>3, ReservationsStay

(* consume and startTransfer leave the reservation alone.                    *)
LEMMA ConsumedBytes ==
    ASSUME NEW r \in SessionType, NEW n, NEW full
    PROVE  /\ Consumed(r, n, full).accounted = r.accounted
           /\ Consumed(r, n, full).sender = r.sender
<1> DEFINE P == r.paused \/ (full /\ n > 0)
           W == IF full /\ n > 0 THEN r.wake \cup {"drain"} ELSE r.wake
           fed == [r EXCEPT !.remaining = r.remaining - n, !.received = r.received + n,
                            !.paused = P, !.wake = W]
<1>1. Consumed(r, n, full) = IF fed.remaining = 0 THEN AwaitAck(fed) ELSE fed
  BY DEF Consumed
<1> HIDE DEF P, W
<1>2. fed.accounted = r.accounted /\ fed.sender = r.sender
  BY DEF SessionType
<1>3. AwaitAck(fed).accounted = fed.accounted /\ AwaitAck(fed).sender = fed.sender
  <2>1. DOMAIN fed = DOMAIN r
    OBVIOUS
  <2> QED BY <2>1 DEF AwaitAck, SessionType
<1> HIDE DEF fed
<1> QED BY <1>1, <1>2, <1>3

(* startTransfer leaves the reservation alone.                               *)
LEMMA StartedBytes ==
    ASSUME NEW r \in SessionType, NEW size \in Nat, NEW full
    PROVE  /\ Started(r, size, full).accounted = r.accounted
           /\ Started(r, size, full).sender = r.sender
<1> DEFINE begun == [r EXCEPT !.state = "TRANSFERRING", !.remaining = size,
                              !.timers = {"stall", "deadline"}]
           fed == Consumed(begun, r.extra, full)
<1>1. begun \in SessionType
  BY DEF SessionType, SessionStates
<1>2. begun.accounted = r.accounted /\ begun.sender = r.sender
  BY DEF SessionType
<1> HIDE DEF begun
<1>3. fed.accounted = r.accounted /\ fed.sender = r.sender
  BY <1>1, <1>2, ConsumedBytes
<1>4. Started(r, size, full) = IF fed.state = "TRANSFERRING"
                               THEN [fed EXCEPT !.wake = fed.wake \cup {"immediate"}] ELSE fed
  BY DEF Started, begun
<1> HIDE DEF fed
<1>5. /\ [fed EXCEPT !.wake = fed.wake \cup {"immediate"}].accounted = fed.accounted
      /\ [fed EXCEPT !.wake = fed.wake \cup {"immediate"}].sender = fed.sender
  OBVIOUS
<1> QED BY <1>3, <1>4, <1>5

(* A chunk keeps its session's bytes, or tears the session down.             *)
LEMMA SenderDataBytes ==
    ASSUME IndInv, IndInv', BytesInv, NEW o \in Sockets, NEW n \in Nat, NEW full,
           SenderData(o, n, full)
    PROVE  BytesInv'
<1>1. /\ ses[o].id \in Ids /\ sessions[ses[o].id] = o /\ o # None
      /\ TypeOK /\ ses \in [Sockets -> SessionType]
  BY InMapFacts, RelayConstants DEF SenderData, IndInv, TypeOK
<1>2. CASE n > ses[o].remaining
  <2>1. DestroySession(ses[o].id, ses, conn)
    BY <1>1, <1>2 DEF SenderData, DestroySession
  <2> QED BY <1>1, <2>1, DestroyBytes DEF SameBytes
<1>3. CASE ~(n > ses[o].remaining)
  <2> DEFINE r == ses[o]
             p == [r EXCEPT !.taken = r.taken + n]
             q == Consumed(p, n, full)
  <2>1. ses' = [ses EXCEPT ![o] = q] /\ UNCHANGED <<sessions, inFlight>>
    BY <1>3 DEF SenderData
  <2>2. p.accounted = r.accounted /\ p.sender = r.sender
    BY <1>1 DEF SessionType
  <2>3. q.accounted = p.accounted /\ q.sender = p.sender
    <3>1. r.taken + n \in Nat
      BY <1>1 DEF SessionType
    <3>2. p \in SessionType
      BY <1>1, <3>1 DEF SessionType
    <3> QED BY <3>2, ConsumedBytes
  <2> HIDE DEF q
  <2> QED BY <1>1, <2>1, <2>2, <2>3, FlagBytes
<1> QED BY <1>2, <1>3

(* The ACK line releases the session as DONE or FAILED, or comes too late.   *)
LEMMA ReceiverAckBytes ==
    ASSUME IndInv, IndInv', BytesInv, NEW o \in Sockets, NEW good \in BOOLEAN,
           ReceiverAck(o, good)
    PROVE  BytesInv'
<1> DEFINE q == [ses[o] EXCEPT !.ackWait = FALSE]
           m == [ses EXCEPT ![o] = q]
<1>1. /\ TypeOK /\ ses \in [Sockets -> SessionType] /\ ses[o] \in SessionType
      /\ None \notin Sockets
  BY RelayConstants DEF IndInv, TypeOK
<1>2. /\ q \in SessionType /\ q.accounted = ses[o].accounted /\ q.sender = ses[o].sender
      /\ q.id = ses[o].id
  BY <1>1 DEF SessionType
<1>3. m = [ses EXCEPT ![o].ackWait = FALSE]
  OBVIOUS
<1> HIDE DEF q
<1>4. m \in [Sockets -> SessionType] /\ SameBytes(m) /\ m[o] = q
  BY <1>1, <1>2 DEF SameBytes
<1>5. CASE ~InMap(o)
  <2>1. ses' = m /\ UNCHANGED <<sessions, inFlight>>
    BY <1>3, <1>5 DEF ReceiverAck
  <2> QED BY <1>1, <1>2, <2>1, FlagBytes
<1>6. CASE InMap(o)
  <2> DEFINE i == ses[o].id
  <2>1. i \in Ids /\ sessions[i] = o /\ sessions[i] # None
    BY <1>1, <1>6, InMapFacts
  <2> HIDE DEF m
  <2>2. PICK s \in {"DONE", "FAILED"} :
           /\ sessions' = [sessions EXCEPT ![i] = None]
           /\ ses' = [m EXCEPT ![o] = [Released(@) EXCEPT !.state = s]]
           /\ inFlight' = Minus(inFlight, ses[o].accounted)
    <3>1. CASE good
      BY <1>3, <1>6, <3>1 DEF ReceiverAck
    <3>2. CASE ~good
      <4>1. TearDown(o, m, conn, inFlight)
        BY <1>3, <1>6, <3>2 DEF ReceiverAck
      <4> QED BY <1>2, <1>4, <4>1 DEF TearDown
    <3> QED BY <3>1, <3>2
  <2>3. s \in SessionStates
    BY DEF SessionStates
  <2>4. inFlight' = Minus(inFlight, m[sessions[i]].accounted)
    BY <1>2, <1>4, <2>1, <2>2
  <2> HIDE DEF i
  <2> QED BY <1>4, <2>1, <2>2, <2>3, <2>4, ReleaseBytes
<1> QED BY <1>5, <1>6

(* The one-shot listeners and the timers destroy the session of their id.    *)
LEMMA CallbackBytes ==
    ASSUME IndInv, IndInv', BytesInv, NEW o \in Sockets, NEW t,
           SenderOverrun(o) \/ ReceiverNoAck(o) \/ TimerFires(o, t)
    PROVE  BytesInv'
<1> DEFINE r == ses[o]
<1>1. PICK q \in {[r EXCEPT !.overrun = FALSE], [r EXCEPT !.ackWait = FALSE],
                  [r EXCEPT !.timers = r.timers \ {t}]} :
         DestroySession(r.id, [ses EXCEPT ![o] = q], conn)
  <2>1. CASE SenderOverrun(o)
    BY <2>1 DEF SenderOverrun
  <2>2. CASE ReceiverNoAck(o)
    BY <2>2 DEF ReceiverNoAck
  <2>3. CASE TimerFires(o, t)
    BY <2>3 DEF TimerFires
  <2> QED BY <2>1, <2>2, <2>3
<1>2. /\ TypeOK /\ ses \in [Sockets -> SessionType] /\ r \in SessionType
      /\ RecOK(r, hdr)
  BY DEF IndInv, TypeOK, SessionsOK
<1>3. r.id \in Ids
  <2>1. SenderOverrun(o) \/ ReceiverNoAck(o) => r.overrun \/ r.ackWait
    BY DEF SenderOverrun, ReceiverNoAck
  <2>2. TimerFires(o, t) => r.timers # {}
    BY DEF TimerFires
  <2>3. r.timers # {} => InMap(o)
    BY DEF IndInv, TimersMatchPhase
  <2>4. r.overrun \/ r.ackWait => r.state # "absent"
    BY <1>2 DEF RecOK
  <2>5. InMap(o) => r.id \in Ids
    BY <1>2 DEF InMap, SessionType
  <2>6. r.state # "absent" => r.id \in Ids
    BY <1>2 DEF RecOK
  <2> QED BY <2>1, <2>2, <2>3, <2>4, <2>5, <2>6
<1>4. q \in SessionType /\ q.accounted = r.accounted /\ q.sender = r.sender /\ q.id = r.id
  <2> HIDE DEF r
  <2>1. CASE q = [r EXCEPT !.overrun = FALSE]
    BY <1>2, <2>1 DEF SessionType
  <2>2. CASE q = [r EXCEPT !.ackWait = FALSE]
    BY <1>2, <2>2 DEF SessionType
  <2>3. CASE q = [r EXCEPT !.timers = r.timers \ {t}]
    BY <1>2, <2>3 DEF SessionType
  <2> QED BY <2>1, <2>2, <2>3
<1>5. [ses EXCEPT ![o] = q] \in [Sockets -> SessionType] /\ SameBytes([ses EXCEPT ![o] = q])
  BY <1>2, <1>4 DEF SameBytes
<1> HIDE DEF r
<1> QED BY <1>1, <1>3, <1>5, DestroyBytes

(* So do the error and the end of a connection.                              *)
LEMMA SocketBytes ==
    ASSUME IndInv, IndInv', BytesInv, NEW s \in Sockets, SocketError(s) \/ SocketClose(s)
    PROVE  BytesInv'
<1>1. TypeOK /\ ses \in [Sockets -> SessionType]
  BY DEF IndInv, TypeOK
<1>2. CASE hdr[s] = None
  <2>1. UNCHANGED <<sessions, ses, inFlight>>
    BY <1>2 DEF SocketError, SocketClose
  <2> QED BY <2>1, ReservationsStay DEF Reserved, UnsentFree, BytesInv
<1>3. CASE hdr[s] # None
  <2>1. hdr[s].id \in Ids
    BY <1>1, <1>3, RelayConstants DEF TypeOK, HeaderType
  <2>2. PICK k \in {"closing", "closed"} : DestroySession(hdr[s].id, ses, [conn EXCEPT ![s] = k])
    BY <1>3 DEF SocketError, SocketClose
  <2>3. SameBytes(ses)
    BY DEF SameBytes
  <2> QED BY <1>1, <2>1, <2>2, <2>3, DestroyBytes
<1> QED BY <1>2, <1>3

(* Shutdown gives everything back.                                           *)
LEMMA ShutdownBytes ==
    ASSUME IndInv, IndInv', BytesInv, Shutdown
    PROVE  BytesInv'
<1>1. TypeOK /\ ses \in [Sockets -> SessionType]
  BY DEF IndInv, TypeOK
<1>2. \A i \in Ids : Reserved(i)' = 0
  BY DEF Shutdown, Reserved
<1>3. UnsentFree'
  <2> SUFFICES ASSUME NEW o \in Sockets, ses'[o].sender = None PROVE ses'[o].accounted = 0
    BY DEF UnsentFree
  <2> DEFINE r == ses[o]
  <2>1. r \in SessionType /\ "FAILED" \in SessionStates
    BY <1>1 DEF SessionStates
  <2>2. ses'[o] = IF InMap(o) THEN [Released(r) EXCEPT !.state = "FAILED"] ELSE r
    BY DEF Shutdown
  <2>3. ses'[o].sender = r.sender /\ (InMap(o) => ses'[o].accounted = 0)
    <3> HIDE DEF r
    <3> QED BY <2>1, <2>2, ReleasedBytes
  <2> QED BY <2>2, <2>3 DEF UnsentFree, BytesInv
<1>4. PICK f : f = Reservations' /\ \A i \in Ids : f[i] = 0
  <2>1. Reservations' = [i \in Ids |-> 0]
    BY <1>2 DEF Reservations
  <2> QED BY <2>1
<1>5. IsFiniteSet(Bytes(Ids, f)) /\ Cardinality(Bytes(Ids, f)) = 0
  BY <1>4, BytesNone
<1>6. inFlight' = 0
  BY DEF Shutdown
<1> QED BY <1>3, <1>4, <1>5, <1>6 DEF BytesInv

(* A registration writes one session o, which now accounts for a bytes, and  *)
(* its map entry, which then accounts for n bytes.                           *)
LEMMA EntryBytes ==
    ASSUME IndInv, IndInv', BytesInv, NEW o \in Sockets, NEW i \in Ids, NEW n,
           ses[o].id \in {i, None}, Reserved(i)' = n,
           \A j \in Ids \ {i} : sessions'[j] = sessions[j],
           \A x \in Sockets \ {o} : ses'[x] = ses[x],
           ses'[o].sender = None => ses'[o].accounted = 0,
           inFlight' = Minus(inFlight + n, Reserved(i))
    PROVE  BytesInv'
<1>1. TypeOK /\ TypeOK'
  BY DEF IndInv
<1>2. Changes(o, i)
  BY OnlyEntry DEF Changes
<1>3. UnsentFree' /\ \A j \in Ids \ {i} : Reserved(j)' = Reserved(j)
  BY <1>1, <1>2, ChangesOne
<1> QED BY <1>1, <1>3, ReservationMoves

(* Session o becomes q, and the entry of i k, which is o or nothing.         *)
EntryStep(o, i, q, k, n) ==
    /\ o \in Sockets /\ i \in Ids /\ ses[o].id \in {i, None}
    /\ sessions' = [sessions EXCEPT ![i] = k]
    /\ ses' = [ses EXCEPT ![o] = q]
    /\ q.sender = None => q.accounted = 0
    /\ \/ k = o /\ n = q.accounted
       \/ k = None /\ n = 0
    /\ inFlight' = Minus(inFlight + n, Reserved(i))

(* Such a step keeps the counter exact when it moves with the entry.         *)
LEMMA EntryWritten ==
    ASSUME IndInv, IndInv', BytesInv, NEW o, NEW i, NEW q, NEW k, NEW n, EntryStep(o, i, q, k, n)
    PROVE  BytesInv'
<1> USE DEF EntryStep
<1>1. TypeOK /\ None \notin Sockets
  BY RelayConstants DEF IndInv
<1>2. /\ ses'[o] = q /\ \A x \in Sockets \ {o} : ses'[x] = ses[x]
      /\ sessions'[i] = k /\ \A j \in Ids \ {i} : sessions'[j] = sessions[j]
  BY <1>1 DEF TypeOK
<1>3. Reserved(i)' = n
  BY <1>1, <1>2 DEF Reserved
<1>4. inFlight' = Minus(inFlight + n, Reserved(i)) /\ ses[o].id \in {i, None}
  OBVIOUS
<1>5. ses'[o].sender = None => ses'[o].accounted = 0
  BY <1>2
<1>6. o \in Sockets /\ i \in Ids
  OBVIOUS
<1> HIDE DEF EntryStep
<1> QED BY <1>2, <1>3, <1>4, <1>5, <1>6, EntryBytes

(* The session a registration works on has the bytes the counter holds for   *)
(* its id.                                                                   *)
LEMMA RegistrationBytes ==
    ASSUME IndInv, BytesInv, NEW s \in Sockets, NEW h \in Headers, Registers(s), Admitted(h)
    PROVE  /\ Owner(s, h) \in Sockets /\ h.id \in Ids
           /\ ses[Owner(s, h)].id \in {h.id, None}
           /\ SessionFor(h) \in SessionType
           /\ Reserved(h.id) = SessionFor(h).accounted
           /\ SessionFor(h).sender = None => SessionFor(h).accounted = 0
           /\ inFlight \in Nat /\ h.size \in Nat
<1>1. /\ Owner(s, h) \in Sockets /\ h.id \in Ids /\ SessionFor(h) \in SessionType
      /\ inFlight \in Nat /\ h.size \in Nat
  BY RegistrationFacts, RelayConstants DEF RecOK, IndInv, TypeOK, HeaderType
<1>2. CASE Fresh(h)
  <2>1. ses[s] = NoSession
    BY DEF IndInv, Unregistered, Registers, Unbound
  <2>2. NewSession(h.id, h.token).accounted = 0
    BY DEF NewSession, NoSession
  <2> QED BY <1>1, <1>2, <2>1, <2>2 DEF Owner, SessionFor, Fresh, Reserved, NoSession
<1>3. CASE ~Fresh(h)
  BY <1>1, <1>3 DEF Owner, SessionFor, Fresh, Reserved, BytesInv, UnsentFree, IndInv, Placed
<1> QED BY <1>1, <1>2, <1>3

(* INVALID_METADATA leaves the reservation of its id as it was.              *)
LEMMA BadMetadataBytes ==
    ASSUME IndInv, IndInv', BytesInv, NEW s \in Sockets, NEW h \in Headers,
           RegisterBadMetadata(s, h)
    PROVE  BytesInv'
<1> DEFINE o == Owner(s, h)
           r == SessionFor(h)
<1>1. /\ o \in Sockets /\ h.id \in Ids /\ ses[o].id \in {h.id, None} /\ r \in SessionType
      /\ Reserved(h.id) = r.accounted /\ (r.sender = None => r.accounted = 0)
      /\ inFlight \in Nat
  BY RegistrationBytes DEF RegisterBadMetadata
<1>2. /\ sessions' = [sessions EXCEPT ![h.id] = o] /\ ses' = [ses EXCEPT ![o] = r]
      /\ inFlight' = inFlight
  BY DEF RegisterBadMetadata
<1> HIDE DEF o, r
<1>3. r.accounted \in Nat /\ o # None
  BY <1>1, RelayConstants DEF SessionType
<1>4. inFlight' = Minus(inFlight + r.accounted, r.accounted)
  BY <1>1, <1>2, <1>3 DEF Minus
<1>5. inFlight' = Minus(inFlight + r.accounted, Reserved(h.id))
  BY <1>1, <1>4
<1>6. EntryStep(o, h.id, r, o, r.accounted)
  BY <1>1, <1>2, <1>5 DEF EntryStep
<1> QED BY <1>6, EntryWritten

(* BUSY releases a session that had reserved nothing.                        *)
LEMMA OverLimitBytes ==
    ASSUME IndInv, IndInv', BytesInv, NEW s \in Sockets, NEW h \in Headers,
           RegisterOverLimit(s, h)
    PROVE  BytesInv'
<1> DEFINE o == Owner(s, h)
           r == SessionFor(h)
           q == Released(r)
<1>1. /\ o \in Sockets /\ h.id \in Ids /\ ses[o].id \in {h.id, None} /\ r \in SessionType
      /\ Reserved(h.id) = 0 /\ r.sender = None /\ inFlight \in Nat
  BY RegistrationBytes DEF RegisterOverLimit
<1>2. /\ inFlight' = inFlight
      /\ IF r.receiver = None
         THEN sessions' = [sessions EXCEPT ![h.id] = None] /\ ses' = [ses EXCEPT ![o] = q]
         ELSE UNCHANGED <<sessions, ses>>
  BY DEF RegisterOverLimit
<1>3. q.accounted = 0
  BY <1>1 DEF Released, SessionType
<1> HIDE DEF o, r, q
<1>4. CASE r.receiver = None
  <2>1. inFlight' = Minus(inFlight + 0, 0)
    BY <1>1, <1>2 DEF Minus
  <2>2. inFlight' = Minus(inFlight + 0, Reserved(h.id))
    BY <1>1, <2>1
  <2>3. EntryStep(o, h.id, q, None, 0)
    BY <1>1, <1>2, <1>3, <1>4, <2>2 DEF EntryStep
  <2> QED BY <2>3, EntryWritten
<1>5. CASE r.receiver # None
  BY <1>2, <1>5, ReservationsStay DEF Reserved, UnsentFree, BytesInv
<1> QED BY <1>4, <1>5

(* Whoever joins a session, b counts the bytes the session then accounts for *)
(* in the place of those it had.                                             *)
LEMMA JoinBytes ==
    ASSUME IndInv, IndInv', BytesInv, NEW s \in Sockets, NEW h \in Headers, Registers(s),
           Admitted(h), NEW r, NEW b \in Nat, Join(s, h, r, b), r.id = h.id,
           RecOK(r, [hdr EXCEPT ![s] = h]), r.sender = None => r.accounted = 0, b + Reserved(h.id) = inFlight + r.accounted
    PROVE  BytesInv'
<1> DEFINE o == Owner(s, h)
           c == [conn EXCEPT ![s] = IF conn[s] = "header" THEN "bound" ELSE "closing"]
           hs == [hdr EXCEPT ![s] = h]
           both == r.sender # None /\ r.receiver # None
           snd == hs[r.sender]
           rcv == hs[r.receiver]
           mismatch == snd.source # rcv.target \/ snd.target # rcv.source
           torn == both /\ (mismatch \/ r.extra > snd.size)
           fail == [Released(r) EXCEPT !.state = "FAILED"]
<1>1. /\ o \in Sockets /\ h.id \in Ids /\ ses[o].id \in {h.id, None} /\ o # None
      /\ inFlight \in Nat /\ Reserved(h.id) \in Nat /\ r.accounted \in Nat
      /\ r \in SessionType
  BY RegistrationBytes, ReservedType, RelayConstants DEF SessionType, RecOK, IndInv
<1>2. IF torn
      THEN TearDown(o, [ses EXCEPT ![o] = r], c, b)
      ELSE /\ sessions' = [sessions EXCEPT ![h.id] = o]
           /\ \E full \in BOOLEAN :
                 ses' = [ses EXCEPT ![o] = IF both THEN Started(r, snd.size, full) ELSE r]
           /\ inFlight' = b
  BY DEF Join
<1>3. CASE torn
  <2>1. TearDown(o, [ses EXCEPT ![o] = r], c, b)
    BY <1>2, <1>3
  <2>2. [ses EXCEPT ![o] = r][o] = r /\ ses \in [Sockets -> SessionType]
    BY <1>1 DEF IndInv, TypeOK
  <2>3. /\ sessions' = [sessions EXCEPT ![h.id] = None]
        /\ ses' = [[ses EXCEPT ![o] = r] EXCEPT ![o] = fail]
        /\ inFlight' = Minus(b, r.accounted)
    BY <2>1, <2>2 DEF TearDown
  <2>4. fail.accounted = 0
    BY <1>1, ReleasedBytes DEF SessionStates
  <2> HIDE DEF fail, o
  <2>5. ses' = [ses EXCEPT ![o] = fail]
    BY <1>1, <2>2, <2>3
  <2>6. inFlight' = Minus(inFlight + 0, Reserved(h.id))
    BY <1>1, <2>3 DEF Minus
  <2>7. EntryStep(o, h.id, fail, None, 0)
    BY <1>1, <2>3, <2>4, <2>5, <2>6 DEF EntryStep
  <2> QED BY <2>7, EntryWritten
<1>4. CASE ~torn
  <2>1. /\ sessions' = [sessions EXCEPT ![h.id] = o] /\ inFlight' = b
    BY <1>2, <1>4
  <2>2. PICK full \in BOOLEAN :
           ses' = [ses EXCEPT ![o] = IF both THEN Started(r, snd.size, full) ELSE r]
    BY <1>2, <1>4
  <2>3. PICK q : /\ ses' = [ses EXCEPT ![o] = q]
                 /\ q.accounted = r.accounted /\ q.sender = r.sender
    <3>1. CASE both
      <4>1. snd.size \in Nat
        <5>1. hs \in [Sockets -> Headers \cup {None}] /\ hdr' = hs
          BY DEF IndInv, TypeOK, Join
        <5>2. r.sender \in Sockets
          BY <1>1, <3>1 DEF SessionType
        <5>3. snd # None
          BY <3>1 DEF RecOK, PartyOK
        <5> QED BY <5>1, <5>2, <5>3, RelayConstants DEF HeaderType
      <4>2. /\ Started(r, snd.size, full).accounted = r.accounted
            /\ Started(r, snd.size, full).sender = r.sender
        BY <1>1, <4>1, StartedBytes
      <4>3. ses' = [ses EXCEPT ![o] = Started(r, snd.size, full)]
        BY <2>2, <3>1
      <4> QED BY <4>2, <4>3
    <3>2. CASE ~both
      BY <2>2, <3>2
    <3> QED BY <3>1, <3>2
  <2> HIDE DEF o
  <2>4. inFlight' = Minus(inFlight + q.accounted, Reserved(h.id))
    <3> DEFINE a == q.accounted
               z == Reserved(h.id)
    <3>1. /\ a \in Nat /\ z \in Nat /\ inFlight \in Nat /\ b \in Nat
          /\ b + z = inFlight + a /\ inFlight' = b
      BY <1>1, <2>1, <2>3
    <3> HIDE DEF a, z
    <3>2. inFlight' = Minus(inFlight + a, z)
      BY <3>1 DEF Minus
    <3> QED BY <3>2 DEF a, z
  <2>5. EntryStep(o, h.id, q, o, q.accounted)
    BY <1>1, <2>1, <2>3, <2>4 DEF EntryStep
  <2> QED BY <2>5, EntryWritten
<1> QED BY <1>3, <1>4

(* A step that touches neither sessions nor counter.                         *)
LEMMA QuietBytes ==
    ASSUME BytesInv, UNCHANGED <<sessions, ses, inFlight>>
    PROVE  BytesInv'
BY ReservationsStay DEF Reserved, UnsentFree, BytesInv

(* A party joins: the sender's declared size is reserved exactly once.       *)
LEMMA RegisterBytes ==
    ASSUME IndInv, IndInv', BytesInv, NEW s \in Sockets, NEW h \in Headers,
           NEW n \in 0..MaxChunk, RegisterReceiver(s, h) \/ RegisterSender(s, h, n)
    PROVE  BytesInv'
<1> DEFINE r == SessionFor(h)
           hs == [hdr EXCEPT ![s] = h]
<1>1. Registers(s) /\ Admitted(h)
  BY DEF RegisterReceiver, RegisterSender
<1>2. /\ RecOK(r, hdr) /\ r.id = h.id /\ r.token = h.token /\ r.state = "PAIRING"
      /\ hdr[s] = None
  BY <1>1, RegistrationFacts
<1>3. /\ h.id \in Ids /\ r \in SessionType /\ Reserved(h.id) = r.accounted
      /\ r.sender = None => r.accounted = 0
      /\ inFlight \in Nat /\ h.size \in Nat
  BY <1>1, RegistrationBytes
<1>4. /\ hdr \in [Sockets -> Headers \cup {None}] /\ hs \in [Sockets -> Headers \cup {None}]
      /\ hs[s] = h /\ h # None
  BY RelayConstants DEF IndInv, TypeOK
<1>5. RecOK(r, hs)
  BY <1>2, <1>4, HdrExtend
<1> HIDE DEF r, hs
<1>6. CASE RegisterReceiver(s, h)
  <2> DEFINE q == [r EXCEPT !.receiver = s]
  <2>1. Join(s, h, q, inFlight) /\ h.role = "receiver"
    BY <1>6 DEF RegisterReceiver, r
  <2>2. RecOK(q, hs) /\ q.id = r.id /\ q.sender = r.sender
    BY <1>2, <1>4, <1>5, <2>1, ReceiverJoins
  <2>3. q.accounted = r.accounted
    BY <1>3 DEF SessionType
  <2> HIDE DEF q
  <2>4. /\ q.sender = None => q.accounted = 0
        /\ inFlight + Reserved(h.id) = inFlight + q.accounted
    BY <1>3, <2>2, <2>3
  <2> QED BY <1>1, <1>2, <1>3, <2>1, <2>2, <2>4, JoinBytes DEF hs
<1>7. CASE RegisterSender(s, h, n)
  <2> DEFINE q == WithSender(r, s, n, h.size)
             b == inFlight + h.size
  <2>1. Join(s, h, q, b) /\ h.role = "sender" /\ r.sender = None
    BY <1>7 DEF RegisterSender, r
  <2>2. n \in Nat /\ b \in Nat
    BY <1>3, RelayConstants
  <2>3. RecOK(q, hs) /\ q.id = r.id /\ q.sender = s
    <3>1. /\ hs[s] # None /\ hs[s].id = r.id /\ hs[s].token = r.token
          /\ hs[s].role = "sender" /\ r.state = "PAIRING"
      BY <1>2, <1>4, <2>1
    <3> QED BY <1>3, <1>4, <1>5, <2>2, <3>1, SenderJoins
  <2>4. q.accounted = h.size
    BY <1>3 DEF SessionType, WithSender
  <2>5. Reserved(h.id) = 0 /\ s # None
    BY <1>3, <2>1, RelayConstants
  <2> HIDE DEF q
  <2>6. /\ q.sender = None => q.accounted = 0
        /\ b + Reserved(h.id) = inFlight + q.accounted
    BY <1>3, <2>3, <2>4, <2>5
  <2> HIDE DEF b
  <2> QED BY <1>1, <1>2, <2>1, <2>2, <2>3, <2>6, JoinBytes DEF hs
<1> QED BY <1>6, <1>7

(* Waking the sender reserves and releases nothing.                          *)
LEMMA ResumeSenderBytes ==
    ASSUME IndInv, BytesInv, NEW o \in Sockets, NEW cb, ResumeSender(o, cb)
    PROVE  BytesInv'
<1> DEFINE r == ses[o]
           flows == InMap(o) /\ ses[o].state = "TRANSFERRING"
           q == Woken(r, cb, flows)
<1>1. ses' = [ses EXCEPT ![o] = q] /\ UNCHANGED <<sessions, inFlight>>
  BY DEF ResumeSender
<1>2. TypeOK /\ r \in SessionType
  BY DEF IndInv, TypeOK
<1>3. q.accounted = r.accounted /\ q.sender = r.sender
  <2> HIDE DEF r, flows
  <2>1. CASE flows
    BY <1>2, <2>1 DEF Woken, SessionType
  <2>2. CASE ~flows
    BY <1>2, <2>2 DEF Woken, SessionType
  <2> QED BY <2>1, <2>2
<1> HIDE DEF q
<1> QED BY <1>1, <1>2, <1>3, FlagBytes

(* Every step keeps the counter exact.                                       *)
LEMMA BytesStep ==
    ASSUME IndInv, IndInv', BytesInv, [Next]_vars
    PROVE  BytesInv'
<1>1. CASE UNCHANGED vars
  BY <1>1, QuietBytes DEF vars
<1>2. ASSUME NEW s \in Sockets, Accept(s) \/ HeaderFails(s) \/ HeaderTimeout(s)
      PROVE  BytesInv'
  BY <1>2, QuietBytes DEF Accept, HeaderFails, HeaderTimeout
<1>3. ASSUME NEW s \in Sockets, SocketError(s) \/ SocketClose(s) PROVE BytesInv'
  BY <1>3, SocketBytes
<1>4. ASSUME NEW s \in Sockets, NEW h \in Headers,
             RegisterRefused(s, h) \/ RegisterBadMetadata(s, h) \/ RegisterOverLimit(s, h)
      PROVE  BytesInv'
  <2>1. CASE RegisterRefused(s, h)
    BY <2>1, QuietBytes DEF RegisterRefused
  <2> QED BY <1>4, <2>1, BadMetadataBytes, OverLimitBytes
<1>5. ASSUME NEW s \in Sockets, NEW h \in Headers, RegisterReceiver(s, h) PROVE BytesInv'
  <2>1. 0 \in 0..MaxChunk
    BY RelayConstants
  <2> QED BY <1>5, <2>1, RegisterBytes
<1>6. ASSUME NEW s \in Sockets, NEW h \in Headers, NEW n \in 0..MaxChunk, RegisterSender(s, h, n)
      PROVE  BytesInv'
  BY <1>6, RegisterBytes
<1>7. ASSUME NEW o \in Sockets, NEW n \in 1..MaxChunk, NEW full \in BOOLEAN, SenderData(o, n, full)
      PROVE  BytesInv'
  <2>1. n \in Nat
    BY RelayConstants
  <2> QED BY <1>7, <2>1, SenderDataBytes
<1>8. ASSUME NEW o \in Sockets, NEW cb \in {"immediate", "drain"}, ResumeSender(o, cb)
      PROVE  BytesInv'
  BY <1>8, ResumeSenderBytes
<1>9. ASSUME NEW o \in Sockets, SenderOverrun(o) \/ ReceiverNoAck(o) PROVE BytesInv'
  BY <1>9, CallbackBytes
<1>10. ASSUME NEW o \in Sockets, NEW good \in BOOLEAN, ReceiverAck(o, good) PROVE BytesInv'
  BY <1>10, ReceiverAckBytes
<1>11. ASSUME NEW o \in Sockets, NEW k \in {"pairing", "stall", "deadline"}, TimerFires(o, k)
       PROVE  BytesInv'
  BY <1>11, CallbackBytes
<1>12. CASE Shutdown
  BY <1>12, ShutdownBytes
<1> QED BY <1>1, <1>2, <1>3, <1>4, <1>5, <1>6, <1>7, <1>8, <1>9, <1>10, <1>11, <1>12 DEF Next

(* The session table grows by one id, and only while it has room.            *)
LEMMA LiveStep ==
    ASSUME TypeOK, [Next]_vars
    PROVE  Live' \subseteq Live \/ (~Full /\ \E i \in Ids : Live' \subseteq Live \cup {i})
<1>1. CASE UNCHANGED sessions
  BY <1>1 DEF Live
<1>2. ASSUME NEW i, sessions' = [sessions EXCEPT ![i] = None] PROVE Live' \subseteq Live
  BY <1>2 DEF Live, TypeOK
<1>3. ASSUME NEW h \in Headers, NEW o, Admitted(h), sessions' = [sessions EXCEPT ![h.id] = o]
      PROVE  Live' \subseteq Live \/ (~Full /\ \E i \in Ids : Live' \subseteq Live \cup {i})
  <2>1. h.id \in Ids
    BY RelayConstants DEF HeaderType
  <2>2. Live' \subseteq Live \cup {h.id}
    BY <1>3 DEF Live, TypeOK
  <2>3. CASE Fresh(h)
    BY <1>3, <2>1, <2>2, <2>3 DEF Admitted
  <2>4. CASE ~Fresh(h)
    BY <2>1, <2>2, <2>4 DEF Fresh, Live
  <2> QED BY <2>3, <2>4
<1>4. ASSUME NEW i, NEW m, NEW c, DestroySession(i, m, c) PROVE Live' \subseteq Live
  BY <1>1, <1>2, <1>4 DEF DestroySession, TearDown, Live
<1>5. ASSUME NEW s \in Sockets, Accept(s) \/ HeaderFails(s) \/ HeaderTimeout(s)
      PROVE  UNCHANGED sessions
  BY <1>5 DEF Accept, HeaderFails, HeaderTimeout
<1>6. ASSUME NEW s \in Sockets, SocketError(s) \/ SocketClose(s) PROVE Live' \subseteq Live
  BY <1>4, <1>6 DEF SocketError, SocketClose, Live
<1>7. ASSUME NEW s \in Sockets, NEW h \in Headers,
             RegisterRefused(s, h) \/ RegisterBadMetadata(s, h) \/ RegisterOverLimit(s, h)
      PROVE  Live' \subseteq Live \/ (~Full /\ \E i \in Ids : Live' \subseteq Live \cup {i})
  <2>1. CASE RegisterRefused(s, h)
    BY <1>1, <2>1 DEF RegisterRefused
  <2>2. CASE RegisterBadMetadata(s, h)
    BY <1>3, <2>2 DEF RegisterBadMetadata
  <2>3. CASE RegisterOverLimit(s, h)
    BY <1>1, <1>2, <2>3 DEF RegisterOverLimit
  <2> QED BY <1>7, <2>1, <2>2, <2>3
<1>8. ASSUME NEW s \in Sockets, NEW h \in Headers, NEW r, NEW b, Admitted(h), Join(s, h, r, b)
      PROVE  Live' \subseteq Live \/ (~Full /\ \E i \in Ids : Live' \subseteq Live \cup {i})
  <2>1. PICK k : sessions' = [sessions EXCEPT ![k] = None] \/
                 sessions' = [sessions EXCEPT ![h.id] = Owner(s, h)]
    BY <1>8 DEF Join, TearDown
  <2> QED BY <1>2, <1>3, <1>8, <2>1
<1>9. ASSUME NEW o \in Sockets, NEW n, NEW full, SenderData(o, n, full) PROVE Live' \subseteq Live
  <2>1. CASE n > ses[o].remaining
    <3>1. TearDown(o, ses, conn, inFlight)
      BY <1>9, <2>1 DEF SenderData
    <3> QED BY <1>2, <3>1 DEF TearDown
  <2>2. CASE ~(n > ses[o].remaining)
    <3>1. UNCHANGED sessions
      BY <1>9, <2>2 DEF SenderData
    <3> QED BY <3>1 DEF Live
  <2> QED BY <2>1, <2>2
<1>10. ASSUME NEW o \in Sockets, NEW t, SenderOverrun(o) \/ ReceiverNoAck(o) \/ TimerFires(o, t)
       PROVE  Live' \subseteq Live
  BY <1>4, <1>10 DEF SenderOverrun, ReceiverNoAck, TimerFires
<1>11. ASSUME NEW o \in Sockets, NEW good, ReceiverAck(o, good) PROVE Live' \subseteq Live
  <2>1. CASE ~InMap(o)
    <3>1. UNCHANGED sessions
      BY <1>11, <2>1 DEF ReceiverAck
    <3> QED BY <3>1 DEF Live
  <2>2. CASE InMap(o) /\ good
    <3>1. sessions' = [sessions EXCEPT ![ses[o].id] = None]
      BY <1>11, <2>2 DEF ReceiverAck
    <3> QED BY <1>2, <3>1
  <2>3. CASE InMap(o) /\ ~good
    <3>1. TearDown(o, [ses EXCEPT ![o].ackWait = FALSE], conn, inFlight)
      BY <1>11, <2>3 DEF ReceiverAck
    <3> QED BY <1>2, <3>1 DEF TearDown
  <2> QED BY <2>1, <2>2, <2>3
<1>12. CASE Shutdown
  BY <1>12 DEF Shutdown, Live
<1>13. ASSUME NEW o \in Sockets, NEW cb, ResumeSender(o, cb) PROVE UNCHANGED sessions
  BY <1>13 DEF ResumeSender
<1>14. ASSUME NEW s \in Sockets, NEW h \in Headers, NEW n,
              RegisterReceiver(s, h) \/ RegisterSender(s, h, n)
       PROVE  Live' \subseteq Live \/ (~Full /\ \E i \in Ids : Live' \subseteq Live \cup {i})
  BY <1>8, <1>14 DEF RegisterReceiver, RegisterSender
<1> QED BY <1>1, <1>5, <1>6, <1>7, <1>9, <1>10, <1>11, <1>12, <1>13, <1>14 DEF Next, vars

(* So does the set of tracked connections.                                   *)
LEMMA TrackedStep ==
    ASSUME TypeOK, [Next]_vars
    PROVE  \/ Tracked' \subseteq Tracked
           \/ /\ ~(Cardinality(Tracked) >= MaxConnections)
              /\ \E s \in Sockets : Tracked' \subseteq Tracked \cup {s}
<1> DEFINE Known == {"header", "expired", "bound", "closing"}
<1>1. ASSUME UNCHANGED conn PROVE Tracked' \subseteq Tracked
  BY <1>1 DEF Tracked
<1>2. ASSUME NEW s \in Sockets, conn[s] \in Known, NEW k, conn' = [conn EXCEPT ![s] = k]
      PROVE  Tracked' \subseteq Tracked
  BY <1>2 DEF Tracked, TypeOK
<1>3. ASSUME NEW c, NEW S, conn' = Ended(c, S),
             \A s \in Sockets : c[s] \in Known => conn[s] \in Known
      PROVE  Tracked' \subseteq Tracked
  BY <1>3 DEF Tracked, Ended, Open
<1>4. ASSUME NEW i, NEW m, NEW c, DestroySession(i, m, c), c \in [Sockets -> ConnStates],
             \A s \in Sockets : c[s] \in Known => conn[s] \in Known
      PROVE  Tracked' \subseteq Tracked
  <2>1. conn' = c \/ \E S : conn' = Ended(c, S)
    BY <1>4 DEF DestroySession, TearDown
  <2>2. CASE conn' = c
    BY <1>4, <2>2 DEF Tracked
  <2> QED BY <1>3, <1>4, <2>1, <2>2
<1>5. ASSUME NEW s \in Sockets, SocketError(s) \/ SocketClose(s) PROVE Tracked' \subseteq Tracked
  <2>1. PICK k \in {"closing", "closed"} :
           LET c == [conn EXCEPT ![s] = k]
           IN conn' = c \/ \E i : DestroySession(i, ses, c)
    BY <1>5 DEF SocketError, SocketClose
  <2> DEFINE c == [conn EXCEPT ![s] = k]
  <2>2. conn[s] \in Known
    BY <1>5 DEF SocketError, SocketClose
  <2>3. c \in [Sockets -> ConnStates] /\ \A x \in Sockets : c[x] \in Known => conn[x] \in Known
    BY <2>2 DEF TypeOK, ConnStates
  <2> QED BY <1>2, <1>4, <2>1, <2>2, <2>3
<1>6. ASSUME NEW s \in Sockets, Registers(s), Refuse(s) PROVE Tracked' \subseteq Tracked
  BY <1>2, <1>6 DEF Registers, Refuse
<1>7. ASSUME NEW s \in Sockets, NEW h, NEW r, NEW b, Registers(s), Join(s, h, r, b)
      PROVE  Tracked' \subseteq Tracked
  <2> DEFINE c == [conn EXCEPT ![s] = IF conn[s] = "header" THEN "bound" ELSE "closing"]
  <2>1. conn[s] \in Known
    BY <1>7 DEF Registers
  <2>2. conn' = c \/ \E S : conn' = Ended(c, S)
    BY <1>7 DEF Join, TearDown
  <2>3. \A x \in Sockets : c[x] \in Known => conn[x] \in Known
    BY <2>1 DEF TypeOK
  <2>4. CASE conn' = c
    BY <2>3, <2>4 DEF Tracked
  <2> QED BY <1>3, <2>2, <2>3, <2>4
<1>8. ASSUME NEW s \in Sockets, NEW h \in Headers, NEW n,
             \/ RegisterRefused(s, h) \/ RegisterBadMetadata(s, h) \/ RegisterOverLimit(s, h)
             \/ RegisterReceiver(s, h) \/ RegisterSender(s, h, n)
      PROVE  Tracked' \subseteq Tracked
  BY <1>6, <1>7, <1>8 DEF RegisterRefused, RegisterBadMetadata, RegisterOverLimit,
                          RegisterReceiver, RegisterSender
<1>9. ASSUME NEW o \in Sockets, NEW n, NEW full, SenderData(o, n, full)
      PROVE  Tracked' \subseteq Tracked
  <2>1. CASE n > ses[o].remaining
    <3>1. TearDown(o, ses, conn, inFlight)
      BY <1>9, <2>1 DEF SenderData
    <3> QED BY <1>3, <3>1 DEF TearDown
  <2>2. CASE ~(n > ses[o].remaining)
    <3>1. UNCHANGED conn
      BY <1>9, <2>2 DEF SenderData
    <3> QED BY <1>1, <3>1
  <2> QED BY <2>1, <2>2
<1>10. ASSUME NEW o \in Sockets, NEW t, SenderOverrun(o) \/ ReceiverNoAck(o) \/ TimerFires(o, t)
       PROVE  Tracked' \subseteq Tracked
  <2>1. \E i, m : DestroySession(i, m, conn)
    BY <1>10 DEF SenderOverrun, ReceiverNoAck, TimerFires
  <2> QED BY <1>4, <2>1 DEF TypeOK
<1>11. ASSUME NEW o \in Sockets, NEW good, ReceiverAck(o, good) PROVE Tracked' \subseteq Tracked
  <2>1. CASE ~InMap(o)
    <3>1. UNCHANGED conn
      BY <1>11, <2>1 DEF ReceiverAck
    <3> QED BY <1>1, <3>1
  <2>2. CASE InMap(o) /\ good
    <3>1. conn' = Ended(conn, {ses[o].sender, ses[o].receiver})
      BY <1>11, <2>2 DEF ReceiverAck
    <3> QED BY <1>3, <3>1
  <2>3. CASE InMap(o) /\ ~good
    <3>1. TearDown(o, [ses EXCEPT ![o].ackWait = FALSE], conn, inFlight)
      BY <1>11, <2>3 DEF ReceiverAck
    <3> QED BY <1>3, <3>1 DEF TearDown
  <2> QED BY <2>1, <2>2, <2>3
<1>12. CASE Shutdown
  <2>1. \A s \in Sockets : s \notin Tracked => conn'[s] = conn[s]
    BY <1>12 DEF Shutdown
  <2> QED BY <2>1 DEF Tracked
<1>13. ASSUME NEW o \in Sockets, NEW cb, ResumeSender(o, cb) PROVE Tracked' \subseteq Tracked
  BY <1>1, <1>13 DEF ResumeSender
<1>14. ASSUME NEW s \in Sockets, HeaderFails(s) \/ HeaderTimeout(s) PROVE Tracked' \subseteq Tracked
  BY <1>2, <1>14 DEF HeaderFails, HeaderTimeout
<1>15. ASSUME NEW s \in Sockets, Accept(s)
       PROVE  \/ Tracked' \subseteq Tracked
              \/ /\ ~(Cardinality(Tracked) >= MaxConnections)
                 /\ \E x \in Sockets : Tracked' \subseteq Tracked \cup {x}
  <2>1. Tracked' \subseteq Tracked \cup {s}
    BY <1>15 DEF Accept, Tracked, TypeOK
  <2>2. Cardinality(Tracked) >= MaxConnections => s \notin Tracked'
    BY <1>15 DEF Accept, Tracked, TypeOK
  <2> QED BY <2>1, <2>2
<1>16. UNCHANGED vars => UNCHANGED conn
  BY DEF vars
<1> QED BY <1>1, <1>5, <1>8, <1>9, <1>10, <1>11, <1>12, <1>13, <1>14, <1>15, <1>16 DEF Next

(* The tables stay within their caps.                                        *)
LEMMA TablesStep ==
    ASSUME TypeOK, TablesInv, [Next]_vars
    PROVE  TablesInv'
<1>1. IsFiniteSet(Live') /\ Cardinality(Live') <= MaxSessions
  <2>1. CASE Live' \subseteq Live
    BY <2>1, TableShrinks, RelayConstants DEF TablesInv
  <2>2. CASE ~Full /\ \E i \in Ids : Live' \subseteq Live \cup {i}
    BY <2>2, TableGrows, RelayConstants DEF TablesInv, Full
  <2> QED BY <2>1, <2>2, LiveStep
<1>2. IsFiniteSet(Tracked') /\ Cardinality(Tracked') <= MaxConnections
  <2>1. CASE Tracked' \subseteq Tracked
    BY <2>1, TableShrinks, RelayConstants DEF TablesInv
  <2>2. CASE /\ ~(Cardinality(Tracked) >= MaxConnections)
             /\ \E s \in Sockets : Tracked' \subseteq Tracked \cup {s}
    BY <2>2, TableGrows, RelayConstants DEF TablesInv
  <2> QED BY <2>1, <2>2, TrackedStep
<1> QED BY <1>1, <1>2 DEF TablesInv

(* Nothing is reserved or tracked at first.                                  *)
LEMMA CountersInit == Init => BytesInv /\ TablesInv
<1> SUFFICES ASSUME Init PROVE BytesInv /\ TablesInv
  OBVIOUS
<1>1. \A i \in Ids : Reservations[i] = 0
  BY DEF Init, Reservations, Reserved
<1>2. IsFiniteSet(Bytes(Ids, Reservations)) /\ Cardinality(Bytes(Ids, Reservations)) = 0
  BY <1>1, BytesNone
<1>3. inFlight = 0 /\ UnsentFree
  BY DEF Init, UnsentFree, NoSession
<1>4. Live = {} /\ Tracked = {}
  BY DEF Init, Live, Tracked
<1>5. IsFiniteSet({}) /\ Cardinality({}) = 0
  BY FS_EmptySet
<1> QED BY <1>2, <1>3, <1>4, <1>5, RelayConstants DEF BytesInv, TablesInv

(* inFlightBytes is exactly the sum of what the sessions in the map account  *)
(* for (registerSocket, releaseSession, shutdown), and it and the two tables *)
(* stay within MAX_INFLIGHT_BYTES, MAX_SESSIONS and MAX_CONNECTIONS.         *)
THEOREM RelayAccounting == Spec => []AccountingExact
<1>1. Init => IndInv /\ BytesInv /\ TablesInv
  BY InitInv, CountersInit
<1>2. (IndInv /\ BytesInv /\ TablesInv) /\ [Next]_vars => (IndInv /\ BytesInv /\ TablesInv)'
  BY StepInv, BytesStep, TablesStep DEF IndInv
<1>3. IndInv /\ BytesInv /\ TablesInv => AccountingExact
  <2> SUFFICES ASSUME IndInv, BytesInv, TablesInv PROVE AccountingExact
    OBVIOUS
  <2>1. \A i \in Ids : Reservations[i] = Reserved(i)
    BY DEF Reservations
  <2>2. UNION {{i} \X (1..Reserved(i)) : i \in Ids} = Bytes(Ids, Reservations)
    BY <2>1 DEF Bytes
  <2> QED BY <2>2 DEF AccountingExact, BytesInv, TablesInv, IndInv
<1> QED BY <1>1, <1>2, <1>3, PTL DEF Spec

-----------------------------------------------------------------------------
(***************************************************************************)
(* The relay implements RelayPipe, step by step.                           *)
(***************************************************************************)

(* What a pipe is, read off the session object and the replies.              *)
Notified == {s \in Sockets : reply[s] = "ack"}
Stays(x) ==
    /\ ses'[x].sender = ses[x].sender /\ ses'[x].receiver = ses[x].receiver
    /\ ses'[x].received = ses[x].received

(* A session whose payload or ACK is under way has its timers, hence is in   *)
(* the map; a socket that was given an ACK was ended with it.                *)
Timed(r) == r.state \in {"TRANSFERRING", "WAIT_ACK"} => r.timers # {}
Gone(c, s) == c[s] \in {"closing", "closed"}
PipeInv ==
    /\ \A o \in Sockets : Timed(ses[o])
    /\ \A s \in Sockets : reply[s] = "ack" => Gone(conn, s)

PipeStep == [Pipe!PipeNext]_(Pipe!pipeVars)

(* A step that breaks the pipes of P and leaves the others as they are; for  *)
(* P = {} it leaves all of them.                                             *)
LEMMA ShowsBreaks ==
    ASSUME NEW P \in SUBSET Sockets, hdr' = hdr, Notified' = Notified,
           \A x \in Sockets : Stays(x),
           \A x \in P : PhaseOf(ses[x].state) \in {"pairing", "flowing", "whole"},
           \A x \in Sockets : PhaseOf(ses'[x].state) =
              IF x \in P THEN "broken" ELSE PhaseOf(ses[x].state)
    PROVE  PipeStep
<1>1. Pipe!Breaks(P)
  BY DEF Pipe!Breaks, Stays, Notified
<1> QED BY <1>1 DEF PipeStep, Pipe!PipeNext

(* closeSocket with an error line, over the connections c: no ACK is written *)
(* or overwritten, and no ended socket comes back.                           *)
LEMMA TellsNoAck ==
    ASSUME TypeOK, PipeInv, NEW c \in [Sockets -> ConnStates], NEW S,
           \A s \in Sockets : Gone(conn, s) => Gone(c, s),
           reply' = reply \/ reply' = Told(c, S, "error"),
           \A s \in Sockets : Gone(c, s) => Gone(conn', s)
    PROVE  /\ Notified' = Notified
           /\ \A s \in Sockets : reply'[s] = "ack" => Gone(conn', s)
<1>1. ASSUME NEW s \in Sockets PROVE reply'[s] = "ack" <=> reply[s] = "ack"
  <2>1. CASE reply' = reply
    BY <2>1
  <2>2. CASE reply' = Told(c, S, "error")
    <3>1. reply'[s] = IF s \in S /\ Open(c, s) THEN "error" ELSE reply[s]
      BY <2>2 DEF Told
    <3>2. reply[s] = "ack" => ~Open(c, s)
      BY DEF PipeInv, Gone, Open
    <3> QED BY <3>1, <3>2
  <2> QED BY <2>1, <2>2
<1>2. Notified' = Notified
  BY <1>1 DEF Notified
<1> QED BY <1>1, <1>2 DEF PipeInv

(* Ending sockets brings none back.                                          *)
LEMMA EndedGone ==
    ASSUME NEW c \in [Sockets -> ConnStates], NEW S, NEW s \in Sockets, Gone(c, s)
    PROVE  Gone(Ended(c, S), s)
BY DEF Gone, Ended, Open

(* Session o of the objects m, which differ from the current ones in timers, *)
(* listeners and flags only, is torn down over the connections c.            *)
LEMMA TearDownPipe ==
    ASSUME TypeOK, PipeInv, NEW o \in Sockets, NEW m \in [Sockets -> SessionType],
           NEW c \in [Sockets -> ConnStates], NEW b, TearDown(o, m, c, b), hdr' = hdr,
           \A s \in Sockets : Gone(conn, s) => Gone(c, s),
           \A x \in Sockets : /\ m[x].sender = ses[x].sender /\ m[x].receiver = ses[x].receiver
                              /\ m[x].received = ses[x].received /\ m[x].state = ses[x].state
                              /\ x # o => Timed(m[x]),
           ses[o].state \in Active
    PROVE  PipeStep /\ PipeInv'
<1> DEFINE q == [Released(m[o]) EXCEPT !.state = "FAILED"]
<1>1. /\ ses' = [m EXCEPT ![o] = q] /\ conn' = Ended(c, {m[o].sender, m[o].receiver})
      /\ reply' = Told(c, {m[o].sender, m[o].receiver}, "error")
  BY DEF TearDown
<1>2. /\ q.sender = m[o].sender /\ q.receiver = m[o].receiver /\ q.received = m[o].received
      /\ q.state = "FAILED"
  BY DEF Released, SessionType
<1> HIDE DEF q
<1>3. ses'[o] = q /\ \A x \in Sockets \ {o} : ses'[x] = m[x]
  BY <1>1
<1>4. /\ Notified' = Notified
      /\ \A s \in Sockets : reply'[s] = "ack" => Gone(conn', s)
  BY <1>1, EndedGone, TellsNoAck
<1>5. \A x \in Sockets : Stays(x)
  BY <1>2, <1>3 DEF Stays
<1>6. PhaseOf(ses[o].state) \in {"pairing", "flowing", "whole"} /\ PhaseOf("FAILED") = "broken"
  BY DEF PhaseOf, Active
<1>7. \A x \in Sockets : PhaseOf(ses'[x].state) =
         IF x \in {o} THEN "broken" ELSE PhaseOf(ses[x].state)
  BY <1>2, <1>3, <1>6
<1>8. PipeStep
  BY <1>4, <1>5, <1>6, <1>7, ShowsBreaks
<1>9. \A x \in Sockets : Timed(ses'[x])
  BY <1>2, <1>3 DEF Timed
<1> QED BY <1>4, <1>8, <1>9 DEF PipeInv

(* A step that no pipe shows.                                                *)
LEMMA QuietPipe ==
    ASSUME TypeOK, PipeInv, hdr' = hdr,
           \A x \in Sockets : Stays(x) /\ PhaseOf(ses'[x].state) = PhaseOf(ses[x].state)
                                       /\ Timed(ses'[x]),
           Notified' = Notified, \A s \in Sockets : reply'[s] = "ack" => Gone(conn', s)
    PROVE  PipeStep /\ PipeInv'
<1>1. PipeStep
  <2>1. {} \in SUBSET Sockets
    OBVIOUS
  <2> QED BY <2>1, ShowsBreaks
<1> QED BY <1>1 DEF PipeInv

(* destroySession(i) breaks the pipe the map holds under i, if any.          *)
LEMMA DestroyPipe ==
    ASSUME IndInv, PipeInv, NEW i \in Ids, NEW m \in [Sockets -> SessionType],
           NEW c \in [Sockets -> ConnStates], DestroySession(i, m, c), hdr' = hdr,
           \A s \in Sockets : Gone(conn, s) => Gone(c, s),
           \A x \in Sockets : /\ m[x].sender = ses[x].sender /\ m[x].receiver = ses[x].receiver
                              /\ m[x].received = ses[x].received /\ m[x].state = ses[x].state
                              /\ x # sessions[i] => Timed(m[x])
    PROVE  PipeStep /\ PipeInv'
<1>1. TypeOK
  BY DEF IndInv
<1>2. CASE sessions[i] = None
  <2>1. conn' = c /\ ses' = m /\ reply' = reply
    BY <1>2 DEF DestroySession
  <2>2. /\ Notified' = Notified
        /\ \A s \in Sockets : reply'[s] = "ack" => Gone(conn', s)
    <3>1. \E S : TRUE
      OBVIOUS
    <3> QED BY <1>1, <2>1, <3>1, TellsNoAck
  <2>3. None \notin Sockets
    BY RelayConstants
  <2>4. \A x \in Sockets : Stays(x) /\ ses'[x].state = ses[x].state /\ Timed(ses'[x])
    BY <1>2, <2>1, <2>3 DEF Stays
  <2> QED BY <1>1, <2>2, <2>4, QuietPipe
<1>3. CASE sessions[i] # None
  <2>1. sessions[i] \in Sockets /\ ses[sessions[i]].state \in Active
    BY <1>1, <1>3 DEF IndInv, Placed, TypeOK
  <2>2. TearDown(sessions[i], m, c, inFlight)
    BY <1>3 DEF DestroySession
  <2> QED BY <1>1, <2>1, <2>2, TearDownPipe
<1> QED BY <1>2, <1>3

(* Connections that have not registered, and refused registrations, show     *)
(* nothing.                                                                  *)
LEMMA ConnectionPipe ==
    ASSUME IndInv, PipeInv, NEW s \in Sockets, NEW h,
           \/ Accept(s) \/ HeaderFails(s) \/ HeaderTimeout(s) \/ RegisterRefused(s, h)
           \/ h \in Headers /\ (RegisterBadMetadata(s, h) \/ RegisterOverLimit(s, h))
    PROVE  PipeStep /\ PipeInv'
<1>1. TypeOK /\ conn \in [Sockets -> ConnStates]
  BY DEF IndInv, TypeOK
<1>2. /\ hdr' = hdr /\ (reply' = reply \/ reply' = Told(conn, {s}, "error"))
      /\ \A x \in Sockets : Gone(conn, x) => Gone(conn', x)
  <2>1. \/ UNCHANGED <<hdr, reply>> /\ conn[s] = "idle" /\ \E k : conn' = [conn EXCEPT ![s] = k]
        \/ /\ hdr' = hdr /\ reply' = Told(conn, {s}, "error")
           /\ \/ conn' = [conn EXCEPT ![s] = "closing"]
              \/ conn[s] = "header" /\ conn' = [conn EXCEPT ![s] = "expired"]
    BY DEF Accept, HeaderFails, HeaderTimeout, RegisterRefused, RegisterBadMetadata,
           RegisterOverLimit, Refuse
  <2> QED BY <1>1, <2>1 DEF Gone
<1>3. /\ Notified' = Notified
      /\ \A x \in Sockets : reply'[x] = "ack" => Gone(conn', x)
  BY <1>1, <1>2, TellsNoAck
<1>4. ASSUME h \in Headers, RegisterBadMetadata(s, h) \/ RegisterOverLimit(s, h)
      PROVE  LET o == Owner(s, h)
                 r == SessionFor(h)
             IN /\ o \in Sockets /\ RecOK(r, hdr)
                /\ r.state = "PAIRING" /\ PhaseOf(ses[o].state) = "pairing"
                /\ ses[o].sender = r.sender /\ ses[o].receiver = r.receiver
                /\ ses[o].received = 0 /\ r.received = 0
  <2> DEFINE o == Owner(s, h)
             r == SessionFor(h)
  <2>1. Registers(s) /\ Admitted(h)
    BY <1>4 DEF RegisterBadMetadata, RegisterOverLimit
  <2>2. /\ o \in Sockets /\ RecOK(r, hdr) /\ r.state = "PAIRING" /\ h.id \in Ids
        /\ sessions[h.id] \in {o, None} /\ (sessions[h.id] = None => ses[o].state = "absent")
        /\ ses[o].sender = r.sender /\ ses[o].receiver = r.receiver
    BY <1>4, <2>1, RegistrationFacts
  <2>3. sessions[h.id] = o => ses[o].state = "PAIRING"
    BY <2>1, <2>2, RelayConstants DEF Admitted, SessionFor, Fresh
  <2>4. ses[o].state \in {"absent", "PAIRING"} /\ RecOK(ses[o], hdr)
    BY <2>2, <2>3 DEF IndInv, SessionsOK
  <2> QED BY <2>2, <2>4 DEF RecOK, PhaseOf
<1>5. \A x \in Sockets : Stays(x) /\ PhaseOf(ses'[x].state) = PhaseOf(ses[x].state)
                                  /\ Timed(ses'[x])
  <2>1. CASE ses' = ses
    BY <2>1 DEF Stays, PipeInv
  <2>2. ASSUME NEW q, ses' = [ses EXCEPT ![Owner(s, h)] = q],
               h \in Headers, RegisterBadMetadata(s, h) \/ RegisterOverLimit(s, h),
               q = SessionFor(h) \/ q = Released(SessionFor(h))
        PROVE  \A x \in Sockets : Stays(x) /\ PhaseOf(ses'[x].state) = PhaseOf(ses[x].state)
                                           /\ Timed(ses'[x])
    <3> DEFINE o == Owner(s, h)
               r == SessionFor(h)
    <3>1. /\ o \in Sockets /\ RecOK(r, hdr)
          /\ r.state = "PAIRING" /\ PhaseOf(ses[o].state) = "pairing"
          /\ ses[o].sender = r.sender /\ ses[o].receiver = r.receiver
          /\ ses[o].received = 0 /\ r.received = 0
      BY <1>4, <2>2
    <3>2. /\ q.state = "PAIRING" /\ q.sender = r.sender /\ q.receiver = r.receiver
          /\ q.received = 0
      <4>1. q = r \/ q = Released(r)
        BY <2>2
      <4> HIDE DEF r
      <4> QED BY <3>1, <4>1 DEF Released, RecOK, SessionType
    <3> HIDE DEF o, r
    <3>3. ses'[o] = q /\ \A x \in Sockets \ {o} : ses'[x] = ses[x]
      BY <1>1, <2>2, <3>1 DEF TypeOK, o
    <3>4. PhaseOf("PAIRING") = "pairing"
      BY DEF PhaseOf
    <3> QED BY <3>1, <3>2, <3>3, <3>4 DEF Stays, Timed, PipeInv
  <2>3. \/ ses' = ses
        \/ /\ h \in Headers /\ (RegisterBadMetadata(s, h) \/ RegisterOverLimit(s, h))
           /\ \E q : /\ ses' = [ses EXCEPT ![Owner(s, h)] = q]
                     /\ q = SessionFor(h) \/ q = Released(SessionFor(h))
    BY DEF Accept, HeaderFails, HeaderTimeout, RegisterRefused, RegisterBadMetadata,
           RegisterOverLimit
  <2> QED BY <2>1, <2>2, <2>3
<1> QED BY <1>1, <1>2, <1>3, <1>5, QuietPipe

(* A timer breaks the pipe of its session, which is the one the map holds.   *)
LEMMA TimerPipe ==
    ASSUME IndInv, PipeInv, NEW o \in Sockets, NEW k, TimerFires(o, k)
    PROVE  PipeStep /\ PipeInv'
<1> DEFINE q == [ses[o] EXCEPT !.timers = @ \ {k}]
           m == [ses EXCEPT ![o] = q]
<1>1. k \in ses[o].timers /\ DestroySession(ses[o].id, m, conn) /\ hdr' = hdr
  BY DEF TimerFires
<1>2. InMap(o)
  BY <1>1 DEF IndInv, TimersMatchPhase
<1>3. ses[o].id \in Ids /\ sessions[ses[o].id] = o
  BY <1>2, InMapFacts
<1>4. conn \in [Sockets -> ConnStates] /\ ses \in [Sockets -> SessionType]
  BY DEF IndInv, TypeOK
<1>5. /\ q \in SessionType /\ q.sender = ses[o].sender /\ q.receiver = ses[o].receiver
      /\ q.received = ses[o].received /\ q.state = ses[o].state
  BY <1>4 DEF SessionType
<1> HIDE DEF q
<1>6. m \in [Sockets -> SessionType] /\ m[o] = q /\ \A x \in Sockets \ {o} : m[x] = ses[x]
  BY <1>4, <1>5
<1> HIDE DEF m
<1> QED BY <1>1, <1>3, <1>4, <1>5, <1>6, DestroyPipe DEF PipeInv

(* An overrun of the sender and a missing ACK break the pipe the map holds   *)
(* under the id, if any.                                                     *)
LEMMA CallbackPipe ==
    ASSUME IndInv, PipeInv, NEW o \in Sockets, SenderOverrun(o) \/ ReceiverNoAck(o)
    PROVE  PipeStep /\ PipeInv'
<1>1. conn \in [Sockets -> ConnStates] /\ ses \in [Sockets -> SessionType]
  BY DEF IndInv, TypeOK
<1>2. PICK q \in SessionType :
         /\ DestroySession(ses[o].id, [ses EXCEPT ![o] = q], conn) /\ hdr' = hdr
         /\ q.sender = ses[o].sender /\ q.receiver = ses[o].receiver
         /\ q.received = ses[o].received /\ q.state = ses[o].state /\ q.timers = ses[o].timers
  <2> DEFINE q1 == [ses[o] EXCEPT !.overrun = FALSE]
             q2 == [ses[o] EXCEPT !.ackWait = FALSE]
  <2>1. /\ q1 \in SessionType /\ q1.sender = ses[o].sender /\ q1.receiver = ses[o].receiver
        /\ q1.received = ses[o].received /\ q1.state = ses[o].state /\ q1.timers = ses[o].timers
    BY <1>1 DEF SessionType
  <2>2. /\ q2 \in SessionType /\ q2.sender = ses[o].sender /\ q2.receiver = ses[o].receiver
        /\ q2.received = ses[o].received /\ q2.state = ses[o].state /\ q2.timers = ses[o].timers
    BY <1>1 DEF SessionType
  <2>3. CASE SenderOverrun(o)
    BY <2>1, <2>3 DEF SenderOverrun
  <2>4. CASE ReceiverNoAck(o)
    BY <2>2, <2>4 DEF ReceiverNoAck
  <2> QED BY <2>3, <2>4
<1>3. ses[o].id \in Ids
  <2>1. ses[o].overrun \/ ses[o].ackWait
    BY DEF SenderOverrun, ReceiverNoAck
  <2>2. RecOK(ses[o], hdr)
    BY DEF IndInv, SessionsOK
  <2> QED BY <2>1, <2>2 DEF RecOK
<1> DEFINE m == [ses EXCEPT ![o] = q]
<1>4. m \in [Sockets -> SessionType] /\ m[o] = q /\ \A x \in Sockets \ {o} : m[x] = ses[x]
  BY <1>1
<1>5. \A x \in Sockets : /\ m[x].sender = ses[x].sender /\ m[x].receiver = ses[x].receiver
                         /\ m[x].received = ses[x].received /\ m[x].state = ses[x].state
                         /\ Timed(m[x])
  <2> HIDE DEF m
  <2> QED BY <1>2, <1>4 DEF Timed, PipeInv
<1>6. DestroySession(ses[o].id, m, conn)
  BY <1>2
<1> HIDE DEF m
<1> QED BY <1>1, <1>2, <1>3, <1>4, <1>5, <1>6, DestroyPipe

(* So does an error or the end of a registered connection.                   *)
LEMMA SocketPipe ==
    ASSUME IndInv, PipeInv, NEW s \in Sockets, SocketError(s) \/ SocketClose(s)
    PROVE  PipeStep /\ PipeInv'
<1>1. PICK k \in {"closing", "closed"} :
         LET c == [conn EXCEPT ![s] = k]
         IN /\ IF hdr[s] = None
               THEN conn' = c /\ UNCHANGED <<reply, sessions, ses, inFlight>>
               ELSE DestroySession(hdr[s].id, ses, c)
            /\ UNCHANGED <<up, hdr>>
  BY DEF SocketError, SocketClose
<1> DEFINE c == [conn EXCEPT ![s] = k]
<1>2. TypeOK /\ ses \in [Sockets -> SessionType]
  BY DEF IndInv, TypeOK
<1>3. c \in [Sockets -> ConnStates] /\ \A x \in Sockets : Gone(conn, x) => Gone(c, x)
  BY <1>2 DEF TypeOK, ConnStates, Gone
<1>4. CASE hdr[s] = None
  <2>1. conn' = c /\ reply' = reply /\ ses' = ses /\ hdr' = hdr
    BY <1>1, <1>4
  <2> HIDE DEF c
  <2>2. Notified' = Notified /\ \A x \in Sockets : reply'[x] = "ack" => Gone(conn', x)
    BY <1>3, <2>1 DEF Notified, PipeInv
  <2>3. \A x \in Sockets : Stays(x) /\ ses'[x].state = ses[x].state /\ Timed(ses'[x])
    BY <2>1 DEF Stays, PipeInv
  <2> QED BY <1>2, <2>1, <2>2, <2>3, QuietPipe
<1>5. CASE hdr[s] # None
  <2>1. hdr[s].id \in Ids
    BY <1>2, <1>5, RelayConstants DEF TypeOK, HeaderType
  <2>2. DestroySession(hdr[s].id, ses, c) /\ hdr' = hdr
    BY <1>1, <1>5
  <2> HIDE DEF c
  <2> QED BY <1>2, <1>3, <2>1, <2>2, DestroyPipe DEF PipeInv
<1> QED BY <1>4, <1>5

(* Waking the sender shows nothing.                                          *)
LEMMA ResumePipe ==
    ASSUME IndInv, PipeInv, NEW o \in Sockets, NEW cb, ResumeSender(o, cb)
    PROVE  PipeStep /\ PipeInv'
<1> DEFINE flows == InMap(o) /\ ses[o].state = "TRANSFERRING"
           q == Woken(ses[o], cb, flows)
<1>1. ses' = [ses EXCEPT ![o] = q] /\ UNCHANGED <<conn, hdr, reply>>
  BY DEF ResumeSender
<1>2. TypeOK /\ ses \in [Sockets -> SessionType]
  BY DEF IndInv, TypeOK
<1>3. /\ q.sender = ses[o].sender /\ q.receiver = ses[o].receiver /\ q.received = ses[o].received
      /\ q.state = ses[o].state /\ q.timers = ses[o].timers
  <2> HIDE DEF flows
  <2>1. ses[o] \in SessionType
    BY <1>2
  <2> QED BY <2>1, WokenOK
<1> HIDE DEF q
<1>4. \A x \in Sockets : Stays(x) /\ ses'[x].state = ses[x].state /\ Timed(ses'[x])
  BY <1>1, <1>2, <1>3 DEF Stays, Timed, PipeInv
<1>5. Notified' = Notified /\ \A x \in Sockets : reply'[x] = "ack" => Gone(conn', x)
  BY <1>1 DEF Notified, PipeInv
<1> QED BY <1>1, <1>2, <1>4, <1>5, QuietPipe

(* consume hands n bytes on, and waits for the ACK only when none is due.    *)
LEMMA ConsumedBrings ==
    ASSUME NEW r \in SessionType, r.state = "TRANSFERRING", NEW n \in Nat, n <= r.remaining,
           NEW full
    PROVE  LET q == Consumed([r EXCEPT !.taken = @ + n], n, full)
           IN q.received = r.received + n /\ (q.state = "TRANSFERRING" => q.remaining # 0)
<1> DEFINE p == [r EXCEPT !.taken = @ + n]
           fed == [p EXCEPT !.remaining = @ - n, !.received = @ + n,
                            !.paused = @ \/ (full /\ n > 0),
                            !.wake = IF full /\ n > 0 THEN @ \cup {"drain"} ELSE @]
<1>1. /\ fed.received = r.received + n /\ fed.state = r.state
      /\ AwaitAck(fed).received = r.received + n /\ AwaitAck(fed).state = "WAIT_ACK"
  BY DEF AwaitAck, SessionType
<1>2. Consumed(p, n, full) = IF fed.remaining = 0 THEN AwaitAck(fed) ELSE fed
  BY DEF Consumed
<1> HIDE DEF fed, p
<1> QED BY <1>1, <1>2 DEF p

(* So does startTransfer with what came behind the header.                   *)
LEMMA StartedBrings ==
    ASSUME NEW r \in SessionType, r.received = 0, NEW size \in Nat, r.extra <= size, NEW full
    PROVE  LET q == Started(r, size, full)
           IN q.received = r.extra /\ (q.state = "TRANSFERRING" => q.remaining # 0)
<1> DEFINE begun == [r EXCEPT !.state = "TRANSFERRING", !.remaining = size,
                              !.timers = {"stall", "deadline"}]
           fed == [begun EXCEPT !.remaining = @ - r.extra, !.received = @ + r.extra,
                            !.paused = @ \/ (full /\ r.extra > 0),
                            !.wake = IF full /\ r.extra > 0 THEN @ \cup {"drain"} ELSE @]
           got == Consumed(begun, r.extra, full)
<1>1. r.extra \in Nat
  BY DEF SessionType
<1>2. /\ fed.received = r.extra /\ fed.state = "TRANSFERRING"
      /\ AwaitAck(fed).received = r.extra /\ AwaitAck(fed).state = "WAIT_ACK"
  BY <1>1 DEF AwaitAck, SessionType
<1>3. got = IF fed.remaining = 0 THEN AwaitAck(fed) ELSE fed
  BY DEF Consumed
<1>4. Started(r, size, full) = IF got.state = "TRANSFERRING"
                               THEN [got EXCEPT !.wake = @ \cup {"immediate"}] ELSE got
  BY DEF Started
<1>5. /\ [fed EXCEPT !.wake = @ \cup {"immediate"}].received = fed.received
      /\ [fed EXCEPT !.wake = @ \cup {"immediate"}].state = fed.state
      /\ [fed EXCEPT !.wake = @ \cup {"immediate"}].remaining = fed.remaining
  BY DEF SessionType
<1> HIDE DEF fed, got, begun
<1>6. CASE fed.remaining = 0
  <2>1. got = AwaitAck(fed)
    BY <1>3, <1>6
  <2> QED BY <1>2, <1>4, <2>1
<1>7. CASE fed.remaining # 0
  <2>1. got = fed
    BY <1>3, <1>7
  <2> QED BY <1>2, <1>4, <1>5, <1>7, <2>1
<1> QED BY <1>6, <1>7

(* The declared size of a carrying session, and where its pipe stands.       *)
LEMMA Stands ==
    ASSUME NEW H, NEW r, RecOK(r, H), r.state \in {"TRANSFERRING", "WAIT_ACK"},
           r.state = "TRANSFERRING" => r.remaining # 0,
           NEW size, size = H[r.sender].size
    PROVE  /\ r.received \in Nat /\ size \in Nat /\ r.received \in 0..size
           /\ PhaseOf(r.state) = Pipe!PhaseAt(r.received, size)
<1>1. /\ r.remaining \in Nat /\ r.received \in Nat /\ r.remaining + r.received = size
      /\ r.state = "WAIT_ACK" => r.remaining = 0
  BY DEF RecOK, PairOK, SessionType
<1>2. size \in Nat /\ r.received \in 0..size /\ (r.received = size <=> r.remaining = 0)
  BY <1>1
<1>3. CASE r.state = "TRANSFERRING"
  BY <1>1, <1>2, <1>3 DEF PhaseOf, Pipe!PhaseAt
<1>4. CASE r.state = "WAIT_ACK"
  BY <1>1, <1>2, <1>4 DEF PhaseOf, Pipe!PhaseAt
<1> QED BY <1>1, <1>2, <1>3, <1>4

(* A chunk passes, or breaks the pipe when it is more than is due.           *)
LEMMA SenderDataPipe ==
    ASSUME IndInv, PipeInv, NEW o \in Sockets, NEW n \in 1..MaxChunk, NEW full \in BOOLEAN,
           SenderData(o, n, full)
    PROVE  PipeStep /\ PipeInv'
<1>1. InMap(o) /\ ses[o].state = "TRANSFERRING" /\ hdr' = hdr
  BY DEF SenderData
<1>2. /\ TypeOK /\ conn \in [Sockets -> ConnStates] /\ ses \in [Sockets -> SessionType]
      /\ RecOK(ses[o], hdr) /\ n \in Nat /\ n > 0
  BY RelayConstants DEF IndInv, TypeOK, SessionsOK
<1>3. CASE n > ses[o].remaining
  <2>1. TearDown(o, ses, conn, inFlight)
    BY <1>3 DEF SenderData
  <2> QED BY <1>1, <1>2, <2>1, TearDownPipe DEF PipeInv, Active
<1>4. CASE ~(n > ses[o].remaining)
  <2> DEFINE r == ses[o]
             q == Consumed([r EXCEPT !.taken = @ + n], n, full)
             size == hdr[r.sender].size
  <2>1. ses' = [ses EXCEPT ![o] = q] /\ UNCHANGED <<conn, reply>>
    BY <1>4 DEF SenderData
  <2>2. r \in SessionType /\ n <= r.remaining /\ r.remaining \in Nat
    BY <1>2, <1>4 DEF SessionType
  <2>3. /\ RecOK(q, hdr) /\ q.sender = r.sender /\ q.receiver = r.receiver
        /\ q.state \in {"TRANSFERRING", "WAIT_ACK"} /\ q.timers # {}
    <3>1. r.timers # {}
      BY <1>1 DEF PipeInv, Timed
    <3>2. /\ RecOK(q, hdr) /\ q.sender = r.sender /\ q.receiver = r.receiver
          /\ q.state \in {"TRANSFERRING", "WAIT_ACK"}
          /\ q.timers = r.timers \cup (IF q.state = "WAIT_ACK" THEN {"stall"} ELSE {})
      <4>1. hdr \in [Sockets -> Headers \cup {None}] /\ RecOK(r, hdr) /\ r.state = "TRANSFERRING"
        BY <1>1, <1>2 DEF TypeOK
      <4> HIDE DEF r
      <4> QED BY <1>2, <2>2, <4>1, ConsumedOK
    <3> HIDE DEF q, r
    <3> QED BY <3>1, <3>2
  <2>4. q.received = r.received + n /\ (q.state = "TRANSFERRING" => q.remaining # 0)
    <3>1. r.state = "TRANSFERRING"
      BY <1>1
    <3> HIDE DEF r
    <3> QED BY <1>2, <2>2, <3>1, ConsumedBrings
  <2>5. /\ q.received \in 0..size /\ size \in Nat
        /\ PhaseOf(q.state) = Pipe!PhaseAt(q.received, size)
    <3>1. size = hdr[q.sender].size
      BY <2>3
    <3> HIDE DEF q, r, size
    <3> QED BY <2>3, <2>4, <3>1, Stands
  <2>6. q.received \in (r.received + 1)..size
    <3>1. r.received \in Nat
      BY <2>2 DEF SessionType
    <3> HIDE DEF q, r, size
    <3> QED BY <1>2, <2>4, <2>5, <3>1
  <2>7. ses'[o] = q /\ \A x \in Sockets \ {o} : ses'[x] = ses[x]
    BY <1>2, <2>1
  <2> HIDE DEF q
  <2>8. PhaseOf(r.state) = "flowing"
    BY <1>1 DEF PhaseOf
  <2>9. Notified' = Notified /\ \A x \in Sockets : reply'[x] = "ack" => Gone(conn', x)
    BY <2>1 DEF Notified, PipeInv
  <2>10. Pipe!Passes(o)
    BY <1>1, <2>3, <2>5, <2>6, <2>7, <2>8, <2>9 DEF Pipe!Passes, Notified
  <2>11. \A x \in Sockets : Timed(ses'[x])
    BY <2>3, <2>7 DEF Timed, PipeInv
  <2> QED BY <2>9, <2>10, <2>11 DEF PipeStep, Pipe!PipeNext, PipeInv
<1> QED BY <1>3, <1>4

(* A good ACK acknowledges the pipe and reaches its sender if that is still  *)
(* there; a bad one breaks it; one of a session that is gone shows nothing.  *)
LEMMA ReceiverAckPipe ==
    ASSUME IndInv, PipeInv, NEW o \in Sockets, NEW good \in BOOLEAN, ReceiverAck(o, good)
    PROVE  PipeStep /\ PipeInv'
<1> DEFINE f == [ses[o] EXCEPT !.ackWait = FALSE]
           m == [ses EXCEPT ![o] = f]
           snd == ses[o].sender
           rcv == ses[o].receiver
<1>1. ses[o].ackWait /\ hdr' = hdr
  BY DEF ReceiverAck
<1>2. /\ TypeOK /\ conn \in [Sockets -> ConnStates] /\ ses \in [Sockets -> SessionType]
      /\ reply \in [Sockets -> Replies] /\ RecOK(ses[o], hdr)
  BY DEF IndInv, TypeOK, SessionsOK
<1>3. /\ f \in SessionType /\ f.sender = snd /\ f.receiver = rcv /\ f.timers = ses[o].timers
      /\ f.received = ses[o].received /\ f.state = ses[o].state
  BY <1>2 DEF SessionType
<1>4. m \in [Sockets -> SessionType] /\ m[o] = f /\ \A x \in Sockets \ {o} : m[x] = ses[x]
  BY <1>2, <1>3
<1>5. \A x \in Sockets : /\ m[x].sender = ses[x].sender /\ m[x].receiver = ses[x].receiver
                         /\ m[x].received = ses[x].received /\ m[x].state = ses[x].state
                         /\ Timed(m[x])
  <2> HIDE DEF m, f
  <2> QED BY <1>3, <1>4 DEF Timed, PipeInv
<1>6. CASE ~InMap(o)
  <2>1. ses' = m /\ conn' = conn /\ reply' = reply
    BY <1>6 DEF ReceiverAck
  <2> HIDE DEF m
  <2>2. \A x \in Sockets : Stays(x) /\ ses'[x].state = ses[x].state /\ Timed(ses'[x])
    BY <1>5, <2>1 DEF Stays
  <2>3. Notified' = Notified /\ \A x \in Sockets : reply'[x] = "ack" => Gone(conn', x)
    BY <2>1 DEF Notified, PipeInv
  <2> QED BY <1>1, <1>2, <2>2, <2>3, QuietPipe
<1>7. CASE InMap(o) /\ ~good
  <2>1. TearDown(o, m, conn, inFlight)
    BY <1>7 DEF ReceiverAck
  <2>2. ses[o].state \in Active
    BY <1>7, InMapFacts
  <2> HIDE DEF m
  <2> QED BY <1>1, <1>2, <1>4, <1>5, <2>1, <2>2, TearDownPipe
<1>8. CASE InMap(o) /\ good
  <2> DEFINE q == [Released(f) EXCEPT !.state = "DONE"]
  <2>1. /\ ses' = [m EXCEPT ![o] = [Released(@) EXCEPT !.state = "DONE"]]
        /\ conn' = Ended(conn, {snd, rcv})
        /\ reply' = [Told(conn, {rcv}, "end")
                        EXCEPT ![snd] = IF Open(conn, snd) THEN "ack" ELSE @]
    BY <1>8 DEF ReceiverAck
  <2>2. /\ q.sender = snd /\ q.receiver = rcv /\ q.received = ses[o].received
        /\ q.state = "DONE"
    <3> HIDE DEF f, snd, rcv
    <3> QED BY <1>3 DEF Released, SessionType
  <2>3. ses' = [m EXCEPT ![o] = q]
    <3> HIDE DEF f
    <3> QED BY <1>4, <2>1
  <2> HIDE DEF q, m, f
  <2>4. ses'[o] = q /\ \A x \in Sockets \ {o} : ses'[x] = ses[x]
    BY <1>4, <2>3
  <2>5. ses[o].state = "WAIT_ACK" /\ snd \in Sockets
    <3>1. ses[o].state \in Active
      BY <1>8, InMapFacts
    <3>2. ses[o].state = "WAIT_ACK"
      BY <1>1, <1>2, <3>1 DEF RecOK, Active
    <3> QED BY <1>2, <3>2 DEF RecOK, PairOK, SessionType
  <2>6. PhaseOf("WAIT_ACK") = "whole" /\ PhaseOf("DONE") = "acked"
    BY DEF PhaseOf
  <2>7. \A x \in Sockets : reply'[x] = "ack" <=> reply[x] = "ack" \/ (x = snd /\ Open(conn, snd))
    <3> SUFFICES ASSUME NEW x \in Sockets
                 PROVE  reply'[x] = "ack" <=> reply[x] = "ack" \/ (x = snd /\ Open(conn, snd))
      OBVIOUS
    <3>1. Told(conn, {rcv}, "end")[x] = "ack" <=> reply[x] = "ack"
      BY DEF Told, Open, Gone, PipeInv
    <3>2. Told(conn, {rcv}, "end") = [y \in Sockets |-> Told(conn, {rcv}, "end")[y]]
      BY DEF Told
    <3>3. reply'[x] = IF x = snd /\ Open(conn, snd) THEN "ack" ELSE Told(conn, {rcv}, "end")[x]
      BY <2>1, <2>5, <3>2
    <3> QED BY <3>1, <3>3
  <2>8. Notified' \in {Notified, Notified \cup {snd}}
    <3>1. CASE Open(conn, snd)
      <4>1. Notified' = Notified \cup {snd}
        BY <2>5, <2>7, <3>1 DEF Notified
      <4> QED BY <4>1
    <3>2. CASE ~Open(conn, snd)
      <4>1. \A x \in Sockets : reply'[x] = "ack" <=> reply[x] = "ack"
        BY <2>7, <3>2
      <4>2. Notified' = Notified
        BY <4>1 DEF Notified
      <4> QED BY <4>2
    <3> QED BY <3>1, <3>2
  <2>9. \A x \in Sockets : reply'[x] = "ack" => Gone(conn', x)
    BY <2>1, <2>7 DEF Ended, Open, Gone, PipeInv
  <2>10. Pipe!Acknowledges(o)
    <3>1. [x \in Sockets |-> PhaseOf(ses'[x].state)]
             = [[x \in Sockets |-> PhaseOf(ses[x].state)] EXCEPT ![o] = "acked"]
      BY <2>2, <2>4, <2>6
    <3>2. /\ [x \in Sockets |-> ses'[x].sender] = [x \in Sockets |-> ses[x].sender]
          /\ [x \in Sockets |-> ses'[x].receiver] = [x \in Sockets |-> ses[x].receiver]
          /\ [x \in Sockets |-> ses'[x].received] = [x \in Sockets |-> ses[x].received]
      BY <2>2, <2>4
    <3>3. [x \in Sockets |-> PhaseOf(ses[x].state)][o] = "whole"
      BY <2>5, <2>6
    <3>4. [x \in Sockets |-> ses[x].sender][o] = snd
      OBVIOUS
    <3> QED BY <1>1, <2>8, <3>1, <3>2, <3>3, <3>4 DEF Pipe!Acknowledges, Notified
  <2>11. \A x \in Sockets : Timed(ses'[x])
    BY <2>2, <2>4 DEF Timed, PipeInv
  <2> QED BY <2>9, <2>10, <2>11 DEF PipeStep, Pipe!PipeNext, PipeInv
<1> QED BY <1>6, <1>7, <1>8

(* A shutdown breaks every pipe that is still in the map.                    *)
LEMMA ShutdownPipe ==
    ASSUME IndInv, PipeInv, Shutdown
    PROVE  PipeStep /\ PipeInv'
<1> DEFINE P == {x \in Sockets : InMap(x)}
<1>1. /\ TypeOK /\ conn \in [Sockets -> ConnStates] /\ ses \in [Sockets -> SessionType]
      /\ hdr' = hdr
      /\ \A x \in Sockets : ses'[x] = IF InMap(x)
                                       THEN [Released(ses[x]) EXCEPT !.state = "FAILED"]
                                       ELSE ses[x]
  BY DEF IndInv, TypeOK, Shutdown
<1>2. ASSUME NEW x \in Sockets
      PROVE  LET q == [Released(ses[x]) EXCEPT !.state = "FAILED"]
             IN /\ q.sender = ses[x].sender /\ q.receiver = ses[x].receiver
                /\ q.received = ses[x].received /\ q.state = "FAILED"
  BY <1>1 DEF Released, SessionType
<1>3. \A x \in Sockets : Stays(x) /\ Timed(ses'[x])
  BY <1>1, <1>2 DEF Stays, Timed, PipeInv
<1>4. \A x \in P : PhaseOf(ses[x].state) \in {"pairing", "flowing", "whole"}
  BY InMapFacts DEF PhaseOf, Active
<1>5. \A x \in Sockets : PhaseOf(ses'[x].state) =
         IF x \in P THEN "broken" ELSE PhaseOf(ses[x].state)
  <2>1. PhaseOf("FAILED") = "broken"
    BY DEF PhaseOf
  <2> QED BY <1>1, <1>2, <2>1
<1>6. /\ Notified' = Notified
      /\ \A x \in Sockets : reply'[x] = "ack" => Gone(conn', x)
  <2>1. PICK S : reply' = Told(conn, S, "error")
    BY DEF Shutdown
  <2>2. \A x \in Sockets : Gone(conn, x) => Gone(conn', x)
    BY <1>1 DEF Shutdown, Gone
  <2> QED BY <1>1, <2>1, <2>2, TellsNoAck
<1> HIDE DEF P
<1>7. P \in SUBSET Sockets
  BY DEF P
<1>8. PipeStep
  BY <1>1, <1>3, <1>4, <1>5, <1>6, <1>7, ShowsBreaks
<1> QED BY <1>3, <1>6, <1>8 DEF PipeInv

(* Side by side, s entered r, the session of h, which had that side free.    *)
EntersSide(r, s, h) ==
    \/ /\ h.role = "sender" /\ SessionFor(h).sender = None
       /\ r.sender = s /\ r.receiver = SessionFor(h).receiver
    \/ /\ h.role = "receiver" /\ SessionFor(h).receiver = None
       /\ r.receiver = s /\ r.sender = SessionFor(h).sender

(* No other session carries the transfer of a registration that is admitted. *)
LEMMA NotCarried ==
    ASSUME IndInv, PipeInv, NEW h \in Headers, Admitted(h), NEW x \in Sockets,
           PhaseOf(ses[x].state) \in {"flowing", "whole"}
    PROVE  hdr[ses[x].sender].id # h.id
<1>1. TypeOK /\ RecOK(ses[x], hdr) /\ ses[x].state \in SessionStates /\ h.id \in Ids
  BY RelayConstants DEF IndInv, SessionsOK, RecOK, SessionType, HeaderType
<1>2. ses[x].state \in {"TRANSFERRING", "WAIT_ACK"}
  BY <1>1 DEF PhaseOf, SessionStates
<1>3. ses[x].sender # None /\ hdr[ses[x].sender].id = ses[x].id
  BY <1>1, <1>2 DEF RecOK, PairOK, PartyOK
<1>4. InMap(x)
  BY <1>2 DEF PipeInv, Timed, IndInv, TimersMatchPhase
<1> SUFFICES ASSUME ses[x].id = h.id PROVE FALSE
  BY <1>3
<1>5. sessions[h.id] = x /\ x # None
  BY <1>4, RelayConstants DEF InMap
<1>6. SessionFor(h) = ses[x]
  BY <1>5 DEF SessionFor, Fresh
<1> QED BY <1>2, <1>6 DEF Admitted

(* What a registration makes of session r, which s has entered: it waits for *)
(* the other party, is torn down, or carries.                                *)
JoinedAs(q, r, H) ==
    /\ q.sender = r.sender /\ q.receiver = r.receiver /\ Timed(q)
    /\ LET both == r.sender # None /\ r.receiver # None
           from == H[r.sender]
           to == H[r.receiver]
       IN \/ ~both /\ q = r
          \/ both /\ q.state = "FAILED" /\ q.received = 0
          \/ /\ both /\ Pipe!Agree(from, to)
             /\ q.received \in 0..from.size
             /\ PhaseOf(q.state) = Pipe!PhaseAt(q.received, from.size)

(* The end of a registration puts its session in one of those states, and    *)
(* writes no ACK.                                                            *)
LEMMA JoinShows ==
    ASSUME IndInv, PipeInv, NEW s \in Sockets, NEW h \in Headers, Registers(s), Admitted(h),
           NEW r, NEW b, Join(s, h, r, b), RecOK(r, [hdr EXCEPT ![s] = h]), r.state = "PAIRING"
    PROVE  /\ \E q : JoinedAs(q, r, [hdr EXCEPT ![s] = h])
                     /\ ses' = [ses EXCEPT ![Owner(s, h)] = q]
           /\ Notified' = Notified
           /\ \A x \in Sockets : reply'[x] = "ack" => Gone(conn', x)
<1> DEFINE o == Owner(s, h)
           c == [conn EXCEPT ![s] = IF conn[s] = "header" THEN "bound" ELSE "closing"]
           hs == [hdr EXCEPT ![s] = h]
           both == r.sender # None /\ r.receiver # None
           snd == hs[r.sender]
           rcv == hs[r.receiver]
           mismatch == snd.source # rcv.target \/ snd.target # rcv.source
           m == [ses EXCEPT ![o] = r]
<1>1. o \in Sockets /\ hdr[s] = None
  BY RegistrationFacts
<1>2. /\ TypeOK /\ conn \in [Sockets -> ConnStates] /\ ses \in [Sockets -> SessionType]
      /\ hs \in [Sockets -> Headers \cup {None}]
      /\ r \in SessionType /\ r.received = 0 /\ RecOK(r, hs)
  BY DEF IndInv, TypeOK, RecOK
<1>3. c \in [Sockets -> ConnStates] /\ \A x \in Sockets : Gone(conn, x) => Gone(c, x)
  BY <1>2 DEF ConnStates, Registers, Gone
<1>4. CASE both /\ (mismatch \/ r.extra > snd.size)
  <2> DEFINE q == [Released(r) EXCEPT !.state = "FAILED"]
  <2>1. /\ ses' = [m EXCEPT ![o] = [Released(m[o]) EXCEPT !.state = "FAILED"]]
        /\ \E S : reply' = Told(c, S, "error") /\ conn' = Ended(c, S)
    <3>1. TearDown(o, m, c, b)
      BY <1>4 DEF Join
    <3> HIDE DEF m, c, o
    <3> QED BY <3>1 DEF TearDown
  <2>2. m[o] = r /\ [m EXCEPT ![o] = q] = [ses EXCEPT ![o] = q]
    BY <1>1, <1>2
  <2>3. ses' = [ses EXCEPT ![o] = q]
    <3> HIDE DEF m, o
    <3> QED BY <2>1, <2>2
  <2>4. q.sender = r.sender /\ q.receiver = r.receiver /\ q.state = "FAILED" /\ q.received = 0
    BY <1>2 DEF Released, SessionType
  <2> HIDE DEF q, c
  <2>5. /\ Notified' = Notified
        /\ \A x \in Sockets : reply'[x] = "ack" => Gone(conn', x)
    BY <1>2, <1>3, <2>1, EndedGone, TellsNoAck
  <2>6. JoinedAs(q, r, hs)
    BY <1>4, <2>4 DEF JoinedAs, Timed
  <2> QED BY <2>3, <2>5, <2>6
<1>5. CASE ~(both /\ (mismatch \/ r.extra > snd.size))
  <2>1. PICK full \in BOOLEAN :
           ses' = [ses EXCEPT ![o] = IF both THEN Started(r, snd.size, full) ELSE r]
    BY <1>5 DEF Join
  <2>2. /\ conn' = c
        /\ reply' = [t \in Sockets |->
              CASE both /\ t = r.sender /\ Open(c, t) -> "ready"
                [] t = s /\ s = r.receiver /\ Open(c, t) -> "registered"
                [] OTHER -> reply[t]]
    BY <1>5 DEF Join
  <2>3. \A x \in Sockets : reply'[x] = "ack" <=> reply[x] = "ack"
    <3> SUFFICES ASSUME NEW x \in Sockets PROVE reply'[x] = "ack" <=> reply[x] = "ack"
      OBVIOUS
    <3>1. reply[x] = "ack" => ~Open(c, x)
      BY <1>3 DEF PipeInv, Gone, Open
    <3> HIDE DEF both, c
    <3> QED BY <2>2, <3>1
  <2>4. Notified' = Notified
    BY <2>3 DEF Notified
  <2>5. \A x \in Sockets : reply'[x] = "ack" => Gone(conn', x)
    BY <1>3, <2>2, <2>3 DEF PipeInv
  <2> DEFINE q == IF both THEN Started(r, snd.size, full) ELSE r
  <2>6. JoinedAs(q, r, hs)
    <3>1. CASE ~both
      BY <3>1 DEF JoinedAs, Timed
    <3>2. CASE both
      <4> DEFINE size == snd.size
      <4>1. /\ snd \in Headers /\ rcv \in Headers /\ snd.id = r.id /\ rcv.id = r.id
            /\ snd.token = r.token /\ rcv.token = r.token
        BY <1>2, <3>2 DEF RecOK, PartyOK, SessionType
      <4>2. size \in Nat /\ r.extra \in Nat
        BY <1>2, <4>1, RelayConstants DEF HeaderType, SessionType
      <4>3. r.extra <= size /\ snd.source = rcv.target /\ snd.target = rcv.source
        BY <1>5, <3>2, <4>2
      <4>4. Pipe!Agree(snd, rcv)
        BY <4>1, <4>3 DEF Pipe!Agree
      <4>5. q = Started(r, size, full)
        BY <3>2
      <4> HIDE DEF q, hs, size
      <4>6. /\ RecOK(q, hs) /\ q.state \in {"TRANSFERRING", "WAIT_ACK"}
            /\ q.sender = r.sender /\ q.receiver = r.receiver /\ q.timers = {"stall", "deadline"}
        <5>1. hs[r.sender].size = size
          BY DEF size
        <5> QED BY <1>2, <3>2, <4>2, <4>3, <4>5, <5>1, StartedOK
      <4>7. q.state = "TRANSFERRING" => q.remaining # 0
        BY <1>2, <4>2, <4>3, <4>5, StartedBrings
      <4>8. q.received \in 0..size /\ PhaseOf(q.state) = Pipe!PhaseAt(q.received, size)
        <5>1. size = hs[q.sender].size
          BY <4>6 DEF size
        <5> QED BY <4>6, <4>7, <5>1, Stands
      <4>9. Timed(q)
        BY <4>6 DEF Timed
      <4> QED BY <3>2, <4>4, <4>6, <4>8, <4>9 DEF JoinedAs, size
    <3> QED BY <3>1, <3>2
  <2>7. ses' = [ses EXCEPT ![o] = q]
    BY <2>1
  <2> HIDE DEF q
  <2> QED BY <2>4, <2>5, <2>6, <2>7
<1> QED BY <1>4, <1>5

(* A successful registration enters the pipe of its session.                 *)
LEMMA JoinPipe ==
    ASSUME IndInv, PipeInv, NEW s \in Sockets, NEW h \in Headers, Registers(s), Admitted(h),
           NEW r, NEW b, Join(s, h, r, b), RecOK(r, [hdr EXCEPT ![s] = h]), r.state = "PAIRING",
           r.id = h.id, EntersSide(r, s, h)
    PROVE  PipeStep /\ PipeInv'
<1>0. PICK o \in Sockets : o = Owner(s, h)
  BY RegistrationFacts
<1> DEFINE hs == [hdr EXCEPT ![s] = h]
           both == r.sender # None /\ r.receiver # None
<1>1. /\ hdr[s] = None
      /\ ses[o].sender = SessionFor(h).sender /\ ses[o].receiver = SessionFor(h).receiver
      /\ RecOK(SessionFor(h), hdr)
      /\ sessions[h.id] \in {o, None} /\ (sessions[h.id] = None => ses[o].state = "absent")
      /\ SessionFor(h).state = "PAIRING" /\ h.id \in Ids /\ s # None
  BY <1>0, RegistrationFacts, RelayConstants
<1>2. PhaseOf(ses[o].state) = "pairing" /\ ses[o].received = 0 /\ r.received = 0
  <2>1. sessions[h.id] = o => ses[o].state = "PAIRING"
    BY <1>1, RelayConstants DEF SessionFor, Fresh
  <2>2. RecOK(ses[o], hdr)
    BY <1>1 DEF IndInv, SessionsOK
  <2> QED BY <1>1, <2>1, <2>2 DEF RecOK, PhaseOf
<1>3. PICK q : JoinedAs(q, r, hs) /\ ses' = [ses EXCEPT ![o] = q]
  BY <1>0, JoinShows
<1>4. /\ Notified' = Notified
      /\ \A x \in Sockets : reply'[x] = "ack" => Gone(conn', x)
  BY JoinShows
<1>5. hdr' = hs
  BY DEF Join
<1>6. /\ ses \in [Sockets -> SessionType] /\ hdr \in [Sockets -> Headers \cup {None}]
      /\ None \notin Headers
  BY RelayConstants DEF IndInv, TypeOK
<1>a. RecOK(r, hs) /\ hs[s] = h /\ \A x \in Sockets \ {s} : hs[x] = hdr[x]
  BY <1>6
<1>b. r.sender \in Sockets \cup {None} /\ r.receiver \in Sockets \cup {None}
  BY DEF RecOK, SessionType
<1> HIDE DEF hs
<1>7. ses'[o] = q /\ \A x \in Sockets \ {o} : ses'[x] = ses[x]
  BY <1>1, <1>3, <1>6
<1>8. \A x \in Sockets : Timed(ses'[x])
  BY <1>3, <1>7 DEF JoinedAs, PipeInv
<1> DEFINE Phases == [x \in Sockets |-> PhaseOf(ses[x].state)]
           Passed == [x \in Sockets |-> ses[x].received]
           Senders == [x \in Sockets |-> ses[x].sender]
           Receivers == [x \in Sockets |-> ses[x].receiver]
<1>9. /\ Phases' = [Phases EXCEPT ![o] = PhaseOf(q.state)]
      /\ Passed' = [Passed EXCEPT ![o] = q.received]
      /\ Senders' = [Senders EXCEPT ![o] = r.sender]
      /\ Receivers' = [Receivers EXCEPT ![o] = r.receiver]
  <2>1. q.sender = r.sender /\ q.receiver = r.receiver
    BY <1>3 DEF JoinedAs
  <2> QED BY <1>1, <1>7, <2>1
<1>10. ASSUME both, NEW from, from = hs[r.sender], NEW to, to = hs[r.receiver]
       PROVE  Pipe!Meets(o, from, to)
  <2>1. from.id = h.id
    BY <1>10, <1>a DEF RecOK, PartyOK
  <2>2. CASE q.state = "FAILED" /\ q.received = 0
    <3>1. \A x \in Sockets : ses'[x].received = ses[x].received
      BY <1>2, <1>7, <2>2
    <3>2. Passed' = Passed
      BY <3>1
    <3>3. PhaseOf(q.state) = "broken"
      BY <2>2 DEF PhaseOf
    <3>4. Phases' = [Phases EXCEPT ![o] = "broken"]
      BY <1>9, <3>3
    <3> QED BY <3>2, <3>4 DEF Pipe!Meets
  <2>3. CASE /\ Pipe!Agree(from, to)
             /\ q.received \in 0..from.size
             /\ PhaseOf(q.state) = Pipe!PhaseAt(q.received, from.size)
    <3>1. ASSUME NEW x \in Pipe!Carrying
          PROVE  hdr[Senders[x]].id # from.id
      <4>1. x \in Sockets /\ PhaseOf(ses[x].state) \in {"flowing", "whole"}
        BY DEF Pipe!Carrying
      <4>2. hdr[ses[x].sender].id # h.id
        BY <4>1, NotCarried
      <4>3. Senders[x] = ses[x].sender
        BY <4>1
      <4> QED BY <2>1, <4>1, <4>2, <4>3
    <3>2. \A x \in Pipe!Carrying : hdr[Senders[x]].id # from.id
      BY <3>1
    <3>3. \E n \in 0..from.size :
             /\ Passed' = [Passed EXCEPT ![o] = n]
             /\ Phases' = [Phases EXCEPT ![o] = Pipe!PhaseAt(n, from.size)]
      BY <1>9, <2>3
    <3> QED BY <2>3, <3>2, <3>3 DEF Pipe!Meets
  <2>4. JoinedAs(q, r, hs)
    BY <1>3
  <2> QED BY <1>10, <2>2, <2>3, <2>4 DEF JoinedAs
<1>11. ASSUME ~both PROVE Phases' = Phases /\ Passed' = Passed
  <2>1. q = r
    BY <1>3, <1>11 DEF JoinedAs
  <2>2. PhaseOf(q.state) = "pairing"
    BY <2>1 DEF PhaseOf
  <2>3. \A x \in Sockets : /\ PhaseOf(ses'[x].state) = PhaseOf(ses[x].state)
                            /\ ses'[x].received = ses[x].received
    BY <1>2, <1>7, <2>1, <2>2
  <2> QED BY <2>3
<1>12. CASE h.role = "sender" /\ r.sender = s
  <2>1. ses[o].sender = None /\ r.receiver = ses[o].receiver /\ h.role = "sender"
    BY <1>1, <1>12 DEF EntersSide
  <2>2. Receivers' = Receivers
    BY <1>1, <1>9, <2>1
  <2>3. both => hs[r.sender] = h /\ hs[r.receiver] = hdr[ses[o].receiver]
    <3>1. both => hdr[r.receiver] # None
      BY <1>1, <2>1 DEF RecOK, PartyOK, EntersSide
    <3> QED BY <1>1, <1>a, <1>b, <1>12, <2>1, <3>1
  <2>4. both <=> ses[o].receiver # None
    BY <1>1, <1>12, <2>1
  <2> HIDE DEF both
  <2>5. IF Receivers[o] = None THEN Phases' = Phases /\ Passed' = Passed
        ELSE Pipe!Meets(o, h, hdr[Receivers[o]])
    <3>1. CASE Receivers[o] = None
      BY <1>11, <2>4, <3>1
    <3>2. CASE Receivers[o] # None
      <4>1. PICK to : to = hdr[Receivers[o]]
        OBVIOUS
      <4>2. Pipe!Meets(o, h, to)
        BY <1>10, <2>3, <2>4, <3>2, <4>1
      <4> QED BY <3>2, <4>1, <4>2 DEF Pipe!Meets
    <3> QED BY <3>1, <3>2
  <2>6. Pipe!EntersAsSender(s, o, h)
    <3>1. /\ Phases[o] = "pairing" /\ Senders[o] = None
          /\ Senders' = [Senders EXCEPT ![o] = s]
          /\ hdr' = [hdr EXCEPT ![s] = h]
      BY <1>1, <1>2, <1>5, <1>9, <1>12, <2>1 DEF hs
    <3>2. {x \in Sockets : reply'[x] = "ack"} = {x \in Sockets : reply[x] = "ack"}
      BY <1>4 DEF Notified
    <3>3. h.role = "sender" /\ hdr[s] = None
      BY <1>1, <1>12
    <3>4. IF Receivers[o] = None THEN UNCHANGED <<Phases, Passed>>
          ELSE Pipe!Meets(o, h, hdr[Receivers[o]])
      BY <2>5
    <3>5. UNCHANGED <<Receivers, {x \in Sockets : reply[x] = "ack"}>>
      BY <2>2, <3>2
    <3> QED BY <3>1, <3>3, <3>4, <3>5 DEF Pipe!EntersAsSender, Pipe!Meets
  <2> QED BY <1>1, <1>4, <1>8, <2>6 DEF PipeStep, Pipe!PipeNext, PipeInv
<1>13. CASE h.role = "receiver" /\ r.receiver = s
  <2>1. ses[o].receiver = None /\ r.sender = ses[o].sender
    BY <1>1, <1>13 DEF EntersSide
  <2>2. Senders' = Senders
    BY <1>1, <1>9, <2>1
  <2>3. both => hs[r.receiver] = h /\ hs[r.sender] = hdr[ses[o].sender]
    <3>1. both => hdr[r.sender] # None
      BY <1>1, <2>1 DEF RecOK, PartyOK, EntersSide
    <3> QED BY <1>1, <1>a, <1>b, <1>13, <2>1, <3>1
  <2>4. both <=> ses[o].sender # None
    BY <1>1, <1>13, <2>1
  <2> HIDE DEF both
  <2>5. IF Senders[o] = None THEN Phases' = Phases /\ Passed' = Passed
        ELSE Pipe!Meets(o, hdr[Senders[o]], h)
    <3>1. CASE Senders[o] = None
      BY <1>11, <2>4, <3>1
    <3>2. CASE Senders[o] # None
      <4>1. PICK from : from = hdr[Senders[o]]
        OBVIOUS
      <4>2. Pipe!Meets(o, from, h)
        BY <1>10, <2>3, <2>4, <3>2, <4>1
      <4>3. Pipe!Meets(o, hdr[Senders[o]], h)
        <5> DEFINE g == hdr[Senders[o]]
        <5>1. g = from
          BY <4>1
        <5> HIDE DEF g
        <5>2. Pipe!Meets(o, g, h)
          BY <4>2, <5>1 DEF Pipe!Meets
        <5> QED BY <5>2 DEF g
      <4> QED BY <3>2, <4>3
    <3> QED BY <3>1, <3>2
  <2>6. Pipe!EntersAsReceiver(s, o, h)
    <3>1. /\ Phases[o] = "pairing" /\ Receivers[o] = None
          /\ Receivers' = [Receivers EXCEPT ![o] = s]
          /\ hdr' = [hdr EXCEPT ![s] = h]
      BY <1>1, <1>2, <1>5, <1>9, <1>13, <2>1 DEF hs
    <3>2. {x \in Sockets : reply'[x] = "ack"} = {x \in Sockets : reply[x] = "ack"}
      BY <1>4 DEF Notified
    <3>3. h.role = "receiver" /\ hdr[s] = None
      BY <1>1, <1>13
    <3>4. IF Senders[o] = None THEN UNCHANGED <<Phases, Passed>>
          ELSE Pipe!Meets(o, hdr[Senders[o]], h)
      BY <2>5
    <3>5. UNCHANGED <<Senders, {x \in Sockets : reply[x] = "ack"}>>
      BY <2>2, <3>2
    <3> QED BY <3>1, <3>3, <3>4, <3>5 DEF Pipe!EntersAsReceiver
  <2> QED BY <1>1, <1>4, <1>8, <2>6 DEF PipeStep, Pipe!PipeNext, PipeInv
<1> QED BY <1>12, <1>13 DEF EntersSide

LEMMA RegisterPipe ==
    ASSUME IndInv, PipeInv, NEW s \in Sockets, NEW h \in Headers, NEW n \in 0..MaxChunk,
           RegisterReceiver(s, h) \/ RegisterSender(s, h, n)
    PROVE  PipeStep /\ PipeInv'
<1> DEFINE r == SessionFor(h)
           hs == [hdr EXCEPT ![s] = h]
<1>1. Registers(s) /\ Admitted(h)
  BY DEF RegisterReceiver, RegisterSender
<1>2. /\ RecOK(r, hdr) /\ r.id = h.id /\ r.token = h.token /\ r.state = "PAIRING"
      /\ hdr[s] = None
  BY <1>1, RegistrationFacts
<1>3. /\ hdr \in [Sockets -> Headers \cup {None}]
      /\ hs \in [Sockets -> Headers \cup {None}] /\ hs[s] = h /\ h # None /\ h.size \in Nat
  BY RelayConstants DEF IndInv, TypeOK, HeaderType
<1>4. RecOK(r, hs)
  BY <1>2, <1>3, HdrExtend
<1>5. CASE RegisterReceiver(s, h)
  <2> DEFINE q == [r EXCEPT !.receiver = s]
  <2>1. Join(s, h, q, inFlight) /\ h.role = "receiver" /\ r.receiver = None
    BY <1>5 DEF RegisterReceiver
  <2> HIDE DEF r, hs
  <2>2. /\ RecOK(q, hs) /\ q.id = r.id /\ q.state = r.state
        /\ q.sender = r.sender /\ q.receiver = s
    BY <1>2, <1>3, <1>4, <2>1, ReceiverJoins
  <2> HIDE DEF q
  <2>3. EntersSide(q, s, h)
    BY <2>1, <2>2 DEF EntersSide, r
  <2> QED BY <1>1, <1>2, <2>1, <2>2, <2>3, JoinPipe DEF hs
<1>6. CASE RegisterSender(s, h, n)
  <2> DEFINE q == WithSender(r, s, n, h.size)
             b == inFlight + h.size
  <2>1. Join(s, h, q, b) /\ h.role = "sender" /\ r.sender = None
    BY <1>6 DEF RegisterSender
  <2> HIDE DEF r, hs
  <2>2. /\ RecOK(q, hs) /\ q.id = r.id /\ q.state = r.state
        /\ q.receiver = r.receiver /\ q.sender = s
    <3>1. n \in Nat
      BY RelayConstants
    <3>2. hs[s] # None /\ hs[s].id = r.id /\ hs[s].token = r.token /\ hs[s].role = "sender"
      BY <1>2, <1>3, <2>1
    <3> QED BY <1>2, <1>3, <1>4, <3>1, <3>2, SenderJoins
  <2> HIDE DEF q, b
  <2>3. EntersSide(q, s, h)
    BY <2>1, <2>2 DEF EntersSide, r
  <2> QED BY <1>1, <1>2, <2>1, <2>2, <2>3, JoinPipe DEF hs
<1> QED BY <1>5, <1>6

LEMMA PipeInitHolds == Init => Pipe!PipeInit /\ PipeInv
<1> SUFFICES ASSUME Init PROVE Pipe!PipeInit /\ PipeInv
  OBVIOUS
<1>1. /\ NoSession.state = "absent" /\ NoSession.sender = None /\ NoSession.receiver = None
      /\ NoSession.received = 0
  BY DEF NoSession
<1>2. PhaseOf("absent") = "pairing"
  BY DEF PhaseOf
<1>3. /\ hdr = [s \in Sockets |-> None]
      /\ \A x \in Sockets : ses[x] = NoSession /\ reply[x] # "ack"
  BY DEF Init
<1>4. {s \in Sockets : reply[s] = "ack"} = {}
  BY <1>3
<1>5. PipeInv
  BY <1>1, <1>3 DEF PipeInv, Timed
<1>6. /\ [x \in Sockets |-> ses[x].sender] = [x \in Sockets |-> None]
      /\ [x \in Sockets |-> ses[x].receiver] = [x \in Sockets |-> None]
      /\ [x \in Sockets |-> ses[x].received] = [x \in Sockets |-> 0]
      /\ [x \in Sockets |-> PhaseOf(ses[x].state)] = [x \in Sockets |-> "pairing"]
  BY <1>1, <1>2, <1>3
<1> QED BY <1>3, <1>4, <1>5, <1>6 DEF Pipe!PipeInit

LEMMA NextIsPipe ==
    ASSUME IndInv, PipeInv, [Next]_vars
    PROVE  PipeStep /\ PipeInv'
<1>1. CASE UNCHANGED vars
  <2>1. UNCHANGED <<conn, hdr, reply, ses>>
    BY <1>1 DEF vars
  <2>2. \A x \in Sockets : /\ Stays(x) /\ PhaseOf(ses'[x].state) = PhaseOf(ses[x].state)
                            /\ Timed(ses'[x])
    BY <2>1 DEF Stays, PipeInv
  <2>3. Notified' = Notified /\ \A x \in Sockets : reply'[x] = "ack" => Gone(conn', x)
    BY <2>1 DEF Notified, PipeInv
  <2> QED BY <2>1, <2>2, <2>3, QuietPipe DEF IndInv
<1>2. ASSUME NEW s \in Sockets, Accept(s) \/ HeaderFails(s) \/ HeaderTimeout(s)
      PROVE  PipeStep /\ PipeInv'
  BY <1>2, ConnectionPipe
<1>3. ASSUME NEW s \in Sockets, SocketError(s) \/ SocketClose(s) PROVE PipeStep /\ PipeInv'
  BY <1>3, SocketPipe
<1>4. ASSUME NEW s \in Sockets, NEW h \in Headers,
             RegisterRefused(s, h) \/ RegisterBadMetadata(s, h) \/ RegisterOverLimit(s, h)
      PROVE  PipeStep /\ PipeInv'
  BY <1>4, ConnectionPipe
<1>5. ASSUME NEW s \in Sockets, NEW h \in Headers, RegisterReceiver(s, h)
      PROVE  PipeStep /\ PipeInv'
  <2>1. 0 \in 0..MaxChunk
    BY RelayConstants
  <2> QED BY <1>5, <2>1, RegisterPipe
<1>6. ASSUME NEW s \in Sockets, NEW h \in Headers, NEW n \in 0..MaxChunk, RegisterSender(s, h, n)
      PROVE  PipeStep /\ PipeInv'
  BY <1>6, RegisterPipe
<1>7. ASSUME NEW o \in Sockets, NEW n \in 1..MaxChunk, NEW full \in BOOLEAN, SenderData(o, n, full)
      PROVE  PipeStep /\ PipeInv'
  BY <1>7, SenderDataPipe
<1>8. ASSUME NEW o \in Sockets, NEW cb \in {"immediate", "drain"}, ResumeSender(o, cb)
      PROVE  PipeStep /\ PipeInv'
  BY <1>8, ResumePipe
<1>9. ASSUME NEW o \in Sockets, SenderOverrun(o) \/ ReceiverNoAck(o) PROVE PipeStep /\ PipeInv'
  BY <1>9, CallbackPipe
<1>10. ASSUME NEW o \in Sockets, NEW good \in BOOLEAN, ReceiverAck(o, good)
       PROVE  PipeStep /\ PipeInv'
  BY <1>10, ReceiverAckPipe
<1>11. ASSUME NEW o \in Sockets, NEW k \in {"pairing", "stall", "deadline"}, TimerFires(o, k)
       PROVE  PipeStep /\ PipeInv'
  BY <1>11, TimerPipe
<1>12. CASE Shutdown
  BY <1>12, ShutdownPipe
<1> QED
  BY <1>1, <1>2, <1>3, <1>4, <1>5, <1>6, <1>7, <1>8, <1>9, <1>10, <1>11, <1>12 DEF Next

(* The relay implements RelayPipe, for any sockets, headers, sizes and        *)
(* limits: a connection enters one session on one side for life, a session   *)
(* carries only between cards that agree and one transfer at a time, its     *)
(* bytes only advance up to the declared size, an ACK reaches its own sender *)
(* only after all of them, and no session comes back from an ACK or failure. *)
THEOREM RelayImplementsPipe == Spec => ForwardsAsPipe
<1>1. Init => IndInv /\ PipeInv /\ Pipe!PipeInit
  BY InitInv, PipeInitHolds
<1>2. IndInv /\ PipeInv /\ [Next]_vars => (IndInv /\ PipeInv)' /\ PipeStep
  BY StepInv, NextIsPipe
<1> QED BY <1>1, <1>2, PTL DEF Spec, ForwardsAsPipe, Pipe!PipeSpec, PipeStep
=============================================================================
