----------------------------- MODULE FileRelay -----------------------------
(***************************************************************************)
(* The TLS file relay, server/file-relay.js.  One sender and one receiver  *)
(* connect, each registers with the transfer's id and ticket, the relay    *)
(* pairs them, forwards the declared number of bytes, and hands the        *)
(* receiver's acknowledgement back to the sender.                          *)
(*                                                                         *)
(* A session is a JavaScript object, and the code compares sessions by     *)
(* identity.  A socket registers at most once, so a session is named here  *)
(* by the socket whose registration created it; `sessions' is the Map from *)
(* transfer ids to session objects.                                        *)
(***************************************************************************)
EXTENDS Naturals, FiniteSets

CONSTANTS
    Sockets,         \* connections the relay may see, each used once
    Ids,             \* transfer ids
    Tokens,          \* tickets
    Devices,         \* device identities
    Headers,         \* registration lines a peer may send
    MaxSessions,     \* MAX_SESSIONS
    MaxConnections,  \* MAX_CONNECTIONS
    MaxInFlight,     \* MAX_INFLIGHT_BYTES
    MaxChunk,        \* bound: the largest chunk a `data' event carries
    None             \* undefined

(* `valid' says that version, id, ticket, role and devices parse, `metaOk'  *)
(* that size and sha256 do and that size is at most MAX_BYTES.              *)
HeaderType ==
    [valid : BOOLEAN, id : Ids, token : Tokens, role : {"sender", "receiver"},
     source : Devices, target : Devices, metaOk : BOOLEAN, size : Nat]

ASSUME RelayConstants ==
    /\ None \notin Sockets /\ None \notin Ids /\ None \notin Headers
    /\ Headers \subseteq HeaderType
    /\ MaxSessions \in Nat /\ MaxConnections \in Nat
    /\ MaxInFlight \in Nat /\ MaxChunk \in Nat

VARIABLES
    up,         \* the server is listening
    conn,       \* the connection as the relay sees it
    hdr,        \* the header a socket is bound by (__a2aSessionId, __a2aRole)
    reply,      \* the last protocol line the relay wrote to the socket
    sessions,   \* Map: id -> session object
    ses,        \* the session objects
    inFlight    \* inFlightBytes

vars == <<up, conn, hdr, reply, sessions, ses, inFlight>>

(* "header": readHeader waits for the registration line; "expired": the      *)
(* header timeout ended the socket but readHeader is still attached to it;   *)
(* "bound": registered; "closing": end() was called or an error was seen and *)
(* the close event is still to come.                                         *)
ConnStates == {"idle", "header", "expired", "bound", "closing", "closed"}
SessionStates == {"absent", "PAIRING", "TRANSFERRING", "WAIT_ACK", "DONE", "FAILED"}
Replies == {"nothing", "registered", "ready", "ack", "error", "end"}

SessionType ==
    [state : SessionStates,
     id : Ids \cup {None}, token : Tokens \cup {None},
     sender : Sockets \cup {None}, receiver : Sockets \cup {None},
     extra : Nat,           \* senderRemainder: bytes behind the sender's header
     remaining : Nat,
     accounted : Nat,       \* accountedBytes
     timers : SUBSET {"pairing", "stall", "deadline"},
     paused : BOOLEAN,      \* the sender's socket is paused
     wake : SUBSET {"immediate", "drain"},  \* callbacks that will resume it
     ackWait : BOOLEAN,     \* readHeader waits for the receiver's ACK line
     overrun : BOOLEAN,     \* once("data") on the sender, armed in WAIT_ACK
     taken : Nat,           \* history: payload bytes read from the sender
     received : Nat]        \* history: payload bytes written to the receiver

NoSession ==
    [state |-> "absent", id |-> None, token |-> None, sender |-> None,
     receiver |-> None, extra |-> 0, remaining |-> 0, accounted |-> 0,
     timers |-> {}, paused |-> TRUE, wake |-> {}, ackWait |-> FALSE,
     overrun |-> FALSE, taken |-> 0, received |-> 0]

TypeOK ==
    /\ up \in BOOLEAN
    /\ conn \in [Sockets -> ConnStates]
    /\ hdr \in [Sockets -> Headers \cup {None}]
    /\ reply \in [Sockets -> Replies]
    /\ sessions \in [Ids -> Sockets \cup {None}]
    /\ ses \in [Sockets -> SessionType]
    /\ inFlight \in Nat

Init ==
    /\ up = TRUE
    /\ conn = [s \in Sockets |-> "idle"]
    /\ hdr = [s \in Sockets |-> None]
    /\ reply = [s \in Sockets |-> "nothing"]
    /\ sessions = [i \in Ids |-> None]
    /\ ses = [s \in Sockets |-> NoSession]
    /\ inFlight = 0

-----------------------------------------------------------------------------
(* Helpers                                                                  *)

Live == {i \in Ids : sessions[i] # None}
Tracked == {s \in Sockets : conn[s] \in {"header", "expired", "bound", "closing"}}
InMap(o) == ses[o].id # None /\ sessions[ses[o].id] = o

(* closeSocket: end() on a socket that is still writable; `c' is the         *)
(* connection map the close applies to.                                      *)
Open(c, s) == c[s] \in {"header", "bound"}
Ended(c, S) == [s \in Sockets |-> IF s \in S /\ Open(c, s) THEN "closing" ELSE c[s]]
Told(c, S, what) == [s \in Sockets |-> IF s \in S /\ Open(c, s) THEN what ELSE reply[s]]

(* inFlightBytes = Math.max(0, inFlightBytes - accountedBytes)               *)
Minus(a, b) == IF a >= b THEN a - b ELSE 0

(* Slip: releaseSession that forgets clearSessionTimers.                     *)
ReleasedTimersRunning(r) == [r EXCEPT !.accounted = 0]

(* releaseSession: out of the map, every timer cleared, bytes given back.    *)
Released(r) == [r EXCEPT !.timers = {}, !.accounted = 0]

(* Slip: destroySession that closes the sender only.                         *)
TearDownSenderOnly(o, m, c, b) ==
    /\ sessions' = [sessions EXCEPT ![m[o].id] = None]
    /\ ses' = [m EXCEPT ![o] = [Released(@) EXCEPT !.state = "FAILED"]]
    /\ inFlight' = Minus(b, m[o].accounted)
    /\ conn' = Ended(c, {m[o].sender})
    /\ reply' = Told(c, {m[o].sender}, "error")

(* Slip: destroySession that deletes the session without releasing bytes.    *)
TearDownLeaksBytes(o, m, c, b) ==
    /\ sessions' = [sessions EXCEPT ![m[o].id] = None]
    /\ ses' = [m EXCEPT ![o] = [Released(@) EXCEPT !.state = "FAILED"]]
    /\ inFlight' = b
    /\ conn' = Ended(c, {m[o].sender, m[o].receiver})
    /\ reply' = Told(c, {m[o].sender, m[o].receiver}, "error")

(* The teardown half of destroySession, for session o of the objects m, with *)
(* connections c and b bytes in flight.                                      *)
TearDown(o, m, c, b) ==
    /\ sessions' = [sessions EXCEPT ![m[o].id] = None]
    /\ ses' = [m EXCEPT ![o] = [Released(@) EXCEPT !.state = "FAILED"]]
    /\ inFlight' = Minus(b, m[o].accounted)
    /\ conn' = Ended(c, {m[o].sender, m[o].receiver})
    /\ reply' = Told(c, {m[o].sender, m[o].receiver}, "error")

(* destroySession(id, error).  It goes by id: whichever session the map      *)
(* holds under that id is the one torn down.                                 *)
DestroySession(i, m, c) ==
    IF sessions[i] = None
    THEN conn' = c /\ ses' = m /\ UNCHANGED <<sessions, inFlight, reply>>
    ELSE TearDown(sessions[i], m, c, inFlight)

(* waitForAck: the sender is resumed only to catch bytes beyond the size.    *)
AwaitAck(r) ==
    [r EXCEPT !.state = "WAIT_ACK", !.timers = @ \cup {"stall"},
              !.overrun = TRUE, !.paused = FALSE, !.ackWait = TRUE]

(* Slip: consume that waits for the ACK when one byte is still due.          *)
ConsumedEarly(r, n, full) ==
    LET fed == [r EXCEPT !.remaining = @ - n, !.received = @ + n]
    IN IF fed.remaining <= 1 THEN AwaitAck(fed) ELSE fed

(* consume(chunk) for a chunk of n <= remaining bytes; `full' is a write()   *)
(* to the receiver that returned false, which pauses the sender until drain. *)
Consumed(r, n, full) ==
    LET fed == [r EXCEPT !.remaining = @ - n, !.received = @ + n,
                         !.paused = @ \/ (full /\ n > 0),
                         !.wake = IF full /\ n > 0 THEN @ \cup {"drain"} ELSE @]
    IN IF fed.remaining = 0 THEN AwaitAck(fed) ELSE fed

(* Slip: startTransfer that forgets the payload behind the header.           *)
StartedDropsRemainder(r, size, full) ==
    LET begun == [r EXCEPT !.state = "TRANSFERRING", !.remaining = size,
                           !.timers = {"stall", "deadline"}]
    IN IF size = 0 THEN AwaitAck(begun) ELSE [begun EXCEPT !.wake = {"immediate"}]

(* Slip: startTransfer without the setImmediate that resumes the sender.     *)
StartedStillPaused(r, size, full) ==
    Consumed([r EXCEPT !.state = "TRANSFERRING", !.remaining = size,
                       !.timers = {"stall", "deadline"}], r.extra, full)

(* startTransfer for a declared size the remainder does not exceed.  The     *)
(* setImmediate that resumes the sender is only queued while bytes are due.  *)
Started(r, size, full) ==
    LET begun == [r EXCEPT !.state = "TRANSFERRING", !.remaining = size,
                           !.timers = {"stall", "deadline"}]
        fed == Consumed(begun, r.extra, full)
    IN IF fed.state = "TRANSFERRING" THEN [fed EXCEPT !.wake = @ \cup {"immediate"}]
                                     ELSE fed

-----------------------------------------------------------------------------
(* Connections and registration                                             *)

(* net.createServer's callback.  A connection over the limit gets a BUSY     *)
(* line and no handlers, so the relay never hears of it again.               *)
Accept(s) ==
    /\ up
    /\ conn[s] = "idle"
    /\ conn' = [conn EXCEPT ![s] =
                   IF Cardinality(Tracked) >= MaxConnections THEN "closed" ELSE "header"]
    /\ UNCHANGED <<up, hdr, reply, sessions, ses, inFlight>>

(* readHeader fails: the line is too long, is not JSON, or the peer ended.   *)
HeaderFails(s) ==
    /\ conn[s] \in {"header", "expired"}
    /\ conn' = [conn EXCEPT ![s] = "closing"]
    /\ reply' = Told(conn, {s}, "error")
    /\ UNCHANGED <<up, hdr, sessions, ses, inFlight>>

(* The HEADER_MS timeout ends the socket but leaves readHeader attached: a   *)
(* line that arrives before the one-second destroy still registers.          *)
HeaderTimeout(s) ==
    /\ conn[s] = "header"
    /\ conn' = [conn EXCEPT ![s] = "expired"]
    /\ reply' = Told(conn, {s}, "error")
    /\ UNCHANGED <<up, hdr, sessions, ses, inFlight>>

(* registerSocket refuses the socket: closeSocket with an error line.        *)
Refuse(s) ==
    /\ conn' = [conn EXCEPT ![s] = "closing"]
    /\ reply' = Told(conn, {s}, "error")
    /\ UNCHANGED <<up, hdr>>

Registers(s) == conn[s] \in {"header", "expired"}
Fresh(h) == sessions[h.id] = None
Full == Cardinality(Live) >= MaxSessions
Owner(s, h) == IF Fresh(h) THEN s ELSE sessions[h.id]

(* Slip: a new session without its pairing timer.                            *)
NewSessionUntimed(i, t) == [NoSession EXCEPT !.state = "PAIRING", !.id = i, !.token = t]

(* A new session object; its pairing timer is running.                       *)
NewSession(i, t) ==
    [NoSession EXCEPT !.state = "PAIRING", !.id = i, !.token = t, !.timers = {"pairing"}]

(* The session a registration works on: the one in the map, or a new one.    *)
SessionFor(h) == IF Fresh(h) THEN NewSession(h.id, h.token) ELSE ses[sessions[h.id]]

(* A new session exists only if the table has room; it then accepts the      *)
(* ticket and is still pairing.                                              *)
Admitted(h) ==
    /\ h.valid
    /\ Fresh(h) => ~Full
    /\ SessionFor(h).token = h.token
    /\ SessionFor(h).state = "PAIRING"

(* INVALID_REGISTRATION, BUSY (sessions), TICKET_MISMATCH, DUPLICATE_ROLE:   *)
(* refusals that leave the session table as it was.                          *)
RegisterRefused(s, h) ==
    /\ Registers(s)
    /\ \/ ~Admitted(h)
       \/ h.role = "receiver" /\ SessionFor(h).receiver # None
       \/ h.role = "sender" /\ h.metaOk /\ SessionFor(h).sender # None
    /\ Refuse(s)
    /\ UNCHANGED <<sessions, ses, inFlight>>

(* INVALID_METADATA is found after the session was created and put in the    *)
(* map, where it stays, without any socket, until its pairing timer fires.   *)
RegisterBadMetadata(s, h) ==
    /\ Registers(s)
    /\ Admitted(h)
    /\ h.role = "sender" /\ ~h.metaOk
    /\ Refuse(s)
    /\ sessions' = [sessions EXCEPT ![h.id] = Owner(s, h)]
    /\ ses' = [ses EXCEPT ![Owner(s, h)] = SessionFor(h)]
    /\ UNCHANGED inFlight

(* BUSY (bytes): the session is released when no receiver waits in it.       *)
RegisterOverLimit(s, h) ==
    /\ Registers(s)
    /\ Admitted(h)
    /\ h.role = "sender" /\ h.metaOk
    /\ SessionFor(h).sender = None
    /\ inFlight + h.size > MaxInFlight
    /\ Refuse(s)
    /\ IF SessionFor(h).receiver = None
       THEN /\ sessions' = [sessions EXCEPT ![h.id] = None]
            /\ ses' = [ses EXCEPT ![Owner(s, h)] = Released(SessionFor(h))]
       ELSE UNCHANGED <<sessions, ses>>
    /\ UNCHANGED inFlight

(* The end of registerSocket: bind s, check the devices once both parties    *)
(* are there, and start.  r is the session with s in it and b the bytes in   *)
(* flight.  An expired socket was already ended.                             *)
Join(s, h, r, b) ==
    LET o == Owner(s, h)
        c == [conn EXCEPT ![s] = IF conn[s] = "header" THEN "bound" ELSE "closing"]
        hs == [hdr EXCEPT ![s] = h]
        both == r.sender # None /\ r.receiver # None
        snd == hs[r.sender]
        rcv == hs[r.receiver]
        mismatch == snd.source # rcv.target \/ snd.target # rcv.source
    IN /\ hdr' = hs
       /\ IF both /\ (mismatch \/ r.extra > snd.size)
          THEN TearDown(o, [ses EXCEPT ![o] = r], c, b)
          ELSE /\ sessions' = [sessions EXCEPT ![h.id] = o]
               /\ \E full \in BOOLEAN :
                     ses' = [ses EXCEPT ![o] = IF both THEN Started(r, snd.size, full) ELSE r]
               /\ inFlight' = b
               /\ conn' = c
               /\ reply' = [t \in Sockets |->
                      CASE both /\ t = r.sender /\ Open(c, t) -> "ready"
                        [] t = s /\ s = r.receiver /\ Open(c, t) -> "registered"
                        [] OTHER -> reply[t]]
       /\ UNCHANGED up

(* Slip: a second receiver takes the place of the first.                     *)
RegisterReceiverAgain(s, h) ==
    /\ Registers(s)
    /\ Admitted(h)
    /\ h.role = "receiver"
    /\ Join(s, h, [SessionFor(h) EXCEPT !.receiver = s], inFlight)

RegisterReceiver(s, h) ==
    /\ Registers(s)
    /\ Admitted(h)
    /\ h.role = "receiver"
    /\ SessionFor(h).receiver = None
    /\ Join(s, h, [SessionFor(h) EXCEPT !.receiver = s], inFlight)

(* The session takes the sender s, its declared size and the n bytes of      *)
(* payload that already followed the header in its chunk.                    *)
WithSender(r, s, n, size) ==
    [r EXCEPT !.sender = s, !.extra = n, !.taken = n, !.accounted = size]

RegisterSender(s, h, n) ==
    /\ Registers(s)
    /\ Admitted(h)
    /\ h.role = "sender" /\ h.metaOk
    /\ SessionFor(h).sender = None
    /\ inFlight + h.size <= MaxInFlight
    /\ Join(s, h, WithSender(SessionFor(h), s, n, h.size), inFlight + h.size)

-----------------------------------------------------------------------------
(* Payload, acknowledgement and timers                                      *)

(* Slip: consume without the check against the remaining size.               *)
SenderDataUnchecked(o, n, full) ==
    /\ InMap(o)
    /\ ses[o].state = "TRANSFERRING"
    /\ conn[ses[o].sender] = "bound"
    /\ ~ses[o].paused
    /\ ses' = [ses EXCEPT ![o] = Consumed([ses[o] EXCEPT !.taken = @ + n], n, full)]
    /\ UNCHANGED <<up, hdr, conn, reply, sessions, inFlight>>

(* A chunk of n bytes from the sender while it flows.                        *)
SenderData(o, n, full) ==
    /\ InMap(o)
    /\ ses[o].state = "TRANSFERRING"
    /\ conn[ses[o].sender] = "bound"
    /\ ~ses[o].paused
    /\ IF n > ses[o].remaining
       THEN TearDown(o, ses, conn, inFlight)
       ELSE /\ ses' = [ses EXCEPT ![o] = Consumed([ses[o] EXCEPT !.taken = @ + n], n, full)]
            /\ UNCHANGED <<conn, reply, sessions, inFlight>>
    /\ UNCHANGED <<up, hdr>>

(* Callback cb has run: it resumes the sender only if the bytes still flow.  *)
Woken(r, cb, flows) ==
    [r EXCEPT !.wake = r.wake \ {cb}, !.paused = IF flows THEN FALSE ELSE r.paused]

(* The setImmediate of startTransfer, and the receiver's drain event.        *)
ResumeSender(o, cb) ==
    /\ cb \in ses[o].wake
    /\ ses' = [ses EXCEPT ![o] =
                  Woken(ses[o], cb, InMap(o) /\ ses[o].state = "TRANSFERRING")]
    /\ UNCHANGED <<up, conn, hdr, reply, sessions, inFlight>>

(* Bytes after the declared size: the once("data") listener outlives the     *)
(* session and goes by its id.                                               *)
SenderOverrun(o) ==
    /\ ses[o].overrun
    /\ conn[ses[o].sender] \in {"bound", "closing"}
    /\ DestroySession(ses[o].id, [ses EXCEPT ![o].overrun = FALSE], conn)
    /\ UNCHANGED <<up, hdr>>

(* readHeader's callback for the receiver's ACK line.  A line for a session  *)
(* that is no longer in the map is dropped.                                  *)
ReceiverAck(o, good) ==
    LET m == [ses EXCEPT ![o].ackWait = FALSE]
        snd == ses[o].sender
        rcv == ses[o].receiver
    IN /\ ses[o].ackWait
       /\ conn[rcv] \in {"bound", "closing"}
       /\ CASE ~InMap(o) ->
                 ses' = m /\ UNCHANGED <<conn, reply, sessions, inFlight>>
            [] InMap(o) /\ ~good -> TearDown(o, m, conn, inFlight)
            [] InMap(o) /\ good ->
                 /\ sessions' = [sessions EXCEPT ![ses[o].id] = None]
                 /\ ses' = [m EXCEPT ![o] = [Released(@) EXCEPT !.state = "DONE"]]
                 /\ inFlight' = Minus(inFlight, ses[o].accounted)
                 /\ conn' = Ended(conn, {snd, rcv})
                 /\ reply' = [Told(conn, {rcv}, "end")
                                EXCEPT ![snd] = IF Open(conn, snd) THEN "ack" ELSE @]
       /\ UNCHANGED <<up, hdr>>

(* The receiver's stream ends, or its line is malformed, before an ACK:      *)
(* readHeader's failure callback, which goes by id.                          *)
ReceiverNoAck(o) ==
    /\ ses[o].ackWait
    /\ conn[ses[o].receiver] \in {"bound", "closing"}
    /\ DestroySession(ses[o].id, [ses EXCEPT ![o].ackWait = FALSE], conn)
    /\ UNCHANGED <<up, hdr>>

(* The pairing, stall or absolute-deadline timer of a session fires.         *)
TimerFires(o, t) ==
    /\ t \in ses[o].timers
    /\ DestroySession(ses[o].id, [ses EXCEPT ![o].timers = @ \ {t}], conn)
    /\ UNCHANGED <<up, hdr>>

(* socket.on("error"): destroySession by the socket's id, whatever session   *)
(* that id names by now.                                                     *)
SocketError(s) ==
    /\ conn[s] \in {"header", "expired", "bound", "closing"}
    /\ LET c == [conn EXCEPT ![s] = "closing"]
       IN IF hdr[s] = None
          THEN conn' = c /\ UNCHANGED <<reply, sessions, ses, inFlight>>
          ELSE DestroySession(hdr[s].id, ses, c)
    /\ UNCHANGED <<up, hdr>>

(* socket.on("close"): a disconnect destroys the session the id names unless *)
(* it is DONE or FAILED, and such a session is never in the map.             *)
SocketClose(s) ==
    /\ conn[s] \in {"header", "expired", "bound", "closing"}
    /\ LET c == [conn EXCEPT ![s] = "closed"]
       IN IF hdr[s] = None
          THEN conn' = c /\ UNCHANGED <<reply, sessions, ses, inFlight>>
          ELSE DestroySession(hdr[s].id, ses, c)
    /\ UNCHANGED <<up, hdr>>

(* SIGTERM/SIGINT: every session is destroyed, then every socket.            *)
Shutdown ==
    /\ up
    /\ up' = FALSE
    /\ sessions' = [i \in Ids |-> None]
    /\ ses' = [o \in Sockets |-> IF InMap(o)
                                 THEN [Released(ses[o]) EXCEPT !.state = "FAILED"]
                                 ELSE ses[o]]
    /\ inFlight' = 0
    /\ LET parties == UNION {{ses[o].sender, ses[o].receiver} : o \in {x \in Sockets : InMap(x)}}
       IN reply' = Told(conn, parties, "error")
    /\ conn' = [s \in Sockets |-> IF s \in Tracked THEN "closing" ELSE conn[s]]
    /\ UNCHANGED hdr

Next ==
    \/ \E s \in Sockets :
          \/ Accept(s) \/ HeaderFails(s) \/ HeaderTimeout(s)
          \/ SocketError(s) \/ SocketClose(s)
          \/ \E h \in Headers :
                \/ RegisterRefused(s, h) \/ RegisterBadMetadata(s, h)
                \/ RegisterOverLimit(s, h) \/ RegisterReceiver(s, h)
                \/ \E n \in 0..MaxChunk : RegisterSender(s, h, n)
    \/ \E o \in Sockets :
          \/ \E n \in 1..MaxChunk, full \in BOOLEAN : SenderData(o, n, full)
          \/ \E cb \in {"immediate", "drain"} : ResumeSender(o, cb)
          \/ SenderOverrun(o) \/ ReceiverNoAck(o)
          \/ \E good \in BOOLEAN : ReceiverAck(o, good)
          \/ \E t \in {"pairing", "stall", "deadline"} : TimerFires(o, t)
    \/ Shutdown

Spec == Init /\ [][Next]_vars

(* Node fires an armed timer and emits `close' for a socket that was ended   *)
(* (closeSocket destroys it after a second); nothing else is assumed of the  *)
(* peers.                                                                    *)
Fairness ==
    /\ \A o \in Sockets, t \in {"pairing", "stall", "deadline"} : WF_vars(TimerFires(o, t))
    /\ \A s \in Sockets : WF_vars(conn[s] = "closing" /\ SocketClose(s))

FairSpec == Spec /\ Fairness

-----------------------------------------------------------------------------
(* Properties                                                               *)

(* The two parties of session o are registered sockets that presented the    *)
(* session's id and ticket and name each other as devices.                   *)
Matched(o) ==
    LET snd == hdr[ses[o].sender]
        rcv == hdr[ses[o].receiver]
    IN /\ ses[o].sender \in Sockets /\ ses[o].receiver \in Sockets
       /\ ses[o].sender # ses[o].receiver
       /\ snd # None /\ rcv # None
       /\ snd.id = ses[o].id /\ rcv.id = ses[o].id
       /\ snd.token = ses[o].token /\ rcv.token = ses[o].token
       /\ snd.source = rcv.target /\ snd.target = rcv.source

(* Bytes flow only between matched parties, every byte taken from the sender *)
(* is written to the receiver, and every byte declared is either still due   *)
(* or was written: nothing is lost, repeated or forwarded beyond the         *)
(* declared size, whichever side registered first and however much payload   *)
(* followed the header.                                                      *)
PayloadAccounted ==
    \A o \in Sockets : ses[o].state \in {"TRANSFERRING", "WAIT_ACK", "DONE"} =>
        /\ Matched(o)
        /\ ses[o].received = ses[o].taken
        /\ ses[o].remaining + ses[o].received = hdr[ses[o].sender].size
        /\ ses[o].state # "TRANSFERRING" => ses[o].remaining = 0

(* A sender that is handed an ACK is the sender of a finished session whose  *)
(* matched receiver was given all the declared bytes: no teardown, stale     *)
(* socket, reused id or late line produces an ACK for another transfer.      *)
AckMeansDelivered ==
    \A s \in Sockets : reply[s] = "ack" =>
        \E o \in Sockets :
            /\ ses[o].sender = s
            /\ ses[o].state = "DONE"
            /\ Matched(o)
            /\ ses[o].received = hdr[s].size

(* A session in the map always has the timer of its phase armed, and a       *)
(* session out of the map has none left that could destroy a later session   *)
(* with the same id.                                                         *)
TimersMatchPhase ==
    \A o \in Sockets : ses[o].timers =
        IF ~InMap(o) THEN {}
        ELSE IF ses[o].state = "PAIRING" THEN {"pairing"} ELSE {"stall", "deadline"}

(* A registered socket that the relay has not ended belongs to a session in  *)
(* the map: every path that drops a session also ends both of its sockets.   *)
NoOrphanSocket ==
    \A s \in Sockets : conn[s] = "bound" =>
        \E o \in Sockets : InMap(o) /\ s \in {ses[o].sender, ses[o].receiver}

(* While bytes are due, a paused sender has a callback pending that resumes  *)
(* it: the pause of the header parser and back-pressure never stall the      *)
(* payload for good.                                                         *)
NoWedgedSender ==
    \A o \in Sockets :
        InMap(o) /\ ses[o].state = "TRANSFERRING" /\ ses[o].paused => ses[o].wake # {}

(* The bytes accounted to live sessions never exceed MAX_INFLIGHT_BYTES.     *)
InFlightBounded == inFlight <= MaxInFlight

(* The bytes accounted to the session of id i, if it has one.               *)
Reserved(i) == IF sessions[i] = None THEN 0 ELSE ses[sessions[i]].accounted

(* inFlightBytes is exactly the sum of what the sessions in the map account  *)
(* for, here the number of reserved bytes: no path releases bytes twice,     *)
(* forgets them, or leaves them accounted to a session that is gone          *)
(* (Math.max(0, ..) would hide a double release); and neither it nor the two *)
(* tables exceed their caps.                                                 *)
AccountingExact ==
    /\ inFlight = Cardinality(UNION {{i} \X (1..Reserved(i)) : i \in Ids})
    /\ InFlightBounded
    /\ Cardinality(Live) <= MaxSessions /\ Cardinality(Tracked) <= MaxConnections

(* What a session object is to RelayPipe.                                    *)
PhaseOf(state) ==
    CASE state \in {"absent", "PAIRING"} -> "pairing"
      [] state = "TRANSFERRING" -> "flowing"
      [] state = "WAIT_ACK" -> "whole"
      [] state = "DONE" -> "acked"
      [] state = "FAILED" -> "broken"

Pipe ==
    INSTANCE RelayPipe WITH
        Pipes <- Sockets, Cards <- Headers, card <- hdr,
        sender <- [o \in Sockets |-> ses[o].sender],
        receiver <- [o \in Sockets |-> ses[o].receiver],
        phase <- [o \in Sockets |-> PhaseOf(ses[o].state)],
        passed <- [o \in Sockets |-> ses[o].received],
        acked <- {s \in Sockets : reply[s] = "ack"}

(* The relay implements RelayPipe: through any order of registrations,       *)
(* chunks, ACK lines, timers and disconnects, and however ids are used again *)
(* and sessions torn down by id, a connection has one session and one side   *)
(* of it for life, a transfer is carried by one session at a time, bytes     *)
(* only ever advance to the declared size, and nothing follows an ACK or a   *)
(* failure.                                                                  *)
ForwardsAsPipe == Pipe!PipeSpec

(* Every session leaves the map, however its peers behave: idle receivers,   *)
(* sessions left without sockets, stalled payloads and missing ACKs.         *)
SessionsReleased == \A i \in Ids : sessions[i] # None ~> sessions[i] = None

(* Every registered socket is eventually closed.                             *)
SocketsClosed == \A s \in Sockets : conn[s] = "bound" ~> conn[s] = "closed"
=============================================================================
