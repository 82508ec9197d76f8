------------------------------ MODULE FileSend ------------------------------
(***************************************************************************)
(* One unified file send: sendUnifiedFileCore, which picks the transports  *)
(* (listTransportCandidates) and tries them in turn, and                   *)
(* sendStreamFileCore, which prepares the receiver over the A2A tunnel,    *)
(* sends the payload, settles a doubtful outcome by status and cancel,     *)
(* waits for the commit and notifies the agent.  Every attempt has a new   *)
(* transfer id; attempt n uses id n.                                       *)
(*                                                                         *)
(* The receiver is that of TransferOutcome.  Control calls are             *)
(* TunnelSession.forward: a request or its reply may be lost, or late:     *)
(* the caller then times out, and a reply nobody waits for is dropped.     *)
(***************************************************************************)
EXTENDS TransferOutcome, Sequences

CONSTANTS
    Sends,      \* the parameters of listTransportCandidates that are tried
    FreeText,   \* whether the helper's error text may read like a refused prepare
    MaxCrashes, \* bound: restarts of the receiving gateway
    None

Inline == "inline-base64"
Quic == "quic-v7"
Tcp == "tcp-v1"

VARIABLES
    ask,        \* the parameters of this send
    todo,       \* the candidates left
    transport,  \* the transport of the current attempt
    att,        \* the current transfer id, 0 before the first
    pc,
    error,      \* how isPreStartTransportFailure reads the pending error
    result,     \* what the caller is told
    net,        \* control requests on their way to the receiver
    reply,      \* the reply to the call the sender waits on
    asked,      \* receiver: prepare calls waiting for `ready'
    via,        \* the transport each id was prepared for
    sent,       \* ids whose payload was sent in full
    notified,   \* ids announced to the agent as a2a-transfer://
    inlined,    \* the file was sent inside a message
    crashes

sender == <<ask, todo, transport, att, pc, error, result>>
channel == <<net, reply, asked>>
history == <<via, sent, notified, inlined>>
vars == <<transfer, sender, channel, history, crashes>>

-----------------------------------------------------------------------------
(* listTransportCandidates                                                  *)

(* localCapability: what this gateway can send.                              *)
Local(p) == {Inline} \cup (IF p.tcp THEN {Tcp} ELSE {}) \cup (IF p.quic THEN {Quic} ELSE {})

(* intersectTransports: a peer without a capability block takes inline only. *)
Available(p) == IF p.remote = None THEN {Inline} ELSE Local(p) \cap p.remote.transports

InlineMax(p) ==
    IF p.remote # None /\ p.remote.maxInline < p.maxInline THEN p.remote.maxInline ELSE p.maxInline

(* Slip: the walk over the preferred order forgets the inline limit.         *)
FitsUnlimited(p, t) == t \in Available(p)

Fits(p, t) == t \in Available(p) /\ (t = Inline => p.size <= InlineMax(p))
Only(t, ok) == IF ok THEN <<t>> ELSE <<>>

(* What the walk over autoOrder has pushed after its first n names.          *)
Pushed(p) ==
    LET out[n \in 0..Len(p.order)] ==
            IF n = 0 THEN <<>>
            ELSE IF Fits(p, p.order[n]) THEN Append(out[n - 1], p.order[n]) ELSE out[n - 1]
    IN out

Candidates(p) ==
    IF p.forced # None THEN <<p.forced>>
    ELSE IF p.excluded THEN Only(Inline, Fits(p, Inline))   \* autoPeers leaves the peer out
    ELSE CASE p.mode = "quic" -> Only(Quic, Fits(p, Quic))
           [] p.mode = "tcp" -> Only(Tcp, Fits(p, Tcp))
           [] p.mode = "base64" -> Only(Inline, Fits(p, Inline))
           [] p.mode = "auto" -> IF p.size <= p.preferInline /\ Inline \in Available(p)
                                 THEN <<Inline>> ELSE Pushed(p)[Len(p.order)]

Transports == {Inline, Quic, Tcp}
Replies == {"ready", "committed", "other", "rejected", "unsupported"}

(* There are ids enough for every candidate a send may have.                 *)
ASSUME SendConstants ==
    /\ \A p \in Sends :
          /\ p.order \in Seq(Transports) /\ 1..Len(p.order) \subseteq Ids /\ 1 \in Ids
          /\ p.forced \in Transports \cup {None}
          /\ p.mode \in {"quic", "tcp", "base64", "auto"}
          /\ p.size \in Nat /\ p.maxInline \in Nat /\ p.preferInline \in Nat
          /\ p.remote # None => p.remote.maxInline \in Nat
    /\ Ids \subseteq Nat \ {0}
    /\ FreeText \in BOOLEAN /\ MaxCrashes \in Nat
    /\ None \notin Replies

-----------------------------------------------------------------------------
(* isPreStartTransportFailure reads the error text.  The texts it tells      *)
(* apart: a missing local helper; a prepare answered 400, 404, 405, 501 or   *)
(* "quic-v7 is not available"; other answers; no answer; a failed check of   *)
(* this gateway; a failed payload; and a failed payload whose text, quoted   *)
(* from the helper, contains "unsupported" or "not available".               *)
Errors == {"helper missing", "unsupported", "rejected", "lost", "local", "payload", "misread"}

(* Slip: a timeout taken for a refusal.                                      *)
PreStartTimeout(e) == e \in {"helper missing", "unsupported", "misread", "lost", "payload"}

PreStart(e) == e \in {"helper missing", "unsupported", "misread"}

Results == [ok : BOOLEAN, committed : BOOLEAN]
Request(op, i) == [op |-> op, id |-> i]
Requests == [op : {"prepare", "status", "cancel"}, id : Ids]
Pcs == {"next", "start", "prepare", "payload", "ack", "query", "cancel", "await", "poll",
        "notify", "inline", "done"}

TypeOK ==
    /\ OutcomeType
    /\ ask \in Sends
    /\ todo \in Seq(Transports)
    /\ transport \in {Quic, Tcp, None}
    /\ att \in Ids \cup {0}
    /\ pc \in Pcs
    /\ error \in Errors \cup {None}
    /\ result \in Results \cup {None}
    /\ net \subseteq Requests
    /\ reply \in Replies \cup {None}
    /\ asked \subseteq Ids /\ sent \subseteq Ids /\ notified \subseteq Ids
    /\ via \in [Ids -> {Quic, Tcp, None}]
    /\ inlined \in BOOLEAN
    /\ crashes \in Nat

Init ==
    /\ OutcomeInit
    /\ ask \in Sends
    /\ todo = Candidates(ask)
    /\ transport = None /\ att = 0 /\ pc = "next" /\ error = None /\ result = None
    /\ net = {} /\ reply = None /\ asked = {}
    /\ via = [i \in Ids |-> None]
    /\ sent = {} /\ notified = {} /\ inlined = FALSE
    /\ crashes = 0

-----------------------------------------------------------------------------
(* The sender                                                               *)

Finish(r) == pc' = "done" /\ result' = r /\ UNCHANGED error

(* sendStreamFileCore returned an error without dataCommitted: the loop goes *)
(* on only if the error reads like one from before the start.                *)
AttemptFails(e) ==
    /\ error' = e
    /\ IF PreStart(e) THEN pc' = "next" /\ UNCHANGED result
       ELSE pc' = "done" /\ result' = [ok |-> FALSE, committed |-> FALSE]

(* tunnelSession.forward: the request leaves; the previous call is over.     *)
Forward(op) == net' = net \cup {Request(op, att)} /\ reply' = None

(* Slip: a failed candidate stays at the head of the list.                   *)
NextCandidateAgain ==
    /\ pc = "next"
    /\ todo # <<>>
    /\ IF Head(todo) = Inline
       THEN pc' = "inline" /\ UNCHANGED <<transport, att>>
       ELSE pc' = "start" /\ transport' = Head(todo) /\ att' = att + 1
    /\ UNCHANGED <<transfer, ask, todo, error, result, channel, history, crashes>>

(* The next candidate, or the last error when there is none.                 *)
NextCandidate ==
    /\ pc = "next"
    /\ \/ /\ todo = <<>>
          /\ Finish([ok |-> FALSE, committed |-> FALSE])
          /\ UNCHANGED <<todo, transport, att>>
       \/ /\ todo # <<>> /\ Head(todo) = Inline
          /\ pc' = "inline"
          /\ UNCHANGED <<todo, transport, att, error, result>>
       \/ /\ todo # <<>> /\ Head(todo) # Inline
          /\ pc' = "start"
          /\ todo' = Tail(todo) /\ transport' = Head(todo)
          /\ att' = att + 1
          /\ UNCHANGED <<error, result>>
    /\ UNCHANGED <<transfer, ask, channel, history, crashes>>

(* sendLocalFileCore: the message may arrive whatever the caller is told.    *)
SendInline ==
    /\ pc = "inline"
    /\ \/ Finish([ok |-> FALSE, committed |-> FALSE]) /\ UNCHANGED inlined
       \/ /\ ask.size <= ask.maxInline
          /\ inlined' = TRUE
          /\ \E ok \in BOOLEAN : Finish([ok |-> ok, committed |-> FALSE])
    /\ UNCHANGED <<transfer, ask, todo, transport, att, channel, via, sent, notified, crashes>>

(* The checks and the hash of the file, then the prepare call.               *)
StartStream ==
    /\ pc = "start"
    /\ \/ AttemptFails("local") /\ UNCHANGED <<net, reply>>
       \/ /\ transport = Quic /\ ~ask.quic
          /\ AttemptFails("helper missing") /\ UNCHANGED <<net, reply>>
       \/ /\ transport = Quic => ask.quic
          /\ Forward("prepare")
          /\ pc' = "prepare" /\ UNCHANGED <<error, result>>
    /\ UNCHANGED <<transfer, ask, todo, transport, att, asked, history, crashes>>

PrepareReplied ==
    /\ pc = "prepare"
    /\ reply # None
    /\ IF reply = "ready" THEN pc' = "payload" /\ UNCHANGED <<error, result>>
       ELSE AttemptFails(reply)
    /\ reply' = None
    /\ UNCHANGED <<transfer, ask, todo, transport, att, net, asked, history, crashes>>

(* Slip: a prepare call that waits for ever.                                 *)
PrepareNeverLost ==
    /\ pc = "prepare"
    /\ UNCHANGED vars

PrepareLost ==
    /\ pc = "prepare"
    /\ AttemptFails("lost")
    /\ reply' = None
    /\ UNCHANGED <<transfer, ask, todo, transport, att, net, asked, history, crashes>>

(* sendFilePayload or sendQuicPayload has written everything.                *)
PayloadSent ==
    /\ pc = "payload"
    /\ sent' = sent \cup {att}
    /\ pc' = "ack"
    /\ UNCHANGED <<transfer, ask, todo, transport, att, error, result, channel, via, notified,
                   inlined, crashes>>

(* The ACK of tcp-v1 follows the save of DATA_COMMITTED; the helper's RESULT *)
(* says that the other helper has the file.                                  *)
PayloadAcked ==
    /\ pc = "ack"
    /\ IF transport = Tcp THEN outcome[att] = "committed" ELSE att \in landed
    /\ pc' = "await"
    /\ UNCHANGED <<transfer, ask, todo, transport, att, error, result, channel, history, crashes>>

(* Lost connection, refusal of the relay, timeout, changed source, bad ACK:  *)
(* the sender asks for the status first.                                     *)
PayloadFails ==
    /\ pc \in {"payload", "ack"}
    /\ \E e \in {"payload"} \cup (IF FreeText /\ transport = Quic THEN {"misread"} ELSE {}) :
          error' = e
    /\ Forward("status")
    /\ pc' = "query"
    /\ UNCHANGED <<transfer, ask, todo, transport, att, result, asked, history, crashes>>

(* Slip: any answer to the status call counts as a commit.                   *)
QueryOverAnyState ==
    /\ pc = "query"
    /\ pc' = IF reply # None THEN "await" ELSE "cancel"
    /\ net' = net \ {Request("status", att)} /\ reply' = None
    /\ UNCHANGED <<transfer, ask, todo, transport, att, error, result, asked, history, crashes>>

(* The status call is over, with the committed state or with anything else.  *)
QueryOver ==
    /\ pc = "query"
    /\ IF reply = "committed"
       THEN /\ pc' = "await"
            /\ net' = net \ {Request("status", att)} /\ reply' = None
       ELSE /\ pc' = "cancel"
            /\ net' = (net \ {Request("status", att)}) \cup {Request("cancel", att)}
            /\ reply' = None
    /\ UNCHANGED <<transfer, ask, todo, transport, att, error, result, asked, history, crashes>>

(* The cancel call is over, answered or not: the payload's error is thrown.  *)
CancelOver ==
    /\ pc = "cancel"
    /\ AttemptFails(error)
    /\ reply' = None
    /\ UNCHANGED <<transfer, ask, todo, transport, att, net, asked, history, crashes>>

(* The wait for DATA_COMMITTED: one more status call, or the deadline.       *)
Poll ==
    /\ pc = "await"
    /\ Forward("status")
    /\ pc' = "poll"
    /\ UNCHANGED <<transfer, ask, todo, transport, att, error, result, asked, history, crashes>>

(* Slip: any answer of the receiver ends the wait.                           *)
PollOverAnyState ==
    /\ pc = "poll"
    /\ pc' = IF reply # None THEN "notify" ELSE "await"
    /\ net' = net \ {Request("status", att)} /\ reply' = None
    /\ UNCHANGED <<transfer, ask, todo, transport, att, error, result, asked, history, crashes>>

PollOver ==
    /\ pc = "poll"
    /\ pc' = IF reply = "committed" THEN "notify" ELSE "await"
    /\ net' = net \ {Request("status", att)} /\ reply' = None
    /\ UNCHANGED <<transfer, ask, todo, transport, att, error, result, asked, history, crashes>>

Deadline ==
    /\ pc = "await"
    /\ Finish([ok |-> FALSE, committed |-> TRUE])
    /\ UNCHANGED <<transfer, ask, todo, transport, att, channel, history, crashes>>

(* client.sendMessage with the a2a-transfer:// part; it may arrive whatever  *)
(* the caller is told.                                                       *)
Notify ==
    /\ pc = "notify"
    /\ notified' = notified \cup {att}
    /\ \E ok \in BOOLEAN : Finish([ok |-> ok, committed |-> TRUE])
    /\ UNCHANGED <<transfer, ask, todo, transport, att, channel, via, sent, inlined, crashes>>
-----------------------------------------------------------------------------
(* The receiving gateway                                                    *)

(* The receiver answers r to its caller, if that one still waits.            *)
Waits(op, i) ==
    /\ att = i
    /\ pc \in CASE op = "prepare" -> {"prepare"}
                [] op = "status" -> {"query", "poll"}
                [] op = "cancel" -> {"cancel"}
Answer(op, i, r) == reply' = IF Waits(op, i) THEN r ELSE reply

(* prepare refuses, or admits the receive and waits for it to be ready.  The *)
(* sender starts no other attempt while its prepare call is unanswered.      *)
HandlePrepare(i) ==
    /\ Request("prepare", i) \in net
    /\ net' = net \ {Request("prepare", i)}
    /\ \/ /\ \E e \in {"rejected", "unsupported"} : Answer("prepare", i, e)
          /\ UNCHANGED <<transfer, asked, via>>
       \/ /\ Admit(i)
          /\ asked' = asked \cup {i}
          /\ via' = [via EXCEPT ![i] = transport]
          /\ UNCHANGED reply
    /\ UNCHANGED <<sender, sent, notified, inlined, crashes>>

(* `ready' resolves, or rejects: the latter is answered 400, before the      *)
(* receive leaves activeFileReceives.                                        *)
ReceiveReady(i) ==
    /\ i \in asked
    /\ asked' = asked \ {i}
    /\ \E r \in {"ready", "unsupported"} : Answer("prepare", i, r)
    /\ UNCHANGED <<transfer, sender, net, history, crashes>>

(* The whole payload is here and verified, and the file gets its name.       *)
ReceiveLands(i) ==
    /\ i \in sent
    /\ Lands(i)
    /\ UNCHANGED <<sender, channel, history, crashes>>

ReceiveCommits(i) ==
    /\ i \in live
    /\ Commits(i)
    /\ UNCHANGED <<sender, channel, history, crashes>>

(* tcp-v1 records a failure, quic-v7 does not.                               *)
ReceiveFails(i) ==
    /\ i \in live
    /\ via[i] = Tcp
    /\ Fails(i)
    /\ UNCHANGED <<sender, channel, history, crashes>>

ReceiveEnds(i) ==
    /\ i \in live \ asked
    /\ Ends({i})
    /\ UNCHANGED <<sender, channel, history, crashes>>

(* An active receive answers RECEIVING whatever its record says.             *)
HandleStatus(i) ==
    /\ Request("status", i) \in net
    /\ net' = net \ {Request("status", i)}
    /\ Answer("status", i,
              IF i \notin live /\ outcome[i] = "committed" THEN "committed" ELSE "other")
    /\ UNCHANGED <<transfer, sender, asked, history, crashes>>

(* cancel aborts an active receive, which then fails or ends, unless it is   *)
(* past the point where it notices.                                          *)
HandleCancel(i) ==
    /\ Request("cancel", i) \in net
    /\ net' = net \ {Request("cancel", i)}
    /\ Answer("cancel", i, "other")
    /\ UNCHANGED <<transfer, sender, asked, history, crashes>>

(* The receiving gateway is restarted: prepare calls it was serving get no   *)
(* answer.                                                                   *)
Crash ==
    /\ crashes < MaxCrashes
    /\ crashes' = crashes + 1
    /\ Ends(live)
    /\ asked' = {}
    /\ UNCHANGED <<sender, net, reply, history>>

(* recoverInterrupted decides what a receive of tcp-v1 left open.            *)
Recover(i) ==
    /\ crashes > 0
    /\ i \notin live
    /\ via[i] = Tcp
    /\ Commits(i) \/ Fails(i)
    /\ UNCHANGED <<sender, channel, history, crashes>>

-----------------------------------------------------------------------------
Send ==
    \/ NextCandidate \/ SendInline \/ StartStream \/ PrepareReplied \/ PrepareLost
    \/ PayloadSent \/ PayloadAcked \/ PayloadFails \/ QueryOver \/ CancelOver
    \/ Poll \/ PollOver \/ Deadline \/ Notify

ReceiveStep(i) ==
    \/ HandlePrepare(i) \/ ReceiveReady(i) \/ ReceiveLands(i) \/ ReceiveCommits(i)
    \/ ReceiveFails(i) \/ ReceiveEnds(i) \/ HandleStatus(i) \/ HandleCancel(i) \/ Recover(i)

Next == Send \/ Crash \/ \E i \in Ids : ReceiveStep(i)

Spec == Init /\ [][Next]_vars

(* Every call of the sender is bounded by a timer of its own, and the clock  *)
(* passes the deadline of the wait.  Nothing is assumed of the receiver or   *)
(* of the network.                                                           *)
FairSpec == Spec /\ WF_vars(Send) /\ SF_vars(Deadline)

-----------------------------------------------------------------------------
(* Properties                                                               *)

(* The agent is told of a2a-transfer://id only after the record of id says   *)
(* DATA_COMMITTED, whichever transport was used, and the caller is told ok   *)
(* for a stream only after that: sendStreamFileCore.                         *)
NotifiedCommitted ==
    /\ \A i \in notified : i \in landed /\ outcome[i] = "committed"
    /\ result # None /\ result.ok /\ ~inlined => att \in notified

(* A result that says dataCommitted, which stops the caller from sending     *)
(* again, is given only when the file is at the receiver.                    *)
CommittedClaimTrue == result # None /\ result.committed => att \in landed

(* The file is delivered at most once over all candidates, streams and       *)
(* inline together: sendUnifiedFileCore.  (A message that client.sendMessage *)
(* itself repeats counts as one.)                                            *)
DeliveredOnce ==
    /\ \A i, j \in landed : i = j
    /\ inlined => landed = {}

(* A send that failed with neither dataCommitted nor an inline message left  *)
(* no file at the receiver and never will: a caller that sends again makes   *)
(* no duplicate.                                                             *)
FailureHonest ==
    result # None /\ ~result.ok /\ ~result.committed /\ ~inlined => landed = {}

(* listTransportCandidates offers only what both sides can do, and the file  *)
(* inside a message only within both limits.                                 *)
CandidatesFit ==
    ask.forced = None /\ ask.preferInline <= InlineMax(ask) =>
        \A n \in DOMAIN Candidates(ask) :
            /\ Candidates(ask)[n] \in Available(ask)
            /\ Candidates(ask)[n] = Inline => ask.size <= InlineMax(ask)

(* The caller gets an answer, whatever is lost: sendUnifiedFileCore.         *)
SendEnds == <>(pc = "done")
=============================================================================
