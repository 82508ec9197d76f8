--------------------------- MODULE FileSendProofs ---------------------------
(***************************************************************************)
(* Safety of FileSend for any set of sends, any number of candidates and   *)
(* any number of receiver restarts; single delivery when the helper's      *)
(* error text is not mistaken for a refused prepare.                       *)
(***************************************************************************)
EXTENDS FileSend, WellFoundedInduction, TLAPS

(* A call that is answered: the reply fits the call, and "committed" is what *)
(* the record said and still says.                                           *)
ReplyOK ==
    /\ pc = "prepare" => reply \in {None, "ready", "rejected", "unsupported"}
    /\ reply = "committed" => pc \in {"query", "poll"} /\ outcome[att] = "committed"

(* The attempt the sender is in.                                             *)
AttemptOK ==
    /\ att + Len(todo) <= Len(Candidates(ask))
    /\ pc \notin {"next", "inline", "done"} => att # 0
    /\ pc \in {"query", "cancel"} => error = "payload" \/ (error = "misread" /\ FreeText)
    /\ result # None => pc = "done"
    /\ inlined => pc = "done"

(* Only the current attempt can have sent its payload, and none has when the *)
(* sender may still turn to another candidate: what makes a fallback safe,   *)
(* unless a failed payload was taken for a refused prepare.                  *)
SentOK ==
    FreeText = FALSE =>
        /\ sent \subseteq {att}
        /\ pc \in {"next", "start", "prepare", "inline"} => sent = {}
        /\ inlined => sent = {}

(* What has landed was sent; what is committed has landed.                   *)
LandedOK ==
    /\ landed \subseteq sent
    /\ \A i \in Ids : outcome[i] = "committed" => i \in landed
    /\ pc \in {"await", "poll", "notify"} => att \in landed
    /\ pc = "notify" => outcome[att] = "committed"

SendInv ==
    /\ TypeOK
    /\ ReplyOK /\ AttemptOK /\ SentOK /\ LandedOK
    /\ NotifiedCommitted /\ CommittedClaimTrue

(* The id of an attempt under way is one of Ids.                             *)
LEMMA AttemptInIds ==
    ASSUME TypeOK, AttemptOK, pc \notin {"next", "inline", "done"}
    PROVE  att \in Ids
BY DEF TypeOK, AttemptOK

(***************************************************************************)
(* The candidates.                                                         *)
(***************************************************************************)

(* A set of naturals that has 0 and with each number the next has them all.  *)
LEMMA SetInduction ==
    ASSUME NEW S, 0 \in S, \A n \in Nat : n \in S => n + 1 \in S
    PROVE  Nat \subseteq S
<1> DEFINE T == Nat \ S
           R == OpToRel(<, Nat)
<1> SUFFICES ASSUME T # {} PROVE FALSE
  OBVIOUS
<1>1. IsWellFoundedOn(R, Nat)
  BY NatLessThanWellFounded
<1>2. \A x, y \in Nat : x < y => <<x, y>> \in R
  BY DEF OpToRel
<1>3. T \subseteq Nat
  OBVIOUS
<1> HIDE DEF R, T
<1>4. PICK x \in T : \A y \in T : <<y, x>> \notin R
  BY <1>1, <1>3, WFMin
<1>5. x \in Nat /\ x # 0 /\ x - 1 \in Nat /\ x - 1 < x /\ x = (x - 1) + 1
  BY DEF T
<1>6. x - 1 \in S
  BY <1>2, <1>4, <1>5 DEF T
<1> QED BY <1>5, <1>6 DEF T

(* The walk is what its recursion says, for an order of any length.          *)
LEMMA PushedDef ==
    ASSUME NEW p, Len(p.order) \in Nat
    PROVE  Pushed(p) = [n \in 0..Len(p.order) |->
               IF n = 0 THEN <<>>
               ELSE IF Fits(p, p.order[n]) THEN Append(Pushed(p)[n - 1], p.order[n])
               ELSE Pushed(p)[n - 1]]
<1> DEFINE Step(g, n) == IF n = 0 THEN <<>>
                         ELSE IF Fits(p, p.order[n]) THEN Append(g[n - 1], p.order[n]) ELSE g[n - 1]
           S == {n \in Nat : \E g : g = [m \in 0..n |-> Step(g, m)]}
<1>1. 0 \in S
  <2> DEFINE g == [m \in 0..0 |-> <<>>]
  <2>1. g = [m \in 0..0 |-> Step(g, m)]
    OBVIOUS
  <2> QED BY <2>1
<1>2. ASSUME NEW n \in Nat, n \in S PROVE n + 1 \in S
  <2>1. PICK g : g = [m \in 0..n |-> Step(g, m)]
    BY <1>2
  <2> DEFINE h == [m \in 0..(n + 1) |-> IF m \in 0..n THEN g[m] ELSE Step(g, n + 1)]
  <2>2. ASSUME NEW m \in 0..(n + 1) PROVE h[m] = Step(h, m)
    <3>1. m # 0 => m - 1 \in 0..n /\ h[m - 1] = g[m - 1]
      OBVIOUS
    <3>2. Step(h, m) = Step(g, m)
      BY <3>1
    <3>3. CASE m \in 0..n
      <4>1. g[m] = Step(g, m)
        BY <2>1, <3>3
      <4> QED BY <3>2, <3>3, <4>1
    <3>4. CASE m \notin 0..n
      BY <3>2, <3>4
    <3> QED BY <3>3, <3>4
  <2> HIDE DEF Step
  <2>3. h = [m \in 0..(n + 1) |-> Step(h, m)]
    BY <2>2
  <2>4. n + 1 \in Nat
    OBVIOUS
  <2> HIDE DEF h
  <2> QED BY <2>3, <2>4, Zenon
<1> HIDE DEF S
<1>3. Len(p.order) \in S
  BY <1>1, <1>2, SetInduction
<1>4. \E g : g = [m \in 0..Len(p.order) |-> Step(g, m)]
  BY <1>3 DEF S
<1>5. Pushed(p) = CHOOSE g : g = [m \in 0..Len(p.order) |-> Step(g, m)]
  BY DEF Pushed
<1> QED BY <1>4, <1>5

(* All it has pushed are transports that fit, and no more of them than names *)
(* in the order.                                                             *)
LEMMA PushedFits ==
    ASSUME NEW p \in Sends
    PROVE  LET c == Pushed(p)[Len(p.order)]
           IN /\ c \in Seq(Transports) /\ Len(c) <= Len(p.order)
              /\ \A k \in 1..Len(c) : Fits(p, c[k])
<1> DEFINE N == Len(p.order)
           out == Pushed(p)
           Good(n) == /\ out[n] \in Seq(Transports) /\ Len(out[n]) <= n
                      /\ \A k \in 1..Len(out[n]) : Fits(p, out[n][k])
           S == {n \in Nat : n <= N => Good(n)}
<1>0. N \in Nat /\ p.order \in Seq(Transports) /\ \A n \in 1..N : p.order[n] \in Transports
  BY SendConstants
<1>1. /\ out[0] = <<>>
      /\ \A n \in 0..(N - 1) : out[n + 1] = IF Fits(p, p.order[n + 1])
                                          THEN Append(out[n], p.order[n + 1]) ELSE out[n]
  <2> DEFINE Body(n) == IF n = 0 THEN <<>>
                        ELSE IF Fits(p, p.order[n]) THEN Append(out[n - 1], p.order[n]) ELSE out[n - 1]
  <2>1. out = [n \in 0..N |-> Body(n)]
    BY <1>0, PushedDef
  <2> HIDE DEF out, Body
  <2>2. \A n \in 0..N : out[n] = Body(n)
    BY <2>1
  <2>3. out[0] = <<>>
    BY <1>0, <2>2 DEF Body
  <2>4. ASSUME NEW n \in 0..(N - 1)
        PROVE  out[n + 1] = IF Fits(p, p.order[n + 1]) THEN Append(out[n], p.order[n + 1]) ELSE out[n]
    <3>1. n + 1 \in 0..N /\ n + 1 # 0 /\ (n + 1) - 1 = n
      BY <1>0
    <3> QED BY <2>2, <3>1 DEF Body
  <2> QED BY <2>3, <2>4
<1> HIDE DEF N, out
<1>2. 0 \in S
  <2>1. Good(0)
    BY <1>1
  <2> QED BY <2>1
<1>3. ASSUME NEW n \in Nat, n \in S PROVE n + 1 \in S
  <2> SUFFICES ASSUME n + 1 <= N PROVE Good(n + 1)
    OBVIOUS
  <2>1. n \in 0..(N - 1) /\ n + 1 \in 1..N /\ Good(n)
    BY <1>0, <1>3
  <2>2. CASE Fits(p, p.order[n + 1])
    <3>1. out[n + 1] = Append(out[n], p.order[n + 1])
      BY <1>1, <2>1, <2>2
    <3>2. p.order[n + 1] \in Transports
      BY <1>0, <2>1
    <3> QED BY <2>1, <2>2, <3>1, <3>2
  <2>3. CASE ~Fits(p, p.order[n + 1])
    BY <1>1, <2>1, <2>3
  <2> QED BY <2>2, <2>3
<1>4. N \in S
  BY <1>0, <1>2, <1>3, SetInduction
<1> QED BY <1>0, <1>4 DEF N, out

(* There is an id for every candidate.                                       *)
LEMMA CandidatesType ==
    ASSUME NEW p \in Sends
    PROVE  /\ Candidates(p) \in Seq(Transports) /\ 1..Len(Candidates(p)) \subseteq Ids
<1> DEFINE c == Pushed(p)[Len(p.order)]
<1>1. c \in Seq(Transports) /\ Len(c) <= Len(p.order)
  BY PushedFits
<1>2. /\ p.order \in Seq(Transports) /\ 1..Len(p.order) \subseteq Ids /\ 1 \in Ids
      /\ p.forced \in Transports \cup {None}
      /\ p.mode \in {"quic", "tcp", "base64", "auto"}
  BY SendConstants
<1>3. 1..Len(c) \subseteq Ids
  BY <1>1, <1>2
<1> HIDE DEF c
<1>4. Candidates(p) = c \/ Candidates(p) = <<>>
      \/ \E t \in Transports : Candidates(p) = <<t>>
  BY <1>2 DEF Candidates, Only, c, Transports
<1>5. CASE Candidates(p) = c
  BY <1>1, <1>3, <1>5
<1>6. CASE Candidates(p) = <<>>
  BY <1>6
<1>7. CASE \E t \in Transports : Candidates(p) = <<t>>
  <2>1. PICK t \in Transports : Candidates(p) = <<t>>
    BY <1>7
  <2>2. <<t>> \in Seq(Transports) /\ Len(<<t>>) = 1
    OBVIOUS
  <2> QED BY <1>2, <2>1, <2>2
<1> QED BY <1>4, <1>5, <1>6, <1>7

(* Every candidate fits.                                                     *)
LEMMA CandidatesFitAlways ==
    ASSUME ask \in Sends
    PROVE  CandidatesFit
<1> DEFINE c == Pushed(ask)[Len(ask.order)]
<1> SUFFICES ASSUME ask.forced = None, ask.preferInline <= InlineMax(ask),
                    NEW n \in DOMAIN Candidates(ask)
             PROVE  Fits(ask, Candidates(ask)[n])
  BY DEF CandidatesFit, Fits
<1>1. c \in Seq(Transports) /\ \A k \in 1..Len(c) : Fits(ask, c[k])
  BY PushedFits
<1>2. /\ ask.mode \in {"quic", "tcp", "base64", "auto"}
      /\ ask.size <= ask.preferInline => ask.size <= InlineMax(ask)
  BY SendConstants DEF InlineMax
<1> HIDE DEF c
<1>3. \/ Candidates(ask) = c
      \/ \E t : Candidates(ask) = Only(t, Fits(ask, t))
      \/ Candidates(ask) = <<Inline>> /\ ask.size <= ask.preferInline /\ Inline \in Available(ask)
  BY <1>2 DEF Candidates, c
<1>4. CASE Candidates(ask) = c
  BY <1>1, <1>4
<1>5. CASE \E t : Candidates(ask) = Only(t, Fits(ask, t))
  <2>1. PICK t : Candidates(ask) = Only(t, Fits(ask, t))
    BY <1>5
  <2>2. CASE Fits(ask, t)
    BY <2>1, <2>2 DEF Only
  <2>3. CASE ~Fits(ask, t)
    BY <2>1, <2>3 DEF Only
  <2> QED BY <2>2, <2>3
<1>6. CASE Candidates(ask) = <<Inline>> /\ ask.size <= ask.preferInline /\ Inline \in Available(ask)
  BY <1>2, <1>6 DEF Fits
<1> QED BY <1>3, <1>4, <1>5, <1>6

-----------------------------------------------------------------------------
(* The invariant holds initially: nothing has been sent.                     *)
LEMMA SendInit == Init => SendInv
<1> SUFFICES ASSUME Init PROVE SendInv OBVIOUS
<1>1. TypeOK
  BY SendConstants, CandidatesType DEF Init, TypeOK, OutcomeInit, OutcomeType, Outcomes, Pcs
<1>2. AttemptOK
  BY SendConstants, CandidatesType DEF Init, AttemptOK
<1>3. ReplyOK /\ SentOK /\ LandedOK
  BY SendConstants DEF Init, OutcomeInit, ReplyOK, SentOK, LandedOK, Replies
<1>4. NotifiedCommitted /\ CommittedClaimTrue
  BY DEF Init, NotifiedCommitted, CommittedClaimTrue
<1> QED BY <1>1, <1>2, <1>3, <1>4 DEF SendInv

(***************************************************************************)
(* Steps of the receiver leave the sender alone and only move an outcome   *)
(* forward.                                                                *)
(***************************************************************************)

(* What a step of the receiving gateway keeps of the sender.                 *)
SenderKept == UNCHANGED <<sender, sent, notified, inlined>>

(* Outcomes that are decided stay, landed files stay, and a commit needs the *)
(* file in place.                                                            *)
OutcomeGrows ==
    /\ OutcomeType'
    /\ landed \subseteq landed' /\ landed' \subseteq sent
    /\ \A i \in Ids : outcome[i] = "committed" => outcome'[i] = "committed"
    /\ \A i \in Ids : outcome'[i] = "committed" => i \in landed'

(* A step of that kind keeps everything but the type and the reply.          *)
LEMMA ReceiverKeeps ==
    ASSUME SendInv, SenderKept, OutcomeGrows
    PROVE  AttemptOK' /\ SentOK' /\ LandedOK' /\ NotifiedCommitted' /\ CommittedClaimTrue'
<1> USE DEF SenderKept, sender
<1>1. AttemptOK'
  BY DEF SendInv, AttemptOK
<1>2. SentOK'
  BY DEF SendInv, SentOK
<1>3. LandedOK'
  <2>1. pc = "notify" => att \in Ids
    BY AttemptInIds DEF SendInv
  <2> QED BY <2>1 DEF SendInv, LandedOK, OutcomeGrows
<1>4. NotifiedCommitted'
  BY DEF SendInv, NotifiedCommitted, OutcomeGrows, TypeOK
<1>5. CommittedClaimTrue'
  BY DEF SendInv, CommittedClaimTrue, OutcomeGrows
<1> QED BY <1>1, <1>2, <1>3, <1>4, <1>5

(* The outcome part of each step of TransferOutcome the receiver takes.      *)
LEMMA OutcomeSteps ==
    ASSUME SendInv,
           \/ UNCHANGED transfer
           \/ \E i \in Ids : Admit(i) \/ Commits(i) \/ Fails(i) \/ (i \in sent /\ Lands(i))
           \/ \E S : Ends(S)
    PROVE  OutcomeGrows
<1> USE DEF SendInv, TypeOK, OutcomeType, LandedOK, OutcomeGrows
<1>1. CASE UNCHANGED transfer
  BY <1>1 DEF transfer
<1>2. ASSUME NEW i \in Ids, Admit(i) PROVE OutcomeGrows
  BY <1>2 DEF Admit
<1>3. ASSUME NEW i \in Ids, Commits(i) PROVE OutcomeGrows
  BY <1>3 DEF Commits, Outcomes
<1>4. ASSUME NEW i \in Ids, Fails(i) PROVE OutcomeGrows
  BY <1>4 DEF Fails, Outcomes
<1>5. ASSUME NEW i \in Ids, i \in sent, Lands(i) PROVE OutcomeGrows
  BY <1>5 DEF Lands
<1>6. ASSUME NEW S, Ends(S) PROVE OutcomeGrows
  BY <1>6 DEF Ends
<1> QED BY <1>1, <1>2, <1>3, <1>4, <1>5, <1>6

(* An answer other than "committed", or one that is true, is a good reply.   *)
LEMMA AnswerOK ==
    ASSUME SendInv, SenderKept, OutcomeGrows,
           NEW op \in {"prepare", "status", "cancel"}, NEW i \in Ids, NEW r \in Replies,
           Answer(op, i, r),
           op = "prepare" => r \in {"ready", "rejected", "unsupported"},
           op # "prepare" => r \in {"committed", "other"},
           r = "committed" => op = "status" /\ outcome[i] = "committed"
    PROVE  ReplyOK' /\ reply' \in Replies \cup {None}
<1> USE DEF SenderKept, sender, SendInv, TypeOK, ReplyOK, OutcomeGrows
<1>0. Waits(op, i) \in BOOLEAN
  BY DEF Waits
<1>1. CASE Waits(op, i)
  <2>1. reply' = r /\ att = i
    BY <1>1 DEF Answer, Waits
  <2>2. CASE op = "prepare"
    BY <1>1, <2>1, <2>2
  <2>3. CASE op = "status"
    BY <1>1, <2>1, <2>3 DEF Waits
  <2>4. CASE op = "cancel"
    BY <1>1, <2>1, <2>4 DEF Waits
  <2> QED BY <2>2, <2>3, <2>4
<1>2. CASE ~Waits(op, i)
  <2>1. reply' = reply
    BY <1>2 DEF Answer
  <2>2. reply = "committed" => att \in Ids
    BY AttemptInIds
  <2> QED BY <2>1, <2>2
<1> QED BY <1>1, <1>2

(* A step of the receiver keeps the invariant.                               *)
LEMMA ReceiverStep ==
    ASSUME SendInv, NEW i \in Ids, ReceiveStep(i)
    PROVE  SendInv'
<1>1. SenderKept
  BY DEF ReceiveStep, HandlePrepare, ReceiveReady, ReceiveLands, ReceiveCommits, ReceiveFails,
         ReceiveEnds, HandleStatus, HandleCancel, Recover, SenderKept, history
<1>2. OutcomeGrows
  <2>1. \/ UNCHANGED transfer
        \/ Admit(i) \/ Commits(i) \/ Fails(i) \/ (i \in sent /\ Lands(i))
        \/ Ends({i})
    BY DEF ReceiveStep, HandlePrepare, ReceiveReady, ReceiveLands, ReceiveCommits, ReceiveFails,
           ReceiveEnds, HandleStatus, HandleCancel, Recover
  <2> QED BY <2>1, OutcomeSteps
<1>3. AttemptOK' /\ SentOK' /\ LandedOK' /\ NotifiedCommitted' /\ CommittedClaimTrue'
  BY <1>1, <1>2, ReceiverKeeps
<1>4. ASSUME reply' = reply PROVE ReplyOK' /\ reply' \in Replies \cup {None}
  <2>1. reply = "committed" => att \in Ids
    BY AttemptInIds DEF SendInv, ReplyOK
  <2> QED BY <1>1, <1>2, <1>4, <2>1
          DEF SendInv, TypeOK, ReplyOK, OutcomeGrows, SenderKept, sender
<1>5. ReplyOK' /\ reply' \in Replies \cup {None}
  <2>1. CASE HandlePrepare(i)
    <3>1. CASE \E e \in {"rejected", "unsupported"} : Answer("prepare", i, e)
      BY <3>1, <1>1, <1>2, AnswerOK DEF Replies
    <3>2. CASE UNCHANGED reply
      BY <3>2, <1>4 DEF SendInv, TypeOK
    <3> QED BY <2>1, <3>1, <3>2 DEF HandlePrepare
  <2>2. CASE ReceiveReady(i)
    <3>1. \E r \in {"ready", "unsupported"} : Answer("prepare", i, r)
      BY <2>2 DEF ReceiveReady
    <3> QED BY <3>1, <1>1, <1>2, AnswerOK DEF Replies
  <2>3. CASE HandleStatus(i)
    <3>1. PICK r \in {"committed", "other"} :
             Answer("status", i, r) /\ (r = "committed" => outcome[i] = "committed")
      BY <2>3 DEF HandleStatus
    <3> QED BY <3>1, <1>1, <1>2, AnswerOK DEF Replies
  <2>4. CASE HandleCancel(i)
    <3>1. Answer("cancel", i, "other")
      BY <2>4 DEF HandleCancel
    <3> QED BY <3>1, <1>1, <1>2, AnswerOK DEF Replies
  <2>5. CASE ReceiveLands(i) \/ ReceiveCommits(i) \/ ReceiveFails(i) \/ ReceiveEnds(i) \/ Recover(i)
    BY <2>5, <1>4 DEF ReceiveLands, ReceiveCommits, ReceiveFails, ReceiveEnds, Recover, channel,
                      SendInv, TypeOK
  <2> QED BY <2>1, <2>2, <2>3, <2>4, <2>5 DEF ReceiveStep
<1>6. net' \subseteq Requests /\ asked' \subseteq Ids
      /\ via' \in [Ids -> {Quic, Tcp, None}] /\ crashes' \in Nat
  BY DEF ReceiveStep, HandlePrepare, ReceiveReady, ReceiveLands, ReceiveCommits, ReceiveFails,
         ReceiveEnds, HandleStatus, HandleCancel, Recover, SendInv, TypeOK, channel, history
<1>7. TypeOK'
  BY <1>1, <1>2, <1>5, <1>6 DEF SendInv, TypeOK, OutcomeGrows, SenderKept, sender
<1> QED BY <1>3, <1>5, <1>7 DEF SendInv

(* So does a restart of the receiving gateway.                               *)
LEMMA CrashStep ==
    ASSUME SendInv, Crash
    PROVE  SendInv'
<1>1. SenderKept
  BY DEF Crash, SenderKept, history
<1>2. OutcomeGrows
  BY OutcomeSteps DEF Crash
<1>3. AttemptOK' /\ SentOK' /\ LandedOK' /\ NotifiedCommitted' /\ CommittedClaimTrue'
  BY <1>1, <1>2, ReceiverKeeps
<1>4. ReplyOK'
  <2>1. reply = "committed" => att \in Ids
    BY AttemptInIds DEF SendInv, ReplyOK
  <2> QED BY <1>1, <1>2, <2>1 DEF SendInv, ReplyOK, OutcomeGrows, SenderKept, sender, Crash
<1>5. TypeOK'
  BY <1>1, <1>2 DEF SendInv, TypeOK, OutcomeGrows, SenderKept, sender, Crash, history
<1> QED BY <1>3, <1>4, <1>5 DEF SendInv

(***************************************************************************)
(* Steps of the sender.                                                    *)
(***************************************************************************)

(* The result of a failed send.                                              *)
LEMMA FailedResult ==
    [ok |-> FALSE, committed |-> FALSE] \in Results /\ [ok |-> FALSE, committed |-> TRUE] \in Results
BY DEF Results

(* The sender turns to the next candidate: no payload has left.              *)
LEMMA NextCandidateStep ==
    ASSUME SendInv, NextCandidate
    PROVE  SendInv'
<1> USE DEF SendInv, NextCandidate, Finish, channel, history, transfer
<1>1. ~inlined /\ result = None /\ (FreeText = FALSE => sent = {})
  BY DEF SentOK, AttemptOK
<1>2. att' \in Ids \cup {0} /\ att' + Len(todo') <= Len(Candidates(ask)) /\ todo' \in Seq(Transports)
      /\ (pc' = "start" => att' \in Ids) /\ transport' \in {Quic, Tcp, None}
  <2> DEFINE L == Len(Candidates(ask))
  <2>1. /\ att \in Nat /\ L \in Nat /\ 1..L \subseteq Ids
        /\ Len(todo) \in Nat /\ att + Len(todo) <= L
    BY SendConstants, CandidatesType DEF TypeOK, AttemptOK
  <2> HIDE DEF L
  <2>2. CASE todo = <<>> \/ Head(todo) = Inline
    <3>1. att' = att /\ todo' = todo /\ transport' = transport /\ pc' # "start"
      BY <2>2
    <3> QED BY <2>1, <3>1 DEF TypeOK, L
  <2>3. CASE todo # <<>> /\ Head(todo) # Inline
    <3>1. Head(todo) \in {Quic, Tcp} /\ Tail(todo) \in Seq(Transports)
          /\ Len(Tail(todo)) = Len(todo) - 1 /\ Len(todo) >= 1
      BY <2>3 DEF TypeOK, Transports
    <3>2. att' = att + 1 /\ todo' = Tail(todo) /\ transport' = Head(todo)
      BY <2>3
    <3>3. att + 1 \in 1..L /\ (att + 1) + Len(Tail(todo)) <= L
      BY <2>1, <3>1
    <3> QED BY <2>1, <3>1, <3>2, <3>3 DEF L
  <2> QED BY <2>2, <2>3
<1>3. TypeOK'
  <2>1. /\ pc' \in Pcs /\ error' = error
        /\ UNCHANGED <<live, landed, outcome, ask, net, reply, asked, via, sent, notified, inlined,
                       crashes>>
    BY DEF Pcs
  <2>2. result' = result \/ result' = [ok |-> FALSE, committed |-> FALSE]
    OBVIOUS
  <2>3. result' \in Results \cup {None}
    BY <1>1, <2>2, FailedResult
  <2> QED BY <1>2, <2>1, <2>3 DEF TypeOK, OutcomeType
<1>4. AttemptOK'
  BY <1>1, <1>2, SendConstants DEF AttemptOK
<1>5. ReplyOK' /\ SentOK' /\ LandedOK'
  BY <1>1 DEF ReplyOK, SentOK, LandedOK, AttemptOK
<1>6. NotifiedCommitted' /\ CommittedClaimTrue'
  BY <1>1 DEF NotifiedCommitted, CommittedClaimTrue
<1> QED BY <1>3, <1>4, <1>5, <1>6

(* The inline message ends the send, and nothing has been streamed.          *)
LEMMA SendInlineStep ==
    ASSUME SendInv, SendInline
    PROVE  SendInv'
<1> USE DEF SendInv, SendInline, Finish, channel, transfer
<1>1. ~inlined /\ (FreeText = FALSE => sent = {})
  BY DEF SentOK, AttemptOK
<1>2. inlined' \in BOOLEAN /\ result' \in Results /\ ~result'.committed
      /\ (result'.ok => inlined')
  <2>1. \/ result' = [ok |-> FALSE, committed |-> FALSE] /\ inlined' = inlined
        \/ inlined' = TRUE /\ \E ok \in BOOLEAN : result' = [ok |-> ok, committed |-> FALSE]
    OBVIOUS
  <2>2. inlined' \in BOOLEAN
    BY <2>1, Zenon DEF TypeOK
  <2>3. CASE result' = [ok |-> FALSE, committed |-> FALSE]
    BY <2>2, <2>3 DEF Results
  <2>4. ASSUME NEW ok \in BOOLEAN, inlined' = TRUE, result' = [ok |-> ok, committed |-> FALSE]
        PROVE  result' \in Results /\ ~result'.committed /\ (result'.ok => inlined')
    BY <2>4 DEF Results
  <2> QED BY <2>1, <2>2, <2>3, <2>4
<1>3. TypeOK'
  BY <1>2 DEF TypeOK, Pcs, OutcomeType
<1>4. AttemptOK' /\ ReplyOK' /\ SentOK' /\ LandedOK'
  BY <1>1 DEF AttemptOK, ReplyOK, SentOK, LandedOK
<1>5. NotifiedCommitted' /\ CommittedClaimTrue'
  BY <1>1, <1>2 DEF NotifiedCommitted, CommittedClaimTrue
<1> QED BY <1>3, <1>4, <1>5

(* What most steps of the sender leave alone.                                *)
Quiet == UNCHANGED <<transfer, ask, todo, transport, att, asked, via, sent, notified, inlined, crashes>>

(* Where such a step may go: the pending error, the result and the next step *)
(* fit what has been sent and what has landed.                               *)
GoodStep ==
    /\ pc # "done" /\ pc' \in Pcs
    /\ error' \in Errors \cup {None} /\ result' \in Results \cup {None}
    /\ net' \subseteq Requests
    /\ reply' = None \/ (reply' = reply /\ pc \notin {"query", "poll"} /\ pc' # "prepare")
    /\ pc' \notin {"next", "inline", "done"} => att # 0
    /\ pc' \in {"query", "cancel"} => error' = "payload" \/ (error' = "misread" /\ FreeText)
    /\ result' # None => pc' = "done" /\ ~result'.ok /\ (result'.committed => att \in landed)
    /\ FreeText = FALSE /\ pc' \in {"next", "start", "prepare", "inline"} => sent = {}
    /\ pc' \in {"await", "poll", "notify"} => att \in landed
    /\ pc' = "notify" => outcome[att] = "committed"

(* A step of this kind keeps the invariant.                                  *)
LEMMA QuietStep ==
    ASSUME SendInv, Quiet, GoodStep
    PROVE  SendInv'
<1> USE DEF SendInv, Quiet, GoodStep, transfer
<1>1. ~inlined
  BY DEF AttemptOK
<1>2. TypeOK'
  BY DEF TypeOK, OutcomeType
<1>3. ReplyOK'
  BY SendConstants DEF ReplyOK, Replies
<1>4. AttemptOK'
  BY DEF AttemptOK
<1>5. SentOK'
  BY <1>1 DEF SentOK
<1>6. LandedOK'
  BY DEF LandedOK
<1>7. NotifiedCommitted' /\ CommittedClaimTrue'
  BY <1>1 DEF NotifiedCommitted, CommittedClaimTrue
<1> QED BY <1>2, <1>3, <1>4, <1>5, <1>6, <1>7

(* A failed attempt ends the send, or lets it go on when no payload has      *)
(* left.                                                                     *)
LEMMA FailsStep ==
    ASSUME SendInv, Quiet, NEW e \in Errors, AttemptFails(e),
           pc \notin {"done", "next", "inline"}, FreeText = FALSE /\ PreStart(e) => sent = {},
           net' \subseteq Requests,
           reply' = None \/ (reply' = reply /\ pc \notin {"query", "poll"})
    PROVE  SendInv'
<1>1. result = None
  BY DEF SendInv, AttemptOK
<1>2. /\ error' = e
      /\ \/ pc' = "next" /\ result' = None /\ (FreeText = FALSE => sent = {})
         \/ pc' = "done" /\ result' = [ok |-> FALSE, committed |-> FALSE]
  BY <1>1 DEF AttemptFails
<1>3. result' \in Results \cup {None}
  BY <1>2, FailedResult
<1>4. result' # None => pc' = "done" /\ ~result'.ok /\ ~result'.committed
  BY <1>2
<1>5. GoodStep
  BY <1>2, <1>3, <1>4 DEF GoodStep, Pcs
<1> QED BY <1>5, QuietStep

(* Requests of the current attempt are requests.                             *)
LEMMA ForwardTyped ==
    ASSUME SendInv, pc \notin {"next", "inline", "done"},
           NEW op \in {"prepare", "status", "cancel"}
    PROVE  Request(op, att) \in Requests
BY AttemptInIds DEF SendInv, Request, Requests

(* The start of a stream.                                                    *)
LEMMA StartStreamStep ==
    ASSUME SendInv, StartStream
    PROVE  SendInv'
<1> USE DEF StartStream, history
<1>1. Quiet /\ pc = "start" /\ (FreeText = FALSE => sent = {}) /\ net \subseteq Requests /\ att # 0 /\ result = None
  BY DEF Quiet, SendInv, SentOK, TypeOK, AttemptOK
<1>2. ASSUME NEW e \in {"local", "helper missing"}, AttemptFails(e), UNCHANGED <<net, reply>>
      PROVE  SendInv'
  BY <1>1, <1>2, FailsStep DEF Errors
<1>3. ASSUME Forward("prepare"), pc' = "prepare", UNCHANGED <<error, result>>
      PROVE  SendInv'
  <2>1. net' \subseteq Requests /\ reply' = None
    BY <1>1, <1>3, ForwardTyped DEF Forward
  <2>2. GoodStep
    BY <1>1, <1>3, <2>1 DEF GoodStep, Pcs, SendInv, TypeOK
  <2> QED BY <1>1, <2>2, QuietStep
<1> QED BY <1>2, <1>3

(* The end of a prepare call.                                                *)
LEMMA PrepareStep ==
    ASSUME SendInv, PrepareReplied \/ PrepareLost
    PROVE  SendInv'
<1>1. /\ Quiet /\ pc = "prepare" /\ (FreeText = FALSE => sent = {}) /\ net' \subseteq Requests /\ att # 0
      /\ result = None /\ reply' = None
  BY DEF Quiet, PrepareReplied, PrepareLost, history, SendInv, SentOK, TypeOK, AttemptOK
<1>2. ASSUME NEW e \in Errors, AttemptFails(e) PROVE SendInv'
  BY <1>1, <1>2, FailsStep
<1>3. ASSUME pc' = "payload", UNCHANGED <<error, result>> PROVE SendInv'
  <2>1. GoodStep
    BY <1>1, <1>3 DEF GoodStep, Pcs, SendInv, TypeOK
  <2> QED BY <1>1, <2>1, QuietStep
<1>4. CASE PrepareLost
  BY <1>2, <1>4 DEF PrepareLost, Errors
<1>5. CASE PrepareReplied
  <2>1. reply # "ready" => reply \in Errors
    BY <1>5 DEF PrepareReplied, SendInv, ReplyOK, Errors
  <2> QED BY <1>2, <1>3, <1>5, <2>1 DEF PrepareReplied
<1> QED BY <1>4, <1>5

(* The payload has left: from here the sender turns to no other candidate.   *)
LEMMA PayloadSentStep ==
    ASSUME SendInv, PayloadSent
    PROVE  SendInv'
<1> USE DEF SendInv, PayloadSent, transfer, channel
<1>1. att \in Ids
  BY AttemptInIds
<1>2. TypeOK'
  BY <1>1 DEF TypeOK, OutcomeType, Pcs
<1>3. ReplyOK' /\ AttemptOK' /\ SentOK' /\ LandedOK'
  BY DEF ReplyOK, AttemptOK, SentOK, LandedOK
<1>4. NotifiedCommitted' /\ CommittedClaimTrue'
  BY DEF NotifiedCommitted, CommittedClaimTrue
<1> QED BY <1>2, <1>3, <1>4

(* The end of the payload: acknowledged, or in doubt.                        *)
LEMMA PayloadStep ==
    ASSUME SendInv, PayloadAcked \/ PayloadFails
    PROVE  SendInv'
<1>1. /\ Quiet /\ pc \in {"payload", "ack"} /\ att \in Ids /\ att # 0 /\ result = None
      /\ result' = None
  BY AttemptInIds DEF Quiet, PayloadAcked, PayloadFails, history, channel, SendInv, AttemptOK
<1>2. CASE PayloadAcked
  <2>1. att \in landed
    BY <1>1, <1>2 DEF PayloadAcked, SendInv, LandedOK
  <2> QED BY <1>1, <1>2, <2>1, QuietStep
          DEF PayloadAcked, GoodStep, Pcs, channel, SendInv, TypeOK
<1>3. CASE PayloadFails
  <2>1. /\ net' \subseteq Requests /\ reply' = None /\ pc' = "query"
        /\ error' = "payload" \/ (error' = "misread" /\ FreeText)
    BY <1>1, <1>3, ForwardTyped DEF PayloadFails, Forward, SendInv, TypeOK
  <2>2. GoodStep
    BY <1>1, <2>1 DEF GoodStep, Pcs, Errors
  <2> QED BY <1>1, <2>2, QuietStep
<1> QED BY <1>2, <1>3

(* The doubtful outcome: the status call, then the cancel call.              *)
LEMMA SettleStep ==
    ASSUME SendInv, QueryOver \/ CancelOver
    PROVE  SendInv'
<1>1. /\ Quiet /\ pc \in {"query", "cancel"} /\ att \in Ids /\ att # 0
      /\ result = None /\ reply' = None
      /\ error = "payload" \/ (error = "misread" /\ FreeText)
  BY AttemptInIds DEF Quiet, QueryOver, CancelOver, history, SendInv, AttemptOK
<1>2. net' \subseteq Requests
  BY <1>1, ForwardTyped DEF QueryOver, CancelOver, SendInv, TypeOK
<1>3. CASE QueryOver
  <2>1. error' = error /\ result' = None
    BY <1>1, <1>3 DEF QueryOver
  <2>2. \/ pc' = "await" /\ att \in landed
        \/ pc' = "cancel"
    BY <1>1, <1>3 DEF QueryOver, SendInv, ReplyOK, LandedOK
  <2>3. GoodStep
    BY <1>1, <1>2, <2>1, <2>2 DEF GoodStep, Pcs, Errors
  <2> QED BY <1>1, <2>3, QuietStep
<1>4. CASE CancelOver
  <2>1. AttemptFails(error)
    BY <1>1, <1>4 DEF CancelOver
  <2> QED BY <1>1, <1>2, <2>1, FailsStep DEF PreStart, Errors
<1> QED BY <1>3, <1>4

(* The wait for the commit.                                                  *)
LEMMA AwaitStep ==
    ASSUME SendInv, Poll \/ PollOver \/ Deadline
    PROVE  SendInv'
<1>1. /\ Quiet /\ pc \in {"await", "poll"} /\ att \in Ids /\ att # 0
      /\ result = None /\ error' = error /\ att \in landed
  BY AttemptInIds DEF Quiet, Poll, PollOver, Deadline, Finish, history, channel, SendInv, AttemptOK,
                      LandedOK
<1>2. error' \in Errors \cup {None} /\ net' \subseteq Requests
  BY <1>1, ForwardTyped DEF Poll, PollOver, Deadline, Forward, channel, SendInv, TypeOK
<1>3. CASE Poll \/ PollOver
  <2>1. result' = None /\ reply' = None
    BY <1>1, <1>3 DEF Poll, PollOver, Forward
  <2>2. \/ pc' \in {"poll", "await"}
        \/ pc' = "notify" /\ outcome[att] = "committed"
    BY <1>3 DEF Poll, PollOver, SendInv, ReplyOK
  <2>3. GoodStep
    BY <1>1, <1>2, <2>1, <2>2 DEF GoodStep, Pcs
  <2> QED BY <1>1, <2>3, QuietStep
<1>4. CASE Deadline
  <2>1. result' = [ok |-> FALSE, committed |-> TRUE] /\ pc' = "done" /\ reply' = reply
        /\ pc = "await"
    BY <1>4 DEF Deadline, Finish, channel
  <2>2. result' \in Results /\ ~result'.ok
    BY <2>1, FailedResult
  <2>3. GoodStep
    BY <1>1, <1>2, <2>1, <2>2 DEF GoodStep, Pcs
  <2> QED BY <1>1, <2>3, QuietStep
<1> QED BY <1>3, <1>4

(* The agent is told.                                                        *)
LEMMA NotifyStep ==
    ASSUME SendInv, Notify
    PROVE  SendInv'
<1> USE DEF SendInv, Notify, Finish, transfer, channel
<1>1. att \in Ids /\ att \in landed /\ outcome[att] = "committed"
  BY AttemptInIds DEF LandedOK
<1>2. PICK ok \in BOOLEAN : result' = [ok |-> ok, committed |-> TRUE]
  OBVIOUS
<1>3. result' \in Results
  BY <1>2 DEF Results
<1>4. TypeOK'
  BY <1>1, <1>3 DEF TypeOK, OutcomeType, Pcs
<1>5. ReplyOK' /\ AttemptOK' /\ SentOK' /\ LandedOK'
  BY DEF ReplyOK, AttemptOK, SentOK, LandedOK
<1>6. NotifiedCommitted' /\ CommittedClaimTrue'
  BY <1>1 DEF NotifiedCommitted, CommittedClaimTrue
<1> QED BY <1>4, <1>5, <1>6

-----------------------------------------------------------------------------
(* The invariant is inductive.                                               *)
THEOREM SendInvariant == Spec => []SendInv
<1>1. SendInv /\ [Next]_vars => SendInv'
  <2> SUFFICES ASSUME SendInv, [Next]_vars PROVE SendInv'
    OBVIOUS
  <2>1. CASE Send
    BY <2>1, NextCandidateStep, SendInlineStep, StartStreamStep, PrepareStep, PayloadSentStep,
       PayloadStep, SettleStep, AwaitStep, NotifyStep DEF Send
  <2>2. CASE Crash
    BY <2>2, CrashStep
  <2>3. ASSUME NEW i \in Ids, ReceiveStep(i) PROVE SendInv'
    BY <2>3, ReceiverStep
  <2>4. CASE UNCHANGED vars
    BY <2>4 DEF vars, transfer, sender, channel, history, SendInv, TypeOK, OutcomeType, ReplyOK,
                AttemptOK, SentOK, LandedOK, NotifiedCommitted, CommittedClaimTrue
  <2> QED BY <2>1, <2>2, <2>3, <2>4 DEF Next
<1> QED BY <1>1, SendInit, PTL DEF Spec

(* Type correctness of the sender and of the control channel.                *)
THEOREM SendTypeCorrect == Spec => []TypeOK
<1>1. SendInv => TypeOK
  BY DEF SendInv
<1> QED BY <1>1, SendInvariant, PTL

(* The agent is told of a transfer only after its commit, whatever is lost   *)
(* and however often the receiver restarts: sendStreamFileCore.              *)
THEOREM SendNotifiedCommitted == Spec => []NotifiedCommitted
<1>1. SendInv => NotifiedCommitted
  BY DEF SendInv
<1> QED BY <1>1, SendInvariant, PTL

(* dataCommitted is never claimed of a file that is not at the receiver.     *)
THEOREM SendCommittedClaim == Spec => []CommittedClaimTrue
<1>1. SendInv => CommittedClaimTrue
  BY DEF SendInv
<1> QED BY <1>1, SendInvariant, PTL

(* One file per send, over all candidates, when the helper's error text is   *)
(* not mistaken for a refused prepare: isPreStartTransportFailure.           *)
THEOREM SendDeliveredOnce ==
    ASSUME FreeText = FALSE
    PROVE  Spec => []DeliveredOnce
<1>1. SendInv => DeliveredOnce
  BY DEF SendInv, SentOK, LandedOK, DeliveredOnce
<1> QED BY <1>1, SendInvariant, PTL

(* A file is offered only to a transport both sides have, and inside a       *)
(* message only within both inline limits, for any configured order:         *)
(* listTransportCandidates.                                                  *)
THEOREM SendCandidatesFit == Spec => []CandidatesFit
<1>1. SendInv => CandidatesFit
  BY CandidatesFitAlways DEF SendInv, TypeOK
<1> QED BY <1>1, SendInvariant, PTL
=============================================================================
