----------------------------- MODULE RelayPipe -----------------------------
(***************************************************************************)
(* What the file relay promises, without its table of ids, its timers, its *)
(* back-pressure and its limits: a pipe joins two connections that present *)
(* matching cards, carries at most the declared bytes from the one to the  *)
(* other, and hands the sender one acknowledgement, after all of them.  A  *)
(* connection enters one pipe in its life, with one card, and a pipe that  *)
(* was acknowledged or broken never changes again.  FileRelay implements   *)
(* this; a pipe is a session object of the relay.                          *)
(***************************************************************************)
EXTENDS Naturals

CONSTANTS
    Pipes,
    Sockets,
    Cards,     \* what a connection may present: id, token, role, devices, size
    None

VARIABLES
    card,      \* the card a connection entered a pipe with
    sender,    \* the two parties of a pipe
    receiver,
    phase,
    passed,    \* the bytes handed to the receiver
    acked      \* senders that were given the receiver's acknowledgement

pipes == <<sender, receiver, phase, passed>>
pipeVars == <<card, pipes, acked>>

PipeInit ==
    /\ card = [s \in Sockets |-> None]
    /\ sender = [p \in Pipes |-> None] /\ receiver = [p \in Pipes |-> None]
    /\ phase = [p \in Pipes |-> "pairing"]
    /\ passed = [p \in Pipes |-> 0]
    /\ acked = {}

(* Two cards of one transfer, from devices that name each other.             *)
Agree(a, b) ==
    /\ a.id = b.id /\ a.token = b.token
    /\ a.source = b.target /\ a.target = b.source

(* Where a pipe stands that has passed n of the declared bytes.              *)
PhaseAt(n, size) == IF n = size THEN "whole" ELSE "flowing"

(* The pipes that carry a transfer now.                                      *)
Carrying == {p \in Pipes : phase[p] \in {"flowing", "whole"}}

(* The second party opens pipe p, or it breaks.  Cards that do not agree     *)
(* open nothing, and a transfer is carried by one pipe at a time; bytes that *)
(* came with the sender's card pass at once.                                 *)
Meets(p, from, to) ==
    \/ phase' = [phase EXCEPT ![p] = "broken"] /\ UNCHANGED passed
    \/ /\ Agree(from, to)
       /\ \A q \in Carrying : card[sender[q]].id # from.id
       /\ \E n \in 0..from.size :
             /\ passed' = [passed EXCEPT ![p] = n]
             /\ phase' = [phase EXCEPT ![p] = PhaseAt(n, from.size)]

(* A connection takes the free side of a pairing pipe.                       *)
EntersAsSender(s, p, c) ==
    /\ card[s] = None /\ card' = [card EXCEPT ![s] = c]
    /\ phase[p] = "pairing" /\ c.role = "sender"
    /\ sender[p] = None /\ sender' = [sender EXCEPT ![p] = s]
    /\ IF receiver[p] = None THEN UNCHANGED <<phase, passed>> ELSE Meets(p, c, card[receiver[p]])
    /\ UNCHANGED <<receiver, acked>>

EntersAsReceiver(s, p, c) ==
    /\ card[s] = None /\ card' = [card EXCEPT ![s] = c]
    /\ phase[p] = "pairing" /\ c.role = "receiver"
    /\ receiver[p] = None /\ receiver' = [receiver EXCEPT ![p] = s]
    /\ IF sender[p] = None THEN UNCHANGED <<phase, passed>> ELSE Meets(p, card[sender[p]], c)
    /\ UNCHANGED <<sender, acked>>

(* Bytes pass, never more than are due.                                      *)
Passes(p) ==
    LET size == card[sender[p]].size
    IN /\ phase[p] = "flowing"
       /\ \E n \in (passed[p] + 1)..size :
             /\ passed' = [passed EXCEPT ![p] = n]
             /\ phase' = [phase EXCEPT ![p] = PhaseAt(n, size)]
       /\ UNCHANGED <<card, sender, receiver, acked>>

(* The receiver acknowledges the whole payload; the sender may be gone.      *)
Acknowledges(p) ==
    /\ phase[p] = "whole"
    /\ phase' = [phase EXCEPT ![p] = "acked"]
    /\ acked' \in {acked, acked \cup {sender[p]}}
    /\ UNCHANGED <<card, sender, receiver, passed>>

(* A failure, a timer or a disconnect breaks one pipe; a shutdown breaks     *)
(* all that are left.                                                        *)
Breaks(P) ==
    /\ \A p \in P : phase[p] \in {"pairing", "flowing", "whole"}
    /\ phase' = [p \in Pipes |-> IF p \in P THEN "broken" ELSE phase[p]]
    /\ UNCHANGED <<card, sender, receiver, passed, acked>>

PipeNext ==
    \/ \E s \in Sockets, p \in Pipes, c \in Cards :
          EntersAsSender(s, p, c) \/ EntersAsReceiver(s, p, c)
    \/ \E p \in Pipes : Passes(p) \/ Acknowledges(p)
    \/ \E P \in SUBSET Pipes : Breaks(P)

PipeSpec == PipeInit /\ [][PipeNext]_pipeVars
=============================================================================
