-------------------------- MODULE TransferOutcome --------------------------
(***************************************************************************)
(* What the receiving gateway promises about one transfer id, whatever the *)
(* transport: a receive is admitted once, its file lands at most once and  *)
(* only while the receive runs, and the outcome, once decided, is right    *)
(* and final.  FileReceive implements this for tcp-v1; FileSend is built   *)
(* on it.                                                                  *)
(***************************************************************************)
EXTENDS Naturals

CONSTANT Ids

VARIABLES
    live,     \* ids in activeFileReceives
    landed,   \* ids whose complete file is under a final name
    outcome   \* what the record of the id says: "open" stands for none or undecided

transfer == <<live, landed, outcome>>

Outcomes == {"open", "committed", "failed"}

OutcomeType ==
    /\ live \subseteq Ids
    /\ landed \subseteq Ids
    /\ outcome \in [Ids -> Outcomes]

OutcomeInit ==
    /\ live = {}
    /\ landed = {}
    /\ outcome = [i \in Ids |-> "open"]

(* prepare admits the receive.                                               *)
Admit(i) ==
    /\ i \notin live
    /\ outcome[i] = "open"
    /\ live' = live \cup {i}
    /\ UNCHANGED <<landed, outcome>>

(* The final name is claimed.                                                *)
Lands(i) ==
    /\ i \in live
    /\ i \notin landed
    /\ outcome[i] = "open"
    /\ landed' = landed \cup {i}
    /\ UNCHANGED <<live, outcome>>

(* DATA_COMMITTED is on disk, by the receive or by a recovery.               *)
Commits(i) ==
    /\ outcome[i] = "open"
    /\ i \in landed
    /\ outcome' = [outcome EXCEPT ![i] = "committed"]
    /\ UNCHANGED <<live, landed>>

(* FAILED_CONFIRMED or CANCELED is on disk.                                  *)
Fails(i) ==
    /\ outcome[i] = "open"
    /\ i \notin landed
    /\ outcome' = [outcome EXCEPT ![i] = "failed"]
    /\ UNCHANGED <<live, landed>>

(* A receive settles, or a crash ends them all.                              *)
Ends(S) ==
    /\ live' = live \ S
    /\ UNCHANGED <<landed, outcome>>

(* The user removes the file.                                                *)
Removed(i) ==
    /\ landed' = landed \ {i}
    /\ UNCHANGED <<live, outcome>>

OutcomeNext ==
    \/ \E i \in Ids : Admit(i) \/ Lands(i) \/ Commits(i) \/ Fails(i) \/ Removed(i)
    \/ \E S \in SUBSET Ids : Ends(S)

OutcomeSpec == OutcomeInit /\ [][OutcomeNext]_transfer
=============================================================================
