--------------------------- MODULE MCFileReceive ---------------------------
(* Instances of FileReceive for TLC.                                        *)
EXTENDS FileReceive

Offer(i, d, n) == [id |-> i, data |-> d, size |-> n]

(* Two transfers of different files under one name.                         *)
TwoFiles == [q1 |-> Offer("t1", "A", 1), q2 |-> Offer("t2", "B", 1)]

Once == [q1 |-> Offer("t1", "A", 1)]

(* The same offer sent twice: a prepare call that is repeated.               *)
Repeated == [q1 |-> Offer("t1", "A", 1), q2 |-> Offer("t1", "A", 1)]

(* Three transfers of one and two bytes compete for the admission limits.   *)
Crowd == [q1 |-> Offer("t1", "A", 1), q2 |-> Offer("t2", "B", 2), q3 |-> Offer("t3", "A", 1)]
=============================================================================
