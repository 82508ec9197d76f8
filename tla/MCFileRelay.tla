---------------------------- MODULE MCFileRelay ----------------------------
(* Small instances of FileRelay for TLC.                                    *)
EXTENDS FileRelay, TLC

Hdr(id, token, role, from, to, size) ==
    [valid |-> TRUE, id |-> id, token |-> token, role |-> role,
     source |-> from, target |-> to, metaOk |-> TRUE, size |-> size]

BadMeta(h) == [h EXCEPT !.metaOk = FALSE]
Malformed(h) == [h EXCEPT !.valid = FALSE]

Snd(id, size) == Hdr(id, "t", "sender", "d1", "d2", size)
Rcv(id) == Hdr(id, "t", "receiver", "d2", "d1", 0)

(* A matched pair of two bytes, an empty file, a wrong ticket, a wrong       *)
(* device, bad metadata, a malformed line.                                   *)
MCHeaders ==
    {Snd("x", 2), Rcv("x"), Snd("y", 0), Rcv("y"),
     Hdr("x", "u", "sender", "d1", "d2", 1), Hdr("x", "t", "receiver", "d3", "d1", 0),
     BadMeta(Snd("x", 1)), Malformed(Rcv("y"))}

(* Two transfers of one byte that compete for the byte budget, and a sender  *)
(* whose metadata is refused.                                                *)
LiveHeaders == {Snd("x", 1), Rcv("x"), Snd("y", 1), BadMeta(Snd("y", 1))}

Symmetry == Permutations(Sockets)
=============================================================================
