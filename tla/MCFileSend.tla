----------------------------- MODULE MCFileSend -----------------------------
(* Instances of FileSend for TLC.                                           *)
EXTENDS FileSend

Order == <<Quic, Tcp, Inline>>
Card(T, n) == [transports |-> T, maxInline |-> n]
Send0 == [forced |-> None, mode |-> "auto", size |-> 3, tcp |-> TRUE, quic |-> TRUE,
          remote |-> Card({Inline, Quic, Tcp}, 2), maxInline |-> 4, preferInline |-> 1,
          order |-> Order, excluded |-> FALSE]

(* Files below, between and above the limits, every mode, peers with and     *)
(* without a capability block, a missing helper, forced transports.          *)
AllSends ==
    {[Send0 EXCEPT !.mode = m, !.size = z, !.remote = r, !.quic = q] :
        m \in {"auto", "quic", "tcp", "base64"}, z \in {1, 2, 3}, q \in BOOLEAN,
        r \in {Card({Inline, Quic, Tcp}, 2), Card({Inline, Tcp}, 4), None}}
    \cup {[Send0 EXCEPT !.forced = t, !.quic = FALSE] : t \in {Quic, Tcp, Inline}}
    \cup {[Send0 EXCEPT !.excluded = TRUE, !.size = z] : z \in {2, 3}}

(* A file that both stream transports can carry.                             *)
BigFile == {Send0}
=============================================================================
