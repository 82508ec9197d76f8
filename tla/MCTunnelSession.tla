-------------------------- MODULE MCTunnelSession --------------------------
(* Instances of TunnelSession for TLC.                                      *)
EXTENDS TunnelSession

Conf(x, r, n) == [extras |-> x, refuses |-> r, max |-> n]

(* Plain and enriched registration, accepted and refused, unlimited and      *)
(* limited reconnects.                                                       *)
AllConfs == {Conf(FALSE, FALSE, 0), Conf(TRUE, FALSE, 0), Conf(TRUE, TRUE, 0),
             Conf(FALSE, FALSE, 2), Conf(TRUE, TRUE, 2)}

(* The configuration of index.ts with a relay that accepts it.               *)
Enriched == {Conf(TRUE, FALSE, 0)}
=============================================================================
