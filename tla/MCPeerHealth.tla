---------------------------- MODULE MCPeerHealth ----------------------------
(* Instances of PeerHealth for TLC.                                         *)
EXTENDS PeerHealth

(* With and without soft threshold, gradual recovery and health checks.      *)
AllConfs == [hard : {1, 3}, soft : {2, None}, gradual : BOOLEAN, checks : BOOLEAN, retries : {1}]
=============================================================================
