------------------------------ MODULE MCPoller ------------------------------
(***************************************************************************)
(* Instances of Poller for TLC: two jobs, on one AP or on two, in a        *)
(* cluster each or sharing one.                                            *)
(***************************************************************************)
EXTENDS Poller

CONSTANTS j1, j2, c1, c2, ospool, igwn

MCJobs == {j1, j2}
OneJob == {j1}
TwoClusters == [j \in Jobs |-> IF j = j1 THEN c1 ELSE c2]
OneCluster == [j \in Jobs |-> c1]
OneAp == [j \in Jobs |-> ospool]
TwoAps == [j \in Jobs |-> IF j = j1 THEN igwn ELSE ospool]
ApEach == [j \in Jobs |-> IF j = j1 THEN ospool ELSE igwn]
=============================================================================
