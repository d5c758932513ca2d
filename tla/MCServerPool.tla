---------------------------- MODULE MCServerPool ----------------------------
(* Instances of ServerPool for TLC.                                        *)
EXTENDS ServerPool, TLC

(* Workers, descriptors and addresses are interchangeable: no action and   *)
(* no invariant names one.  (Not used where liveness is checked.)          *)
PoolSymmetry ==
    Permutations(Workers) \cup Permutations(FDs) \cup Permutations(IPs)
=============================================================================
