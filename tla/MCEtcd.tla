------------------------------- MODULE MCEtcd -------------------------------
(* Instances of EtcdDiscovery for TLC.                                       *)
EXTENDS EtcdDiscovery

CONSTANTS k1, k2

OneKey  == {k1}
TwoKeys == {k1, k2}
=============================================================================
