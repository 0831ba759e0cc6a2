------------------------------ MODULE MCCluster -------------------------------
(* Cluster on a small instance: two nodes, configured in every way.          *)
EXTENDS Cluster

CONSTANTS n1, n2, t1, noURL

TwoNodes == {n1, n2}

OneToken == {t1}

=============================================================================
