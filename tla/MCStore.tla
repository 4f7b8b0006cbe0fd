------------------------------ MODULE MCStore ------------------------------
(* Instances of Store for TLC.                                             *)
EXTENDS Store
CONSTANTS c1, c2, x, y
MCClients == {c1, c2}
MCTrees == {<<x, y, x>>, <<y>>}
=============================================================================
