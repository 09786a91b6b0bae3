------------------------------ MODULE MCLinkList ------------------------------
(* An instance of LinkList for TLC: nodes are interchangeable.              *)
EXTENDS LinkList

NodesSymmetry == Permutations(Nodes)
=============================================================================
