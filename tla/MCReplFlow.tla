----------------------------- MODULE MCReplFlow -----------------------------
(* ReplFlow on small instances.                                            *)
EXTENDS ReplFlow, TLC

FlowSymmetry == Permutations(Refs) \cup Permutations(Conns)

=============================================================================
