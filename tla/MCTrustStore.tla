---------------------------- MODULE MCTrustStore ----------------------------
(* The TLC instance of TrustStore: two peers that differ in nothing. *)
EXTENDS TrustStore, TLC

MCSymmetry == Permutations(Peer)
=============================================================================
