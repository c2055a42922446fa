------------------------- MODULE MCInterestManager -------------------------
(* InterestManager on a small instance: three connections, so that a uid   *)
(* can go from one watcher to two to three and back, two uids and two      *)
(* separations.  The state space is finite without any bound.              *)
EXTENDS InterestManager, TLC

Symmetry == Permutations(Client) \cup Permutations(Uid)
============================================================================
