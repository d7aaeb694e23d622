---------------------------- MODULE MCAuthSession ----------------------------
(* Instances of AuthSession for the model checker; requests are alike. *)
EXTENDS AuthSession, TLC
CONSTANTS r1, r2
Alike == Permutations(Requests)
=============================================================================
