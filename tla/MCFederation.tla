---------------------------- MODULE MCFederation ----------------------------
(* Instances of Federation for TLC: registrations that name any id with    *)
(* any key, or each key with its own id only.                              *)
EXTENDS Federation, TLC

CONSTANTS i1, i2, k1, k2

MCAnyNames == Ids \X Keys
MCOwnNames == {<<i1, k1>>, <<i2, k2>>}

\* Requests are alike, and the run with this set checks safety only.
MCSymmetry == Permutations(Requests)
=============================================================================
