---------------------------- MODULE MCAdminAuth ----------------------------
(* AdminAuth with one client address, one e-mail address and              *)
(* interchangeable requests.                                               *)
EXTENDS AdminAuth, TLC

CONSTANTS adminKey, ipKey, emailKey

MCLimit == (adminKey :> 1) @@ (ipKey :> 2) @@ (emailKey :> 1)

Symmetry == Permutations(Calls)
=============================================================================
