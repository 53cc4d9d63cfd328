----------------------- MODULE MCAdminAuthentication -----------------------
(* Requests, sessions and passwords are interchangeable: no definition tells   *)
(* two of them apart except by what they did.                                  *)
EXTENDS AdminAuthentication, TLC

Symmetry == Permutations(Request) \cup Permutations(Session) \cup Permutations(Password)
=============================================================================
