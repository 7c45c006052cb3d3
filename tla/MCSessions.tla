------------------------------ MODULE MCSessions ------------------------------
(* Symmetry for the sessions, and the bugs that its properties would catch. *)
EXTENDS Sessions, TLC

Symmetry == Permutations(Ids) \cup Permutations(Requests)
              \cup Permutations(Hosts) \cup Permutations(Logins)
=============================================================================
