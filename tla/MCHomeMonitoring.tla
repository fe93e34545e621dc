-------------------------- MODULE MCHomeMonitoring --------------------------
(* Instances of HomeMonitoring for TLC. *)
EXTENDS HomeMonitoring

Password1 == <<"1">>
ConnSymmetry == Permutations(Conns)

=============================================================================
