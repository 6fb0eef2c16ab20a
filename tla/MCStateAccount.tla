---------------------------- MODULE MCStateAccount ----------------------------
(* A small instance of StateAccount for TLC. *)
EXTENDS StateAccount

(* Three parties share the roles, one of them not trusted, and the list is *)
(* filled in any order, from both sides of that one.                       *)
FiveSolvers == 1..5
ThreeParties == 1..3
FourTrusted == {1, 3, 4, 5}
SolverRoles == {"Manager", "SolverAuthority"}
===============================================================================
