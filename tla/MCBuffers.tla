------------------------------ MODULE MCBuffers ------------------------------
(* A small instance of Buffers for TLC. *)
EXTENDS Buffers, TLC

CONSTANTS X, Y, Z, operator, other, spl, t22

(* Two mints of one token program and one of the other. *)
ProgramOf == (X :> spl) @@ (Y :> spl) @@ (Z :> t22)
LamportsAtStart == (operator :> 3) @@ (other :> 1)
TokensAtStart == (X :> 2) @@ (Y :> 0) @@ (Z :> 0)
==============================================================================
