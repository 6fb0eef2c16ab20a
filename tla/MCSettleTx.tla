------------------------------ MODULE MCSettleTx ------------------------------
(* Every transaction of up to MaxLen instructions, for TLC. *)
EXTENDS SettleTx

(* Both halves of a settlement with every counterpart index, and truncated; *)
(* another instruction of this program and one it does not know; another    *)
(* program's, whose data may look like a FinalizeSettle.                    *)
AllInstructions ==
    [program: {"settlement"}, discriminator: {"BeginSettle", "FinalizeSettle"},
     counterpart: Index \cup {NoIndex}]
    \cup [program: {"settlement"}, discriminator: {"Other", "Unknown"}, counterpart: {NoIndex}]
    \cup [program: {"foreign"}, discriminator: {"FinalizeSettle"}, counterpart: {NoIndex, 0}]
===============================================================================
