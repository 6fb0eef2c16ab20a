------------------------------- MODULE SettleTx -------------------------------
(***************************************************************************)
(* One transaction, and how BeginSettle and FinalizeSettle find each other *)
(* in it.  Both read the whole transaction through the instructions        *)
(* sysvar; nothing is stored on chain between them, so what one of them    *)
(* leaves to the other rests on these checks alone.                        *)
(*                                                                         *)
(* The transaction is any sequence of instructions, of this program and of *)
(* others, that runs in order and takes effect as a whole or not at all.   *)
(* An instruction is known by its program, by what its first byte says and *)
(* by the counterpart index in the next two.  Indices start at 0.          *)
(***************************************************************************)
EXTENDS Integers

CONSTANTS
    MaxLen,         \* bound: instructions in the transaction
    Instructions    \* the instructions it is made of

Index == 0..MaxLen          \* counterpart indices; MaxLen is never one of the transaction
NoIndex == -1               \* data too short for a counterpart index

Instruction ==
    [program: {"settlement", "foreign"},
     discriminator: {"BeginSettle", "FinalizeSettle", "Other", "Unknown"},
     counterpart: Index \cup {NoIndex}]

ASSUME SettleTxAssumption ==
    /\ MaxLen \in Nat \ {0}
    /\ Instructions \subseteq Instruction

VARIABLES
    len,            \* the number of instructions
    tx,             \* the instructions, as the sysvar shows them
    pc,             \* index of the instruction that runs next
    status,         \* "running", "committed" or "reverted"
    begun,          \* the BeginSettle instructions that succeeded ...
    finalized       \* ... and the FinalizeSettle ones

vars == <<len, tx, pc, status, begun, finalized>>

Init ==
    /\ len \in 1..MaxLen
    /\ tx \in [0..(len - 1) -> Instructions]
    /\ pc = 0
    /\ status = "running"
    /\ begun = {}
    /\ finalized = {}

-----------------------------------------------------------------------------
(* The instruction at k runs the handler called name. *)
Runs(k, name) == tx[k].program = "settlement" /\ tx[k].discriminator = name

(* Mutant of ValidateCounterpart: it may belong to another program. *)
CounterpartOfAnyProgram(current_index, counterpart_index, expected) ==
    /\ counterpart_index \in 0..(len - 1)
    /\ tx[counterpart_index].discriminator = expected
    /\ tx[counterpart_index].counterpart = current_index

(* The instruction at counterpart_index exists, belongs to this program,   *)
(* carries the expected discriminator and points back.                     *)
ValidateCounterpart(current_index, counterpart_index, expected) ==
    /\ counterpart_index \in 0..(len - 1)
    /\ tx[counterpart_index].program = "settlement"
    /\ tx[counterpart_index].discriminator # "Unknown"
    /\ tx[counterpart_index].counterpart # NoIndex
    /\ tx[counterpart_index].discriminator = expected
    /\ tx[counterpart_index].counterpart = current_index

(* Mutants of ValidateNoNestedSettlement: the two halves of the check. *)
OnlyOrdered(current_index, finalize_ix_index) == finalize_ix_index > current_index
OnlyNotNested(current_index, finalize_ix_index) ==
    \A k \in (current_index + 1)..(finalize_ix_index - 1) :
        ~Runs(k, "BeginSettle") /\ ~Runs(k, "FinalizeSettle")

ValidateNoNestedSettlement(current_index, finalize_ix_index) ==
    /\ finalize_ix_index > current_index
    /\ \A k \in (current_index + 1)..(finalize_ix_index - 1) :
         tx[k].program = "settlement" =>
             tx[k].discriminator \notin {"BeginSettle", "FinalizeSettle"}

(* The instruction at pc has succeeded. *)
Advance ==
    /\ status = "running"
    /\ pc < len
    /\ pc' = pc + 1
    /\ UNCHANGED <<len, tx, status>>

BeginSettle ==
    /\ Advance
    /\ Runs(pc, "BeginSettle")
    /\ tx[pc].counterpart # NoIndex
    /\ ValidateCounterpart(pc, tx[pc].counterpart, "FinalizeSettle")
    /\ ValidateNoNestedSettlement(pc, tx[pc].counterpart)
    /\ begun' = begun \cup {pc}
    /\ UNCHANGED finalized

FinalizeSettle ==
    /\ Advance
    /\ Runs(pc, "FinalizeSettle")
    /\ tx[pc].counterpart # NoIndex
    /\ ValidateCounterpart(pc, tx[pc].counterpart, "BeginSettle")
    /\ finalized' = finalized \cup {pc}
    /\ UNCHANGED begun

(* Another program's instruction, or another one of this program.  *)
OtherInstruction ==
    /\ Advance
    /\ tx[pc].program = "foreign" \/ Runs(pc, "Other")
    /\ UNCHANGED <<begun, finalized>>

(* An instruction fails: because of the checks above, an unknown           *)
(* discriminator, an order or a transfer that is refused, or a             *)
(* cross-program call of BeginSettle or FinalizeSettle (is_cpi_call).      *)
Revert ==
    /\ status = "running"
    /\ pc < len
    /\ status' = "reverted"
    /\ UNCHANGED <<len, tx, pc, begun, finalized>>

Commit ==
    /\ status = "running"
    /\ pc = len
    /\ status' = "committed"
    /\ UNCHANGED <<len, tx, pc, begun, finalized>>

Next ==
    \/ BeginSettle
    \/ FinalizeSettle
    \/ OtherInstruction
    \/ Revert
    \/ Commit

Spec == Init /\ [][Next]_vars

-----------------------------------------------------------------------------
(* The variables keep their types. *)
TypeOK ==
    /\ len \in 1..MaxLen
    /\ tx \in [0..(len - 1) -> Instructions]
    /\ pc \in 0..len
    /\ status \in {"running", "committed", "reverted"}
    /\ begun \subseteq 0..(pc - 1)
    /\ finalized \subseteq 0..(pc - 1)

(* FinalizeSettle itself checks no push and no order.  Still, in a         *)
(* transaction that takes effect, every FinalizeSettle runs after a        *)
(* BeginSettle that succeeded, and that one validated the pushes of this   *)
(* very FinalizeSettle.                                                    *)
PushesWereValidated ==
    status = "committed" =>
        \A f \in finalized :
            /\ tx[f].counterpart \in begun
            /\ tx[f].counterpart < f
            /\ tx[tx[f].counterpart].counterpart = f

(* Settlements of one transaction follow each other: while one has pulled  *)
(* and not pushed yet, no other begins.                                    *)
OneOpenSettlement ==
    \A b1, b2 \in begun :
        tx[b1].counterpart \notin finalized /\ tx[b2].counterpart \notin finalized
            => b1 = b2

(* No pull without its push: in a transaction that takes effect, every     *)
(* BeginSettle that pulled is followed by the FinalizeSettle whose pushes  *)
(* it validated, and no two of them by the same one.                       *)
PullsArePaid ==
    status = "committed" =>
        /\ \A b \in begun : tx[b].counterpart \in finalized
        /\ \A b1, b2 \in begun : tx[b1].counterpart = tx[b2].counterpart => b1 = b2
===============================================================================
