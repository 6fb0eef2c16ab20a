------------------------------- MODULE Buffers -------------------------------
(***************************************************************************)
(* The life of the token buffers: CreateBuffer and ReclaimBuffer, and the  *)
(* operator's tool that looks at buffers, decides, submits (or proposes to *)
(* a multisig, which executes later) and looks again, while everybody else *)
(* deposits, spends and creates buffers.                                   *)
(*                                                                         *)
(* The reclaim authority is the operator throughout.  The buffer of the    *)
(* wrapped SOL mint, whose tokens are its lamports, is left out.           *)
(***************************************************************************)
EXTENDS Integers, Functions, FiniteSetsExt

CONSTANTS
    Mints,
    Program,        \* the token program of each mint
    Parties,        \* those who hold lamports
    Operator,       \* the reclaim authority; receives the rent
    Rent,           \* rent-exempt minimum of a token account
    InitLamports,   \* lamports of the parties at the start
    InitTokens,     \* tokens of each mint outside of the buffers at the start
    Limits,         \* burn limits that the operator gives
    MaxBatch,       \* bound: buffers named in one instruction or command
    MaxCommands     \* bound: reclaim commands

Account == [open: BOOLEAN, amount: Nat, lamports: Nat]

(* An argument of a reclaim: the buffer of mint, with its burn limit. *)
Entry == [mint: Mints, burn_limit: Limits]

Batches(S) == UNION {[1..n -> S] : n \in 1..MaxBatch}

(* What a reclaim asks for: the burn limit of each buffer that it names. *)
Batch == UNION {[named -> Limits] : named \in SUBSET Mints}

ASSUME BuffersAssumption ==
    /\ IsFiniteSet(Mints)
    /\ IsFiniteSet(Parties)
    /\ Operator \in Parties
    /\ Rent \in Nat \ {0}
    /\ InitLamports \in [Parties -> Nat]
    /\ InitTokens \in [Mints -> Nat]
    /\ Limits \subseteq Nat
    /\ MaxCommands \in Nat

VARIABLES
    buffer,         \* the account at the canonical address of each mint
    wallet,         \* lamports of the parties
    outside,        \* tokens of each mint in other accounts
    command,        \* the running reclaim command
    pending,        \* proposed or sent without an answer, and not executed
    commands,       \* number of reclaim commands so far
    \* history, read by the properties only
    granted,        \* tokens that the operator agreed to burn, by mint
    destroyed,      \* tokens that were burnt, by mint
    closed          \* buffers closed since the running command looked

tool == <<command, pending, commands, granted>>
chain == <<buffer, wallet, outside, destroyed, closed>>
vars == <<chain, tool>>

Nothing == [m \in {} |-> 0]

Idle == [stage |-> "idle", to_close |-> Nothing, non_empty |-> {}, reclaimed |-> {}]

Init ==
    /\ buffer = [m \in Mints |-> [open |-> FALSE, amount |-> 0, lamports |-> 0]]
    /\ wallet = InitLamports
    /\ outside = InitTokens
    /\ command = Idle
    /\ pending = {}
    /\ commands = 0
    /\ granted = [m \in Mints |-> 0]
    /\ destroyed = [m \in Mints |-> 0]
    /\ closed = {}

-----------------------------------------------------------------------------
(* Mutant of Shortfall: a prefunded address is thought to be funded. *)
AllOrNothing(m) == IF buffer[m].lamports = 0 THEN Rent ELSE 0

(* What CreateAccountAllowPrefund takes from the payer. *)
Shortfall(m) == IF buffer[m].lamports < Rent THEN Rent - buffer[m].lamports ELSE 0

(* Mutant of CanPay: enough for one buffer is enough for all. *)
CanPayOne(payer, cost) == wallet[payer] >= Min({cost, Rent})

CanPay(payer, cost) == wallet[payer] >= cost

(* CreateBuffer: what exists is left alone, the rest is created. *)
CreateBuffer(payer, mints) ==
    LET new == {m \in Range(mints) : ~buffer[m].open}
        cost == SumFunctionOnSet([m \in Mints |-> Shortfall(m)], new)
    IN  /\ CanPay(payer, cost)
        /\ wallet' = [wallet EXCEPT ![payer] = @ - cost]
        /\ buffer' = [m \in Mints |->
                        IF m \in new
                        THEN [open |-> TRUE, amount |-> 0,
                              lamports |-> buffer[m].lamports + Shortfall(m)]
                        ELSE buffer[m]]
        /\ UNCHANGED <<outside, destroyed, closed, tool>>

(* Mutant of WithinLimit: a limit only matters if it is zero. *)
LimitGiven(batch, m) == batch[m] > 0 \/ buffer[m].amount = 0

WithinLimit(batch, m) == buffer[m].amount <= batch[m]

Closable(batch) == {m \in DOMAIN batch : WithinLimit(batch, m)}

(* One ReclaimBuffer succeeds: every buffer it names exists, and one at    *)
(* least can be closed.  The tool names no buffer twice, so none is closed *)
(* already when its turn comes, and the order makes no difference.         *)
Reclaims(batch) ==
    /\ \A m \in DOMAIN batch : buffer[m].open
    /\ Closable(batch) # {}

(* The instructions of a batch, one for each token program. *)
InstructionFor(batch, p) == Restrict(batch, {m \in DOMAIN batch : Program[m] = p})
Instructions(batch) == {InstructionFor(batch, Program[m]) : m \in DOMAIN batch}

(* They run in one transaction: buffers above their limit are skipped, the *)
(* others are burnt empty and closed, and their lamports go to recipient.  *)
ReclaimBuffer(batch, recipient) ==
    LET gone == Closable(batch)
        refund == SumFunctionOnSet([m \in Mints |-> buffer[m].lamports], gone)
    IN  /\ \A instruction \in Instructions(batch) : Reclaims(instruction)
        /\ wallet' = [wallet EXCEPT ![recipient] = @ + refund]
        /\ destroyed' = [m \in Mints |->
                           destroyed[m] + IF m \in gone THEN buffer[m].amount ELSE 0]
        /\ buffer' = [m \in Mints |->
                        IF m \in gone THEN [open |-> FALSE, amount |-> 0, lamports |-> 0]
                        ELSE buffer[m]]
        /\ closed' = closed \cup gone
        /\ UNCHANGED outside

-----------------------------------------------------------------------------
(* The reclaim command of the operator's tool. *)

(* A buffer named twice counts where it is named first. *)
FirstOnly(args) ==
    [m \in {args[k].mint : k \in DOMAIN args} |->
        args[CHOOSE k \in DOMAIN args :
                /\ args[k].mint = m
                /\ \A j \in 1..(k - 1) : args[j].mint # m].burn_limit]

(* Tokens of mint m that a batch may burn. *)
LimitOf(batch, m) == IF m \in DOMAIN batch THEN batch[m] ELSE 0

(* It looks at all buffers at once and gives up if one does not exist. *)
StartReclaim(args) ==
    LET named == FirstOnly(args)
        to_close == Restrict(named, Closable(named))
    IN  /\ command.stage = "idle"
        /\ commands < MaxCommands
        /\ commands' = commands + 1
        /\ \A m \in DOMAIN named : buffer[m].open
        /\ command' = [stage |-> IF Closable(named) = {} THEN "reported" ELSE "looked",
                       to_close |-> to_close,
                       non_empty |-> DOMAIN named \ DOMAIN to_close,
                       reclaimed |-> {}]
        /\ granted' = [m \in Mints |-> granted[m] + LimitOf(named, m)]
        /\ closed' = {}
        /\ UNCHANGED <<buffer, wallet, outside, destroyed, pending>>

(* The transaction went through. *)
Send ==
    /\ command.stage = "looked"
    /\ ReclaimBuffer(command.to_close, Operator)
    /\ command' = [command EXCEPT !.stage = "sent"]
    /\ UNCHANGED <<pending, commands, granted>>

(* It failed, and the command with it. *)
SendFails ==
    /\ command.stage = "looked"
    /\ \E instruction \in Instructions(command.to_close) : ~Reclaims(instruction)
    /\ command' = Idle
    /\ UNCHANGED <<chain, pending, commands, granted>>

Numbered(batch) == [id |-> commands, batch |-> batch]

(* Or it was proposed to the multisig, which is all there is to report. *)
Propose ==
    /\ command.stage = "looked"
    /\ pending' = pending \cup {Numbered(command.to_close)}
    /\ command' = [command EXCEPT !.stage = "reported"]
    /\ UNCHANGED <<chain, commands, granted>>

(* No confirmation in time: the command fails, the transaction may land. *)
TimeOut ==
    /\ command.stage = "looked"
    /\ pending' = pending \cup {Numbered(command.to_close)}
    /\ command' = Idle
    /\ UNCHANGED <<chain, commands, granted>>

(* The multisig executes, or the transaction lands; once, if at all. *)
Execute(late) ==
    /\ late \in pending
    /\ ReclaimBuffer(late.batch, Operator)
    /\ pending' = pending \ {late}
    /\ UNCHANGED <<command, commands, granted>>

(* Mutant of CheckOutcome: what was sent is taken to be done. *)
TrustTheTransaction ==
    /\ command.stage = "sent"
    /\ command' = [command EXCEPT
                     !.stage = "reported",
                     !.reclaimed = DOMAIN command.to_close]
    /\ UNCHANGED <<chain, pending, commands, granted>>

(* An RPC node knows an account at the address: lamports are enough. *)
IsFound(m) == buffer[m].open \/ buffer[m].lamports > 0

(* It looks again, to tell what was closed from what was skipped. *)
CheckOutcome ==
    LET asked == DOMAIN command.to_close
    IN  /\ command.stage = "sent"
        /\ command' = [command EXCEPT
                         !.stage = "reported",
                         !.reclaimed = {m \in asked : ~IsFound(m)},
                         !.non_empty = @ \cup {m \in asked : IsFound(m)}]
        /\ UNCHANGED <<chain, pending, commands, granted>>

(* The report is out, or could not be made as the second look failed. *)
Finish ==
    /\ command.stage \in {"sent", "reported"}
    /\ command' = Idle
    /\ UNCHANGED <<chain, pending, commands, granted>>

-----------------------------------------------------------------------------
(* Tokens reach a buffer: a settlement pulls into it, or anybody sends. *)
Deposit(m, n) ==
    /\ buffer[m].open
    /\ outside[m] >= n
    /\ outside' = [outside EXCEPT ![m] = @ - n]
    /\ buffer' = [buffer EXCEPT ![m].amount = @ + n]
    /\ UNCHANGED <<wallet, destroyed, closed, tool>>

(* A settlement pushes tokens out of a buffer. *)
Spend(m, n) ==
    /\ buffer[m].open
    /\ buffer[m].amount >= n
    /\ outside' = [outside EXCEPT ![m] = @ + n]
    /\ buffer' = [buffer EXCEPT ![m].amount = @ - n]
    /\ UNCHANGED <<wallet, destroyed, closed, tool>>

(* Anybody sends lamports to the address of a buffer, open or not. *)
Donate(p, m) ==
    /\ wallet[p] >= 1
    /\ wallet' = [wallet EXCEPT ![p] = @ - 1]
    /\ buffer' = [buffer EXCEPT ![m].lamports = @ + 1]
    /\ UNCHANGED <<outside, destroyed, closed, tool>>

Next ==
    \/ \E p \in Parties, mints \in Batches(Mints) : CreateBuffer(p, mints)
    \/ \E args \in Batches(Entry) : StartReclaim(args)
    \/ Send
    \/ SendFails
    \/ Propose
    \/ TimeOut
    \/ \E late \in pending : Execute(late)
    \/ CheckOutcome
    \/ Finish
    \/ \E m \in Mints : Deposit(m, 1)
    \/ \E m \in Mints : Spend(m, 1)
    \/ \E p \in Parties, m \in Mints : Donate(p, m)

Spec == Init /\ [][Next]_vars
-----------------------------------------------------------------------------
(* The variables keep their types. *)
TypeOK ==
    /\ buffer \in [Mints -> Account]
    /\ wallet \in [Parties -> Nat]
    /\ outside \in [Mints -> Nat]
    /\ granted \in [Mints -> Nat]
    /\ destroyed \in [Mints -> Nat]
    /\ closed \subseteq Mints
    /\ commands \in 0..MaxCommands
    /\ pending \subseteq [id: 0..MaxCommands, batch: Batch]
    /\ command \in [stage: {"idle", "looked", "sent", "reported"}, to_close: Batch,
                    non_empty: SUBSET Mints, reclaimed: SUBSET Mints]

(* However late a transaction or a proposal runs, and whatever reached the *)
(* buffers since the operator looked, no more tokens are burnt than the    *)
(* operator's limits add up to.                                            *)
BurnsAreGranted == \A m \in Mints : destroyed[m] <= granted[m]

(* Every buffer is rent exempt, however its address was prefunded and      *)
(* however often it was closed and created, and lamports only change hands.*)
BuffersAreFunded ==
    /\ \A m \in Mints : buffer[m].open => buffer[m].lamports >= Rent
    /\ SumFunctionOnSet(wallet, Parties)
       + SumFunctionOnSet([m \in Mints |-> buffer[m].lamports], Mints)
         = SumFunctionOnSet(InitLamports, Parties)

(* A buffer that the command reports as reclaimed was closed after the     *)
(* command looked first, although the program skips buffers silently, and  *)
(* it is not also reported as left open.                                   *)
ReportIsTrue ==
    command.stage = "reported" =>
        /\ command.reclaimed \subseteq closed
        /\ command.reclaimed \cap command.non_empty = {}
===============================================================================
