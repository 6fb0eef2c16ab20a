---------------------------- MODULE Instructions ----------------------------
(***************************************************************************)
(* Every instruction other than the two of a settlement, as bytes and a    *)
(* list of accounts with the privileges that are asked for them: the       *)
(* builders of the interface and of the client, which derives addresses,   *)
(* the parsers, and what the handlers need of the accounts.                *)
(***************************************************************************)
EXTENDS OrderBytes

CONSTANTS
    StatePda,       \* the state PDA
    NativeBuffer,   \* the native SOL buffer
    Buffer          \* the buffer address of each mint

SystemProgram == NativeSol

-----------------------------------------------------------------------------
(* The builders of the interface. *)

New(key, signer) == [key |-> key, signer |-> signer, writable |-> TRUE]
NewReadonly(key, signer) == [key |-> key, signer |-> signer, writable |-> FALSE]

BuildInitialize(b) ==
    [data |-> <<3>> \o b.manager \o b.solver_authority \o b.reclaim_authority
              \o b.settlement_owned_order_authority,
     accounts |-> <<New(b.payer, TRUE), New(b.state_pda, FALSE),
                    New(b.native_sol_buffer, FALSE), NewReadonly(SystemProgram, FALSE)>>]

BuildCreateOrder(b) ==
    [data |-> <<2>> \o b.intent_bytes,
     accounts |-> <<NewReadonly(b.owner, TRUE), New(b.created_by, TRUE),
                    New(b.order_pda, FALSE), NewReadonly(SystemProgram, FALSE)>>]

BuildCreateSettlementOwnedOrder(b) ==
    [data |-> <<10>> \o b.intent_bytes,
     accounts |-> <<NewReadonly(b.authority, TRUE), New(b.created_by, TRUE),
                    NewReadonly(b.state_pda, FALSE), New(b.order_pda, FALSE),
                    NewReadonly(SystemProgram, FALSE)>>]

(* Mutant of BuildCancelOrder: who pays is not asked to sign. *)
BuildCancelUnpaid(b) ==
    [data |-> <<11>> \o b.intent_bytes,
     accounts |-> <<NewReadonly(b.owner, TRUE), NewReadonly(b.created_by, FALSE),
                    New(b.order_pda, FALSE), NewReadonly(SystemProgram, FALSE)>>
                  \o [k \in 1..Len(b.state_pda) |-> NewReadonly(b.state_pda[k], FALSE)]]

(* No intent is <<>>, and so is no state PDA. *)
BuildCancelOrder(b) ==
    [data |-> <<11>> \o b.intent_bytes,
     accounts |-> <<NewReadonly(b.owner, TRUE),
                    IF b.intent_bytes = <<>> THEN NewReadonly(b.created_by, FALSE)
                                             ELSE New(b.created_by, TRUE),
                    New(b.order_pda, FALSE), NewReadonly(SystemProgram, FALSE)>>
                  \o [k \in 1..Len(b.state_pda) |-> NewReadonly(b.state_pda[k], FALSE)]]

BuildCreateBuffers(b) ==
    [data |-> <<4>>,
     accounts |-> <<New(b.payer, TRUE), NewReadonly(SystemProgram, FALSE),
                    NewReadonly(b.token_program, FALSE)>>
                  \o FlattenSeq([k \in 1..Len(b.buffers) |->
                         <<New(b.buffers[k].buffer_pda, FALSE),
                           NewReadonly(b.buffers[k].mint, FALSE)>>])]

BuildReclaimBuffer(b) ==
    [data |-> <<6>> \o FlattenSeq([k \in 1..Len(b.buffers) |->
                                      ToBytes(b.buffers[k].burn_limit, Word)]),
     accounts |-> <<NewReadonly(b.state_pda, FALSE), NewReadonly(b.reclaim_authority, TRUE),
                    New(b.reclaim_recipient, FALSE), NewReadonly(b.token_program, FALSE)>>
                  \o FlattenSeq([k \in 1..Len(b.buffers) |->
                         <<New(b.buffers[k].buffer_pda, FALSE),
                           New(b.buffers[k].mint, FALSE)>>])]

BuildReclaimOrder(b) ==
    [data |-> <<5>>,
     accounts |-> <<New(b.order_pda, FALSE), New(b.reclaim_recipient, FALSE)>>
                  \o [k \in 1..Len(b.owner) |-> NewReadonly(b.owner[k], TRUE)]]

(* A role is its discriminator, 0 to 3. *)
BuildTransferAuthority(b) ==
    [data |-> <<7, b.role>> \o b.new_authority,
     accounts |-> <<NewReadonly(b.signer, TRUE), New(b.state_pda, FALSE)>>]

BuildAddSolver(b) ==
    [data |-> <<8>> \o b.solver,
     accounts |-> <<NewReadonly(b.authority, TRUE), New(b.payer, TRUE),
                    New(b.state_pda, FALSE), NewReadonly(SystemProgram, FALSE)>>]

BuildRemoveSolver(b) ==
    [data |-> <<9>> \o b.solver,
     accounts |-> <<NewReadonly(b.authority, TRUE), New(b.rent_recipient, FALSE),
                    New(b.state_pda, FALSE)>>]

BuildWithdrawNativeSol(b) ==
    [data |-> <<12>> \o ToBytes(b.amount, Word),
     accounts |-> <<NewReadonly(b.state_pda, FALSE), NewReadonly(b.authority, TRUE),
                    New(b.native_sol_buffer, FALSE), New(b.recipient, FALSE)>>]

-----------------------------------------------------------------------------
(* The client, which derives the addresses. *)

(* The fields of both records, where they share one that of c. *)
Joined(c, d) == [f \in DOMAIN c \cup DOMAIN d |-> IF f \in DOMAIN c THEN c[f] ELSE d[f]]

WithState(c) == Joined(c, [state_pda |-> StatePda])
WithNativeBuffer(c) == Joined(WithState(c), [native_sol_buffer |-> NativeBuffer])
WithBuffers(c) ==
    Joined(c, [buffers |-> [k \in 1..Len(c.mints) |->
                   Joined(c.mints[k], [buffer_pda |-> Buffer[c.mints[k].mint]])]])
WithOrder(c) ==
    LET encoded == EncodeIntent(c.intent)
    IN  Joined(c, [order_pda |-> OrderPda(encoded), intent_bytes |-> encoded])

(* CancelOrder, CancelOutstandingOrder, CancelSettlementOwnedOrder. *)
ClientCancelOrder(c) == BuildCancelOrder(Joined(WithOrder(c), [state_pda |-> <<>>]))
ClientCancelOutstandingOrder(c) ==
    BuildCancelOrder(Joined([WithOrder(c) EXCEPT !.intent_bytes = <<>>],
                            [state_pda |-> <<>>]))
ClientCancelSettlementOwnedOrder(c) ==
    BuildCancelOrder(Joined(WithOrder(c), [owner |-> c.authority, state_pda |-> <<StatePda>>]))

ClientInitialize(c) == BuildInitialize(WithNativeBuffer(c))
ClientCreateOrder(c) == BuildCreateOrder(WithOrder(c))
ClientCreateSettlementOwnedOrder(c) ==
    BuildCreateSettlementOwnedOrder(WithState(WithOrder(c)))
ClientCreateBuffers(c) == BuildCreateBuffers(WithBuffers(c))
ClientReclaimBuffer(c) == BuildReclaimBuffer(WithState(WithBuffers(c)))
ClientTransferAuthority(c) == BuildTransferAuthority(WithState(c))
ClientAddSolver(c) == BuildAddSolver(WithState(c))
ClientRemoveSolver(c) == BuildRemoveSolver(WithState(c))
ClientWithdrawNativeSol(c) == BuildWithdrawNativeSol(WithNativeBuffer(c))

(* The instruction of a call; ReclaimOrder has no builder of its own. *)
Client(c) ==
    CASE c.name = "Initialize" -> ClientInitialize(c)
      [] c.name = "CreateOrder" -> ClientCreateOrder(c)
      [] c.name = "CreateSettlementOwnedOrder" -> ClientCreateSettlementOwnedOrder(c)
      [] c.name = "CancelOrder" -> ClientCancelOrder(c)
      [] c.name = "CancelOutstandingOrder" -> ClientCancelOutstandingOrder(c)
      [] c.name = "CancelSettlementOwnedOrder" -> ClientCancelSettlementOwnedOrder(c)
      [] c.name = "CreateBuffers" -> ClientCreateBuffers(c)
      [] c.name = "ReclaimBuffer" -> ClientReclaimBuffer(c)
      [] c.name = "ReclaimOrder" -> BuildReclaimOrder(WithOrder(c))
      [] c.name = "TransferAuthority" -> ClientTransferAuthority(c)
      [] c.name = "AddSolver" -> ClientAddSolver(c)
      [] c.name = "RemoveSolver" -> ClientRemoveSolver(c)
      [] c.name = "WithdrawNativeSol" -> ClientWithdrawNativeSol(c)

-----------------------------------------------------------------------------
(* The parsers of the interface, whatever an account is: data without the  *)
(* discriminator, and the accounts by position.                            *)

Refused == [instruction |-> "refused"]

ParseInitialize(data, accounts) ==
    IF Len(data) # 4 * KeyWidth \/ Len(accounts) < 4 THEN Refused
    ELSE [instruction |-> "Initialize",
          payer |-> accounts[1], state_pda |-> accounts[2], native_sol_buffer |-> accounts[3],
          manager |-> Chunk(data, KeyWidth, 1), solver_authority |-> Chunk(data, KeyWidth, 2),
          reclaim_authority |-> Chunk(data, KeyWidth, 3),
          settlement_owned_order_authority |-> Chunk(data, KeyWidth, 4)]

ParseCreateOrder(data, accounts) ==
    IF Len(data) # IntentSize \/ Len(accounts) < 4 THEN Refused
    ELSE [instruction |-> "CreateOrder", intent_bytes |-> data,
          owner |-> accounts[1], created_by |-> accounts[2], order_pda |-> accounts[3]]

ParseCreateSettlementOwnedOrder(data, accounts) ==
    IF Len(data) # IntentSize \/ Len(accounts) < 5 THEN Refused
    ELSE [instruction |-> "CreateSettlementOwnedOrder", intent_bytes |-> data,
          authority |-> accounts[1], created_by |-> accounts[2],
          state_pda |-> accounts[3], order_pda |-> accounts[4]]

(* Mutant of ParseCancelOrder: the system program has no place of its own. *)
ParseCancelOrderTight(data, accounts) ==
    IF Len(data) \notin {0, IntentSize} \/ Len(accounts) < 3 THEN Refused
    ELSE [instruction |-> "CancelOrder", intent_bytes |-> data,
          owner |-> accounts[1], created_by |-> accounts[2], order_pda |-> accounts[3],
          state_pda |-> SubSeq(accounts, 4, Min({4, Len(accounts)}))]

ParseCancelOrder(data, accounts) ==
    IF Len(data) \notin {0, IntentSize} \/ Len(accounts) < 4 THEN Refused
    ELSE [instruction |-> "CancelOrder", intent_bytes |-> data,
          owner |-> accounts[1], created_by |-> accounts[2], order_pda |-> accounts[3],
          state_pda |-> SubSeq(accounts, 5, Min({5, Len(accounts)}))]

(* The accounts after the first n, in pairs; there must be one. *)
InPairs(accounts, n) == Len(accounts) >= n + 2 /\ (Len(accounts) - n) % 2 = 0
PairCount(accounts, n) == (Len(accounts) - n) \div 2

ParseCreateBuffer(data, accounts) ==
    IF data # <<>> \/ ~InPairs(accounts, 3) THEN Refused
    ELSE [instruction |-> "CreateBuffer", payer |-> accounts[1],
          buffers |-> [k \in 1..PairCount(accounts, 3) |->
                          [buffer_pda |-> accounts[2 * k + 2], mint |-> accounts[2 * k + 3]]]]

(* Mutant of LimitsMatch: what follows the last whole word is ignored. *)
AnyRemainder(data, count) == Len(data) \div Word = count

LimitsMatch(data, count) == Len(data) % Word = 0 /\ Len(data) \div Word = count

ParseReclaimBuffer(data, accounts) ==
    IF ~InPairs(accounts, 4) \/ ~LimitsMatch(data, PairCount(accounts, 4)) THEN Refused
    ELSE [instruction |-> "ReclaimBuffer", state_pda |-> accounts[1],
          reclaim_authority |-> accounts[2], reclaim_recipient |-> accounts[3],
          buffers |-> [k \in 1..PairCount(accounts, 4) |->
                          [buffer_pda |-> accounts[2 * k + 3], mint |-> accounts[2 * k + 4],
                           burn_limit |-> FromBytes(Chunk(data, Word, k))]]]

ParseReclaimOrder(data, accounts) ==
    IF data # <<>> \/ Len(accounts) < 2 THEN Refused
    ELSE [instruction |-> "ReclaimOrder", order_pda |-> accounts[1],
          reclaim_recipient |-> accounts[2],
          owner |-> SubSeq(accounts, 3, Min({3, Len(accounts)}))]

ParseTransferAuthority(data, accounts) ==
    IF Len(data) # 1 + KeyWidth \/ data[1] \notin 0..3 \/ Len(accounts) < 2 THEN Refused
    ELSE [instruction |-> "TransferAuthority", signer |-> accounts[1],
          state_pda |-> accounts[2], role |-> data[1], new_authority |-> Tail(data)]

ParseAddSolver(data, accounts) ==
    IF Len(data) # KeyWidth \/ Len(accounts) < 4 THEN Refused
    ELSE [instruction |-> "AddSolver", authority |-> accounts[1], payer |-> accounts[2],
          state_pda |-> accounts[3], solver |-> data]

ParseRemoveSolver(data, accounts) ==
    IF Len(data) # KeyWidth \/ Len(accounts) < 3 THEN Refused
    ELSE [instruction |-> "RemoveSolver", authority |-> accounts[1],
          rent_recipient |-> accounts[2], state_pda |-> accounts[3], solver |-> data]

ParseWithdrawNativeSol(data, accounts) ==
    IF Len(data) # Word \/ Len(accounts) < 4 THEN Refused
    ELSE [instruction |-> "WithdrawNativeSol", state_pda |-> accounts[1],
          authority |-> accounts[2], native_sol_buffer |-> accounts[3],
          recipient |-> accounts[4], amount |-> FromBytes(data)]

(* The two of a settlement, which SettleCodec reads. *)
OfSettlement == [instruction |-> "settlement"]

(* recover_discriminator, and the dispatch of program and client. *)
ParseInstruction(bytes, accounts) ==
    LET data == Tail(bytes) IN
    IF bytes = <<>> \/ bytes[1] > 12 THEN Refused
    ELSE CASE bytes[1] \in {0, 1} -> OfSettlement
           [] bytes[1] = 2 -> ParseCreateOrder(data, accounts)
           [] bytes[1] = 3 -> ParseInitialize(data, accounts)
           [] bytes[1] = 4 -> ParseCreateBuffer(data, accounts)
           [] bytes[1] = 5 -> ParseReclaimOrder(data, accounts)
           [] bytes[1] = 6 -> ParseReclaimBuffer(data, accounts)
           [] bytes[1] = 7 -> ParseTransferAuthority(data, accounts)
           [] bytes[1] = 8 -> ParseAddSolver(data, accounts)
           [] bytes[1] = 9 -> ParseRemoveSolver(data, accounts)
           [] bytes[1] = 10 -> ParseCreateSettlementOwnedOrder(data, accounts)
           [] bytes[1] = 11 -> ParseCancelOrder(data, accounts)
           [] bytes[1] = 12 -> ParseWithdrawNativeSol(data, accounts)

-----------------------------------------------------------------------------
(* What the handlers need of the accounts they are given: those whose      *)
(* signature they check or that pay, and those that they write, on any of  *)
(* their paths.                                                            *)

Needs(signers, written) == [signers |-> signers, written |-> written]

NeedsOfInitialize(p) == Needs({p.payer}, {p.payer, p.state_pda, p.native_sol_buffer})
NeedsOfCreateOrder(p) == Needs({p.owner, p.created_by}, {p.created_by, p.order_pda})
NeedsOfCreateSettlementOwnedOrder(p) ==
    Needs({p.authority, p.created_by}, {p.created_by, p.order_pda})
NeedsOfCancelOrder(p) ==
    LET payer == IF p.intent_bytes = <<>> THEN {} ELSE {p.created_by}
    IN  Needs({p.owner} \cup payer, {p.order_pda} \cup payer)
NeedsOfCreateBuffer(p) ==
    Needs({p.payer}, {p.payer} \cup {b.buffer_pda : b \in Range(p.buffers)})
NeedsOfReclaimBuffer(p) ==
    Needs({p.reclaim_authority},
          {p.reclaim_recipient} \cup UNION {{b.buffer_pda, b.mint} : b \in Range(p.buffers)})
NeedsOfReclaimOrder(p) == Needs(Range(p.owner), {p.order_pda, p.reclaim_recipient})
NeedsOfTransferAuthority(p) == Needs({p.signer}, {p.state_pda})
NeedsOfAddSolver(p) == Needs({p.authority, p.payer}, {p.payer, p.state_pda})
NeedsOfRemoveSolver(p) == Needs({p.authority}, {p.rent_recipient, p.state_pda})
NeedsOfWithdrawNativeSol(p) == Needs({p.authority}, {p.native_sol_buffer, p.recipient})

(* process_instruction *)
NeedsOf(p) ==
    CASE p.instruction = "Initialize" -> NeedsOfInitialize(p)
      [] p.instruction = "CreateOrder" -> NeedsOfCreateOrder(p)
      [] p.instruction = "CreateSettlementOwnedOrder" -> NeedsOfCreateSettlementOwnedOrder(p)
      [] p.instruction = "CancelOrder" -> NeedsOfCancelOrder(p)
      [] p.instruction = "CreateBuffer" -> NeedsOfCreateBuffer(p)
      [] p.instruction = "ReclaimBuffer" -> NeedsOfReclaimBuffer(p)
      [] p.instruction = "ReclaimOrder" -> NeedsOfReclaimOrder(p)
      [] p.instruction = "TransferAuthority" -> NeedsOfTransferAuthority(p)
      [] p.instruction = "AddSolver" -> NeedsOfAddSolver(p)
      [] p.instruction = "RemoveSolver" -> NeedsOfRemoveSolver(p)
      [] p.instruction = "WithdrawNativeSol" -> NeedsOfWithdrawNativeSol(p)
===============================================================================
