--------------------------- MODULE InstructionCodec ---------------------------
(***************************************************************************)
(* How the instructions of Instructions travel: a client call becomes      *)
(* bytes and accounts, the program tells the instructions apart by their   *)
(* first byte and reads the rest by position, and what it stores of an     *)
(* order is decoded by clients again.                                      *)
(*                                                                         *)
(* Between building and executing, orders are created, settled, cancelled  *)
(* and closed, and a caller that is not the client sends something similar.*)
(***************************************************************************)
EXTENDS Instructions

CONSTANTS
    Calls,          \* a sequence of client calls, see Client
    OrderAuthority, \* holder of the SettlementOwnedOrderAuthority role
    CanonicalBump,  \* bump of the order addresses
    Stray,          \* accounts that are inserted
    Totals,         \* totals that settlements record, <<withdrawn, received>>
    MaxEdits        \* bound: changes to an instruction

Amount == 0..(Power(Word) - 1)

(* Whatever a client can be asked for.  The system program is no mint. *)
Assets ==
    [tag: {"Native"}, account: Key]
    \cup [tag: {"TokenProgram"}, mint: Key \ {NativeSol}, account: Key]
Intents ==
    [owner: Key, sell: [mint: Key, token_account: Key], buy: Assets,
     sell_amount: Amount, buy_amount: Amount, valid_to: 0..(Power(TimeWidth) - 1),
     flags: [kind: {"Sell", "Buy"}, partially_fillable: BOOLEAN], app_data: Key]
IsCall(c) ==
    \/ /\ c.name = "Initialize"
       /\ c \in [name: {c.name}, payer: Key, manager: Key, solver_authority: Key,
                 reclaim_authority: Key, settlement_owned_order_authority: Key]
    \/ /\ c.name \in {"CreateOrder", "CancelOrder", "CancelOutstandingOrder"}
       /\ c \in [name: {c.name}, owner: Key, created_by: Key, intent: Intents]
    \/ /\ c.name \in {"CreateSettlementOwnedOrder", "CancelSettlementOwnedOrder"}
       /\ c \in [name: {c.name}, authority: Key, created_by: Key, intent: Intents]
    \/ /\ c.name = "ReclaimOrder"
       /\ c \in [name: {c.name}, reclaim_recipient: Key,
                 owner: {o \in Seq(Key) : Len(o) <= 1}, intent: Intents]
    \/ /\ c.name = "CreateBuffers"
       /\ c \in [name: {c.name}, payer: Key, token_program: Key,
                 mints: Seq([mint: DOMAIN Buffer])]
    \/ /\ c.name = "ReclaimBuffer"
       /\ c \in [name: {c.name}, reclaim_authority: Key, reclaim_recipient: Key,
                 token_program: Key, mints: Seq([mint: DOMAIN Buffer, burn_limit: Amount])]
    \/ /\ c.name = "TransferAuthority"
       /\ c \in [name: {c.name}, signer: Key, role: 0..3, new_authority: Key]
    \/ /\ c.name = "AddSolver"
       /\ c \in [name: {c.name}, authority: Key, payer: Key, solver: Key]
    \/ /\ c.name = "RemoveSolver"
       /\ c \in [name: {c.name}, authority: Key, rent_recipient: Key, solver: Key]
    \/ /\ c.name = "WithdrawNativeSol"
       /\ c \in [name: {c.name}, authority: Key, recipient: Key, amount: Amount]

ASSUME WireAssumption ==
    /\ {StatePda, NativeBuffer, OrderAuthority} \cup Stray \subseteq Key
    /\ \A m \in DOMAIN Buffer : m \in Key /\ Buffer[m] \in Key
    /\ \A k \in DOMAIN Calls : IsCall(Calls[k])
    /\ CanonicalBump \in 0..(Byte - 1)
    /\ Totals \subseteq Amount \X Amount

VARIABLES
    call,           \* the client call in flight, or NoCall
    ix,             \* its instruction
    edits,          \* changes made to it
    orders,         \* the body of every order account, by address
    meant           \* history: what each of them is to hold

wire == <<call, ix, edits, orders, meant>>

NoCall == [name |-> "none"]
NoInstruction == [data |-> <<>>, accounts |-> <<>>]

WireInit ==
    /\ call = NoCall
    /\ ix = NoInstruction
    /\ edits = 0
    /\ orders = <<>>
    /\ meant = <<>>

Build(c) ==
    /\ call = NoCall
    /\ call' = c
    /\ ix' = Client(c)
    /\ UNCHANGED <<edits, orders, meant>>

(* What removing, inserting or changing one element makes of a sequence. *)
Edited(s, values) ==
    {RemoveAt(s, i) : i \in 1..Len(s)}
    \cup {InsertAt(s, i, v) : i \in 1..(Len(s) + 1), v \in values}
    \cup {ReplaceAt(s, i, v) : i \in 1..Len(s), v \in values}

EditData ==
    /\ call # NoCall
    /\ edits < MaxEdits
    /\ \E d \in Edited(ix.data, 0..(Byte - 1)) : ix' = [ix EXCEPT !.data = d]
    /\ edits' = edits + 1
    /\ UNCHANGED <<call, orders, meant>>

EditAccounts ==
    /\ call # NoCall
    /\ edits < MaxEdits
    /\ \E a \in Edited(ix.accounts, {New(s, FALSE) : s \in Stray}) :
           ix' = [ix EXCEPT !.accounts = a]
    /\ edits' = edits + 1
    /\ UNCHANGED <<call, orders, meant>>

(* The instruction is not sent, refused, or not about orders. *)
Done == call' = NoCall /\ ix' = NoInstruction /\ edits' = 0

Drop ==
    /\ call # NoCall
    /\ Done
    /\ UNCHANGED <<orders, meant>>

-----------------------------------------------------------------------------
(* The handlers of order accounts. *)

Parsed == ParseInstruction(ix.data, ix.accounts)

(* The order that the caller had in mind. *)
CallsOrder == OrderPda(EncodeIntent(call.intent))

(* The accounts f with one more, and with one less. *)
Including(f, x, v) == [y \in DOMAIN f \cup {x} |-> IF y = x THEN v ELSE f[y]]
Without(f, x) == Restrict(f, DOMAIN f \ {x})

(* process_new_onchain_order; an account is created by the system program, *)
(* which must be among the accounts.                                       *)
ProcessNewOnchainOrder(p, expected_owner, cancelled) ==
    /\ CheckBytes(p.intent_bytes)
    /\ expected_owner = ExtractOwner(p.intent_bytes)
    /\ p.order_pda.key = OrderPda(p.intent_bytes)
    /\ p.order_pda.key \notin DOMAIN orders
    /\ p.created_by.signer /\ p.created_by.writable /\ p.order_pda.writable
    /\ \E k \in DOMAIN ix.accounts : ix.accounts[k].key = SystemProgram
    /\ orders' = Including(orders, p.order_pda.key,
                           InitializeOrder(CanonicalBump, cancelled, 0, 0,
                                           p.created_by.key, p.intent_bytes))
    /\ meant' = Including(meant, CallsOrder,
                          [bump |-> CanonicalBump, cancelled |-> cancelled,
                           amount_withdrawn |-> 0, amount_received |-> 0,
                           created_by |-> call.created_by, intent |-> call.intent])

ProcessCreateOrder ==
    LET p == Parsed IN
    /\ p.instruction = "CreateOrder"
    /\ p.owner.signer
    /\ ProcessNewOnchainOrder(p, p.owner.key, FALSE)
    /\ Done

ProcessCreateSettlementOwnedOrder ==
    LET p == Parsed IN
    /\ p.instruction = "CreateSettlementOwnedOrder"
    /\ p.state_pda.key = StatePda
    /\ p.authority.signer /\ p.authority.key = OrderAuthority
    /\ ProcessNewOnchainOrder(p, p.state_pda.key, FALSE)
    /\ Done

CheckSettlementOwnedOrderAuthority(p) ==
    /\ p.state_pda # <<>>
    /\ p.state_pda[1].key = StatePda
    /\ p.owner.key = OrderAuthority

(* The order exists: its own bytes count, and those sent do not. *)
ProcessCancelOrder ==
    LET p == Parsed IN
    /\ p.instruction = "CancelOrder"
    /\ p.owner.signer
    /\ p.order_pda.key \in DOMAIN orders
    /\ LET body == orders[p.order_pda.key]
           owner == ExtractOwner(IntentBytes(body))
       IN  /\ LoadsFromPda(body, p.order_pda.key)
           /\ CheckBytes(IntentBytes(body))
           /\ IF owner = StatePda THEN CheckSettlementOwnedOrderAuthority(p)
                                  ELSE p.owner.key = owner
           /\ p.order_pda.writable
           /\ orders' = [orders EXCEPT ![p.order_pda.key] = SetCancelled(@)]
    /\ meant' = [meant EXCEPT ![CallsOrder].cancelled = TRUE]
    /\ Done

(* It does not, and is created cancelled. *)
ProcessCancelNewOrder ==
    LET p == Parsed IN
    /\ p.instruction = "CancelOrder"
    /\ p.owner.signer
    /\ p.order_pda.key \notin DOMAIN orders
    /\ p.intent_bytes # <<>>
    /\ IF ExtractOwner(p.intent_bytes) = StatePda
       THEN CheckSettlementOwnedOrderAuthority(p) /\ ProcessNewOnchainOrder(p, StatePda, TRUE)
       ELSE ProcessNewOnchainOrder(p, p.owner.key, TRUE)
    /\ Done

(* fill_progress *)
FullyFilled(body) ==
    LET intent == DecodeIntent(IntentBytes(body)) IN
    IF intent.flags.kind = "Sell" THEN AmountWithdrawn(body) >= intent.sell_amount
                                  ELSE AmountReceived(body) >= intent.buy_amount

(* The clock is past valid_to, or not. *)
ProcessReclaimOrder(expired) ==
    LET p == Parsed IN
    /\ p.instruction = "ReclaimOrder"
    /\ p.order_pda.key \in DOMAIN orders
    /\ LET body == orders[p.order_pda.key] IN
       /\ LoadsFromPda(body, p.order_pda.key)
       /\ p.reclaim_recipient.key = CreatedBy(body)
       /\ CheckBytes(IntentBytes(body))
       /\ \/ FullyFilled(body)
          \/ expired
          \/ /\ Cancelled(body)
             /\ p.owner # <<>>
             /\ p.owner[1].signer
             /\ p.owner[1].key = ExtractOwner(IntentBytes(body))
    /\ p.order_pda.writable /\ p.reclaim_recipient.writable
    /\ orders' = Without(orders, p.order_pda.key)
    /\ meant' = Without(meant, CallsOrder)
    /\ Done

(* A settlement records the new totals of an order that is not cancelled;  *)
(* which totals those may be is up to Orders.                              *)
Settle(address, withdrawn, received) ==
    /\ address \in DOMAIN orders
    /\ ~Cancelled(orders[address])
    /\ orders' = [orders EXCEPT ![address] = SetAmounts(@, withdrawn, received)]
    /\ meant' = [meant EXCEPT ![address].amount_withdrawn = withdrawn,
                              ![address].amount_received = received]
    /\ UNCHANGED <<call, ix, edits>>

WireNext ==
    \/ \E k \in DOMAIN Calls : Build(Calls[k])
    \/ EditData
    \/ EditAccounts
    \/ Drop
    \/ ProcessCreateOrder
    \/ ProcessCreateSettlementOwnedOrder
    \/ ProcessCancelOrder
    \/ ProcessCancelNewOrder
    \/ \E expired \in BOOLEAN : ProcessReclaimOrder(expired)
    \/ \E address \in DOMAIN orders, t \in Totals : Settle(address, t[1], t[2])

WireSpec == WireInit /\ [][WireNext]_wire
-----------------------------------------------------------------------------
AccountKeys == [k \in DOMAIN ix.accounts |-> ix.accounts[k].key]

(* What an indexer makes of an instruction: intents are decoded. *)
Indexed ==
    LET p == ParseInstruction(ix.data, AccountKeys) IN
    IF "intent_bytes" \in DOMAIN p /\ p.intent_bytes # <<>>
    THEN Joined(p, [intent |-> DecodeIntent(p.intent_bytes)]) ELSE p

(* Every field of call that the instruction has a place for. *)
Agree(p, c) == \A f \in DOMAIN p \cap DOMAIN c : p[f] = c[f]

(* The accounts that the client fills in. *)
RightAddresses(p, c) ==
    /\ "order_pda" \in DOMAIN p => p.order_pda = OrderPda(EncodeIntent(c.intent))
    /\ "native_sol_buffer" \in DOMAIN p => p.native_sol_buffer = NativeBuffer
    /\ IF c.name = "CancelSettlementOwnedOrder"
       THEN p.state_pda = <<StatePda>> /\ p.owner = c.authority
       ELSE "state_pda" \in DOMAIN p =>
                p.state_pda = IF p.instruction = "CancelOrder" THEN <<>> ELSE StatePda
    /\ "buffers" \in DOMAIN p =>
           /\ Len(p.buffers) = Len(c.mints)
           /\ \A k \in 1..Len(c.mints) : /\ Agree(p.buffers[k], c.mints[k])
                                          /\ p.buffers[k].buffer_pda = Buffer[p.buffers[k].mint]

(* What a client calls for is what the program, and every indexer, reads.  *)
(* A batch of no buffers is refused.                                       *)
ArrivesAsMeant ==
    call # NoCall /\ edits = 0 =>
        LET p == Indexed IN
        /\ p = Refused <=> "mints" \in DOMAIN call /\ call.mints = <<>>
        /\ p # Refused => Agree(p, call) /\ RightAddresses(p, call)

(* The client asks for the privileges that the handler makes use of on     *)
(* some path, whatever the state of the order will be by then, and for no  *)
(* signature or write lock beyond them.                                    *)
PrivilegesMatch ==
    call # NoCall /\ edits = 0 /\ Parsed # Refused =>
        /\ {m \in Range(ix.accounts) : m.signer} = NeedsOf(Parsed).signers
        /\ {m \in Range(ix.accounts) : m.writable} = NeedsOf(Parsed).written

(* The data that the fields of p are sent as. *)
Payload(p) ==
    CASE "intent_bytes" \in DOMAIN p -> p.intent_bytes
      [] p.instruction = "Initialize" ->
           p.manager \o p.solver_authority \o p.reclaim_authority
           \o p.settlement_owned_order_authority
      [] p.instruction = "TransferAuthority" -> <<p.role>> \o p.new_authority
      [] p.instruction \in {"AddSolver", "RemoveSolver"} -> p.solver
      [] p.instruction = "WithdrawNativeSol" -> ToBytes(p.amount, Word)
      [] p.instruction = "ReclaimBuffer" ->
           FlattenSeq([k \in 1..Len(p.buffers) |-> ToBytes(p.buffers[k].burn_limit, Word)])
      [] OTHER -> <<>>

(* No byte of an accepted instruction is overlooked: two payloads never    *)
(* mean the same.                                                          *)
OnePayloadPerMeaning ==
    LET p == Parsed IN
    call # NoCall /\ p \notin {Refused, OfSettlement} => Payload(p) = Tail(ix.data)

(* Whatever bytes the program takes for an intent, clients can decode, and *)
(* encoding them again gives the same bytes and the same address; and the  *)
(* program takes what clients can decode.                                  *)
OneAddressPerIntent ==
    LET p == Parsed IN
    call # NoCall /\ "intent_bytes" \in DOMAIN p /\ p.intent_bytes # <<>> =>
        /\ CheckBytes(p.intent_bytes) <=> IntentDecodes(p.intent_bytes)
        /\ CheckBytes(p.intent_bytes) => EncodeIntent(DecodeIntent(p.intent_bytes)) = p.intent_bytes

(* Every order account decodes to what its creation, its settlements and   *)
(* its cancellation were meant to write, and to nothing else, even if the  *)
(* instructions were not built as they should be; and it encodes to the    *)
(* same account again.                                                     *)
StoredAsMeant ==
    /\ DOMAIN orders = DOMAIN meant
    /\ \A a \in DOMAIN orders :
           /\ OrderDecodes(orders[a])
           /\ LoadsFromPda(orders[a], a)
           /\ DecodeOrder(orders[a]) = meant[a]
           /\ EncodeOrder(meant[a]) = orders[a]
===============================================================================
