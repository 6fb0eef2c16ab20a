------------------------------ MODULE Settlement ------------------------------
(***************************************************************************)
(* What a settlement does to token accounts, buffers and lamports.         *)
(*                                                                         *)
(* A transaction is a sequence of settlements, each a BeginSettle that     *)
(* pulls and a FinalizeSettle that pushes, and of other instructions       *)
(* before, between and after them.  When an instruction fails the runtime  *)
(* undoes the transaction; here it can then take no step, so that what a   *)
(* failed transaction did is never committed.                              *)
(* SettleTx shows that the two halves find each other and do not overlap.  *)
(* Every call of a token program is a step of its own here.                *)
(*                                                                         *)
(* The orders are open throughout: cancelling, expiry and reclaiming are   *)
(* the business of Orders, approving solvers and roles of StateAccount.    *)
(* Transfers move what they are asked to move: a Token-2022 fee is borne   *)
(* by the receiver and not part of the program's accounting.               *)
(***************************************************************************)
EXTENDS OrderIntent, KnownBuffers

CONSTANTS
    Users,          \* owners of token accounts
    StatePda,       \* owner of the buffers, delegate of the users
    Accounts,       \* token accounts, buffers included
    Wallets,        \* accounts that are paid in lamports
    Book,           \* the intent of each open order, by the order's address
    InitTokens,     \* the token accounts at the start
    InitLamports,   \* the lamports at the start
    NativeRent,     \* rent-exempt minimum of the native SOL buffer
    PushSet,        \* the pushes that FinalizeSettle instructions are made of
    Amounts,        \* bound: amounts of pulls, of transfers and of approvals
    MaxPushes       \* bound: pushes of one FinalizeSettle

Assets == AllMints
Owners == Users \cup {StatePda}
LamportAccounts == Wallets \cup {NativeBuffer}
Addresses == Accounts \cup LamportAccounts

TokenAccount == [mint: Mints, owner: Owners, amount: Nat, delegated: Nat]

Intent == [owner: Owners, sell_token_account: Accounts, sell_mint: Mints,
           buy_token_account: Addresses, buy_mint: Assets,
           sell_amount: Amount, buy_amount: Amount, kind: OrderKind,
           partially_fillable: BOOLEAN]

Push == [source_buffer: Addresses \cup {Derived[d] : d \in DOMAIN Derived},
         bump: Nat, destination: Addresses, amount: Amount]

Orders == DOMAIN Book

ASSUME SettlementAssumption ==
    /\ StatePda \notin Users
    /\ Accounts \cap LamportAccounts = {}
    /\ NativeBuffer \notin Wallets
    /\ \A m \in Mints : Buffer[m] \in Accounts
    /\ Orders \subseteq Nat \ {0}
    /\ \A o \in Orders : Book[o] \in Intent /\ CheckBytes(Book[o])
    /\ IsFiniteSet(Orders)
    /\ InitTokens \in [Accounts -> TokenAccount]
    /\ InitLamports \in [LamportAccounts -> Nat]
    /\ NativeRent \in Nat \ {0}
    /\ InitLamports[NativeBuffer] >= NativeRent
    /\ PushSet \subseteq Push
    /\ Amounts \subseteq Amount
    /\ MaxPushes \in Nat

(* Derived addresses are hashes: those of two mints differ, and none is    *)
(* the native SOL buffer.  Only CreateBuffer signs for such an address,    *)
(* and it opens the mint's account there, in the name of the state PDA.    *)
ASSUME DerivedAssumption ==
    /\ DOMAIN Derived \subseteq Mints \X Nat
    /\ \A d, e \in DOMAIN Derived : Derived[d] = Derived[e] => d[1] = e[1]
    /\ \A d \in DOMAIN Derived :
          /\ Derived[d] # NativeBuffer
          /\ Derived[d] \in Accounts =>
                InitTokens[Derived[d]].owner = StatePda /\ InitTokens[Derived[d]].mint = d[1]

(* The program builds: some multiplier keeps the known buffers apart. *)
ASSUME BuildAssumption == Attempts # {}

VARIABLES
    tokens,         \* the token accounts
    lamports,       \* the lamports of wallets and of the native SOL buffer
    fill,           \* the fill of each order account
    phase,          \* how far the running transaction is
    pushes,         \* the pushes of the open settlement's FinalizeSettle
    previous,       \* address of the last order of this BeginSettle, 0 at first
    next,           \* index of the push that is next
    amount_in,      \* pulled so far for the current order
    \* history, read by the properties only
    lost,           \* tokens that left the accounts of each owner by pulls
    gained          \* what pushes added to each account, by asset

ledger == <<tokens, lamports, fill, lost, gained>>
progress == <<pushes, previous, next, amount_in>>
vars == <<ledger, phase, progress>>

Init ==
    /\ tokens = InitTokens
    /\ lamports = InitLamports
    /\ fill = [o \in Orders |-> NoFill]
    /\ lost = [om \in Owners \X Mints |-> 0]
    /\ gained = [am \in Addresses \X Assets |-> 0]
    /\ phase = "idle"
    /\ pushes = <<>>
    /\ previous = 0
    /\ next = 1
    /\ amount_in = 0

-----------------------------------------------------------------------------
(* A transfer by a token program under the state PDA's signature, as owner *)
(* or as delegate of the source.  One onto itself moves nothing.           *)
CanTransfer(from, to, amount) ==
    /\ {from, to} \subseteq Accounts
    /\ tokens[from].mint = tokens[to].mint
    /\ tokens[from].amount >= amount
    /\ tokens[from].owner = StatePda \/ tokens[from].delegated >= amount

Transfer(from, to, amount) ==
    /\ CanTransfer(from, to, amount)
    /\ tokens' =
         IF from = to THEN tokens
         ELSE [tokens EXCEPT
                 ![from].amount = @ - amount,
                 ![from].delegated = IF tokens[from].owner = StatePda THEN @ ELSE @ - amount,
                 ![to].amount = @ + amount]

(* move_lamports: checked at both ends, nothing if the ends are the same. *)
MoveLamports(from, to, amount) ==
    \/ /\ from = to
       /\ UNCHANGED lamports
    \/ /\ from # to
       /\ lamports[from] >= amount
       /\ lamports[to] + amount <= U64Max
       /\ lamports' = [lamports EXCEPT ![from] = @ - amount, ![to] = @ + amount]

-----------------------------------------------------------------------------
StartTransaction ==
    /\ phase = "idle"
    /\ phase' = "open"
    /\ UNCHANGED <<ledger, progress>>

(* BeginSettle sees the pushes of its FinalizeSettle by introspection. *)
BeginSettle(finalize_pushes) ==
    /\ phase = "open"
    /\ phase' = "orders"
    /\ pushes' = finalize_pushes
    /\ previous' = 0
    /\ next' = 1
    /\ UNCHANGED <<ledger, amount_in>>

(* The push pays the order's account, from a buffer of its buy mint. *)
ValidatePush(push, intent) ==
    /\ push.destination = intent.buy_token_account
    /\ ValidateBufferPda(push.source_buffer, intent.buy_mint, push.bump)
    /\ push.source_buffer # push.destination

(* Mutant of ValidateSellAccount: anybody's account will do. *)
SellMintMatches(intent) == tokens[intent.sell_token_account].mint = intent.sell_mint

(* The account the intent names may have changed hands or mint since. *)
ValidateSellAccount(intent) ==
    /\ tokens[intent.sell_token_account].owner = intent.owner
    /\ tokens[intent.sell_token_account].mint = intent.sell_mint

(* process_order up to the pulls, for the order at address o. *)
ProcessOrder(o) ==
    /\ phase = "orders"
    /\ o > previous
    /\ next <= Len(pushes)
    /\ ValidatePush(pushes[next], Book[o])
    /\ ValidateSellAccount(Book[o])
    /\ phase' = "pulls"
    /\ previous' = o
    /\ amount_in' = 0
    /\ UNCHANGED <<ledger, pushes, next>>

(* Mutant of PulledSumFits: the sum wraps around unnoticed. *)
AnySum(amount) == TRUE

(* The pulls of one order add up to a u64. *)
PulledSumFits(amount) == amount_in + amount <= U64Max

(* One pull of the order at address previous. *)
Pull(destination, amount) ==
    LET from == Book[previous].sell_token_account
        owner == tokens[from].owner
        mint == tokens[from].mint
    IN  /\ phase = "pulls"
        /\ PulledSumFits(amount)
        /\ amount_in' = amount_in + amount
        /\ Transfer(from, destination, amount)
        /\ lost' = IF from = destination THEN lost ELSE [lost EXCEPT ![<<owner, mint>>] = @ + amount]
        /\ UNCHANGED <<lamports, fill, gained, phase, pushes, previous, next>>

(* The rest of process_order: limit price, totals, and the new fill. *)
RecordFill ==
    LET intent == Book[previous]
        settled == [withdrawn |-> amount_in, received |-> pushes[next].amount]
    IN  /\ phase = "pulls"
        /\ ValidateLimitPrice(intent, settled)
        /\ ValidatedFinalAmounts(intent, fill[previous], settled)
        /\ fill' = [fill EXCEPT ![previous] = AddFills(@, settled)]
        /\ phase' = "orders"
        /\ next' = next + 1
        /\ UNCHANGED <<tokens, lamports, lost, gained, pushes, previous, amount_in>>

(* Every push has been paired with an order. *)
EndBeginSettle ==
    /\ phase = "orders"
    /\ next > Len(pushes)
    /\ phase' = "between"
    /\ UNCHANGED <<ledger, progress>>

FinalizeSettle ==
    /\ phase = "between"
    /\ phase' = "tokens"
    /\ next' = 1
    /\ UNCHANGED <<ledger, pushes, previous, amount_in>>

(* The push at next has moved its amount, unless onto itself. *)
Credit(asset) ==
    LET push == pushes[next] IN
    gained' = IF push.source_buffer = push.destination THEN gained
              ELSE [gained EXCEPT ![<<push.destination, asset>>] = @ + push.amount]

(* push_funds, first loop: the pushes out of token accounts. *)
PushToken ==
    LET push == pushes[next] IN
    /\ phase = "tokens"
    /\ next <= Len(pushes)
    /\ next' = next + 1
    /\ \/ /\ push.source_buffer = NativeBuffer
          /\ UNCHANGED <<tokens, gained>>
       \/ /\ push.source_buffer # NativeBuffer
          /\ Transfer(push.source_buffer, push.destination, push.amount)
          /\ Credit(tokens[push.source_buffer].mint)
    /\ UNCHANGED <<lamports, fill, lost, phase, pushes, previous, amount_in>>

StartNativeLoop ==
    /\ phase = "tokens"
    /\ next > Len(pushes)
    /\ phase' = "native"
    /\ next' = 1
    /\ UNCHANGED <<ledger, pushes, previous, amount_in>>

(* Second loop: the pushes out of the native SOL buffer. *)
PushNative ==
    LET push == pushes[next] IN
    /\ phase = "native"
    /\ next <= Len(pushes)
    /\ next' = next + 1
    /\ \/ /\ push.source_buffer # NativeBuffer
          /\ UNCHANGED <<lamports, gained>>
       \/ /\ push.source_buffer = NativeBuffer
          /\ push.destination \in LamportAccounts
          /\ MoveLamports(push.source_buffer, push.destination, push.amount)
          /\ Credit(NativeSol)
    /\ UNCHANGED <<tokens, fill, lost, phase, pushes, previous, amount_in>>

(* Mutant of NotEmptied: the runtime is left to judge the balance. *)
EmptyIsFine == TRUE

(* A buffer that pays native SOL keeps some of it. *)
NotEmptied ==
    (\E k \in 1..Len(pushes) : pushes[k].source_buffer = NativeBuffer)
        => lamports[NativeBuffer] # 0

EndFinalizeSettle ==
    /\ phase = "native"
    /\ next > Len(pushes)
    /\ NotEmptied
    /\ phase' = "open"
    /\ pushes' = <<>>
    /\ previous' = 0
    /\ next' = 1
    /\ amount_in' = 0
    /\ UNCHANGED <<ledger>>

(* WithdrawNativeSol, by the holder of its role: what is above the rent. *)
WithdrawNativeSol(recipient, amount) ==
    LET withdrawable == IF lamports[NativeBuffer] >= NativeRent
                        THEN lamports[NativeBuffer] - NativeRent ELSE 0
    IN  /\ phase \in {"open", "between"}
        /\ MoveLamports(NativeBuffer, recipient, Min({amount, withdrawable}))
        /\ UNCHANGED <<tokens, fill, lost, gained, phase, progress>>

(* The runtime accepts an account that is rent exempt, or empties and so   *)
(* deletes it.                                                             *)
Commit ==
    /\ phase = "open"
    /\ lamports[NativeBuffer] = 0 \/ lamports[NativeBuffer] >= NativeRent
    /\ phase' = "idle"
    /\ UNCHANGED <<ledger, progress>>

-----------------------------------------------------------------------------
(* What others do in the same transaction, outside of both instructions. *)
Foreign ==
    /\ phase \in {"open", "between"}
    /\ UNCHANGED <<lamports, fill, lost, gained, phase, progress>>

(* A user sends tokens, for example a solver to a buffer. *)
UserTransfer(from, to, amount) ==
    /\ Foreign
    /\ tokens[from].owner \in Users
    /\ from # to
    /\ tokens[from].mint = tokens[to].mint
    /\ tokens[from].amount >= amount
    /\ tokens' = [tokens EXCEPT ![from].amount = @ - amount, ![to].amount = @ + amount]

(* A user makes the state PDA the delegate of an account. *)
Approve(a, amount) ==
    /\ Foreign
    /\ tokens[a].owner \in Users
    /\ tokens' = [tokens EXCEPT ![a].delegated = amount]

(* A user hands an account over to somebody, which drops its delegate. *)
SetOwner(a, owner) ==
    /\ Foreign
    /\ tokens[a].owner \in Users
    /\ tokens' = [tokens EXCEPT ![a].owner = owner, ![a].delegated = 0]

(* A user closes an empty account and opens it again for another mint. *)
Recreate(a, mint) ==
    /\ Foreign
    /\ tokens[a].owner \in Users
    /\ tokens[a].amount = 0
    /\ tokens' = [tokens EXCEPT ![a].mint = mint, ![a].delegated = 0]

Next ==
    \/ StartTransaction
    \/ \E n \in 0..MaxPushes : \E list \in [1..n -> PushSet] : BeginSettle(list)
    \/ \E o \in Orders : ProcessOrder(o)
    \/ \E a \in Accounts, n \in Amounts : Pull(a, n)
    \/ RecordFill
    \/ EndBeginSettle
    \/ FinalizeSettle
    \/ PushToken
    \/ StartNativeLoop
    \/ PushNative
    \/ EndFinalizeSettle
    \/ \E w \in LamportAccounts, n \in Amounts : WithdrawNativeSol(w, n)
    \/ Commit
    \/ \E a, b \in Accounts, n \in Amounts : UserTransfer(a, b, n)
    \/ \E a \in Accounts, n \in Amounts : Approve(a, n)
    \/ \E a \in Accounts, u \in Users : SetOwner(a, u)
    \/ \E a \in Accounts, m \in Mints : Recreate(a, m)

Spec == Init /\ [][Next]_vars
-----------------------------------------------------------------------------
(* The variables keep their types. *)
TypeOK ==
    /\ tokens \in [Accounts -> TokenAccount]
    /\ lamports \in [LamportAccounts -> Nat]
    /\ fill \in [Orders -> FillAmounts]
    /\ lost \in [Owners \X Mints -> Nat]
    /\ gained \in [Addresses \X Assets -> Nat]
    /\ phase \in {"idle", "open", "orders", "pulls", "between", "tokens", "native"}
    /\ \A k \in 1..Len(pushes) : pushes[k] \in PushSet
    /\ previous \in Orders \cup {0}
    /\ next \in 1..(Len(pushes) + 1)
    /\ amount_in \in Amount

(* What the orders S have given, and what they have received. *)
TotalWithdrawn(S) == SumFunctionOnSet([o \in Orders |-> fill[o].withdrawn], S)
TotalReceived(S) == SumFunctionOnSet([o \in Orders |-> fill[o].received], S)

OrdersSelling(u, m) == {o \in Orders : Book[o].owner = u /\ Book[o].sell_mint = m}
OrdersBuying(a, m) == {o \in Orders : Book[o].buy_token_account = a /\ Book[o].buy_mint = m}

(* User funds only move to settle one of the user's own orders (G1): all   *)
(* that ever left an owner's accounts under the program's signature is on  *)
(* the fills of that owner's orders that sell that mint, whatever became   *)
(* of the accounts the intents name.  For the state PDA: solvers pull from *)
(* a buffer only what an order of the program sells.                       *)
FundsMoveForOwnOrders ==
    phase = "idle" =>
        \A u \in Owners, m \in Mints :
            lost[<<u, m>>] <= TotalWithdrawn(OrdersSelling(u, m))

(* What BeginSettle wrote down as received before any of it was paid is    *)
(* what FinalizeSettle really paid: each account was credited exactly what *)
(* the orders buying into it have received, in the asset they buy, and no  *)
(* push did anything else.                                                 *)
RecordedIsPaid ==
    phase = "idle" =>
        \A a \in Addresses, m \in Assets :
            gained[<<a, m>>] = TotalReceived(OrdersBuying(a, m))

(* No settlement and no withdrawal deletes the native SOL buffer, without  *)
(* which no native SOL order could be settled again.                       *)
NativeBufferLives == phase = "idle" => lamports[NativeBuffer] >= NativeRent
===============================================================================
