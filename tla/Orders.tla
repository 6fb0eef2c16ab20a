-------------------------------- MODULE Orders --------------------------------
(***************************************************************************)
(* The life of the order accounts: creation under the owner's signature,   *)
(* settlement, cancellation (also of orders that do not exist yet), and    *)
(* the reclaiming of their rent, after which the same intent can be        *)
(* created again.                                                          *)
(*                                                                         *)
(* Every action is one committed instruction.  A rejected instruction      *)
(* reverts its transaction and is no step.  A signed creation is a         *)
(* transaction that somebody else, the sponsor, may hold back and submit   *)
(* at any later time (once: the runtime refuses a processed signature).    *)
(*                                                                         *)
(* A settlement is a set of orders with what each gives and gets: the      *)
(* program demands strictly increasing order addresses, so no order occurs *)
(* twice, and the orders of a settlement touch distinct accounts.  The     *)
(* token transfers behind the amounts, and who may settle, are not part of *)
(* this module.                                                            *)
(***************************************************************************)
EXTENDS OrderIntent, FiniteSets

CONSTANTS
    Users,          \* wallets: order owners, sponsors, role holders
    StatePda,       \* the program's own address; it can sign no transaction
    Intents,        \* the intents users may sign
    NoOrder,        \* no account of this program at the order's address
    NoSigner,       \* the owner account is left out of ReclaimOrder
    Rent,           \* lamports that make an order account rent exempt
    Funds,          \* the lamports each wallet starts with
    MaxTime,        \* bound: the clock stops here
    MaxPermits,     \* bound: signed creations outstanding at once
    MaxOpened       \* bound: creations of one intent

Intent == [owner: Users \cup {StatePda}, sell_amount: Amount, buy_amount: Amount,
           kind: OrderKind, partially_fillable: BOOLEAN, valid_to: Nat]

OrderAccount == [cancelled: BOOLEAN, fill: FillAmounts, created_by: Users]

(* A creation transaction: its signer, the intent and the rent payer. *)
Permit == [signer: Users, intent: Intents, created_by: Users]

ASSUME OrdersAssumption ==
    /\ StatePda \notin Users
    /\ NoSigner \notin Users
    /\ NoSigner # StatePda
    /\ Intents \subseteq Intent
    /\ NoOrder \notin OrderAccount
    /\ Rent \in Nat
    /\ Funds \in [Users -> Nat]
    /\ MaxTime \in Nat
    /\ MaxPermits \in Nat
    /\ MaxOpened \in Nat

VARIABLES
    orders,         \* the account at each intent's order PDA
    lamports,       \* the lamports at that address, account or not
    wallet,         \* the lamports of each user
    now,            \* the clock sysvar's unix timestamp
    authority,      \* holder of the settlement-owned-order role
    permits,        \* signed creations not submitted yet
    \* history, read by the properties only
    opened,         \* creations of each intent
    pulled,         \* sell tokens ever taken under each intent
    paid,           \* what created_by paid to create the current account
    revoked         \* "yes" after the owner cancelled and has not acted since,
                    \* "filled" if the order was completely filled by then

accountVars == <<orders, lamports, wallet>>
historyVars == <<opened, pulled, paid, revoked>>
vars == <<accountVars, now, authority, permits, historyVars>>

Exists(i) == orders[i] # NoOrder

Init ==
    /\ orders = [i \in Intents |-> NoOrder]
    /\ lamports = [i \in Intents |-> 0]
    /\ wallet = Funds
    /\ now = 0
    /\ authority \in Users
    /\ permits = {}
    /\ opened = [i \in Intents |-> 0]
    /\ pulled = [i \in Intents |-> 0]
    /\ paid = [i \in Intents |-> 0]
    /\ revoked = [i \in Intents |-> "no"]

-----------------------------------------------------------------------------
(* Lamports the payer adds: an address somebody prefunded needs fewer. *)
Shortfall(i) == IF lamports[i] >= Rent THEN 0 ELSE Rent - lamports[i]

(* CanonicalPda::create_new: refuse an existing account, top the address   *)
(* up to the rent-exempt minimum and assign it to the program.             *)
CreateNew(i, payer) ==
    /\ ~Exists(i)
    /\ wallet[payer] >= Shortfall(i)
    /\ wallet' = [wallet EXCEPT ![payer] = @ - Shortfall(i)]
    /\ lamports' = [lamports EXCEPT ![i] = @ + Shortfall(i)]
    /\ paid' = [paid EXCEPT ![i] = Shortfall(i)]

ProcessNewOnchainOrder(i, expected_owner, created_by, cancelled) ==
    /\ CheckBytes(i)
    /\ expected_owner = i.owner
    /\ CreateNew(i, created_by)
    /\ orders' = [orders EXCEPT ![i] = [cancelled  |-> cancelled,
                                        fill       |-> NoFill,
                                        created_by |-> created_by]]

(* A user signs a transaction that creates i, with created_by as its rent  *)
(* payer, and hands it over.                                               *)
SignCreation(u, i, created_by) ==
    /\ Cardinality(permits) < MaxPermits
    /\ permits' = permits \cup {[signer |-> u, intent |-> i, created_by |-> created_by]}
    /\ revoked' = [revoked EXCEPT ![i] = IF i.owner \in {u, StatePda} THEN "no" ELSE @]
    /\ UNCHANGED <<accountVars, now, authority, opened, pulled, paid>>

(* Both creation instructions submit a signed creation. *)
SubmitCreation(p, expected_owner) ==
    /\ opened[p.intent] < MaxOpened
    /\ ProcessNewOnchainOrder(p.intent, expected_owner, p.created_by, FALSE)
    /\ permits' = permits \ {p}
    /\ opened' = [opened EXCEPT ![p.intent] = @ + 1]
    /\ UNCHANGED <<now, authority, pulled, revoked>>

CreateOrder(p) == SubmitCreation(p, p.signer)

CreateSettlementOwnedOrder(p) ==
    /\ p.signer = authority
    /\ SubmitCreation(p, StatePda)

(* Who may cancel: the holder of the role for the program's own orders,    *)
(* the owner for everybody else's.                                         *)
MayCancel(u, i) == IF i.owner = StatePda THEN u = authority ELSE u = i.owner

(* CancelOrder of an existing order: only the flag changes. *)
CancelOrder(u, i) ==
    /\ Exists(i)
    /\ MayCancel(u, i)
    /\ orders' = [orders EXCEPT ![i].cancelled = TRUE]
    /\ revoked' = [revoked EXCEPT
                     ![i] = IF FullyFilled(i, orders[i].fill) THEN "filled" ELSE "yes"]
    /\ UNCHANGED <<lamports, wallet, now, authority, permits, opened, pulled, paid>>

(* CancelOrder of an order that does not exist: it is created cancelled. *)
CancelNewOrder(u, i, created_by) ==
    /\ i.owner = StatePda => u = authority
    /\ ProcessNewOnchainOrder(i, IF i.owner = StatePda THEN StatePda ELSE u,
                              created_by, TRUE)
    /\ revoked' = [revoked EXCEPT ![i] = "yes"]
    /\ UNCHANGED <<now, authority, permits, opened, pulled>>

(* What BeginSettle demands of one order and of what it gives and gets. *)
ProcessOrder(i, settled) ==
    /\ Exists(i)
    /\ ~orders[i].cancelled
    /\ ~Expired(i, now)
    /\ ValidateLimitPrice(i, settled)
    /\ ValidatedFinalAmounts(i, orders[i].fill, settled)

(* A committed BeginSettle/FinalizeSettle pair over the orders S. *)
SettleOrders(S, settled) ==
    /\ \A i \in S : ProcessOrder(i, settled[i])
    /\ orders' = [i \in Intents |->
                    IF i \in S
                    THEN [orders[i] EXCEPT !.fill = AddFills(@, settled[i])]
                    ELSE orders[i]]
    /\ pulled' = [i \in Intents |->
                    IF i \in S THEN pulled[i] + settled[i].withdrawn ELSE pulled[i]]
    /\ UNCHANGED <<lamports, wallet, now, authority, permits, opened, paid, revoked>>

(* Mutants of IsReclaimable: anybody may close a cancelled order; an order *)
(* is taken as expired at valid_to; expiry frees nothing.                  *)
CancelledIsReclaimable(signer, i) ==
    FullyFilled(i, orders[i].fill) \/ Expired(i, now) \/ orders[i].cancelled
ReclaimableAtValidTo(signer, i) ==
    \/ FullyFilled(i, orders[i].fill)
    \/ now >= i.valid_to
    \/ orders[i].cancelled /\ signer = i.owner
ExpiredIsKept(signer, i) ==
    FullyFilled(i, orders[i].fill) \/ (orders[i].cancelled /\ signer = i.owner)

(* is_reclaimable, in the order the program asks. *)
IsReclaimable(signer, i) ==
    \/ FullyFilled(i, orders[i].fill)
    \/ Expired(i, now)
    \/ orders[i].cancelled /\ signer = i.owner

(* Mutant of ReclaimOrder: the recipient is not compared with created_by. *)
ReclaimToAnyone(signer, recipient, i) ==
    /\ Exists(i)
    /\ IsReclaimable(signer, i)
    /\ wallet' = [wallet EXCEPT ![recipient] = @ + lamports[i]]
    /\ lamports' = [lamports EXCEPT ![i] = 0]
    /\ orders' = [orders EXCEPT ![i] = NoOrder]
    /\ UNCHANGED <<now, authority, permits, historyVars>>

(* ReclaimOrder: all the lamports of the address go to created_by. *)
ReclaimOrder(signer, recipient, i) ==
    /\ Exists(i)
    /\ recipient = orders[i].created_by
    /\ IsReclaimable(signer, i)
    /\ wallet' = [wallet EXCEPT ![recipient] = @ + lamports[i]]
    /\ lamports' = [lamports EXCEPT ![i] = 0]
    /\ orders' = [orders EXCEPT ![i] = NoOrder]
    /\ revoked' = [revoked EXCEPT ![i] = IF signer = i.owner THEN "no" ELSE @]
    /\ UNCHANGED <<now, authority, permits, opened, pulled, paid>>

(* Anybody may send lamports to an order's address, account or not. *)
Donate(u, i) ==
    /\ wallet[u] > 0
    /\ wallet' = [wallet EXCEPT ![u] = @ - 1]
    /\ lamports' = [lamports EXCEPT ![i] = @ + 1]
    /\ UNCHANGED <<orders, now, authority, permits, historyVars>>

(* TransferAuthority of the settlement-owned-order role. *)
TransferAuthority(u) ==
    /\ authority' = u
    /\ UNCHANGED <<accountVars, now, permits, historyVars>>

Tick ==
    /\ now < MaxTime
    /\ now' = now + 1
    /\ UNCHANGED <<accountVars, authority, permits, historyVars>>

Next ==
    \/ \E u, c \in Users, i \in Intents : SignCreation(u, i, c)
    \/ \E p \in permits : CreateOrder(p) \/ CreateSettlementOwnedOrder(p)
    \/ \E u \in Users, i \in Intents : CancelOrder(u, i)
    \/ \E u, c \in Users, i \in Intents : CancelNewOrder(u, i, c)
    \/ \E S \in SUBSET {i \in Intents : Exists(i)} :
           \E settled \in [S -> FillAmounts] : SettleOrders(S, settled)
    \/ \E s \in Users \cup {NoSigner}, r \in Users, i \in Intents : ReclaimOrder(s, r, i)
    \/ \E u \in Users, i \in Intents : Donate(u, i)
    \/ \E u \in Users : TransferAuthority(u)
    \/ Tick

Spec == Init /\ [][Next]_vars

(* The clock advances, and whoever is owed the rent of an order keeps      *)
(* submitting ReclaimOrder for it, without any help from its owner.        *)
Fairness ==
    /\ WF_vars(Tick)
    /\ \A i \in Intents : WF_vars(\E r \in Users : ReclaimOrder(NoSigner, r, i))

FairSpec == Spec /\ Fairness
-----------------------------------------------------------------------------
(* The variables keep their types: the fill of every account fits its u64  *)
(* fields, and a wallet or an address never holds negative lamports.       *)
TypeOK ==
    /\ orders \in [Intents -> OrderAccount \cup {NoOrder}]
    /\ lamports \in [Intents -> Nat]
    /\ wallet \in [Users -> Nat]
    /\ now \in 0..MaxTime
    /\ authority \in Users
    /\ permits \subseteq Permit
    /\ opened \in [Intents -> 0..MaxOpened]
    /\ pulled \in [Intents -> Nat]
    /\ paid \in [Intents -> Nat]
    /\ revoked \in [Intents -> {"no", "yes", "filled"}]

(* Over all its settlements an order never gives more than sell_amount,    *)
(* whichever side it fixes, and its average price is at least its limit.   *)
(* The program checks neither: it bounds the fixed side of the total and   *)
(* the price of each settlement (process_order).                           *)
UserNeverOverpays ==
    \A i \in Intents : Exists(i) =>
        /\ orders[i].fill.withdrawn <= i.sell_amount
        /\ ValidateLimitPrice(i, orders[i].fill)

(* Closing an order forgets its fill, and the same intent can be created   *)
(* again: still, each submitted creation, and so each signature of the     *)
(* owner, gives away sell_amount at most.                                  *)
EachCreationSellsOnce ==
    \A i \in Intents : pulled[i] <= i.sell_amount * opened[i]

(* Once the owner cancelled an order that was not completely filled,       *)
(* nothing is taken under that intent until the owner acts again, however  *)
(* many signed creations other parties still hold, whoever reclaims the    *)
(* account and whenever it expires (the purpose of is_reclaimable's case   *)
(* 3).                                                                     *)
CancellationSticks ==
    [][\A i \in Intents : revoked[i] = "yes" => pulled'[i] = pulled[i]]_vars

(* SECURITY_DESIGN.md, G7: "a cancellation can't be undone".  As above,    *)
(* for every cancelled order.                                              *)
CancellationCannotBeUndone ==
    [][\A i \in Intents : revoked[i] # "no" => pulled'[i] = pulled[i]]_vars

(* SECURITY_DESIGN.md, G6: "An order can only be settled once              *)
(* (fill-or-kill)".  A fill-or-kill order that was settled takes part in   *)
(* no further settlement.                                                  *)
FillOrKillSettlesOnce ==
    [][\A i \in Intents :
         Exists(i) /\ Exists(i)' /\ ~i.partially_fillable /\ orders[i].fill # NoFill
           => orders'[i].fill = orders[i].fill]_vars

(* An order that can still be settled.  *)
Settleable(i) ==
    /\ Exists(i)
    /\ ~orders[i].cancelled
    /\ ~Expired(i, now)
    /\ ~FullyFilled(i, orders[i].fill)

(* A settleable order stays on the book until its time is up, its last     *)
(* fill or its cancellation: no ReclaimOrder closes it before, and no      *)
(* other instruction takes back a fill or recreates it.                    *)
BookIsSafe ==
    [][\A i \in Intents : Settleable(i) /\ ~Expired(i, now') =>
         /\ Exists(i)'
         /\ orders'[i].created_by = orders[i].created_by
         /\ Filled(i, orders'[i].fill) >= Filled(i, orders[i].fill)]_vars

(* When an order account is closed its created_by gets back at least what  *)
(* it paid to create it, prefunded and donated lamports notwithstanding,   *)
(* and nobody else gains a lamport (G8).                                   *)
RentGoesToCreator ==
    [][\A i \in Intents : Exists(i) /\ ~Exists(i)' =>
         \A u \in Users :
           IF u = orders[i].created_by
           THEN wallet'[u] >= wallet[u] + paid[i]
           ELSE wallet'[u] = wallet[u]]_vars

(* Rent is never locked in: every order account is eventually closed, even *)
(* a cancelled one whose owner, like the state PDA, never signs.           *)
RentIsRecovered ==
    \A i \in Intents : Exists(i) ~> ~Exists(i)
===============================================================================
