----------------------------- MODULE OrdersProofs -----------------------------
(***************************************************************************)
(* The properties of Orders, for every set of users and intents, every     *)
(* amount and every rent.                                                  *)
(***************************************************************************)
EXTENDS Orders, TLAPS

(* What the program checks of a fill: the fixed side is within the order's *)
(* amount, and the totals respect the limit price.                         *)
FillsWithinLimits ==
    \A i \in Intents : Exists(i) =>
        /\ CheckBytes(i)
        /\ Filled(i, orders[i].fill) <= OrderAmount(i)
        /\ ValidateLimitPrice(i, orders[i].fill)

-----------------------------------------------------------------------------
(* Arithmetic of fills. *)

(* A product of naturals is one. *)
LEMMA ProductIsNat == ASSUME NEW a \in Nat, NEW b \in Nat PROVE a * b \in Nat
  OBVIOUS

(* Multiplication distributes over the addition of two fills. *)
LEMMA Distribute ==
    ASSUME NEW a \in Nat, NEW b \in Nat, NEW c \in Nat
    PROVE  (a + b) * c = a * c + b * c /\ c * (a + b) = c * a + c * b
  OBVIOUS

(* Multiplying by a positive number preserves and reflects the order. *)
LEMMA ScaleDown ==
    ASSUME NEW a \in Nat, NEW b \in Nat, NEW c \in Nat, c > 0, a * c <= b * c
    PROVE  a <= b
  OBVIOUS

LEMMA ScaleUp ==
    ASSUME NEW a \in Nat, NEW b \in Nat, NEW c \in Nat, a <= b
    PROVE  a * c <= b * c
  OBVIOUS

LEMMA Commute == ASSUME NEW a \in Nat, NEW b \in Nat PROVE a * b = b * a
  OBVIOUS
-----------------------------------------------------------------------------
(* The types and the intents' fields, as the proofs below use them. *)
LEMMA IntentFields ==
    ASSUME NEW i \in Intents
    PROVE  /\ i.sell_amount \in Nat
           /\ i.buy_amount \in Nat
           /\ i.kind \in OrderKind
           /\ i.valid_to \in Nat
           /\ i.partially_fillable \in BOOLEAN
  BY OrdersAssumption, U64MaxAssumption DEF Intent, Amount

(* A fill that passes the checks of process_order keeps the totals u64,    *)
(* the fixed side within the order and the price at its limit.             *)
LEMMA ProcessOrderKeepsLimits ==
    ASSUME NEW i \in Intents, NEW prior \in FillAmounts, NEW settled \in FillAmounts,
           ValidateLimitPrice(i, prior), ValidateLimitPrice(i, settled),
           ValidatedFinalAmounts(i, prior, settled)
    PROVE  /\ AddFills(prior, settled) \in FillAmounts
           /\ Filled(i, AddFills(prior, settled)) <= OrderAmount(i)
           /\ ValidateLimitPrice(i, AddFills(prior, settled))
<1> USE U64MaxAssumption
<1> DEFINE w == prior.withdrawn + settled.withdrawn
           r == prior.received + settled.received
<1>1. /\ prior.withdrawn \in Nat /\ settled.withdrawn \in Nat
      /\ prior.received \in Nat /\ settled.received \in Nat
  BY DEF FillAmounts, Amount
<1>2. w <= U64Max /\ r <= U64Max /\ Filled(i, AddFills(prior, settled)) <= OrderAmount(i)
  BY DEF ValidatedFinalAmounts, AddFills
<1>3. AddFills(prior, settled) \in FillAmounts
  BY <1>1, <1>2 DEF AddFills, FillAmounts, Amount
<1>4. r * i.sell_amount >= w * i.buy_amount
  <2>1. r * i.sell_amount = prior.received * i.sell_amount + settled.received * i.sell_amount
    BY <1>1, IntentFields, Distribute
  <2>2. w * i.buy_amount = prior.withdrawn * i.buy_amount + settled.withdrawn * i.buy_amount
    BY <1>1, IntentFields, Distribute
  <2> DEFINE a == prior.received * i.sell_amount
             b == settled.received * i.sell_amount
             c == prior.withdrawn * i.buy_amount
             d == settled.withdrawn * i.buy_amount
  <2>3. a \in Nat /\ b \in Nat /\ c \in Nat /\ d \in Nat
    BY <1>1, IntentFields, ProductIsNat
  <2>4. a >= c /\ b >= d
    BY DEF ValidateLimitPrice
  <2> HIDE DEF a, b, c, d
  <2>5. a + b >= c + d
    BY <2>3, <2>4
  <2>6. QED
    BY <2>1, <2>2, <2>5 DEF a, b, c, d
<1>5. QED
  BY <1>2, <1>3, <1>4 DEF ValidateLimitPrice, AddFills

(* Such an order never gives more than sell_amount, whichever side its     *)
(* kind fixes: for a buy order the limit price caps what it gives.         *)
LEMMA SellIsBounded ==
    ASSUME NEW i \in Intents, NEW fill \in FillAmounts, CheckBytes(i),
           Filled(i, fill) <= OrderAmount(i), ValidateLimitPrice(i, fill)
    PROVE  fill.withdrawn <= i.sell_amount
<1> USE U64MaxAssumption
<1>1. fill.withdrawn \in Nat /\ fill.received \in Nat
  BY DEF FillAmounts, Amount
<1>2. CASE i.kind = "Sell"
  BY <1>2 DEF Filled, OrderAmount
<1>3. CASE i.kind = "Buy"
  <2>1. fill.received <= i.buy_amount
    BY <1>3 DEF Filled, OrderAmount
  <2>2. fill.received * i.sell_amount <= i.buy_amount * i.sell_amount
    BY <1>1, <2>1, IntentFields, ScaleUp
  <2>3. fill.withdrawn * i.buy_amount <= fill.received * i.sell_amount
    BY <1>1, IntentFields, ProductIsNat DEF ValidateLimitPrice
  <2>4. i.buy_amount * i.sell_amount = i.sell_amount * i.buy_amount
    BY IntentFields, Commute
  <2>5. fill.withdrawn * i.buy_amount <= i.sell_amount * i.buy_amount
    BY <1>1, <2>2, <2>3, <2>4, IntentFields, ProductIsNat
  <2>6. QED
    BY <1>1, <2>5, IntentFields, ScaleDown DEF CheckBytes
<1>4. QED
  BY <1>2, <1>3, IntentFields DEF OrderKind
-----------------------------------------------------------------------------
(* The inductive invariant.  Each creation pays for one sell_amount: an    *)
(* open order has all of it but what it gave still ahead of it.            *)
CreationsCover ==
    \A i \in Intents :
        IF Exists(i) /\ ~orders[i].cancelled
        THEN pulled[i] + i.sell_amount <= i.sell_amount * opened[i] + orders[i].fill.withdrawn
        ELSE pulled[i] <= i.sell_amount * opened[i]

(* A revoked order is either still there, cancelled and not completely     *)
(* filled, so that only its owner can close it, or past its time.          *)
RevokedIsDead ==
    \A i \in Intents : revoked[i] = "yes" =>
        \/ Expired(i, now)
        \/ Exists(i) /\ orders[i].cancelled /\ ~FullyFilled(i, orders[i].fill)

(* The account still holds what its creator paid. *)
RentIsThere == \A i \in Intents : Exists(i) => lamports[i] >= paid[i]

IInv == TypeOK /\ FillsWithinLimits /\ CreationsCover /\ RevokedIsDead /\ RentIsThere

(* In IInv no order has given more than sell_amount. *)
LEMMA IInvBoundsSell ==
    ASSUME IInv, NEW i \in Intents, Exists(i)
    PROVE  orders[i] \in OrderAccount /\ orders[i].fill.withdrawn <= i.sell_amount
<1>1. orders[i] \in OrderAccount
  BY DEF IInv, TypeOK, Exists
<1>2. orders[i].fill \in FillAmounts
  BY <1>1 DEF OrderAccount
<1>3. QED
  BY <1>1, <1>2, SellIsBounded DEF IInv, FillsWithinLimits

LEMMA InitEstablishes == Init => IInv
  <1> SUFFICES ASSUME Init PROVE IInv
    OBVIOUS
  <1> USE OrdersAssumption DEF Init
  <1>1. TypeOK
    BY DEF TypeOK
  <1>2. FillsWithinLimits /\ RevokedIsDead /\ RentIsThere
    BY DEF FillsWithinLimits, RevokedIsDead, RentIsThere, Exists
  <1>3. CreationsCover
    BY IntentFields DEF CreationsCover, Exists
  <1>4. QED
    BY <1>1, <1>2, <1>3 DEF IInv
-----------------------------------------------------------------------------
(* Creating an order account, open or cancelled: the part both creation    *)
(* instructions and the cancellation of a new order share.                 *)
LEMMA NewOrder ==
    ASSUME IInv, NEW i \in Intents, NEW owner, NEW c \in Users, NEW cancelled \in BOOLEAN,
           ProcessNewOnchainOrder(i, owner, c, cancelled)
    PROVE  /\ orders' \in [Intents -> OrderAccount \cup {NoOrder}]
           /\ lamports' \in [Intents -> Nat]
           /\ wallet' \in [Users -> Nat]
           /\ paid' \in [Intents -> Nat]
           /\ FillsWithinLimits'
           /\ RentIsThere'
           /\ ~Exists(i)
           /\ orders'[i].cancelled = cancelled
           /\ orders'[i].fill = NoFill
           /\ orders'[i] # NoOrder
           /\ \A j \in Intents \ {i} : orders'[j] = orders[j]
<1> USE OrdersAssumption, U64MaxAssumption
<1> DEFINE new == [cancelled |-> cancelled, fill |-> NoFill, created_by |-> c]
<1>1. new \in OrderAccount /\ NoFill \in FillAmounts
  BY DEF OrderAccount, NoFill, FillAmounts, Amount
<1>2. /\ orders \in [Intents -> OrderAccount \cup {NoOrder}]
      /\ lamports \in [Intents -> Nat] /\ wallet \in [Users -> Nat] /\ paid \in [Intents -> Nat]
  BY DEF IInv, TypeOK
<1>3. /\ orders' = [orders EXCEPT ![i] = new]
      /\ ~Exists(i) /\ CheckBytes(i)
      /\ wallet[c] >= Shortfall(i)
      /\ wallet' = [wallet EXCEPT ![c] = @ - Shortfall(i)]
      /\ lamports' = [lamports EXCEPT ![i] = @ + Shortfall(i)]
      /\ paid' = [paid EXCEPT ![i] = Shortfall(i)]
  BY DEF ProcessNewOnchainOrder, CreateNew
<1>4. Shortfall(i) \in Nat
  BY <1>2 DEF Shortfall
<1>5. orders' \in [Intents -> OrderAccount \cup {NoOrder}]
  BY <1>1, <1>2, <1>3
<1>6. lamports' \in [Intents -> Nat] /\ wallet' \in [Users -> Nat] /\ paid' \in [Intents -> Nat]
  BY <1>2, <1>3, <1>4
<1>7. orders'[i] = new /\ new # NoOrder /\ \A j \in Intents \ {i} : orders'[j] = orders[j]
  BY <1>1, <1>2, <1>3
<1>8. Filled(i, NoFill) = 0 /\ OrderAmount(i) \in Nat
  BY IntentFields DEF Filled, OrderAmount, NoFill
<1>9. ValidateLimitPrice(i, NoFill)
  BY IntentFields DEF ValidateLimitPrice, NoFill
<1>10. FillsWithinLimits'
  <2> SUFFICES ASSUME NEW j \in Intents, orders'[j] # NoOrder
               PROVE  /\ CheckBytes(j)
                      /\ Filled(j, orders'[j].fill) <= OrderAmount(j)
                      /\ ValidateLimitPrice(j, orders'[j].fill)
    BY DEF FillsWithinLimits, Exists
  <2>1. CASE j = i
    BY <1>3, <1>7, <1>8, <1>9, <2>1
  <2>2. CASE j # i
    BY <1>7, <2>2 DEF IInv, FillsWithinLimits, Exists
  <2>3. QED
    BY <2>1, <2>2
<1>11. RentIsThere'
  <2> SUFFICES ASSUME NEW j \in Intents, orders'[j] # NoOrder
               PROVE  lamports'[j] >= paid'[j]
    BY DEF RentIsThere, Exists
  <2>1. CASE j = i
    BY <1>2, <1>3, <1>4, <2>1
  <2>2. CASE j # i
    BY <1>2, <1>3, <1>7, <2>2 DEF IInv, RentIsThere, Exists
  <2>3. QED
    BY <2>1, <2>2
<1>12. QED
  BY <1>3, <1>5, <1>6, <1>7, <1>10, <1>11

(* Submitting a signed creation: CreateOrder, CreateSettlementOwnedOrder. *)
LEMMA CreationStep ==
    ASSUME IInv, NEW p \in permits, NEW owner, SubmitCreation(p, owner)
    PROVE  IInv'
<1> USE OrdersAssumption
<1> DEFINE i == p.intent
<1>1. i \in Intents /\ p.created_by \in Users
  BY DEF IInv, TypeOK, Permit
<1>2. /\ ProcessNewOnchainOrder(i, owner, p.created_by, FALSE)
      /\ opened[i] < MaxOpened
      /\ opened' = [opened EXCEPT ![i] = @ + 1]
      /\ permits' = permits \ {p}
      /\ UNCHANGED <<now, authority, pulled, revoked>>
  BY DEF SubmitCreation
<1> HIDE DEF i
<1>3. /\ orders' \in [Intents -> OrderAccount \cup {NoOrder}]
      /\ lamports' \in [Intents -> Nat] /\ wallet' \in [Users -> Nat] /\ paid' \in [Intents -> Nat]
      /\ FillsWithinLimits' /\ RentIsThere' /\ ~Exists(i)
      /\ orders'[i].cancelled = FALSE /\ orders'[i].fill = NoFill /\ orders'[i] # NoOrder
      /\ \A j \in Intents \ {i} : orders'[j] = orders[j]
  BY <1>1, <1>2, NewOrder
<1>4. TypeOK'
  <2>1. opened' \in [Intents -> 0..MaxOpened]
    <3>1. opened \in [Intents -> 0..MaxOpened]
      BY DEF IInv, TypeOK
    <3>2. opened[i] + 1 \in 0..MaxOpened
      BY <1>1, <1>2, <3>1
    <3>3. QED
      BY <1>2, <3>1, <3>2
  <2>2. permits' \subseteq Permit /\ now' \in 0..MaxTime /\ authority' \in Users
    BY <1>2 DEF IInv, TypeOK
  <2>3. pulled' \in [Intents -> Nat] /\ revoked' \in [Intents -> {"no", "yes", "filled"}]
    BY <1>2 DEF IInv, TypeOK
  <2>4. QED
    BY <1>3, <2>1, <2>2, <2>3 DEF TypeOK
<1>5. CreationsCover'
  <2> SUFFICES ASSUME NEW j \in Intents
               PROVE  IF orders'[j] # NoOrder /\ ~orders'[j].cancelled
                      THEN pulled'[j] + j.sell_amount
                             <= j.sell_amount * opened'[j] + orders'[j].fill.withdrawn
                      ELSE pulled'[j] <= j.sell_amount * opened'[j]
    BY DEF CreationsCover, Exists
  <2>1. CASE j = i
    <3>1. pulled[i] <= i.sell_amount * opened[i]
      BY <1>1, <1>3 DEF IInv, CreationsCover
    <3>2. opened'[i] = opened[i] + 1 /\ opened[i] \in Nat /\ pulled[i] \in Nat
      BY <1>1, <1>2 DEF IInv, TypeOK
    <3>3. i.sell_amount * (opened[i] + 1) = i.sell_amount * opened[i] + i.sell_amount * 1
      BY <1>1, <3>2, IntentFields, Distribute
    <3>4. i.sell_amount * opened[i] \in Nat /\ i.sell_amount \in Nat
      BY <1>1, <3>2, IntentFields, ProductIsNat
    <3>5. orders'[i].fill.withdrawn = 0
      BY <1>3 DEF NoFill
    <3>6. QED
      BY <1>2, <1>3, <2>1, <3>1, <3>2, <3>3, <3>4, <3>5
  <2>2. CASE j # i
    BY <1>1, <1>2, <1>3, <2>2 DEF IInv, TypeOK, CreationsCover, Exists
  <2>3. QED
    BY <2>1, <2>2
<1>6. RevokedIsDead'
  <2> SUFFICES ASSUME NEW j \in Intents, revoked'[j] = "yes"
               PROVE  \/ Expired(j, now')
                      \/ /\ orders'[j] # NoOrder /\ orders'[j].cancelled
                         /\ ~FullyFilled(j, orders'[j].fill)
    BY DEF RevokedIsDead, Exists
  <2>1. Expired(j, now) \/ (Exists(j) /\ orders[j].cancelled /\ ~FullyFilled(j, orders[j].fill))
    BY <1>2 DEF IInv, RevokedIsDead
  <2>2. CASE j = i
    BY <1>2, <1>3, <2>1, <2>2
  <2>3. CASE j # i
    BY <1>2, <1>3, <2>1, <2>3 DEF Exists
  <2>4. QED
    BY <2>2, <2>3
<1>7. QED
  BY <1>3, <1>4, <1>5, <1>6 DEF IInv

(* A step that touches no order account, fill or creation. *)
LEMMA Frame ==
    ASSUME IInv, UNCHANGED <<orders, opened, pulled>>
    PROVE  FillsWithinLimits' /\ CreationsCover'
  BY DEF IInv, FillsWithinLimits, CreationsCover, Exists

(* The types of a state whose accounts and history changed as given. *)
LEMMA KeepsTypes ==
    ASSUME IInv,
           orders' \in [Intents -> OrderAccount \cup {NoOrder}],
           lamports' \in [Intents -> Nat], wallet' \in [Users -> Nat],
           pulled' \in [Intents -> Nat], paid' \in [Intents -> Nat],
           revoked' \in [Intents -> {"no", "yes", "filled"}],
           UNCHANGED <<now, authority, permits, opened>>
    PROVE  TypeOK'
  BY DEF IInv, TypeOK

LEMMA SignCreationStep ==
    ASSUME IInv, NEW u \in Users, NEW c \in Users, NEW i \in Intents, SignCreation(u, i, c)
    PROVE  IInv'
<1> USE DEF SignCreation, accountVars
<1>1. revoked' \in [Intents -> {"no", "yes", "filled"}]
  BY DEF IInv, TypeOK
<1>2. permits' \subseteq Permit
  BY DEF IInv, TypeOK, Permit
<1>3. TypeOK'
  BY <1>1, <1>2 DEF IInv, TypeOK
<1>4. \A j \in Intents : revoked'[j] = "yes" => revoked[j] = "yes"
  BY DEF IInv, TypeOK
<1>5. RevokedIsDead'
  BY <1>4 DEF IInv, RevokedIsDead, Exists
<1>6. RentIsThere'
  BY DEF IInv, RentIsThere, Exists
<1>7. QED
  BY <1>3, <1>5, <1>6, Frame DEF IInv

LEMMA CancelOrderStep ==
    ASSUME IInv, NEW u \in Users, NEW i \in Intents, CancelOrder(u, i)
    PROVE  IInv'
<1> USE OrdersAssumption
<1>1. /\ Exists(i)
      /\ orders' = [orders EXCEPT ![i].cancelled = TRUE]
      /\ revoked' = [revoked EXCEPT
                       ![i] = IF FullyFilled(i, orders[i].fill) THEN "filled" ELSE "yes"]
      /\ UNCHANGED <<lamports, wallet, now, authority, permits, opened, pulled, paid>>
  BY DEF CancelOrder
<1>2. orders[i] \in OrderAccount /\ orders[i].fill.withdrawn <= i.sell_amount
  BY <1>1, IInvBoundsSell
<1>3. /\ orders'[i] = [orders[i] EXCEPT !.cancelled = TRUE]
      /\ \A j \in Intents \ {i} : orders'[j] = orders[j]
      /\ orders \in [Intents -> OrderAccount \cup {NoOrder}]
  BY <1>1 DEF IInv, TypeOK
<1>4. /\ orders'[i] \in OrderAccount /\ orders'[i].cancelled
      /\ orders'[i].fill = orders[i].fill
  BY <1>2, <1>3 DEF OrderAccount
<1>5. TypeOK'
  <2>1. orders' \in [Intents -> OrderAccount \cup {NoOrder}]
    BY <1>1, <1>3, <1>4
  <2>2. revoked' \in [Intents -> {"no", "yes", "filled"}]
    BY <1>1 DEF IInv, TypeOK
  <2>3. lamports' \in [Intents -> Nat] /\ wallet' \in [Users -> Nat]
        /\ pulled' \in [Intents -> Nat] /\ paid' \in [Intents -> Nat]
    BY <1>1 DEF IInv, TypeOK
  <2>4. QED
    BY <1>1, <2>1, <2>2, <2>3, KeepsTypes
<1>6. \A j \in Intents : orders'[j] # NoOrder => Exists(j) /\ orders'[j].fill = orders[j].fill
  BY <1>1, <1>3, <1>4 DEF Exists
<1>7. FillsWithinLimits' /\ RentIsThere'
  BY <1>1, <1>6 DEF IInv, FillsWithinLimits, RentIsThere, Exists
<1>8. CreationsCover'
  <2> SUFFICES ASSUME NEW j \in Intents
               PROVE  IF orders'[j] # NoOrder /\ ~orders'[j].cancelled
                      THEN pulled'[j] + j.sell_amount
                             <= j.sell_amount * opened'[j] + orders'[j].fill.withdrawn
                      ELSE pulled'[j] <= j.sell_amount * opened'[j]
    BY DEF CreationsCover, Exists
  <2>1. CASE j = i
    <3>1. IF ~orders[i].cancelled
          THEN pulled[i] + i.sell_amount <= i.sell_amount * opened[i] + orders[i].fill.withdrawn
          ELSE pulled[i] <= i.sell_amount * opened[i]
      BY <1>1 DEF IInv, CreationsCover
    <3>2. pulled[i] \in Nat /\ opened[i] \in Nat /\ i.sell_amount \in Nat
      BY IntentFields DEF IInv, TypeOK
    <3>3. orders[i].fill.withdrawn \in Nat
      BY <1>2, U64MaxAssumption DEF OrderAccount, FillAmounts, Amount
    <3>4. i.sell_amount * opened[i] \in Nat
      BY <3>2, ProductIsNat
    <3>5. pulled[i] <= i.sell_amount * opened[i]
      BY <1>2, <3>1, <3>2, <3>3, <3>4
    <3>6. QED
      BY <1>1, <1>4, <2>1, <3>5
  <2>2. CASE j # i
    BY <1>1, <1>3, <2>2 DEF IInv, CreationsCover, Exists
  <2>3. QED
    BY <2>1, <2>2
<1>9. RevokedIsDead'
  <2> SUFFICES ASSUME NEW j \in Intents, revoked'[j] = "yes"
               PROVE  \/ Expired(j, now')
                      \/ /\ orders'[j] # NoOrder /\ orders'[j].cancelled
                         /\ ~FullyFilled(j, orders'[j].fill)
    BY DEF RevokedIsDead, Exists
  <2>1. CASE j = i
    <3>1. ~FullyFilled(i, orders[i].fill)
      BY <1>1, <2>1 DEF IInv, TypeOK
    <3>2. QED
      BY <1>4, <2>1, <3>1
  <2>2. CASE j # i
    <3>1. revoked[j] = "yes"
      BY <1>1, <2>2 DEF IInv, TypeOK
    <3>2. QED
      BY <1>1, <1>3, <2>2, <3>1 DEF IInv, RevokedIsDead, Exists
  <2>3. QED
    BY <2>1, <2>2
<1>10. QED
  BY <1>5, <1>7, <1>8, <1>9 DEF IInv

LEMMA CancelNewOrderStep ==
    ASSUME IInv, NEW u \in Users, NEW c \in Users, NEW i \in Intents, CancelNewOrder(u, i, c)
    PROVE  IInv'
<1> USE OrdersAssumption
<1> DEFINE owner == IF i.owner = StatePda THEN StatePda ELSE u
<1>1. /\ ProcessNewOnchainOrder(i, owner, c, TRUE)
      /\ revoked' = [revoked EXCEPT ![i] = "yes"]
      /\ UNCHANGED <<now, authority, permits, opened, pulled>>
  BY DEF CancelNewOrder
<1> HIDE DEF owner
<1>2. /\ orders' \in [Intents -> OrderAccount \cup {NoOrder}]
      /\ lamports' \in [Intents -> Nat] /\ wallet' \in [Users -> Nat] /\ paid' \in [Intents -> Nat]
      /\ FillsWithinLimits' /\ RentIsThere' /\ ~Exists(i)
      /\ orders'[i].cancelled = TRUE /\ orders'[i].fill = NoFill /\ orders'[i] # NoOrder
      /\ \A j \in Intents \ {i} : orders'[j] = orders[j]
  BY <1>1, NewOrder
<1>3. TypeOK'
  <2>1. pulled' \in [Intents -> Nat] /\ revoked' \in [Intents -> {"no", "yes", "filled"}]
    BY <1>1 DEF IInv, TypeOK
  <2>2. QED
    BY <1>1, <1>2, <2>1, KeepsTypes
<1>4. CreationsCover'
  <2> SUFFICES ASSUME NEW j \in Intents
               PROVE  IF orders'[j] # NoOrder /\ ~orders'[j].cancelled
                      THEN pulled'[j] + j.sell_amount
                             <= j.sell_amount * opened'[j] + orders'[j].fill.withdrawn
                      ELSE pulled'[j] <= j.sell_amount * opened'[j]
    BY DEF CreationsCover, Exists
  <2>1. CASE j = i
    BY <1>1, <1>2, <2>1 DEF IInv, CreationsCover
  <2>2. CASE j # i
    BY <1>1, <1>2, <2>2 DEF IInv, CreationsCover, Exists
  <2>3. QED
    BY <2>1, <2>2
<1>5. ~FullyFilled(i, NoFill)
  BY <1>1, IntentFields
  DEF ProcessNewOnchainOrder, CheckBytes, FullyFilled, Filled, OrderAmount, NoFill
<1>6. RevokedIsDead'
  <2> SUFFICES ASSUME NEW j \in Intents, revoked'[j] = "yes"
               PROVE  \/ Expired(j, now')
                      \/ /\ orders'[j] # NoOrder /\ orders'[j].cancelled
                         /\ ~FullyFilled(j, orders'[j].fill)
    BY DEF RevokedIsDead, Exists
  <2>1. CASE j = i
    BY <1>2, <1>5, <2>1
  <2>2. CASE j # i
    <3>1. revoked[j] = "yes"
      BY <1>1, <2>2 DEF IInv, TypeOK
    <3>2. QED
      BY <1>1, <1>2, <2>2, <3>1 DEF IInv, RevokedIsDead, Exists
  <2>3. QED
    BY <2>1, <2>2
<1>7. QED
  BY <1>2, <1>3, <1>4, <1>6 DEF IInv

(* Settling orders: each new total is within the order by                  *)
(* ProcessOrderKeepsLimits, and what is pulled is what the fill grows by.  *)
LEMMA SettleOrdersStep ==
    ASSUME IInv, NEW S \in SUBSET Intents, NEW settled \in [S -> FillAmounts],
           SettleOrders(S, settled)
    PROVE  IInv'
<1> USE OrdersAssumption, U64MaxAssumption
<1> DEFINE total(i) == AddFills(orders[i].fill, settled[i])
<1>1. /\ \A i \in S : ProcessOrder(i, settled[i])
      /\ orders' = [i \in Intents |->
                      IF i \in S THEN [orders[i] EXCEPT !.fill = total(i)] ELSE orders[i]]
      /\ pulled' = [i \in Intents |->
                      IF i \in S THEN pulled[i] + settled[i].withdrawn ELSE pulled[i]]
      /\ UNCHANGED <<lamports, wallet, now, authority, permits, opened, paid, revoked>>
  BY DEF SettleOrders
<1>2. ASSUME NEW i \in S
      PROVE  /\ orders[i] \in OrderAccount /\ orders[i].fill \in FillAmounts
             /\ CheckBytes(i)
             /\ total(i) \in FillAmounts
             /\ Filled(i, total(i)) <= OrderAmount(i)
             /\ ValidateLimitPrice(i, total(i))
  <2>1. orders[i] \in OrderAccount
    BY <1>1 DEF IInv, TypeOK, ProcessOrder, Exists
  <2>2. orders[i].fill \in FillAmounts
    BY <2>1 DEF OrderAccount
  <2>3. CheckBytes(i) /\ ValidateLimitPrice(i, orders[i].fill)
    BY <1>1 DEF IInv, FillsWithinLimits, ProcessOrder
  <2>4. ValidateLimitPrice(i, settled[i]) /\ ValidatedFinalAmounts(i, orders[i].fill, settled[i])
    BY <1>1 DEF ProcessOrder
  <2>5. i \in Intents /\ settled[i] \in FillAmounts
    OBVIOUS
  <2>6. QED
    BY <2>1, <2>2, <2>3, <2>4, <2>5, ProcessOrderKeepsLimits
<1>3. ASSUME NEW i \in S
      PROVE  /\ orders'[i] \in OrderAccount /\ orders'[i].fill = total(i)
             /\ orders'[i].cancelled = orders[i].cancelled
             /\ orders'[i].fill.withdrawn = orders[i].fill.withdrawn + settled[i].withdrawn
             /\ pulled'[i] = pulled[i] + settled[i].withdrawn
  <2>1. orders'[i] = [orders[i] EXCEPT !.fill = total(i)]
    BY <1>1
  <2>2. orders[i] \in OrderAccount /\ total(i) \in FillAmounts
    BY <1>2
  <2> HIDE DEF total
  <2>3. /\ orders'[i] \in OrderAccount /\ orders'[i].fill = total(i)
        /\ orders'[i].cancelled = orders[i].cancelled
    BY <2>1, <2>2 DEF OrderAccount
  <2>4. total(i).withdrawn = orders[i].fill.withdrawn + settled[i].withdrawn
    BY DEF total, AddFills
  <2>5. QED
    BY <1>1, <2>3, <2>4
<1>4. \A j \in Intents \ S : orders'[j] = orders[j] /\ pulled'[j] = pulled[j]
  BY <1>1
<1> HIDE DEF total
<1>5. TypeOK'
  <2>1. orders' \in [Intents -> OrderAccount \cup {NoOrder}]
    <3>1. \A j \in Intents : orders'[j] \in OrderAccount \cup {NoOrder}
      BY <1>3, <1>4 DEF IInv, TypeOK
    <3>2. QED
      BY <1>1, <3>1
  <2>2. pulled' \in [Intents -> Nat]
    <3>1. \A j \in S : settled[j].withdrawn \in Nat
      BY DEF FillAmounts, Amount
    <3>2. QED
      BY <1>1, <3>1 DEF IInv, TypeOK
  <2>3. /\ lamports' \in [Intents -> Nat] /\ wallet' \in [Users -> Nat] /\ paid' \in [Intents -> Nat]
        /\ revoked' \in [Intents -> {"no", "yes", "filled"}]
    BY <1>1 DEF IInv, TypeOK
  <2>4. QED
    BY <1>1, <2>1, <2>2, <2>3, KeepsTypes
<1>6. FillsWithinLimits'
  <2> SUFFICES ASSUME NEW j \in Intents, orders'[j] # NoOrder
               PROVE  /\ CheckBytes(j)
                      /\ Filled(j, orders'[j].fill) <= OrderAmount(j)
                      /\ ValidateLimitPrice(j, orders'[j].fill)
    BY DEF FillsWithinLimits, Exists
  <2>1. CASE j \in S
    BY <1>2, <1>3, <2>1
  <2>2. CASE j \notin S
    BY <1>4, <2>2 DEF IInv, FillsWithinLimits, Exists
  <2>3. QED
    BY <2>1, <2>2
<1>7. CreationsCover'
  <2> SUFFICES ASSUME NEW j \in Intents
               PROVE  IF orders'[j] # NoOrder /\ ~orders'[j].cancelled
                      THEN pulled'[j] + j.sell_amount
                             <= j.sell_amount * opened'[j] + orders'[j].fill.withdrawn
                      ELSE pulled'[j] <= j.sell_amount * opened'[j]
    BY DEF CreationsCover, Exists
  <2>1. CASE j \in S
    <3>1. Exists(j) /\ ~orders[j].cancelled
      BY <1>1, <2>1 DEF ProcessOrder
    <3>2. pulled[j] + j.sell_amount <= j.sell_amount * opened[j] + orders[j].fill.withdrawn
      BY <3>1 DEF IInv, CreationsCover
    <3>3. pulled[j] \in Nat /\ opened[j] \in Nat /\ j.sell_amount \in Nat
      BY IntentFields DEF IInv, TypeOK
    <3>4. orders[j].fill.withdrawn \in Nat /\ settled[j].withdrawn \in Nat
      BY <1>2, <2>1 DEF FillAmounts, Amount
    <3>5. j.sell_amount * opened[j] \in Nat
      BY <3>3, ProductIsNat
    <3>6. /\ pulled'[j] = pulled[j] + settled[j].withdrawn /\ opened'[j] = opened[j]
          /\ orders'[j].fill.withdrawn = orders[j].fill.withdrawn + settled[j].withdrawn
          /\ orders'[j] # NoOrder /\ ~orders'[j].cancelled
      BY <1>1, <1>3, <2>1, <3>1
    <3>7. QED
      BY <3>2, <3>3, <3>4, <3>5, <3>6
  <2>2. CASE j \notin S
    BY <1>1, <1>4, <2>2 DEF IInv, CreationsCover, Exists
  <2>3. QED
    BY <2>1, <2>2
<1>8. RevokedIsDead'
  <2> SUFFICES ASSUME NEW j \in Intents, revoked'[j] = "yes"
               PROVE  \/ Expired(j, now')
                      \/ /\ orders'[j] # NoOrder /\ orders'[j].cancelled
                         /\ ~FullyFilled(j, orders'[j].fill)
    BY DEF RevokedIsDead, Exists
  <2>1. Expired(j, now) \/ (Exists(j) /\ orders[j].cancelled /\ ~FullyFilled(j, orders[j].fill))
    BY <1>1 DEF IInv, RevokedIsDead
  <2>2. CASE j \in S
    BY <1>1, <2>1, <2>2 DEF ProcessOrder
  <2>3. CASE j \notin S
    BY <1>1, <1>4, <2>1, <2>3 DEF Exists
  <2>4. QED
    BY <2>2, <2>3
<1>9. RentIsThere'
  <2>1. \A j \in Intents : orders'[j] # NoOrder => Exists(j)
    BY <1>1, <1>4 DEF ProcessOrder, Exists
  <2>2. QED
    BY <1>1, <2>1 DEF IInv, RentIsThere, Exists
<1>10. QED
  BY <1>5, <1>6, <1>7, <1>8, <1>9 DEF IInv

(* Closing an account: a revoked order that is not past its time is        *)
(* cancelled and not completely filled, so its owner signed.               *)
LEMMA ReclaimOrderStep ==
    ASSUME IInv, NEW s, NEW r \in Users, NEW i \in Intents, ReclaimOrder(s, r, i)
    PROVE  IInv'
<1> USE OrdersAssumption
<1>1. /\ Exists(i) /\ IsReclaimable(s, i)
      /\ wallet' = [wallet EXCEPT ![r] = @ + lamports[i]]
      /\ lamports' = [lamports EXCEPT ![i] = 0]
      /\ orders' = [orders EXCEPT ![i] = NoOrder]
      /\ revoked' = [revoked EXCEPT ![i] = IF s = i.owner THEN "no" ELSE @]
      /\ UNCHANGED <<now, authority, permits, opened, pulled, paid>>
  BY DEF ReclaimOrder
<1>2. /\ orders'[i] = NoOrder
      /\ \A j \in Intents \ {i} : orders'[j] = orders[j] /\ lamports'[j] = lamports[j]
  BY <1>1 DEF IInv, TypeOK
<1>3. TypeOK'
  <2>1. /\ orders' \in [Intents -> OrderAccount \cup {NoOrder}] /\ lamports' \in [Intents -> Nat]
        /\ revoked' \in [Intents -> {"no", "yes", "filled"}]
    BY <1>1 DEF IInv, TypeOK
  <2>2. wallet' \in [Users -> Nat] /\ pulled' \in [Intents -> Nat] /\ paid' \in [Intents -> Nat]
    BY <1>1 DEF IInv, TypeOK
  <2>3. QED
    BY <1>1, <2>1, <2>2, KeepsTypes
<1>4. FillsWithinLimits' /\ RentIsThere'
  BY <1>1, <1>2 DEF IInv, FillsWithinLimits, RentIsThere, Exists
<1>5. CreationsCover'
  <2> SUFFICES ASSUME NEW j \in Intents
               PROVE  IF orders'[j] # NoOrder /\ ~orders'[j].cancelled
                      THEN pulled'[j] + j.sell_amount
                             <= j.sell_amount * opened'[j] + orders'[j].fill.withdrawn
                      ELSE pulled'[j] <= j.sell_amount * opened'[j]
    BY DEF CreationsCover, Exists
  <2>1. CASE j = i
    <3>1. IF ~orders[i].cancelled
          THEN pulled[i] + i.sell_amount <= i.sell_amount * opened[i] + orders[i].fill.withdrawn
          ELSE pulled[i] <= i.sell_amount * opened[i]
      BY <1>1 DEF IInv, CreationsCover
    <3>2. orders[i] \in OrderAccount /\ orders[i].fill.withdrawn <= i.sell_amount
      BY <1>1, IInvBoundsSell
    <3>3. pulled[i] \in Nat /\ opened[i] \in Nat /\ i.sell_amount \in Nat
      BY IntentFields DEF IInv, TypeOK
    <3>4. orders[i].fill.withdrawn \in Nat
      BY <3>2, U64MaxAssumption DEF OrderAccount, FillAmounts, Amount
    <3>5. i.sell_amount * opened[i] \in Nat
      BY <3>3, ProductIsNat
    <3>6. pulled[i] <= i.sell_amount * opened[i]
      BY <3>1, <3>2, <3>3, <3>4, <3>5
    <3>7. QED
      BY <1>1, <1>2, <2>1, <3>6
  <2>2. CASE j # i
    BY <1>1, <1>2, <2>2 DEF IInv, CreationsCover, Exists
  <2>3. QED
    BY <2>1, <2>2
<1>6. RevokedIsDead'
  <2> SUFFICES ASSUME NEW j \in Intents, revoked'[j] = "yes"
               PROVE  \/ Expired(j, now')
                      \/ /\ orders'[j] # NoOrder /\ orders'[j].cancelled
                         /\ ~FullyFilled(j, orders'[j].fill)
    BY DEF RevokedIsDead, Exists
  <2>1. revoked[j] = "yes" /\ (j = i => s # i.owner)
    BY <1>1 DEF IInv, TypeOK
  <2>2. Expired(j, now) \/ (Exists(j) /\ orders[j].cancelled /\ ~FullyFilled(j, orders[j].fill))
    BY <2>1 DEF IInv, RevokedIsDead
  <2>3. CASE j = i
    BY <1>1, <2>1, <2>2, <2>3 DEF IsReclaimable
  <2>4. CASE j # i
    BY <1>1, <1>2, <2>2, <2>4 DEF Exists
  <2>5. QED
    BY <2>3, <2>4
<1>7. QED
  BY <1>3, <1>4, <1>5, <1>6 DEF IInv

LEMMA DonateStep ==
    ASSUME IInv, NEW u \in Users, NEW i \in Intents, Donate(u, i)
    PROVE  IInv'
<1> USE DEF Donate, historyVars
<1>1. /\ lamports \in [Intents -> Nat] /\ wallet \in [Users -> Nat] /\ paid \in [Intents -> Nat]
  BY DEF IInv, TypeOK
<1>2. lamports' \in [Intents -> Nat] /\ wallet' \in [Users -> Nat]
  BY <1>1
<1>3. TypeOK'
  BY <1>2, KeepsTypes DEF IInv, TypeOK
<1>4. \A j \in Intents : lamports'[j] >= lamports[j]
  BY <1>1
<1>5. RentIsThere'
  BY <1>1, <1>2, <1>4 DEF IInv, RentIsThere, Exists
<1>6. RevokedIsDead'
  BY DEF IInv, RevokedIsDead, Exists
<1>7. QED
  BY <1>3, <1>5, <1>6, Frame DEF IInv

LEMMA TransferAuthorityStep ==
    ASSUME IInv, NEW u \in Users, TransferAuthority(u)
    PROVE  IInv'
<1> USE DEF TransferAuthority, accountVars, historyVars
<1>1. TypeOK' /\ RentIsThere' /\ RevokedIsDead'
  BY DEF IInv, TypeOK, RentIsThere, RevokedIsDead, Exists
<1>2. QED
  BY <1>1, Frame DEF IInv

LEMMA TickStep ==
    ASSUME IInv, Tick
    PROVE  IInv'
<1> USE OrdersAssumption DEF Tick, accountVars, historyVars
<1>1. now \in Nat /\ now' \in 0..MaxTime
  BY DEF IInv, TypeOK
<1>2. TypeOK'
  BY <1>1 DEF IInv, TypeOK
<1>3. \A j \in Intents : Expired(j, now) => Expired(j, now')
  BY <1>1, IntentFields DEF Expired
<1>4. RevokedIsDead'
  BY <1>3 DEF IInv, RevokedIsDead, Exists
<1>5. RentIsThere'
  BY DEF IInv, RentIsThere, Exists
<1>6. QED
  BY <1>2, <1>4, <1>5, Frame DEF IInv

LEMMA NextKeepsIInv == IInv /\ [Next]_vars => IInv'
<1> SUFFICES ASSUME IInv, [Next]_vars PROVE IInv'
  OBVIOUS
<1>1. ASSUME NEW u \in Users, NEW c \in Users, NEW i \in Intents, SignCreation(u, i, c)
      PROVE  IInv'
  BY <1>1, SignCreationStep
<1>2. ASSUME NEW p \in permits, CreateOrder(p) \/ CreateSettlementOwnedOrder(p)
      PROVE  IInv'
  BY <1>2, CreationStep DEF CreateOrder, CreateSettlementOwnedOrder
<1>3. ASSUME NEW u \in Users, NEW i \in Intents, CancelOrder(u, i)
      PROVE  IInv'
  BY <1>3, CancelOrderStep
<1>4. ASSUME NEW u \in Users, NEW c \in Users, NEW i \in Intents, CancelNewOrder(u, i, c)
      PROVE  IInv'
  BY <1>4, CancelNewOrderStep
<1>5. ASSUME NEW S \in SUBSET {i \in Intents : Exists(i)}, NEW settled \in [S -> FillAmounts],
             SettleOrders(S, settled)
      PROVE  IInv'
  BY <1>5, SettleOrdersStep
<1>6. ASSUME NEW s \in Users \cup {NoSigner}, NEW r \in Users, NEW i \in Intents,
             ReclaimOrder(s, r, i)
      PROVE  IInv'
  BY <1>6, ReclaimOrderStep
<1>7. ASSUME NEW u \in Users, NEW i \in Intents, Donate(u, i)
      PROVE  IInv'
  BY <1>7, DonateStep
<1>8. ASSUME NEW u \in Users, TransferAuthority(u)
      PROVE  IInv'
  BY <1>8, TransferAuthorityStep
<1>9. ASSUME Tick PROVE IInv'
  BY <1>9, TickStep
<1>10. ASSUME UNCHANGED vars PROVE IInv'
  BY <1>10 DEF vars, accountVars, historyVars, IInv, TypeOK, FillsWithinLimits, CreationsCover,
               RevokedIsDead, RentIsThere, Exists
<1>11. QED
  BY <1>1, <1>2, <1>3, <1>4, <1>5, <1>6, <1>7, <1>8, <1>9, <1>10 DEF Next

LEMMA Inductive == Spec => []IInv
  BY InitEstablishes, NextKeepsIInv, PTL DEF Spec
-----------------------------------------------------------------------------
(* The accounts keep their types; in particular no fill leaves its u64     *)
(* fields, whatever totals settlements ask for (order.rs, set_amounts).    *)
THEOREM TypesAreKept == Spec => []TypeOK
<1>1. IInv => TypeOK
  BY DEF IInv
<1>2. QED
  BY <1>1, Inductive, PTL

(* No sequence of settlements, partial or not, takes more than sell_amount *)
(* from an order or leaves it below its limit price on average             *)
(* (process_order's per-settlement checks are enough).                     *)
THEOREM OrdersKeepTheirPrice == Spec => []UserNeverOverpays
<1>1. IInv => UserNeverOverpays
  BY IInvBoundsSell DEF IInv, FillsWithinLimits, UserNeverOverpays
<1>2. QED
  BY <1>1, Inductive, PTL

(* Reclaiming and creating an order again never sells more than sell_amount *)
(* for each creation the owner signed (process_new_onchain_order).          *)
THEOREM OneSellPerCreation == Spec => []EachCreationSellsOnce
<1>1. IInv => EachCreationSellsOnce
  <2> SUFFICES ASSUME IInv, NEW i \in Intents
               PROVE  pulled[i] <= i.sell_amount * opened[i]
    BY DEF EachCreationSellsOnce
  <2>1. pulled[i] \in Nat /\ opened[i] \in Nat /\ i.sell_amount \in Nat
    BY IntentFields, OrdersAssumption DEF IInv, TypeOK
  <2>2. i.sell_amount * opened[i] \in Nat
    BY <2>1, ProductIsNat
  <2>3. CASE Exists(i) /\ ~orders[i].cancelled
    <3>1. pulled[i] + i.sell_amount <= i.sell_amount * opened[i] + orders[i].fill.withdrawn
      BY <2>3 DEF IInv, CreationsCover
    <3>2. orders[i] \in OrderAccount /\ orders[i].fill.withdrawn <= i.sell_amount
      BY <2>3, IInvBoundsSell
    <3>3. orders[i].fill.withdrawn \in Nat
      BY <3>2, U64MaxAssumption DEF OrderAccount, FillAmounts, Amount
    <3>4. QED
      BY <2>1, <2>2, <3>1, <3>2, <3>3
  <2>4. CASE ~(Exists(i) /\ ~orders[i].cancelled)
    BY <2>4 DEF IInv, CreationsCover
  <2>5. QED
    BY <2>3, <2>4
<1>2. QED
  BY <1>1, Inductive, PTL

(* After the owner cancelled an order that was not completely filled,      *)
(* nothing is taken under its intent until the owner acts again            *)
(* (cancel_order, is_reclaimable, process_order).                          *)
THEOREM CancelledStaysCancelled == Spec => CancellationSticks
<1> DEFINE Sticks == \A i \in Intents : revoked[i] = "yes" => pulled'[i] = pulled[i]
<1>1. IInv /\ [Next]_vars => [Sticks]_vars
  <2> SUFFICES ASSUME IInv, Next, NEW i \in Intents, revoked[i] = "yes"
               PROVE  pulled'[i] = pulled[i]
    OBVIOUS
  <2>1. CASE pulled' = pulled
    BY <2>1
  <2>2. ASSUME NEW S \in SUBSET {j \in Intents : Exists(j)}, NEW settled \in [S -> FillAmounts],
               SettleOrders(S, settled)
        PROVE  pulled'[i] = pulled[i]
    <3>1. Expired(i, now) \/ orders[i].cancelled
      BY DEF IInv, RevokedIsDead
    <3>2. i \notin S
      BY <2>2, <3>1 DEF SettleOrders, ProcessOrder
    <3>3. QED
      BY <2>2, <3>2 DEF SettleOrders
  <2>3. QED
    BY <2>1, <2>2
    DEF Next, SignCreation, CreateOrder, CreateSettlementOwnedOrder, SubmitCreation, CancelOrder,
        CancelNewOrder, ReclaimOrder, Donate, TransferAuthority, Tick, historyVars
<1>2. QED
  BY <1>1, Inductive, PTL DEF Spec, CancellationSticks

(* A settleable order is closed by nobody, keeps its creator, and its fill *)
(* never shrinks, until its time is up (is_reclaimable, process_order,     *)
(* process_new_onchain_order).                                             *)
THEOREM BookStaysSafe == Spec => BookIsSafe
<1> DEFINE Kept(i) == /\ orders'[i] # NoOrder
                      /\ orders'[i].created_by = orders[i].created_by
                      /\ Filled(i, orders'[i].fill) >= Filled(i, orders[i].fill)
           Safe == \A i \in Intents : Settleable(i) /\ ~Expired(i, now') =>
                      /\ Exists(i)'
                      /\ orders'[i].created_by = orders[i].created_by
                      /\ Filled(i, orders'[i].fill) >= Filled(i, orders[i].fill)
<1>1. IInv /\ [Next]_vars => [Safe]_vars
  <2> SUFFICES ASSUME IInv, Next, NEW i \in Intents, Settleable(i)
               PROVE  Kept(i)
    BY DEF Exists
  <2>1. /\ orders \in [Intents -> OrderAccount \cup {NoOrder}]
        /\ orders[i] # NoOrder /\ orders[i] \in OrderAccount
    BY DEF IInv, TypeOK, Settleable, Exists
  <2>2. Filled(i, orders[i].fill) \in Nat
    BY <2>1, U64MaxAssumption DEF OrderAccount, FillAmounts, Amount, Filled
  <2>3. CASE orders'[i] = orders[i]
    BY <2>1, <2>2, <2>3
  <2>4. ASSUME NEW j \in Intents, NEW o, NEW c, NEW b, ProcessNewOnchainOrder(j, o, c, b)
        PROVE  Kept(i)
    <3>1. i # j
      BY <2>1, <2>4 DEF ProcessNewOnchainOrder, CreateNew, Exists
    <3>2. orders'[i] = orders[i]
      BY <2>1, <2>4, <3>1 DEF ProcessNewOnchainOrder
    <3>3. QED
      BY <2>3, <3>2
  <2>5. ASSUME NEW u \in Users, NEW j \in Intents, CancelOrder(u, j)
        PROVE  Kept(i)
    <3>1. CASE i = j
      <4>1. orders'[i] = [orders[i] EXCEPT !.cancelled = TRUE]
        BY <2>1, <2>5, <3>1 DEF CancelOrder
      <4>2. /\ orders'[i] \in OrderAccount
            /\ orders'[i].created_by = orders[i].created_by
            /\ orders'[i].fill = orders[i].fill
        BY <2>1, <4>1 DEF OrderAccount
      <4>3. QED
        BY <2>2, <4>2, OrdersAssumption
    <3>2. CASE i # j
      BY <2>1, <2>3, <2>5, <3>2 DEF CancelOrder
    <3>3. QED
      BY <3>1, <3>2
  <2>6. ASSUME NEW S \in SUBSET {j \in Intents : Exists(j)}, NEW settled \in [S -> FillAmounts],
               SettleOrders(S, settled)
        PROVE  Kept(i)
    <3>1. CASE i \in S
      <4>1. /\ ProcessOrder(i, settled[i]) /\ settled[i] \in FillAmounts
            /\ orders'[i] = [orders[i] EXCEPT !.fill = AddFills(orders[i].fill, settled[i])]
        BY <2>6, <3>1 DEF SettleOrders
      <4>2. orders[i].fill \in FillAmounts
        BY <2>1 DEF OrderAccount
      <4>3. AddFills(orders[i].fill, settled[i]) \in FillAmounts
        BY <2>1, <4>1, <4>2, ProcessOrderKeepsLimits
        DEF IInv, FillsWithinLimits, ProcessOrder, Exists
      <4>4. /\ orders'[i] \in OrderAccount
            /\ orders'[i].created_by = orders[i].created_by
            /\ orders'[i].fill = AddFills(orders[i].fill, settled[i])
        BY <2>1, <4>1, <4>3 DEF OrderAccount
      <4>5. Filled(i, AddFills(orders[i].fill, settled[i])) >= Filled(i, orders[i].fill)
        BY <4>1, <4>2, U64MaxAssumption DEF FillAmounts, Amount, Filled, AddFills
      <4>6. QED
        BY <4>4, <4>5, OrdersAssumption
    <3>2. CASE i \notin S
      BY <2>3, <2>6, <3>2 DEF SettleOrders
    <3>3. QED
      BY <3>1, <3>2
  <2>7. ASSUME NEW s \in Users \cup {NoSigner}, NEW r \in Users, NEW j \in Intents,
               ReclaimOrder(s, r, j)
        PROVE  Kept(i)
    <3>1. i # j
      BY <2>7 DEF ReclaimOrder, IsReclaimable, Settleable
    <3>2. orders'[i] = orders[i]
      BY <2>1, <2>7, <3>1 DEF ReclaimOrder
    <3>3. QED
      BY <2>3, <3>2
  <2> HIDE DEF Kept
  <2>8. ASSUME NEW p \in permits, CreateOrder(p) \/ CreateSettlementOwnedOrder(p)
        PROVE  Kept(i)
    <3>1. p.intent \in Intents
      BY DEF IInv, TypeOK, Permit
    <3>2. QED
      BY <2>4, <2>8, <3>1 DEF CreateOrder, CreateSettlementOwnedOrder, SubmitCreation
  <2>9. ASSUME NEW u \in Users, NEW c \in Users, NEW j \in Intents, CancelNewOrder(u, j, c)
        PROVE  Kept(i)
    BY <2>4, <2>9 DEF CancelNewOrder
  <2>10. QED
    BY <2>3, <2>5, <2>6, <2>7, <2>8, <2>9
    DEF Next, SignCreation, Donate, TransferAuthority, Tick, accountVars
<1>2. QED
  BY <1>1, Inductive, PTL DEF Spec, BookIsSafe

(* An order account is closed by ReclaimOrder alone, and its lamports go   *)
(* to created_by alone, who gets back at least what it paid                *)
(* (reclaim_order.rs, CanonicalPda::create_new).                           *)
THEOREM RentReturnsToCreator == Spec => RentGoesToCreator
<1> DEFINE Closes(i) == Exists(i) /\ orders'[i] = NoOrder
           Refunds(i) == \A u \in Users :
                           IF u = orders[i].created_by
                           THEN wallet'[u] >= wallet[u] + paid[i]
                           ELSE wallet'[u] = wallet[u]
           Returns == \A i \in Intents : Exists(i) /\ ~Exists(i)' => Refunds(i)
<1>1. IInv /\ [Next]_vars => [Returns]_vars
  <2> SUFFICES ASSUME IInv, Next, NEW i \in Intents, Closes(i)
               PROVE  Refunds(i)
    BY DEF Exists
  <2>1. CASE orders' = orders
    BY <2>1 DEF Exists
  <2>2. ASSUME NEW j \in Intents, NEW o, NEW c \in Users, NEW b \in BOOLEAN,
               ProcessNewOnchainOrder(j, o, c, b)
        PROVE  Refunds(i)
    BY <2>2, NewOrder DEF Exists
  <2>3. ASSUME NEW u \in Users, NEW j \in Intents, CancelOrder(u, j)
        PROVE  Refunds(i)
    <3>1. orders \in [Intents -> OrderAccount \cup {NoOrder}] /\ orders[i] \in OrderAccount
      BY DEF IInv, TypeOK, Exists
    <3>2. orders'[i] \in OrderAccount
      BY <2>3, <3>1 DEF CancelOrder, OrderAccount
    <3>3. QED
      BY <3>2, OrdersAssumption
  <2>4. ASSUME NEW S \in SUBSET {j \in Intents : Exists(j)}, NEW settled \in [S -> FillAmounts],
               SettleOrders(S, settled)
        PROVE  Refunds(i)
    <3>1. /\ i \in S /\ ProcessOrder(i, settled[i]) /\ settled[i] \in FillAmounts
          /\ orders'[i] = [orders[i] EXCEPT !.fill = AddFills(orders[i].fill, settled[i])]
      BY <2>4 DEF SettleOrders, Exists
    <3>2. orders[i] \in OrderAccount /\ orders[i].fill \in FillAmounts
      BY DEF IInv, TypeOK, Exists, OrderAccount
    <3>3. AddFills(orders[i].fill, settled[i]) \in FillAmounts
      BY <3>1, <3>2, ProcessOrderKeepsLimits DEF IInv, FillsWithinLimits, ProcessOrder
    <3>4. orders'[i] \in OrderAccount
      BY <3>1, <3>2, <3>3 DEF OrderAccount
    <3>5. QED
      BY <3>4, OrdersAssumption
  <2>5. ASSUME NEW s \in Users \cup {NoSigner}, NEW r \in Users, NEW j \in Intents,
               ReclaimOrder(s, r, j)
        PROVE  Refunds(i)
    <3>1. /\ wallet \in [Users -> Nat] /\ lamports \in [Intents -> Nat] /\ paid \in [Intents -> Nat]
          /\ orders \in [Intents -> OrderAccount \cup {NoOrder}]
      BY DEF IInv, TypeOK
    <3>2. i = j
      BY <2>5, <3>1 DEF ReclaimOrder, Exists
    <3>3. /\ r = orders[i].created_by
          /\ wallet' = [wallet EXCEPT ![r] = @ + lamports[i]]
      BY <2>5, <3>2 DEF ReclaimOrder
    <3>4. lamports[i] >= paid[i]
      BY DEF IInv, RentIsThere
    <3>5. QED
      BY <3>1, <3>3, <3>4
  <2> HIDE DEF Refunds, Closes
  <2>6. ASSUME NEW p \in permits, CreateOrder(p) \/ CreateSettlementOwnedOrder(p)
        PROVE  Refunds(i)
    <3>1. p.intent \in Intents /\ p.created_by \in Users
      BY DEF IInv, TypeOK, Permit
    <3>2. QED
      BY <2>2, <2>6, <3>1 DEF CreateOrder, CreateSettlementOwnedOrder, SubmitCreation
  <2>7. ASSUME NEW u \in Users, NEW c \in Users, NEW j \in Intents, CancelNewOrder(u, j, c)
        PROVE  Refunds(i)
    BY <2>2, <2>7 DEF CancelNewOrder
  <2>8. QED
    BY <2>1, <2>3, <2>4, <2>5, <2>6, <2>7
    DEF Next, SignCreation, Donate, TransferAuthority, Tick, accountVars
<1>2. QED
  BY <1>1, Inductive, PTL DEF Spec, RentGoesToCreator
===============================================================================
