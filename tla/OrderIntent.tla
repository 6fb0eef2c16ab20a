----------------------------- MODULE OrderIntent -----------------------------
(***************************************************************************)
(* The arithmetic an order intent imposes on its fills, as the settlement  *)
(* program computes it: pure operators, shared by every module that        *)
(* settles or closes an order.                                             *)
(*                                                                         *)
(* An intent is a record with the fields of OrderIntent that the program   *)
(* decides on: owner, sell_amount, buy_amount, kind, partially_fillable    *)
(* and valid_to.  Its uid is the hash of its bytes, so an intent and the   *)
(* order account derived from it stand for one another.                    *)
(***************************************************************************)
EXTENDS Integers

CONSTANT U64Max     \* the largest value of the code's u64 amounts

ASSUME U64MaxAssumption == U64Max \in Nat \ {0}

Amount == 0..U64Max

OrderKind == {"Sell", "Buy"}

(* FillAmounts: the sell tokens withdrawn and the buy tokens received. *)
FillAmounts == [withdrawn: Amount, received: Amount]

NoFill == [withdrawn |-> 0, received |-> 0]

(* Mutant of CheckBytes: buy_amount may be zero. *)
CheckSellAmount(intent) == intent.sell_amount # 0

(* The encodings check_bytes accepts: both amounts are non-zero. *)
CheckBytes(intent) ==
    /\ intent.sell_amount # 0
    /\ intent.buy_amount # 0

(* The side of a fill that counts towards the order ... *)
Filled(intent, fill) ==
    IF intent.kind = "Sell" THEN fill.withdrawn ELSE fill.received

(* ... and the amount of that side the intent asks for. *)
OrderAmount(intent) ==
    IF intent.kind = "Sell" THEN intent.sell_amount ELSE intent.buy_amount

FullyFilled(intent, fill) == Filled(intent, fill) >= OrderAmount(intent)

(* now > valid_to: an order can still be settled at valid_to itself. *)
Expired(intent, now) == now > intent.valid_to

(* One settlement's price, compared without division in u128. *)
ValidateLimitPrice(intent, settled) ==
    settled.received * intent.sell_amount >= settled.withdrawn * intent.buy_amount

(* Mutant of AddFills: what is withdrawn is not added. *)
ForgetWithdrawn(prior, settled) ==
    [withdrawn |-> prior.withdrawn, received |-> prior.received + settled.received]

AddFills(prior, settled) ==
    [withdrawn |-> prior.withdrawn + settled.withdrawn,
     received  |-> prior.received + settled.received]

(* Mutant of ValidatedFinalAmounts: the additions are not checked. *)
UncheckedFinalAmounts(intent, prior, settled) ==
    LET final == AddFills(prior, settled) IN
    /\ Filled(intent, final) # OrderAmount(intent) => intent.partially_fillable
    /\ Filled(intent, final) <= OrderAmount(intent)

(* The checks on the cumulative totals: neither u64 overflows, a           *)
(* fill-or-kill order is filled exactly, and no order beyond its amount.   *)
ValidatedFinalAmounts(intent, prior, settled) ==
    LET final == AddFills(prior, settled) IN
    /\ final.withdrawn <= U64Max
    /\ final.received <= U64Max
    /\ Filled(intent, final) # OrderAmount(intent) => intent.partially_fillable
    /\ Filled(intent, final) <= OrderAmount(intent)
===============================================================================
