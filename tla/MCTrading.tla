------------------------------- MODULE MCTrading -------------------------------
(* Small instances of Trading for TLC. *)
EXTENDS Trading

SomeMints == {"X", "Y", "W"}
ProgramOf == [m \in SomeMints |-> IF m = "Y" THEN "token2022" ELSE "token"]
DecimalsOf == [m \in SomeMints |-> IF m = "X" THEN 1 ELSE 0]
SomeSymbols == "USDC" :> "X"
SomeNumerals == ("0.2" :> [digits |-> 2, fraction |-> 1]) @@ ("1" :> [digits |-> 1, fraction |-> 0])
Atas == (<<"ann", "X">> :> "annX") @@ (<<"ann", "Y">> :> "annY") @@ (<<"ann", "W">> :> "annW")
        @@ (<<"bea", "X">> :> "beaX") @@ (<<"bea", "Y">> :> "beaY") @@ (<<"bea", "W">> :> "beaW")
Buffers == ("X" :> "bufX") @@ ("Y" :> "bufY") @@ ("W" :> "bufW")

account(owner, mint, amount) ==
    [owner |-> owner, mint |-> mint, amount |-> amount, delegated |-> amount]

(* ann's "other" is not an associated account; the buffer of W and bea's   *)
(* account for it are missing, the buffer of X holds something already.    *)
SomeAccounts ==
    ("annW" :> account("ann", "W", 2)) @@ ("other" :> account("ann", "X", 0))
    @@ ("beaX" :> account("bea", "X", 4)) @@ ("beaY" :> account("bea", "Y", 2))
    @@ ("bufX" :> account("state", "X", 2)) @@ ("bufY" :> account("state", "Y", 0))
    @@ ("vault" :> account("dao", "Y", 0)) @@ ("beaW" :> account("bea", "W", 0))

order(owner, from, sellMint, sell, into, buyMint, buy, kind) ==
    [owner |-> owner, sell_token_account |-> from, sell_mint |-> sellMint, sell_amount |-> sell,
     buy_token_account |-> into, buy_mint |-> buyMint, buy_amount |-> buy, kind |-> kind,
     partially_fillable |-> FALSE, valid_to |-> 0]

WforX == order("ann", "annW", "W", 1, "other", "X", 2, "Sell")
XforW == order("bea", "beaX", "X", 2, "beaW", "W", 1, "Buy")
YforW == [order("bea", "beaY", "Y", 2, "beaW", "W", 1, "Sell") EXCEPT !.partially_fillable = TRUE]
YforX == order("bea", "beaY", "Y", 1, "beaX", "X", 2, "Sell")
OwnXforY == order("state", "bufX", "X", 2, "vault", "Y", 1, "Sell")
XforSol == order("bea", "beaX", "X", 1, "bea", "native", 1, "Sell")
SomeOrders == {WforX, XforW, YforW, YforX, OwnXforY, XforSol}

(* Others settle XforW and OwnXforY in full, YforW in full, in two parts   *)
(* or after they paid for it, and a full order again, withdrawing nothing. *)
SomeOtherFills == [withdrawn: 0..2, received: {1}]

Sol == [u \in {"ann", "bea"} |-> 1]

settle(list, dry) == [command |-> "settle", payer |-> "sid", orders |-> list, dry_run |-> dry]
reclaim(user, list) == [command |-> "reclaim", payer |-> user, orders |-> list]
new(user, kind, terms) == [command |-> "order", payer |-> user, kind |-> kind, terms |-> terms,
                           valid_to |-> 0, partially_fillable |-> FALSE]

(* Settlements that match, one out of a buffer, one that matches only if   *)
(* an account was reopened, one that names its orders twice and one that   *)
(* the tool does not support; one of ann's new orders is her old one.      *)
SomeRequests ==
    {settle(<<WforX, XforW>>, FALSE), settle(<<WforX, XforW>>, TRUE),
     settle(<<YforX, OwnXforY>>, FALSE), settle(<<YforW, WforX>>, FALSE),
     settle(<<WforX, XforW, WforX, XforW>>, FALSE), settle(<<XforSol>>, FALSE),
     reclaim("ann", <<XforW, WforX>>),
     new("ann", "Sell", <<"1", "SOL", "for", "0.2", "other">>),
     new("ann", "Buy", <<"0.2", "USDC", "with", "SOL">>),
     new("bea", "Sell", <<"1", "Y">>)}
===============================================================================
