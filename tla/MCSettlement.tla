----------------------------- MODULE MCSettlement -----------------------------
(* Small instances of Settlement for TLC. *)
EXTENDS Settlement, TLC

CONSTANTS alice, bob, X, Y, aliceX, aliceY, bufferX, bufferY, otherY, aliceSol

account(mint, owner, amount, delegated) ==
    [mint |-> mint, owner |-> owner, amount |-> amount, delegated |-> delegated]
order(owner, sellAccount, buyAccount, buy, kind) ==
    [owner |-> owner, sell_token_account |-> sellAccount, sell_mint |-> X,
     buy_token_account |-> buyAccount, buy_mint |-> buy, sell_amount |-> 1,
     buy_amount |-> 1, kind |-> kind, partially_fillable |-> TRUE]
push(source, bump, destination, amount) ==
    [source_buffer |-> source, bump |-> bump, destination |-> destination, amount |-> amount]

(* Under the first multiplier X meets native SOL, whose key is 0; under    *)
(* the second Y, which is not known, meets X.  Y has a second address that *)
(* no account can be created at.                                           *)
SomeKeys == (NativeSol :> 0) @@ (X :> 1) @@ (Y :> 3)
KnownX == <<X>>
SomeMultipliers == <<3, 7, 5>>
Addressed == (<<X, 1>> :> bufferX) @@ (<<Y, 1>> :> bufferY) @@ (<<Y, 0>> :> otherY)
BumpIsOne == [m \in AllMints |-> 1]
TokensAtStart ==
    (aliceX :> account(X, alice, 1, 1))
    @@ (aliceY :> account(Y, alice, 0, 0))
    @@ (bufferX :> account(X, StatePda, 1, 0)) @@ (bufferY :> account(Y, StatePda, 1, 0))
LamportsAtStart == (NativeBuffer :> 2) @@ (aliceSol :> 0)

(* An order of alice and two of the program, one of which buys into the    *)
(* buffer it would be paid from and the other is paid in lamports; pushes  *)
(* for them and for none of them.                                          *)
OpenOrders == (1 :> order(alice, aliceX, aliceY, Y, "Sell"))
              @@ (2 :> order(StatePda, bufferX, bufferY, Y, "Buy"))
              @@ (3 :> order(StatePda, bufferX, aliceSol, NativeSol, "Sell"))
SomePushes == {push(bufferY, 1, aliceY, 1), push(bufferY, 1, bufferY, 1),
               push(bufferX, 0, aliceY, 1), push(otherY, 0, aliceY, 1)}
              \cup {push(NativeBuffer, 0, aliceSol, n) : n \in 1..2}
===============================================================================
