---------------------------- MODULE MCSettleCodec ----------------------------
(* Small instances of SettleCodec for TLC. *)
EXTENDS SettleCodec, TLC

pull(destination, amount) == [destination |-> destination, amount |-> amount]
order(pda, sell, buy, checked, pulls, amount) ==
    [pda |-> pda, sell_token_account |-> 20 + pda, sell_mint |-> sell,
     buy_token_account |-> 30 + pda, buy_mint |-> buy, use_transfer_checked |-> checked,
     pulls |-> pulls, amount |-> amount]

BufferOf == (51 :> 61) @@ (52 :> 62) @@ (50 :> 60)
BumpOf == (51 :> 1) @@ (52 :> 0) @@ (50 :> 1)

(* No pull, one, and two; paid in tokens and in native SOL. *)
SomeOrders == {order(12, 51, 52, FALSE, <<>>, 1),
               order(11, 52, 51, TRUE, <<pull(61, 1)>>, 2),
               order(10, 51, 50, TRUE, <<pull(61, 2), pull(62, 3)>>, 3)}

(* One with as many pulls as a byte does not hold. *)
ManyPulls == SomeOrders \cup {order(13, 51, 52, FALSE, <<pull(61, 0), pull(62, 1), pull(61, 2)>>, 0)}
===============================================================================
