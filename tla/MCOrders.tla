------------------------------- MODULE MCOrders -------------------------------
(* Small instances of Orders for TLC. *)
EXTENDS Orders

CONSTANTS alice, bob

order(owner, sell, buy, kind, partial, validTo) ==
    [owner |-> owner, sell_amount |-> sell, buy_amount |-> buy, kind |-> kind,
     partially_fillable |-> partial, valid_to |-> validTo]

(* A user's order and one of the program's own, either side fixed, with   *)
(* partial fills at prices that do not divide, and an intent that the      *)
(* program must refuse to create.                                          *)
BookIntents == {order(alice, 2, 1, "Sell", TRUE, 0), order(StatePda, 3, 2, "Buy", TRUE, 0),
                order(alice, 1, 0, "Buy", TRUE, 0)}

(* Fill-or-kill orders. *)
KillIntents == {order(alice, 2, 1, "Sell", FALSE, 0), order(alice, 3, 2, "Buy", FALSE, 0)}
RentIntents == {order(alice, 1, 1, "Sell", FALSE, 0), order(StatePda, 1, 1, "Sell", FALSE, 0)}
OneIntent == {order(alice, 1, 1, "Sell", FALSE, 0)}

RentForTwo == [u \in Users |-> 2 * Rent]
DonorAndSponsor == [u \in Users |-> IF u = alice THEN 1 ELSE 2]
===============================================================================
