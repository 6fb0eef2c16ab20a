-------------------------- MODULE MCInstructionCodec --------------------------
(* Small instances of InstructionCodec for TLC. *)
EXTENDS InstructionCodec

(* Addresses of one byte. *)
System == <<0>>
State == <<1>>
Native == <<2>>
Alice == <<3>>
Bob == <<4>>
MintX == <<5>>
MintY == <<6>>
AliceX == <<7>>
Program == <<8>>
BufferOf == (MintX :> <<9>>) @@ (MintY :> <<10>>)
Strays == {<<11>>, Alice}

(* Completely filled, for an order of either kind. *)
Filled == {<<2, 17>>}

intent(owner, account, buy, kind, partial) ==
    [owner |-> owner, sell |-> [mint |-> MintX, token_account |-> account], buy |-> buy,
     sell_amount |-> 1, buy_amount |-> 17, valid_to |-> 2,
     flags |-> [kind |-> kind, partially_fillable |-> partial], app_data |-> <<12>>]

UserIntent == intent(Alice, AliceX, [tag |-> "Native", account |-> Alice], "Buy", TRUE)
OwnIntent == intent(State, BufferOf[MintX],
                    [tag |-> "TokenProgram", mint |-> MintY, account |-> BufferOf[MintY]],
                    "Sell", FALSE)

SomeCalls ==
  <<[name |-> "Initialize", payer |-> Bob, manager |-> <<3>>, solver_authority |-> <<4>>,
      reclaim_authority |-> <<5>>, settlement_owned_order_authority |-> <<6>>],
     [name |-> "CreateOrder", owner |-> Alice, created_by |-> Bob, intent |-> UserIntent],
     [name |-> "CreateOrder", owner |-> Alice, created_by |-> Alice, intent |-> UserIntent],
     [name |-> "CreateSettlementOwnedOrder", authority |-> Bob, created_by |-> Alice,
      intent |-> OwnIntent],
     [name |-> "CancelOrder", owner |-> Alice, created_by |-> Bob, intent |-> UserIntent],
     [name |-> "CancelOutstandingOrder", owner |-> Alice, created_by |-> Alice,
      intent |-> UserIntent],
     [name |-> "CancelSettlementOwnedOrder", authority |-> Bob, created_by |-> Alice,
      intent |-> OwnIntent],
     [name |-> "CreateBuffers", payer |-> Bob, token_program |-> Program, mints |-> <<>>],
     [name |-> "CreateBuffers", payer |-> Bob, token_program |-> Program,
      mints |-> <<[mint |-> MintX], [mint |-> MintY]>>],
     [name |-> "ReclaimBuffer", reclaim_authority |-> Bob, reclaim_recipient |-> Alice,
      token_program |-> Program,
      mints |-> <<[mint |-> MintX, burn_limit |-> 0], [mint |-> MintY, burn_limit |-> 18]>>],
     [name |-> "ReclaimOrder", reclaim_recipient |-> Bob, owner |-> <<>>, intent |-> UserIntent],
     [name |-> "ReclaimOrder", reclaim_recipient |-> Bob, owner |-> <<Alice>>,
      intent |-> UserIntent],
     [name |-> "TransferAuthority", signer |-> Bob, role |-> 3, new_authority |-> Alice],
     [name |-> "AddSolver", authority |-> Bob, payer |-> Alice, solver |-> <<12>>],
     [name |-> "RemoveSolver", authority |-> Bob, rent_recipient |-> Alice, solver |-> <<12>>],
     [name |-> "WithdrawNativeSol", authority |-> Bob, recipient |-> Alice, amount |-> 19]>>
===============================================================================
