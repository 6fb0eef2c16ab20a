----------------------------- MODULE MCSubmission -----------------------------
(* Small instances of Submission for TLC. *)
EXTENDS Submission

(* Addresses of one byte. *)
System == <<0>>
State == <<1>>
Native == <<2>>
Ann == <<3>>
Bea == <<4>>
Cid == <<5>>
VaultKey == <<6>>
Solver == <<7>>
Token == <<8>>
Token2022 == <<9>>
MintX == <<10>>
MintY == <<11>>
Settlement == <<12>>
SquadsKey == <<13>>
MultisigKey == <<14>>
Vaults == 0 :> VaultKey
BufferOf == (MintX :> <<15>>) @@ (MintY :> <<16>>)
Programs == (MintX :> Token) @@ (MintY :> Token2022)

Members == (Ann :> {"initiate", "vote"}) @@ (Bea :> {"initiate"}) @@ (Cid :> {"vote", "execute"})
NewPermissions == {{"vote"}}

base(keypair, proposed) == [keypair |-> keypair, squads |-> proposed, vault_index |-> 0]
initialize(keypair, proposed) ==
    base(keypair, proposed) @@ [command |-> "initialize", manager |-> <<>>,
        solver_authority |-> Bea, reclaim_authority |-> <<>>, order_authority |-> Cid]
solverAdd(keypair, proposed, signer) ==
    base(keypair, proposed) @@ [command |-> "solver add", solver |-> Solver, signer |-> signer]
bufferCreate(keypair, proposed, mints) ==
    base(keypair, proposed) @@ [command |-> "buffer create", mints |-> mints]

(* Proposed and direct commands of two members and of somebody else; one   *)
(* names a keypair that cannot sign for a vault.                           *)
SomeRequests ==
    {initialize(Ann, FALSE), initialize(Bea, TRUE),
     solverAdd(Ann, TRUE, <<>>), solverAdd(Ann, TRUE, Bea), solverAdd(Ann, FALSE, Bea),
     base(Bea, TRUE) @@ [command |-> "solver remove", solver |-> Solver, signer |-> <<>>,
                         rent_recipient |-> <<>>],
     base(Solver, FALSE) @@ [command |-> "authority transfer", role |-> 1,
                             new_authority |-> Cid, signer |-> <<>>],
     bufferCreate(Ann, TRUE, <<MintX, MintY, MintX>>)}
===============================================================================
