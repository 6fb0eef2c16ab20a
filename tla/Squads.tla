-------------------------------- MODULE Squads --------------------------------
(***************************************************************************)
(* What the tool sends to a Squads multisig: the instructions of a command *)
(* as a message that one of its vaults signs when it executes, packed into *)
(* the compact layout of Squads, and the instructions that stage, propose  *)
(* and approve it.                                                         *)
(***************************************************************************)
EXTENDS Instructions

CONSTANTS
    SettlementProgram,  \* address of the settlement program
    SquadsProgram,      \* SQUADS_MULTISIG_PROGRAM_ID
    MultisigAddress,    \* the multisig
    Vault,              \* the address of each vault, by vault_index
    LenWidth,           \* bytes of the length of instruction data, 2
    MaxIndex            \* the largest transaction_index, a u64

ASSUME SquadsAssumption == LenWidth \in Nat

(* find_pda: addresses of Squads, of no account that a message names. *)
TransactionPda(index) == <<0, index>>
ProposalPda(index) == <<1, index>>

-----------------------------------------------------------------------------
(* Message::new: the payer first, then accounts that sign and are written, *)
(* that sign, that are written, and that are only read, those of a kind in *)
(* any order; an account has all the privileges that any of the            *)
(* instructions asks for.                                                  *)
Metas(ixs, payer) ==
    {New(payer, TRUE)} \cup (UNION {Range(ix.accounts) : ix \in Range(ixs)})
    \cup {NewReadonly(ix.program, FALSE) : ix \in Range(ixs)}

Keys(metas) == {m.key : m \in metas}
SignersOf(metas) == {m.key : m \in {m \in metas : m.signer}}
WrittenOf(metas) == {m.key : m \in {m \in metas : m.writable}}

Message(ixs, payer) ==
    LET metas == Metas(ixs, payer)
        signers == SignersOf(metas)
        written == WrittenOf(metas)
        others == Keys(metas) \ signers
        keys == <<payer>> \o SetToSeq((signers \cap written) \ {payer})
                \o SetToSeq(signers \ written) \o SetToSeq(others \cap written)
                \o SetToSeq(others \ written)
        place(key) == (CHOOSE k \in DOMAIN keys : keys[k] = key) - 1
    IN  [num_required_signatures |-> Cardinality(signers),
         num_readonly_signed_accounts |-> Cardinality(signers \ written),
         num_readonly_unsigned_accounts |-> Cardinality(others \ written),
         account_keys |-> keys,
         instructions |-> [i \in DOMAIN ixs |->
             [program_id_index |-> place(ixs[i].program),
              accounts |-> [k \in DOMAIN ixs[i].accounts |-> place(ixs[i].accounts[k].key)],
              data |-> ixs[i].data]]]

(* Mutant of WritableNonSigners: those that are only read are counted. *)
AllNonSigners(message) == Len(message.account_keys) - message.num_required_signatures

WritableNonSigners(message) ==
    Len(message.account_keys) - message.num_required_signatures
    - message.num_readonly_unsigned_accounts

(* Every length fits its prefix. *)
MessageFits(message) ==
    /\ Len(message.account_keys) < Byte
    /\ Len(message.instructions) < Byte
    /\ \A i \in DOMAIN message.instructions :
           /\ Len(message.instructions[i].accounts) < Byte
           /\ Len(message.instructions[i].data) < Power(LenWidth)

TransactionMessage(message) ==
    <<message.num_required_signatures,
      message.num_required_signatures - message.num_readonly_signed_accounts,
      WritableNonSigners(message),
      Len(message.account_keys)>>
    \o FlattenSeq(message.account_keys)
    \o <<Len(message.instructions)>>
    \o FlattenSeq([i \in DOMAIN message.instructions |->
           LET ix == message.instructions[i]
           IN  <<ix.program_id_index, Len(ix.accounts)>> \o ix.accounts
               \o ToBytes(Len(ix.data), LenWidth) \o ix.data])
    \o <<0>>

(* The instructions that Squads reads from such a message. *)
Unpack(bytes) ==
    LET keys == [k \in 1..bytes[4] |-> Chunk(SubSeq(bytes, 5, Len(bytes)), KeyWidth, k)]
        afterKeys == 5 + bytes[4] * KeyWidth
        dataAt(p) == p + 2 + bytes[p + 1]
        dataLen(p) == FromBytes(SubSeq(bytes, dataAt(p), dataAt(p) + LenWidth - 1))
        at[i \in 1..bytes[afterKeys]] ==
            IF i = 1 THEN afterKeys + 1
                     ELSE dataAt(at[i - 1]) + LenWidth + dataLen(at[i - 1])
        meta(k) == [key |-> keys[k + 1], signer |-> k < bytes[1],
                    writable |-> k < bytes[2] \/ k \in bytes[1]..(bytes[1] + bytes[3] - 1)]
    IN  [i \in 1..bytes[afterKeys] |->
            LET p == at[i] IN
            [program |-> keys[bytes[p] + 1],
             accounts |-> [k \in 1..bytes[p + 1] |-> meta(bytes[p + 1 + k])],
             data |-> SubSeq(bytes, dataAt(p) + LenWidth,
                             dataAt(p) + LenWidth + dataLen(p) - 1)]]

-----------------------------------------------------------------------------
(* The generated builders; arguments are fields of the instruction. *)
VaultTransactionCreate(index, member, vault_index, message) ==
    [program |-> SquadsProgram, name |-> "VaultTransactionCreate",
     accounts |-> <<New(MultisigAddress, FALSE), New(TransactionPda(index), FALSE),
                    NewReadonly(member, TRUE), New(member, TRUE),
                    NewReadonly(SystemProgram, FALSE)>>,
     vault_index |-> vault_index, message |-> message]

ProposalCreate(index, member) ==
    [program |-> SquadsProgram, name |-> "ProposalCreate",
     accounts |-> <<NewReadonly(MultisigAddress, FALSE), New(ProposalPda(index), FALSE),
                    NewReadonly(member, TRUE), New(member, TRUE),
                    NewReadonly(SystemProgram, FALSE)>>,
     transaction_index |-> index]

(* Mutant of ProposalApprove: the index the multisig was read at. *)
ApproveCurrent(index, member) ==
    [program |-> SquadsProgram, name |-> "ProposalApprove",
     accounts |-> <<NewReadonly(MultisigAddress, FALSE), New(member, TRUE),
                    New(ProposalPda(index - 1), FALSE)>>]

ProposalApprove(index, member) ==
    [program |-> SquadsProgram, name |-> "ProposalApprove",
     accounts |-> <<NewReadonly(MultisigAddress, FALSE), New(member, TRUE),
                    New(ProposalPda(index), FALSE)>>]

(* Multisig::propose fails unless the member may initiate, there is an     *)
(* index left, the vault alone has to sign, and the message can be packed. *)
CanPropose(multisig, member, vault_index, ixs) ==
    LET message == Message(ixs, Vault[vault_index]) IN
    /\ member \in DOMAIN multisig.members
    /\ "initiate" \in multisig.members[member]
    /\ multisig.transaction_index < MaxIndex
    /\ message.num_required_signatures = 1
    /\ MessageFits(message)

Propose(multisig, member, vault_index, ixs) ==
    LET index == multisig.transaction_index + 1
        approved == "vote" \in multisig.members[member]
        message == TransactionMessage(Message(ixs, Vault[vault_index]))
    IN  [instructions |->
            <<VaultTransactionCreate(index, member, vault_index, message),
              ProposalCreate(index, member)>>
            \o (IF approved THEN <<ProposalApprove(index, member)>> ELSE <<>>),
         transaction_index |-> index, approved |-> approved]
===============================================================================
