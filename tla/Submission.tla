------------------------------ MODULE Submission ------------------------------
(***************************************************************************)
(* The commands of the tool that administer the program, and how each of   *)
(* them sends its instructions: signed by the keypairs at hand, or as a    *)
(* proposal to a Squads multisig, whose members run the tool at the same   *)
(* time, vote, execute what they approved, and change their permissions.   *)
(* A transaction may land after the tool stopped waiting for it.           *)
(***************************************************************************)
EXTENDS Squads

CONSTANTS
    Requests,       \* command lines, a set of records
    TokenProgramOf, \* the token program of each mint
    InitMembers,    \* the permissions of each member at the start
    Permissions,    \* permissions that a member may be given
    Threshold,      \* approvals that a proposal needs
    MaxCommands,    \* bound: commands that are run
    MaxChanges      \* bound: changes to the members

Names == {"initialize", "solver add", "solver remove", "authority transfer", "buffer create"}

(* An argument that is an address or is left out. *)
OptionalKey == Key \cup {<<>>}

ASSUME SubmissionAssumption ==
    /\ SettlementProgram # SquadsProgram
    /\ {SettlementProgram, StatePda, NativeBuffer} \subseteq Key
    /\ \A m \in DOMAIN Buffer : m \in Key /\ Buffer[m] \in Key
    /\ \A m \in DOMAIN TokenProgramOf : TokenProgramOf[m] \in Key
    /\ \A r \in Requests :
           /\ r.command \in Names
           /\ r.keypair \in Key
           /\ r.squads => Vault[r.vault_index] \in Key
           /\ r.command = "initialize" =>
                  {r.manager, r.solver_authority, r.reclaim_authority, r.order_authority}
                      \subseteq OptionalKey
           /\ r.command = "solver add" => r.signer \in OptionalKey /\ r.solver \in Key
           /\ r.command = "solver remove" =>
                  /\ {r.signer, r.rent_recipient} \subseteq OptionalKey
                  /\ r.solver \in Key
           /\ r.command = "authority transfer" =>
                  /\ r.signer \in OptionalKey
                  /\ r.role \in 0..3
                  /\ r.new_authority \in Key
           /\ r.command = "buffer create" => r.mints \in Seq(DOMAIN Buffer)

VARIABLES
    commands,       \* the commands, in the order they were started
    flight,         \* transactions that were sent and have not landed
    existing,       \* addresses of the program's accounts that exist
    multisig,       \* the account of the multisig
    staged,         \* its vault transactions, by index
    proposals,      \* its proposals, by index
    changes,        \* changes that were made to the members
    votes           \* history: approvals given by hand, <<index, member>>

squads == <<multisig, staged, proposals>>
vars == <<commands, flight, existing, squads, changes, votes>>

NoReport == [kind |-> "none"]

Init ==
    /\ commands = <<>>
    /\ flight = {}
    /\ existing = {}
    /\ multisig = [members |-> InitMembers, transaction_index |-> 0,
                   stale_transaction_index |-> 0]
    /\ staged = <<>>
    /\ proposals = <<>>
    /\ changes = 0
    /\ votes = {}

-----------------------------------------------------------------------------
(* An argument that is left out is <<>>. *)
Or(arg, default) == IF arg = <<>> THEN default ELSE arg

(* Context::payer *)
Payer(r) == IF r.squads THEN Vault[r.vault_index] ELSE r.keypair

(* Context::signer_or: nobody can sign beside a vault. *)
HasSigner(r, path) == ~r.squads \/ path = <<>>
SignerOr(r, path) == IF r.squads THEN Vault[r.vault_index] ELSE Or(path, r.keypair)

(* The command can go on, with the keypairs that are named. *)
Ready(r) ==
    CASE r.command = "initialize" -> StatePda \notin existing
      [] r.command = "buffer create" ->
           /\ \E k \in DOMAIN r.mints : Buffer[r.mints[k]] \notin existing
           /\ \A k \in DOMAIN r.mints :
                  r.mints[k] \in DOMAIN TokenProgramOf \/ Buffer[r.mints[k]] \in existing
      [] OTHER -> HasSigner(r, r.signer)

(* The signers that the command hands over to submit. *)
CoSigners(r) ==
    IF r.command \in {"initialize", "buffer create"} THEN {} ELSE {SignerOr(r, r.signer)}

RunInitialize(r) ==
    <<ClientInitialize([payer |-> Payer(r),
          manager |-> Or(r.manager, Payer(r)),
          solver_authority |-> Or(r.solver_authority, Payer(r)),
          reclaim_authority |-> Or(r.reclaim_authority, Payer(r)),
          settlement_owned_order_authority |-> Or(r.order_authority, Payer(r))])>>

RunSolverAdd(r) ==
    <<ClientAddSolver([authority |-> SignerOr(r, r.signer), payer |-> Payer(r),
                       solver |-> r.solver])>>

RunSolverRemove(r) ==
    <<ClientRemoveSolver([authority |-> SignerOr(r, r.signer),
                          rent_recipient |-> Or(r.rent_recipient, Payer(r)),
                          solver |-> r.solver])>>

RunAuthorityTransfer(r) ==
    <<ClientTransferAuthority([signer |-> SignerOr(r, r.signer), role |-> r.role,
                               new_authority |-> r.new_authority])>>

(* One instruction per token program, for the buffers that are not there; *)
(* a mint that is repeated counts once.                                   *)
RunBufferCreate(r) ==
    LET missing == {m \in Range(r.mints) : Buffer[m] \notin existing}
        mintsOf(program) == SetToSeq({m \in missing : TokenProgramOf[m] = program})
        programs == SetToSeq({TokenProgramOf[m] : m \in missing})
    IN  [k \in DOMAIN programs |->
            ClientCreateBuffers(
                [payer |-> Payer(r), token_program |-> programs[k],
                 mints |-> [j \in DOMAIN mintsOf(programs[k]) |->
                               [mint |-> mintsOf(programs[k])[j]]]])]

Run(r) ==
    LET ixs == CASE r.command = "initialize" -> RunInitialize(r)
                 [] r.command = "solver add" -> RunSolverAdd(r)
                 [] r.command = "solver remove" -> RunSolverRemove(r)
                 [] r.command = "authority transfer" -> RunAuthorityTransfer(r)
                 [] r.command = "buffer create" -> RunBufferCreate(r)
    IN  [k \in DOMAIN ixs |-> [program |-> SettlementProgram, accounts |-> ixs[k].accounts,
                               data |-> ixs[k].data]]

(* Context::from_args, and the command up to where it submits. *)
Start(r) ==
    /\ Len(commands) < MaxCommands
    /\ Ready(r)
    /\ commands' = Append(commands, [request |-> r, step |-> "submit", ixs |-> Run(r),
                                     proposal |-> <<>>, report |-> NoReport])
    /\ UNCHANGED <<flight, existing, squads, changes, votes>>

-----------------------------------------------------------------------------
(* Context::send: one transaction, that the local keypair pays for. *)
Send(c, ixs, signatures) ==
    flight' = flight \cup {[command |-> c, payer |-> commands[c].request.keypair,
                            ixs |-> ixs, signatures |-> signatures]}

(* Mutant of Keypairs: only the local one. *)
LocalKeypair(r) == {r.keypair}

Keypairs(r) == {r.keypair} \cup CoSigners(r)

(* Context::submit without a multisig. *)
SubmitDirectly(c) ==
    LET r == commands[c].request IN
    /\ commands[c].step = "submit" /\ ~r.squads
    /\ Send(c, commands[c].ixs, Keypairs(r))
    /\ commands' = [commands EXCEPT ![c].step = "wait"]
    /\ UNCHANGED <<existing, squads, changes, votes>>

(* Context::submit with one: it is fetched again, for its index. *)
SubmitProposal(c) ==
    LET r == commands[c].request
        ixs == commands[c].ixs
        proposal == Propose(multisig, r.keypair, r.vault_index, ixs)
    IN  /\ commands[c].step = "submit" /\ r.squads
        /\ CoSigners(r) \subseteq {Vault[r.vault_index]}
        /\ CanPropose(multisig, r.keypair, r.vault_index, ixs)
        /\ Send(c, proposal.instructions, {r.keypair})
        /\ commands' = [commands EXCEPT ![c].step = "wait",
                                        ![c].proposal = <<proposal>>]
        /\ UNCHANGED <<existing, squads, changes, votes>>

(* The tool fails for good, or gives up on a transaction. *)
GiveUp(c) ==
    /\ commands[c].step \in {"submit", "wait", "failed"}
    /\ commands' = [commands EXCEPT ![c].step = "done"]
    /\ UNCHANGED <<flight, existing, squads, changes, votes>>

(* Mutant of ReportedIndex: the last transaction of the multisig. *)
LatestIndex(proposal) == multisig.transaction_index

ReportedIndex(proposal) == proposal.transaction_index

(* Submission::summary *)
Report(c) ==
    /\ commands[c].step = "landed"
    /\ commands' = [commands EXCEPT
         ![c].step = "done",
         ![c].report = IF commands[c].proposal = <<>> THEN [kind |-> "sent"]
                       ELSE LET proposal == commands[c].proposal[1] IN
                            [kind |-> "proposed", index |-> ReportedIndex(proposal),
                             approved |-> proposal.approved]]
    /\ UNCHANGED <<flight, existing, squads, changes, votes>>

-----------------------------------------------------------------------------
(* The programs.  An instruction takes the state s to another, or fails. *)

Failed(s) == [s EXCEPT !.result = "failed"]
Succeeds(s) == s.result = "ok"

(* f, and the value v at k. *)
With(f, k, v) == [i \in DOMAIN f \cup {k} |-> IF i = k THEN v ELSE f[i]]

Active(s, index) ==
    /\ index \in DOMAIN s.proposals
    /\ index > s.multisig.stale_transaction_index
    /\ Cardinality(s.proposals[index].approved) < Threshold

May(s, member, permissions) ==
    member \in DOMAIN s.multisig.members /\ s.multisig.members[member] \cap permissions # {}

StageTransaction(s, ix, c) ==
    LET index == s.multisig.transaction_index + 1
        member == ix.accounts[3].key
    IN  IF ix.accounts[2].key = TransactionPda(index) /\ May(s, member, {"initiate"})
        THEN [s EXCEPT !.multisig.transaction_index = index,
                       !.staged = With(@, index, [message |-> ix.message, creator |-> member,
                                                  vault_index |-> ix.vault_index, command |-> c])]
        ELSE Failed(s)

OpenProposal(s, ix) ==
    LET index == ix.transaction_index IN
    IF /\ ix.accounts[2].key = ProposalPda(index)
       /\ index <= s.multisig.transaction_index
       /\ index > s.multisig.stale_transaction_index
       /\ index \notin DOMAIN s.proposals
       /\ May(s, ix.accounts[3].key, {"initiate", "vote"})
    THEN [s EXCEPT !.proposals = With(@, index, [approved |-> {}, executed |-> FALSE])]
    ELSE Failed(s)

ApproveProposal(s, ix) ==
    LET index == ix.accounts[3].key[2]
        member == ix.accounts[2].key
    IN  IF Active(s, index) /\ May(s, member, {"vote"}) /\ member \notin s.proposals[index].approved
        THEN [s EXCEPT !.proposals[index].approved = @ \cup {member}]
        ELSE Failed(s)

ExecuteSquads(s, ix, c) ==
    CASE ix.name = "VaultTransactionCreate" -> StageTransaction(s, ix, c)
      [] ix.name = "ProposalCreate" -> OpenProposal(s, ix)
      [] ix.name = "ProposalApprove" -> ApproveProposal(s, ix)

(* The settlement program, as far as the tool looks at it. *)
ExecuteSettlement(s, ix) ==
    LET p == ParseInstruction(ix.data, ix.accounts) IN
    CASE p.instruction = "Initialize" ->
           IF StatePda \in s.existing THEN Failed(s)
           ELSE [s EXCEPT !.existing = @ \cup {StatePda}]
      [] p.instruction = "CreateBuffer" ->
           [s EXCEPT !.existing = @ \cup {b.buffer_pda.key : b \in Range(p.buffers)}]
      [] OTHER -> IF StatePda \in s.existing THEN s ELSE Failed(s)

ExecuteOne(s, ix, c) ==
    IF ~Succeeds(s) THEN s
    ELSE IF ix.program = SquadsProgram THEN ExecuteSquads(s, ix, c)
    ELSE ExecuteSettlement(s, ix)

Accounts == [result |-> "ok", existing |-> existing, multisig |-> multisig, staged |-> staged,
             proposals |-> proposals]

(* One instruction after the other. *)
Execute(ixs, c) ==
    LET after[k \in 0..Len(ixs)] ==
            IF k = 0 THEN Accounts ELSE ExecuteOne(after[k - 1], ixs[k], c)
    IN  after[Len(ixs)]

Becomes(s) ==
    /\ Succeeds(s)
    /\ existing' = s.existing
    /\ multisig' = s.multisig
    /\ staged' = s.staged
    /\ proposals' = s.proposals

(* The tool hears of it if it still waits. *)
Heard(x, step) ==
    commands' = IF commands[x.command].step = "wait"
                THEN [commands EXCEPT ![x.command].step = step] ELSE commands

(* All of a transaction takes effect, or nothing. *)
Land(x) ==
    /\ Becomes(Execute(x.ixs, x.command))
    /\ flight' = flight \ {x}
    /\ Heard(x, "landed")
    /\ UNCHANGED <<changes, votes>>

(* For whatever reason: a program refuses it, or its blockhash expires. *)
Refuse(x) ==
    /\ flight' = flight \ {x}
    /\ Heard(x, "failed")
    /\ UNCHANGED <<existing, squads, changes, votes>>

(* A member looks at a proposal and approves it. *)
Vote(member, index) ==
    /\ Active([proposals |-> proposals, multisig |-> multisig], index)
    /\ May([multisig |-> multisig], member, {"vote"})
    /\ member \notin proposals[index].approved
    /\ proposals' = [proposals EXCEPT ![index].approved = @ \cup {member}]
    /\ votes' = votes \cup {<<index, member>>}
    /\ UNCHANGED <<commands, flight, existing, multisig, staged, changes>>

(* An approved transaction executes, under the signature of its vault. *)
ExecuteProposal(index) ==
    /\ Cardinality(proposals[index].approved) >= Threshold
    /\ ~proposals[index].executed
    /\ LET s == Execute(Unpack(staged[index].message), staged[index].command) IN
       Succeeds(s) /\ existing' = s.existing
    /\ proposals' = [proposals EXCEPT ![index].executed = TRUE]
    /\ UNCHANGED <<commands, flight, multisig, staged, changes, votes>>

(* The multisig changes a member, after which older proposals are stale. *)
ChangeMember(member, permissions) ==
    /\ changes < MaxChanges
    /\ changes' = changes + 1
    /\ multisig' = [multisig EXCEPT !.members[member] = permissions,
                                    !.stale_transaction_index = multisig.transaction_index]
    /\ UNCHANGED <<commands, flight, existing, staged, proposals, votes>>

Next ==
    \/ \E r \in Requests : Start(r)
    \/ \E c \in DOMAIN commands :
          SubmitDirectly(c) \/ SubmitProposal(c) \/ GiveUp(c) \/ Report(c)
    \/ \E x \in flight : Land(x) \/ Refuse(x)
    \/ \E m \in DOMAIN multisig.members, i \in DOMAIN proposals : Vote(m, i)
    \/ \E i \in DOMAIN proposals : ExecuteProposal(i)
    \/ \E m \in DOMAIN multisig.members, p \in Permissions : ChangeMember(m, p)

Spec == Init /\ [][Next]_vars
-----------------------------------------------------------------------------
(* The transaction index that a command reports is the one that holds what *)
(* the command built, with a proposal that its user approved if the report *)
(* says so, whoever else proposes at the same time.                        *)
ReportedIsHeld ==
    \A c \in DOMAIN commands :
        LET report == commands[c].report IN
        report.kind = "proposed" =>
            /\ report.index \in DOMAIN staged \cap DOMAIN proposals
            /\ staged[report.index].command = c
            /\ report.approved =>
                   commands[c].request.keypair \in proposals[report.index].approved

(* Nobody's approval counts for a transaction that they neither built nor  *)
(* looked at.                                                              *)
ApprovalsAreInformed ==
    \A i \in DOMAIN proposals : \A m \in proposals[i].approved :
        <<i, m>> \in votes \/ staged[i].creator = m

(* What is staged is what the command built: the same instructions, each   *)
(* account with the privileges the message gives it, of which the vault's  *)
(* is the only signature, so that it can execute once it is approved.      *)
StagedIsBuilt ==
    \A i \in DOMAIN staged :
        LET vault == Vault[staged[i].vault_index]
            built == commands[staged[i].command].ixs
            metas == Metas(built, vault)
            unpacked == Unpack(staged[i].message)
        IN  /\ SignersOf(metas) = {vault}
            /\ DOMAIN unpacked = DOMAIN built
            /\ \A k \in DOMAIN built :
                   /\ unpacked[k].program = built[k].program
                   /\ unpacked[k].data = built[k].data
                   /\ unpacked[k].accounts =
                        [j \in DOMAIN built[k].accounts |->
                            LET key == built[k].accounts[j].key IN
                            [key |-> key, signer |-> key = vault,
                             writable |-> key \in WrittenOf(metas)]]

(* Every transaction is sent with the signatures that it needs, and with   *)
(* no others: signing with a keypair too few or too many panics.           *)
SignaturesMatch ==
    \A x \in flight : SignersOf(Metas(x.ixs, x.payer)) = x.signatures
===============================================================================
