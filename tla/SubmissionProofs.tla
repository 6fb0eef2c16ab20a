--------------------------- MODULE SubmissionProofs ---------------------------
(***************************************************************************)
(* Proofs about Submission, for any requests, members and threshold and    *)
(* for any number of commands and changes: whoever proposes, votes or      *)
(* leaves at the same time, a command reports the transaction that holds   *)
(* what it built, an approval is that of somebody who built it or looked   *)
(* at it, every transaction has exactly the signatures it asks for, and    *)
(* the bytes that are staged unpack to the instructions that were built.   *)
(***************************************************************************)
EXTENDS Submission, SharedLemmas

-----------------------------------------------------------------------------
(* How Execute computes: what the accounts are after the first k           *)
(* instructions.                                                           *)
IsAfter(g, ixs, c, n) ==
    g = [k \in 0..n |-> IF k = 0 THEN Accounts ELSE ExecuteOne(g[k - 1], ixs[k], c)]
After(ixs, c) == CHOOSE g : IsAfter(g, ixs, c, Len(ixs))

LEMMA ExecuteIsAfter ==
    ASSUME NEW ixs, NEW c
    PROVE  Execute(ixs, c) = After(ixs, c)[Len(ixs)]
BY Zenon DEF Execute, After, IsAfter

LEMMA AfterExists ==
    ASSUME NEW ixs, NEW c, NEW n \in Nat
    PROVE  \E g : IsAfter(g, ixs, c, n)
<1> DEFINE N == {k \in Nat : \E g : IsAfter(g, ixs, c, k)}
<1>1. ASSUME NEW k \in Nat, \A j \in 0..(k - 1) : j \in N
      PROVE  k \in N
  <2>1. CASE k = 0
    <3> DEFINE h == [j \in 0..0 |-> Accounts]
    <3>1. h = [j \in 0..0 |-> IF j = 0 THEN Accounts ELSE ExecuteOne(h[j - 1], ixs[j], c)]
      OBVIOUS
    <3>2. IsAfter(h, ixs, c, 0)
      BY <3>1, Zenon DEF IsAfter
    <3> QED BY <2>1, <3>2
  <2>2. CASE k # 0
    <3>1. PICK g : IsAfter(g, ixs, c, k - 1)
      BY <1>1, <2>2
    <3> DEFINE h == [j \in 0..k |-> IF j = k THEN ExecuteOne(g[k - 1], ixs[k], c) ELSE g[j]]
               step(f, j) == IF j = 0 THEN Accounts ELSE ExecuteOne(f[j - 1], ixs[j], c)
    <3>2. g = [j \in 0..(k - 1) |-> step(g, j)]
      BY <3>1, Zenon DEF IsAfter
    <3>3. ASSUME NEW j \in 0..k PROVE h[j] = step(h, j)
      <4>1. CASE j = k
        <5>1. h[j - 1] = g[k - 1] /\ h[j] = ExecuteOne(g[k - 1], ixs[k], c)
          BY <2>2, <4>1
        <5> QED BY <2>2, <4>1, <5>1
      <4>2. CASE j # k
        <5>1. j \in 0..(k - 1) /\ h[j] = g[j]
          BY <4>2
        <5>2. g[j] = step(g, j)
          BY <3>2, <5>1
        <5>3. j # 0 => h[j - 1] = g[j - 1]
          BY <5>1
        <5> QED BY <5>1, <5>2, <5>3
      <4> QED BY <4>1, <4>2
    <3>4. h = [j \in 0..k |-> step(h, j)]
      <4>1. h = [j \in 0..k |-> h[j]]
        OBVIOUS
      <4> HIDE DEF h, step
      <4> QED BY <3>3, <4>1
    <3>5. IsAfter(h, ixs, c, k)
      BY <3>4, Zenon DEF IsAfter
    <3> HIDE DEF h
    <3> QED BY <3>5
  <2> QED BY <2>1, <2>2
<1> HIDE DEF N
<1>2. Nat \subseteq N
  BY <1>1, NumbersInduction
<1> QED BY <1>2 DEF N

LEMMA AfterStep ==
    ASSUME NEW ixs, NEW c, Len(ixs) \in Nat
    PROVE  /\ After(ixs, c)[0] = Accounts
           /\ \A k \in 1..Len(ixs) :
                  After(ixs, c)[k] = ExecuteOne(After(ixs, c)[k - 1], ixs[k], c)
<1> DEFINE g == After(ixs, c)
<1>1. IsAfter(g, ixs, c, Len(ixs))
  BY AfterExists, Zenon DEF After
<1> HIDE DEF g
<1>2. g = [k \in 0..Len(ixs) |-> IF k = 0 THEN Accounts ELSE ExecuteOne(g[k - 1], ixs[k], c)]
  BY <1>1, Zenon DEF IsAfter
<1>3. g[0] = Accounts
  BY <1>2
<1>4. ASSUME NEW k \in 1..Len(ixs)
      PROVE  g[k] = ExecuteOne(g[k - 1], ixs[k], c)
  <2>1. k \in 0..Len(ixs) /\ k # 0
    OBVIOUS
  <2> QED BY <1>2, <2>1
<1> QED BY <1>3, <1>4 DEF g
-----------------------------------------------------------------------------
(* The fields of a state, of a multisig and of a proposal. *)
IsState(s) ==
    s = [result |-> s.result, existing |-> s.existing, multisig |-> s.multisig, staged |-> s.staged,
         proposals |-> s.proposals]
IsMultisig(m) ==
    /\ m = [members |-> m.members, transaction_index |-> m.transaction_index,
            stale_transaction_index |-> m.stale_transaction_index]
    /\ m.transaction_index \in Nat
IsProposal(p) == p = [approved |-> p.approved, executed |-> p.executed]

LEMMA AccountsState ==
    /\ IsState(Accounts)
    /\ Succeeds(Accounts)
    /\ Accounts.multisig = multisig
    /\ Accounts.staged = staged
    /\ Accounts.proposals = proposals
BY DEF Accounts, Succeeds, IsState

LEMMA FailedState ==
    ASSUME NEW s, IsState(s)
    PROVE  /\ IsState(Failed(s))
           /\ ~Succeeds(Failed(s))
           /\ Failed(s).multisig = s.multisig
           /\ Failed(s).staged = s.staged
           /\ Failed(s).proposals = s.proposals
BY DEF Failed, Succeeds, IsState

(* The settlement program leaves the multisig alone. *)
LEMMA SettlementStep ==
    ASSUME NEW s, IsState(s), NEW ix
    PROVE  LET t == ExecuteSettlement(s, ix) IN
           /\ IsState(t)
           /\ t.multisig = s.multisig
           /\ t.staged = s.staged
           /\ t.proposals = s.proposals
<1> DEFINE t == ExecuteSettlement(s, ix)
           grown(S) == [s EXCEPT !.existing = S]
<1>1. t = Failed(s) \/ t = s \/ \E S : t = grown(S)
  <2> DEFINE p == ParseInstruction(ix.data, ix.accounts)
             fresh == s.existing \cup {StatePda}
             more == s.existing \cup {b.buffer_pda.key : b \in Range(p.buffers)}
  <2>1. t = CASE p.instruction = "Initialize" ->
                   IF StatePda \in s.existing THEN Failed(s) ELSE grown(fresh)
              [] p.instruction = "CreateBuffer" -> grown(more)
              [] OTHER -> IF StatePda \in s.existing THEN s ELSE Failed(s)
    BY Zenon DEF ExecuteSettlement
  <2> HIDE DEF p, fresh, more, t, grown
  <2>2. \/ t = Failed(s)
        \/ t = s
        \/ t = grown(fresh)
        \/ t = grown(more)
    BY <2>1
  <2> QED BY <2>2
<1>2. ASSUME NEW S
      PROVE  /\ IsState(grown(S))
             /\ grown(S).multisig = s.multisig
             /\ grown(S).staged = s.staged
             /\ grown(S).proposals = s.proposals
  BY DEF IsState
<1> HIDE DEF t, grown
<1>3. /\ IsState(t)
      /\ t.multisig = s.multisig
      /\ t.staged = s.staged
      /\ t.proposals = s.proposals
  BY <1>1, <1>2, FailedState
<1> QED BY <1>3 DEF t

(* A transaction of the settlement program only. *)
LEMMA DirectLands ==
    ASSUME NEW ixs, NEW c, Len(ixs) \in Nat,
           \A k \in 1..Len(ixs) : ixs[k].program # SquadsProgram
    PROVE  /\ Execute(ixs, c).multisig = multisig
           /\ Execute(ixs, c).staged = staged
           /\ Execute(ixs, c).proposals = proposals
<1> DEFINE g == After(ixs, c)
           same(s) == /\ IsState(s)
                      /\ s.multisig = multisig
                      /\ s.staged = staged
                      /\ s.proposals = proposals
           N == {k \in Nat : k <= Len(ixs) => same(g[k])}
<1>1. ASSUME NEW k \in Nat, \A j \in 0..(k - 1) : j \in N
      PROVE  k \in N
  <2> SUFFICES ASSUME k <= Len(ixs) PROVE same(g[k])
    OBVIOUS
  <2>1. CASE k = 0
    BY <2>1, AfterStep, AccountsState
  <2>2. CASE k # 0
    <3>1. k \in 1..Len(ixs) /\ k - 1 \in 0..(k - 1)
      BY <2>2
    <3>2. same(g[k - 1])
      BY <1>1, <3>1
    <3>3. g[k] = ExecuteOne(g[k - 1], ixs[k], c)
      BY <3>1, AfterStep
    <3> DEFINE s == g[k - 1]
    <3>4. ExecuteOne(s, ixs[k], c) = s \/ ExecuteOne(s, ixs[k], c) = ExecuteSettlement(s, ixs[k])
      <4>1. ixs[k].program # SquadsProgram
        BY <3>1
      <4> HIDE DEF s
      <4> QED BY <4>1 DEF ExecuteOne
    <3> HIDE DEF s, g
    <3>5. same(s)
      BY <3>2 DEF s
    <3>6. same(ExecuteSettlement(s, ixs[k]))
      BY <3>5, SettlementStep
    <3>7. g[k] = s \/ g[k] = ExecuteSettlement(s, ixs[k])
      BY <3>3, <3>4 DEF s
    <3> HIDE DEF same
    <3> QED BY <3>5, <3>6, <3>7
  <2> QED BY <2>1, <2>2
<1> HIDE DEF N, same
<1>2. Nat \subseteq N
  BY <1>1, NumbersInduction
<1>3. same(g[Len(ixs)])
  BY <1>2 DEF N
<1> QED BY <1>3, ExecuteIsAfter DEF same
-----------------------------------------------------------------------------
(* What a command sends to propose, and what it does when it lands. *)
Built(index, member, vault_index, message, approved) ==
    <<VaultTransactionCreate(index, member, vault_index, message), ProposalCreate(index, member)>>
    \o (IF approved THEN <<ProposalApprove(index, member)>> ELSE <<>>)

Stage(index, member, vault_index, message, c) ==
    [message |-> message, creator |-> member, vault_index |-> vault_index, command |-> c]

LEMMA BuiltParts ==
    ASSUME NEW index, NEW member, NEW vault_index, NEW message, NEW approved \in BOOLEAN
    PROVE  LET ixs == Built(index, member, vault_index, message, approved) IN
           /\ Len(ixs) = IF approved THEN 3 ELSE 2
           /\ ixs[1] = VaultTransactionCreate(index, member, vault_index, message)
           /\ ixs[2] = ProposalCreate(index, member)
           /\ approved => ixs[3] = ProposalApprove(index, member)
<1> DEFINE a == VaultTransactionCreate(index, member, vault_index, message)
           b == ProposalCreate(index, member)
           d == ProposalApprove(index, member)
<1>1. CASE approved
  <2>1. Built(index, member, vault_index, message, approved) = <<a, b>> \o <<d>>
    BY <1>1, Zenon DEF Built
  <2> HIDE DEF a, b, d
  <2> DEFINE all == <<a, b>> \o <<d>>
  <2>2. Len(all) = 3 /\ all[1] = a /\ all[2] = b /\ all[3] = d
    <3>1. <<a, b>> \in Seq({a, b, d}) /\ <<d>> \in Seq({a, b, d})
      OBVIOUS
    <3> QED BY <3>1, ConcatProperties
  <2> HIDE DEF all
  <2>3. Built(index, member, vault_index, message, approved) = all
    BY <2>1, Zenon DEF all
  <2> QED BY <1>1, <2>2, <2>3 DEF a, b, d
<1>2. CASE ~approved
  <2>1. Built(index, member, vault_index, message, approved) = <<a, b>> \o <<>>
    BY <1>2, Zenon DEF Built
  <2> HIDE DEF a, b, d
  <2>2. <<a, b>> \o <<>> = <<a, b>>
    <3>1. <<a, b>> \in Seq({a, b})
      OBVIOUS
    <3> QED BY <3>1, ConcatEmptySeq
  <2>3. Built(index, member, vault_index, message, approved) = <<a, b>>
    BY <2>1, <2>2, Zenon
  <2> QED BY <1>2, <2>3 DEF a, b, d
<1> QED BY <1>1, <1>2

LEMMA FailedStays ==
    ASSUME NEW s, NEW ix, NEW c, Succeeds(ExecuteOne(s, ix, c))
    PROVE  Succeeds(s)
BY DEF ExecuteOne

LEMMA StageStep ==
    ASSUME NEW s, IsState(s), IsMultisig(s.multisig), NEW index \in Nat, NEW member,
           NEW vault_index, NEW message, NEW c,
           NEW t, t = ExecuteOne(s, VaultTransactionCreate(index, member, vault_index, message), c),
           Succeeds(t)
    PROVE  /\ IsState(t)
           /\ index = s.multisig.transaction_index + 1
           /\ t.multisig = [s.multisig EXCEPT !.transaction_index = index]
           /\ t.staged = With(s.staged, index, Stage(index, member, vault_index, message, c))
           /\ t.proposals = s.proposals
<1> DEFINE ix == VaultTransactionCreate(index, member, vault_index, message)
           next == s.multisig.transaction_index + 1
<1>1. /\ ix.program = SquadsProgram /\ ix.name = "VaultTransactionCreate"
      /\ ix.accounts[2].key = TransactionPda(index)
      /\ ix.accounts[3].key = member
      /\ ix.message = message /\ ix.vault_index = vault_index
  BY DEF VaultTransactionCreate, New, NewReadonly
<1> HIDE DEF ix
<1>2. t = ExecuteOne(s, ix, c)
  BY DEF ix
<1>3. t = StageTransaction(s, ix, c)
  <2>1. t = ExecuteSquads(s, ix, c)
    BY <1>1, <1>2, FailedStays DEF ExecuteOne
  <2> QED BY <1>1, <2>1 DEF ExecuteSquads
<1> DEFINE done == [s EXCEPT !.multisig.transaction_index = next,
                             !.staged = With(@, next, [message |-> ix.message,
                                                       creator |-> ix.accounts[3].key,
                                                       vault_index |-> ix.vault_index,
                                                       command |-> c])]
<1>4. ix.accounts[2].key = TransactionPda(next) /\ t = done
  <2>1. \/ ix.accounts[2].key = TransactionPda(next) /\ t = done
        \/ t = Failed(s)
    BY <1>3, Zenon DEF StageTransaction
  <2> QED BY <2>1, FailedState
<1>5. index = next
  BY <1>1, <1>4 DEF TransactionPda
<1> DEFINE entry == Stage(index, member, vault_index, message, c)
           longer == With(s.staged, index, entry)
<1>6. t = [s EXCEPT !.multisig.transaction_index = index, !.staged = longer]
  BY <1>1, <1>4, <1>5 DEF Stage
<1> HIDE DEF longer, done
<1>7. /\ IsState(t)
      /\ t.multisig = [s.multisig EXCEPT !.transaction_index = index]
      /\ t.staged = longer
      /\ t.proposals = s.proposals
  BY <1>6 DEF IsState
<1> QED BY <1>5, <1>7 DEF longer

LEMMA OpenStep ==
    ASSUME NEW s, IsState(s), NEW index, NEW member, NEW c,
           NEW t, t = ExecuteOne(s, ProposalCreate(index, member), c),
           Succeeds(t)
    PROVE  /\ IsState(t)
           /\ t.multisig = s.multisig
           /\ t.staged = s.staged
           /\ t.proposals = With(s.proposals, index, [approved |-> {}, executed |-> FALSE])
<1> DEFINE ix == ProposalCreate(index, member)
           longer == With(s.proposals, index, [approved |-> {}, executed |-> FALSE])
<1>1. ix.program = SquadsProgram /\ ix.name = "ProposalCreate" /\ ix.transaction_index = index
  BY DEF ProposalCreate
<1> HIDE DEF ix
<1>2. t = ExecuteOne(s, ix, c)
  BY DEF ix
<1>3. t = OpenProposal(s, ix)
  <2>1. t = ExecuteSquads(s, ix, c)
    BY <1>1, <1>2, FailedStays DEF ExecuteOne
  <2> QED BY <1>1, <2>1 DEF ExecuteSquads
<1>4. t = [s EXCEPT !.proposals = longer]
  <2>1. t = [s EXCEPT !.proposals = longer] \/ t = Failed(s)
    BY <1>1, <1>3, Zenon DEF OpenProposal
  <2> QED BY <2>1, FailedState
<1> HIDE DEF longer
<1>5. /\ IsState(t)
      /\ t.multisig = s.multisig
      /\ t.staged = s.staged
      /\ t.proposals = longer
  BY <1>4 DEF IsState
<1> QED BY <1>5 DEF longer

Approved(list, index, member) == [list EXCEPT ![index].approved = @ \cup {member}]

LEMMA ApproveStep ==
    ASSUME NEW s, IsState(s), NEW index, NEW member, NEW c,
           NEW t, t = ExecuteOne(s, ProposalApprove(index, member), c),
           Succeeds(t)
    PROVE  /\ IsState(t)
           /\ t.multisig = s.multisig
           /\ t.staged = s.staged
           /\ t.proposals = Approved(s.proposals, index, member)
<1> DEFINE ix == ProposalApprove(index, member)
           more == [s.proposals EXCEPT ![index].approved = @ \cup {member}]
<1>1. /\ ix.program = SquadsProgram /\ ix.name = "ProposalApprove"
      /\ ix.accounts[3].key[2] = index /\ ix.accounts[2].key = member
  BY DEF ProposalApprove, New, NewReadonly, ProposalPda
<1> HIDE DEF ix
<1>2. t = ExecuteOne(s, ix, c)
  BY DEF ix
<1>3. t = ApproveProposal(s, ix)
  <2>1. t = ExecuteSquads(s, ix, c)
    BY <1>1, <1>2, FailedStays DEF ExecuteOne
  <2> QED BY <1>1, <2>1 DEF ExecuteSquads
<1>4. t = [s EXCEPT !.proposals = more]
  <2>1. t = [s EXCEPT !.proposals[index].approved = @ \cup {member}] \/ t = Failed(s)
    BY <1>1, <1>3, Zenon DEF ApproveProposal
  <2>2. t = [s EXCEPT !.proposals[index].approved = @ \cup {member}]
    BY <2>1, FailedState
  <2> QED BY <2>2 DEF IsState
<1> HIDE DEF more
<1>5. /\ IsState(t)
      /\ t.multisig = s.multisig
      /\ t.staged = s.staged
      /\ t.proposals = more
  BY <1>4 DEF IsState
<1> QED BY <1>5, Zenon DEF more, Approved
(* The addresses of the first transaction of a multisig are those of the   *)
(* index it has next, so a proposal lands only at the index it was built   *)
(* for, and all of it belongs to one member.                               *)
LEMMA ProposalLands ==
    ASSUME IsMultisig(multisig), NEW index \in Nat, NEW member, NEW vault_index, NEW message,
           NEW approved \in BOOLEAN, NEW c,
           NEW t, t = Execute(Built(index, member, vault_index, message, approved), c),
           Succeeds(t), DOMAIN proposals \subseteq 1..multisig.transaction_index
    PROVE  /\ index = multisig.transaction_index + 1
           /\ t.multisig = [multisig EXCEPT !.transaction_index = index]
           /\ t.staged = With(staged, index, Stage(index, member, vault_index, message, c))
           /\ DOMAIN t.proposals = DOMAIN proposals \cup {index}
           /\ \A i \in DOMAIN proposals : t.proposals[i] = proposals[i] /\ i # index
           /\ IsProposal(t.proposals[index])
           /\ t.proposals[index].approved \subseteq {member}
           /\ approved => member \in t.proposals[index].approved
<1> DEFINE ixs == Built(index, member, vault_index, message, approved)
           g == After(ixs, c)
<1>1. /\ Len(ixs) = IF approved THEN 3 ELSE 2
      /\ ixs[1] = VaultTransactionCreate(index, member, vault_index, message)
      /\ ixs[2] = ProposalCreate(index, member)
      /\ approved => ixs[3] = ProposalApprove(index, member)
  BY BuiltParts
<1>2. t = g[Len(ixs)]
  BY ExecuteIsAfter
<1> HIDE DEF ixs
<1>3. /\ g[0] = Accounts
      /\ \A k \in 1..Len(ixs) : g[k] = ExecuteOne(g[k - 1], ixs[k], c)
  BY <1>1, AfterStep
<1> HIDE DEF g
<1>4. /\ g[1] = ExecuteOne(g[0], ixs[1], c)
      /\ g[2] = ExecuteOne(g[1], ixs[2], c)
      /\ approved => g[3] = ExecuteOne(g[2], ixs[3], c)
  <2>1. 1 \in 1..Len(ixs) /\ 2 \in 1..Len(ixs) /\ (approved => 3 \in 1..Len(ixs))
    BY <1>1
  <2> QED BY <1>3, <2>1
<1>5. Succeeds(g[2]) /\ Succeeds(g[1]) /\ (approved => t = g[3]) /\ (~approved => t = g[2])
  <2>1. (approved => t = g[3]) /\ (~approved => t = g[2])
    BY <1>1, <1>2
  <2>2. Succeeds(g[2])
    BY <1>4, <2>1, FailedStays
  <2> QED BY <1>4, <2>1, <2>2, FailedStays
<1>6. /\ IsState(g[0]) /\ g[0].multisig = multisig /\ g[0].staged = staged
      /\ g[0].proposals = proposals
  BY <1>3, AccountsState
<1> DEFINE longer == With(staged, index, Stage(index, member, vault_index, message, c))
           opened == [approved |-> {}, executed |-> FALSE]
<1>7. /\ IsState(g[1])
      /\ index = multisig.transaction_index + 1
      /\ g[1].multisig = [multisig EXCEPT !.transaction_index = index]
      /\ g[1].staged = longer
      /\ g[1].proposals = proposals
  BY <1>1, <1>4, <1>5, <1>6, StageStep
<1> HIDE DEF longer, opened
<1>8. /\ IsState(g[2])
      /\ g[2].multisig = [multisig EXCEPT !.transaction_index = index]
      /\ g[2].staged = longer
      /\ g[2].proposals = With(proposals, index, opened)
  BY <1>1, <1>4, <1>5, <1>7, OpenStep DEF opened
<1>9. /\ opened.approved = {}
      /\ IsProposal(opened)
  BY DEF opened, IsProposal
<1>10. /\ DOMAIN g[2].proposals = DOMAIN proposals \cup {index}
       /\ \A i \in DOMAIN proposals : g[2].proposals[i] = proposals[i]
       /\ g[2].proposals[index] = opened
  <2>1. index \notin DOMAIN proposals
    BY <1>7 DEF IsMultisig
  <2> QED BY <1>8, <2>1 DEF With
<1>11. \A i \in DOMAIN proposals : i # index
  BY <1>7 DEF IsMultisig
<1>12. CASE ~approved
  BY <1>5, <1>7, <1>8, <1>9, <1>10, <1>11, <1>12 DEF longer
<1>13. CASE approved
  <2> DEFINE q == g[2].proposals
  <2>1. /\ t.multisig = g[2].multisig
        /\ t.staged = g[2].staged
        /\ t.proposals = Approved(g[2].proposals, index, member)
    <3>1. t = ExecuteOne(g[2], ProposalApprove(index, member), c)
      BY <1>1, <1>4, <1>5, <1>13
    <3> QED BY <1>8, <3>1, ApproveStep
  <2> HIDE DEF q
  <2>2. t.proposals = [q EXCEPT ![index].approved = @ \cup {member}]
    BY <2>1, Zenon DEF q, Approved
  <2>3. /\ DOMAIN q = DOMAIN proposals \cup {index}
        /\ \A i \in DOMAIN proposals : q[i] = proposals[i]
        /\ q[index] = opened
    BY <1>10 DEF q
  <2>4. /\ DOMAIN t.proposals = DOMAIN proposals \cup {index}
        /\ \A i \in DOMAIN proposals : t.proposals[i] = proposals[i]
        /\ t.proposals[index] = [opened EXCEPT !.approved = opened.approved \cup {member}]
    BY <1>11, <2>2, <2>3
  <2>5. IsProposal(t.proposals[index]) /\ t.proposals[index].approved = {member}
    BY <1>9, <2>4 DEF IsProposal
  <2> QED BY <1>7, <1>8, <1>11, <2>1, <2>4, <2>5 DEF longer
<1> QED BY <1>12, <1>13
-----------------------------------------------------------------------------
(* SetToSeq lists the elements of a finite set. *)
Lists(q, S, n) ==
    /\ n \in Nat
    /\ q \in [1..n -> S]
    /\ \A x \in S : \E k \in 1..n : q[k] = x

LEMMA SetToSeqLists ==
    ASSUME NEW S, IsFiniteSet(S)
    PROVE  Lists(SetToSeq(S), S, Cardinality(S))
<1> DEFINE n == Cardinality(S)
           q == SetToSeq(S)
<1>1. n \in Nat /\ ExistsBijection(1..n, S)
  BY FS_CardinalityType
<1>2. \E f \in [1..n -> S] : IsInjective(f)
  <2> HIDE DEF n
  <2> QED BY <1>1 DEF ExistsBijection, Bijection, Injection
<1>3. q \in [1..n -> S] /\ IsInjective(q)
  BY <1>2, Zenon DEF SetToSeq, n
<1> HIDE DEF q, n
<1>4. q \in Injection(1..n, S)
  BY <1>3, Zenon DEF Injection
<1>5. Cardinality(1..n) = n
  BY <1>1, FS_Interval
<1>6. q \in Surjection(1..n, S)
  BY <1>4, <1>5, FS_Injection DEF n
<1>7. \A x \in S : \E k \in 1..n : q[k] = x
  BY <1>6 DEF Surjection
<1>8. Lists(q, S, n)
  BY <1>1, <1>3, <1>7 DEF Lists
<1> QED BY <1>8 DEF q, n

LEMMA SetToSeqDomain ==
    ASSUME NEW S, IsFiniteSet(S)
    PROVE  Cardinality(S) \in Nat /\ DOMAIN SetToSeq(S) = 1..Cardinality(S)
BY SetToSeqLists DEF Lists

(* The instructions of a command are a list, all of one program. *)
LEMMA RangeFinite ==
    ASSUME NEW S, NEW q \in Seq(S)
    PROVE  IsFiniteSet(Range(q))
<1>1. Len(q) \in Int /\ DOMAIN q = 1..Len(q)
  OBVIOUS
<1>2. IsFiniteSet(1..Len(q))
  BY <1>1, FS_Interval
<1>3. IsFiniteSet({q[k] : k \in 1..Len(q)})
  BY <1>2, ImageFinite
<1> QED BY <1>1, <1>3, Zenon DEF Range

LEMMA BufferCreateDomain ==
    ASSUME NEW r \in Requests, r.command = "buffer create"
    PROVE  \E n \in Nat : DOMAIN RunBufferCreate(r) = 1..n
<1> DEFINE missing == {m \in Range(r.mints) : Buffer[m] \notin existing}
           S == {TokenProgramOf[m] : m \in missing}
           programs == SetToSeq(S)
<1>1. r.mints \in Seq(DOMAIN Buffer)
  BY SubmissionAssumption
<1>2. IsFiniteSet(Range(r.mints))
  BY <1>1, RangeFinite, Zenon
<1>3. IsFiniteSet(missing)
  BY <1>2, FS_Subset
<1>4. IsFiniteSet(S)
  <2> HIDE DEF missing
  <2> QED BY <1>3, ImageFinite
<1>5. DOMAIN RunBufferCreate(r) = DOMAIN programs
  BY DEF RunBufferCreate
<1> HIDE DEF S
<1>6. Cardinality(S) \in Nat /\ DOMAIN programs = 1..Cardinality(S)
  BY <1>4, SetToSeqDomain
<1> QED BY <1>5, <1>6

LEMMA RunShape ==
    ASSUME NEW r \in Requests
    PROVE  /\ Len(Run(r)) \in Nat
           /\ DOMAIN Run(r) = 1..Len(Run(r))
           /\ \A k \in 1..Len(Run(r)) : Run(r)[k].program # SquadsProgram
<1> DEFINE ixs == CASE r.command = "initialize" -> RunInitialize(r)
                    [] r.command = "solver add" -> RunSolverAdd(r)
                    [] r.command = "solver remove" -> RunSolverRemove(r)
                    [] r.command = "authority transfer" -> RunAuthorityTransfer(r)
                    [] r.command = "buffer create" -> RunBufferCreate(r)
<1>1. \E n \in Nat : DOMAIN ixs = 1..n
  <2>1. r.command \in Names
    BY SubmissionAssumption
  <2>2. CASE r.command = "initialize"
    <3>1. ixs = RunInitialize(r)
      BY <2>2
    <3>2. DOMAIN RunInitialize(r) = 1..1
      BY DEF RunInitialize
    <3> QED BY <3>1, <3>2
  <2>3. CASE r.command = "solver add"
    <3>1. ixs = RunSolverAdd(r)
      BY <2>3
    <3>2. DOMAIN RunSolverAdd(r) = 1..1
      BY DEF RunSolverAdd
    <3> QED BY <3>1, <3>2
  <2>4. CASE r.command = "solver remove"
    <3>1. ixs = RunSolverRemove(r)
      BY <2>4
    <3>2. DOMAIN RunSolverRemove(r) = 1..1
      BY DEF RunSolverRemove
    <3> QED BY <3>1, <3>2
  <2>5. CASE r.command = "authority transfer"
    <3>1. ixs = RunAuthorityTransfer(r)
      BY <2>5
    <3>2. DOMAIN RunAuthorityTransfer(r) = 1..1
      BY DEF RunAuthorityTransfer
    <3> QED BY <3>1, <3>2
  <2>6. CASE r.command = "buffer create"
    <3>1. ixs = RunBufferCreate(r)
      BY <2>6
    <3> HIDE DEF ixs
    <3> QED BY <2>6, <3>1, BufferCreateDomain
  <2> QED BY <2>1, <2>2, <2>3, <2>4, <2>5, <2>6 DEF Names
<1>2. Run(r) = [k \in DOMAIN ixs |-> [program |-> SettlementProgram, accounts |-> ixs[k].accounts,
                                      data |-> ixs[k].data]]
  BY Zenon DEF Run
<1>3. PICK n \in Nat : DOMAIN ixs = 1..n
  BY <1>1
<1> HIDE DEF ixs
<1> DEFINE e(k) == [program |-> SettlementProgram, accounts |-> ixs[k].accounts,
                    data |-> ixs[k].data]
<1>4. Run(r) = [k \in 1..n |-> e(k)]
  BY <1>2, <1>3
<1>5. \A k \in 1..n : Run(r)[k].program = SettlementProgram
  BY <1>4
<1>6. Len(Run(r)) = n
  <2> HIDE DEF e
  <2> QED BY <1>4
<1> QED BY <1>4, <1>5, <1>6, SubmissionAssumption
-----------------------------------------------------------------------------
(* Indices are given out one by one, and each is staged before it can be   *)
(* proposed.                                                               *)
IndicesInv ==
    /\ IsMultisig(multisig)
    /\ DOMAIN staged = 1..multisig.transaction_index
    /\ DOMAIN proposals \subseteq DOMAIN staged
    /\ \A i \in DOMAIN proposals : IsProposal(proposals[i])

(* The multisig holds what command c built, under index. *)
HoldsFor(list, open, c, keypair, index, approved) ==
    /\ index \in DOMAIN list \cap DOMAIN open
    /\ list[index].command = c
    /\ approved => keypair \in open[index].approved

IsCommand(d) ==
    d = [request |-> d.request, step |-> d.step, ixs |-> d.ixs, proposal |-> d.proposal,
         report |-> d.report]

IsUnsubmitted(d) ==
    /\ d.proposal = <<>>
    /\ Len(d.ixs) \in Nat
    /\ \A k \in 1..Len(d.ixs) : d.ixs[k].program # SquadsProgram

(* A command that was not submitted yet, one that knows that its proposal  *)
(* landed, and one that reported it.                                       *)
IsSound(list, open, c, d) ==
    /\ IsCommand(d)
    /\ d.step = "submit" => IsUnsubmitted(d)
    /\ d.step = "landed" /\ d.proposal # <<>> =>
           HoldsFor(list, open, c, d.request.keypair, d.proposal[1].transaction_index,
                    d.proposal[1].approved)
    /\ d.report.kind = "proposed" =>
           HoldsFor(list, open, c, d.request.keypair, d.report.index, d.report.approved)

(* A transaction of command d calls the settlement program only, or is the *)
(* proposal that the command remembers.                                    *)
IsDirect(x, d) ==
    /\ d.proposal = <<>>
    /\ Len(x.ixs) \in Nat
    /\ \A k \in 1..Len(x.ixs) : x.ixs[k].program # SquadsProgram
IsProposed(x, d) ==
    LET proposal == d.proposal[1] IN
    /\ proposal.transaction_index \in Nat
    /\ proposal.approved \in BOOLEAN
    /\ x.ixs = Built(proposal.transaction_index, d.request.keypair,
                     x.ixs[1].vault_index, x.ixs[1].message, proposal.approved)
IsSent(x, d) ==
    /\ d.step # "submit"
    /\ IsDirect(x, d) \/ IsProposed(x, d)

CommandsInv ==
    /\ \E S : commands \in Seq(S)
    /\ \A c \in DOMAIN commands : IsSound(staged, proposals, c, commands[c])

FlightInv == \A x \in flight : x.command \in DOMAIN commands /\ IsSent(x, commands[x.command])

SubmissionInv ==
    /\ IndicesInv
    /\ CommandsInv
    /\ FlightInv
    /\ ApprovalsAreInformed

-----------------------------------------------------------------------------
(* What the multisig holds stays, and approvals are not taken back. *)
Grows ==
    /\ DOMAIN staged \subseteq DOMAIN staged'
    /\ \A i \in DOMAIN staged : staged'[i] = staged[i]
    /\ DOMAIN proposals \subseteq DOMAIN proposals'
    /\ \A i \in DOMAIN proposals : proposals[i].approved \subseteq proposals'[i].approved

LEMMA HoldsKept ==
    ASSUME NEW c, NEW keypair, NEW index, NEW approved, Grows,
           HoldsFor(staged, proposals, c, keypair, index, approved)
    PROVE  HoldsFor(staged', proposals', c, keypair, index, approved)
BY DEF HoldsFor, Grows

(* A command that is left alone. *)
LEMMA SoundKept ==
    ASSUME NEW c, NEW d, IsSound(staged, proposals, c, d), Grows
    PROVE  IsSound(staged', proposals', c, d)
<1>1. /\ IsCommand(d)
      /\ d.step = "submit" => IsUnsubmitted(d)
  BY Zenon DEF IsSound
<1>2. d.step = "landed" /\ d.proposal # <<>> =>
          HoldsFor(staged', proposals', c, d.request.keypair, d.proposal[1].transaction_index,
                   d.proposal[1].approved)
  BY HoldsKept, Zenon DEF IsSound
<1>3. d.report.kind = "proposed" =>
          HoldsFor(staged', proposals', c, d.request.keypair, d.report.index, d.report.approved)
  BY HoldsKept, Zenon DEF IsSound
<1> QED BY <1>1, <1>2, <1>3, Zenon DEF IsSound

(* Fields of a command that is changed. *)
LEMMA CommandFields ==
    ASSUME NEW d, IsCommand(d), NEW step, NEW e, e = [d EXCEPT !.step = step]
    PROVE  /\ IsCommand(e)
           /\ e.step = step
           /\ e.request = d.request
           /\ e.ixs = d.ixs
           /\ e.proposal = d.proposal
           /\ e.report = d.report
BY DEF IsCommand

Proposing(d, step, list) == [d EXCEPT !.step = step, !.proposal = list]

LEMMA ProposalFields ==
    ASSUME NEW d, IsCommand(d), NEW step, NEW list, NEW e, e = Proposing(d, step, list)
    PROVE  /\ IsCommand(e)
           /\ e.step = step
           /\ e.request = d.request
           /\ e.proposal = list
           /\ e.report = d.report
BY DEF IsCommand, Proposing

(* A command that takes a step to which nothing is tied. *)
LEMMA SoundStep ==
    ASSUME NEW c, NEW d, IsSound(staged, proposals, c, d), Grows,
           NEW step, step \notin {"submit", "landed"},
           NEW e, e = [d EXCEPT !.step = step]
    PROVE  IsSound(staged', proposals', c, e)
<1>1. IsSound(staged', proposals', c, d)
  BY SoundKept
<1>2. /\ IsCommand(e)
      /\ e.step = step
      /\ e.request = d.request
      /\ e.report = d.report
  <2>1. IsCommand(d)
    BY Zenon DEF IsSound
  <2> QED BY <2>1, CommandFields
<1>3. e.step # "submit" /\ e.step # "landed"
  BY <1>2
<1>4. e.report.kind = "proposed" =>
          HoldsFor(staged', proposals', c, e.request.keypair, e.report.index, e.report.approved)
  BY <1>1, <1>2, Zenon DEF IsSound
<1> QED BY <1>2, <1>3, <1>4, Zenon DEF IsSound

(* What was sent for a command stays so. *)
LEMMA SentKept ==
    ASSUME NEW x, NEW d, NEW e, IsSent(x, d), e.step # "submit", e.proposal = d.proposal,
           e.request = d.request
    PROVE  IsSent(x, e)
BY Zenon DEF IsSent, IsDirect, IsProposed
(* The multisig and its votes are left alone. *)
LEMMA SquadsKept ==
    ASSUME IndicesInv, ApprovalsAreInformed, UNCHANGED <<squads, votes>>
    PROVE  Grows /\ IndicesInv' /\ ApprovalsAreInformed'
<1>1. UNCHANGED multisig /\ UNCHANGED staged /\ UNCHANGED proposals /\ UNCHANGED votes
  BY DEF squads
<1>2. Grows
  BY <1>1 DEF Grows
<1>3. IndicesInv'
  BY <1>1, Zenon DEF IndicesInv
<1>4. ApprovalsAreInformed'
  BY <1>1, Zenon DEF ApprovalsAreInformed
<1> QED BY <1>2, <1>3, <1>4

(* No command takes a step. *)
LEMMA CommandsKept ==
    ASSUME CommandsInv, Grows, UNCHANGED commands
    PROVE  CommandsInv'
<1>1. \A c \in DOMAIN commands : IsSound(staged', proposals', c, commands[c])
  BY SoundKept DEF CommandsInv
<1> QED BY <1>1, Zenon DEF CommandsInv

(* One of them does. *)
LEMMA CommandChanged ==
    ASSUME CommandsInv, Grows, NEW c \in DOMAIN commands, NEW e,
           commands' = [commands EXCEPT ![c] = e],
           IsSound(staged', proposals', c, e)
    PROVE  /\ CommandsInv'
           /\ DOMAIN commands' = DOMAIN commands
           /\ commands'[c] = e
           /\ \A k \in DOMAIN commands : k # c => commands'[k] = commands[k]
<1>1. PICK S : commands \in Seq(S)
  BY DEF CommandsInv
<1>2. commands' \in Seq(S \cup {e})
  <2>1. commands \in Seq(S \cup {e})
    BY <1>1, SeqMonotonic
  <2> QED BY <2>1
<1>3. /\ DOMAIN commands' = DOMAIN commands
      /\ commands'[c] = e
      /\ \A k \in DOMAIN commands : k # c => commands'[k] = commands[k]
  BY <1>1
<1>4. ASSUME NEW k \in DOMAIN commands
      PROVE  IsSound(staged', proposals', k, commands'[k])
  <2>1. CASE k = c
    BY <1>3, <2>1
  <2>2. CASE k # c
    <3>1. IsSound(staged', proposals', k, commands[k])
      BY SoundKept DEF CommandsInv
    <3> QED BY <1>3, <2>2, <3>1
  <2> QED BY <2>1, <2>2
<1>5. CommandsInv'
  BY <1>2, <1>3, <1>4, Zenon DEF CommandsInv
<1> QED BY <1>3, <1>5

(* What is in flight, when one command took a step. *)
LEMMA FlightKept ==
    ASSUME FlightInv, flight' \subseteq flight, NEW c \in DOMAIN commands, NEW e,
           DOMAIN commands' = DOMAIN commands, commands'[c] = e,
           \A k \in DOMAIN commands : k # c => commands'[k] = commands[k],
           e.step # "submit", e.proposal = commands[c].proposal, e.request = commands[c].request
    PROVE  FlightInv'
<1> SUFFICES ASSUME NEW x \in flight'
             PROVE  x.command \in DOMAIN commands' /\ IsSent(x, commands'[x.command])
  BY Zenon DEF FlightInv
<1>1. x.command \in DOMAIN commands /\ IsSent(x, commands[x.command])
  BY DEF FlightInv
<1>2. CASE x.command = c
  BY <1>1, <1>2, SentKept
<1>3. CASE x.command # c
  BY <1>1, <1>3
<1> QED BY <1>1, <1>2, <1>3

LEMMA SubmissionInit == Init => SubmissionInv
<1> SUFFICES ASSUME Init PROVE SubmissionInv
  OBVIOUS
<1>1. IndicesInv
  BY DEF Init, IndicesInv, IsMultisig
<1>2. CommandsInv
  BY DEF Init, CommandsInv
<1>3. FlightInv
  BY DEF Init, FlightInv
<1>4. ApprovalsAreInformed
  BY DEF Init, ApprovalsAreInformed
<1> QED BY <1>1, <1>2, <1>3, <1>4 DEF SubmissionInv

LEMMA StartNext ==
    ASSUME SubmissionInv, NEW r \in Requests, Start(r)
    PROVE  SubmissionInv'
<1> DEFINE d == [request |-> r, step |-> "submit", ixs |-> Run(r), proposal |-> <<>>,
                 report |-> NoReport]
<1>1. commands' = Append(commands, d) /\ UNCHANGED <<flight, existing, squads, changes, votes>>
  BY Zenon DEF Start
<1>2. Grows /\ IndicesInv' /\ ApprovalsAreInformed'
  BY <1>1, SquadsKept DEF SubmissionInv
<1>3. PICK S : commands \in Seq(S)
  BY DEF SubmissionInv, CommandsInv
<1>4. /\ d.step = "submit" /\ d.proposal = <<>> /\ d.ixs = Run(r)
      /\ d.report.kind = "none" /\ IsCommand(d)
  BY DEF NoReport, IsCommand
<1> HIDE DEF d
<1>5. IsSound(staged', proposals', Len(commands) + 1, d)
  <2>1. IsUnsubmitted(d)
    BY <1>4, RunShape DEF IsUnsubmitted
  <2> QED BY <1>4, <2>1 DEF IsSound
<1>6. /\ commands' \in Seq(S \cup {d})
      /\ DOMAIN commands' = DOMAIN commands \cup {Len(commands) + 1}
      /\ commands'[Len(commands) + 1] = d
      /\ \A k \in DOMAIN commands : commands'[k] = commands[k]
  <2>1. commands \in Seq(S \cup {d})
    BY <1>3, SeqMonotonic
  <2> QED BY <1>1, <2>1
<1>7. CommandsInv'
  <2>1. ASSUME NEW k \in DOMAIN commands
        PROVE  IsSound(staged', proposals', k, commands'[k])
    <3>1. IsSound(staged', proposals', k, commands[k])
      BY <1>2, SoundKept DEF SubmissionInv, CommandsInv
    <3> QED BY <1>6, <3>1
  <2>2. \A k \in DOMAIN commands' : IsSound(staged', proposals', k, commands'[k])
    BY <1>5, <1>6, <2>1
  <2> QED BY <1>6, <2>2, Zenon DEF CommandsInv
<1>8. FlightInv'
  <2>1. \A x \in flight : x.command \in DOMAIN commands /\ IsSent(x, commands[x.command])
    BY DEF SubmissionInv, FlightInv
  <2>2. \A x \in flight' : x.command \in DOMAIN commands' /\ IsSent(x, commands'[x.command])
    BY <1>1, <1>6, <2>1
  <2> QED BY <2>2, Zenon DEF FlightInv
<1> QED BY <1>2, <1>7, <1>8 DEF SubmissionInv
(* A transaction is sent for the command. *)
LEMMA FlightMore ==
    ASSUME FlightInv, NEW x, flight' = flight \cup {x}, NEW c \in DOMAIN commands, NEW e,
           x.command = c,
           DOMAIN commands' = DOMAIN commands, commands'[c] = e,
           \A k \in DOMAIN commands : k # c => commands'[k] = commands[k],
           commands[c].step = "submit", IsSent(x, e)
    PROVE  FlightInv'
<1>1. ASSUME NEW y \in flight
      PROVE  y.command \in DOMAIN commands' /\ IsSent(y, commands'[y.command])
  <2>1. y.command \in DOMAIN commands /\ IsSent(y, commands[y.command])
    BY DEF FlightInv
  <2>2. y.command # c
    BY <2>1 DEF IsSent
  <2> QED BY <2>1, <2>2
<1>2. \A y \in flight' : y.command \in DOMAIN commands' /\ IsSent(y, commands'[y.command])
  BY <1>1
<1> QED BY <1>2, Zenon DEF FlightInv

LEMMA DirectNext ==
    ASSUME SubmissionInv, NEW c \in DOMAIN commands, SubmitDirectly(c)
    PROVE  SubmissionInv'
<1> DEFINE d == commands[c]
           e == [d EXCEPT !.step = "wait"]
           x == [command |-> c, payer |-> commands[c].request.keypair,
                 ixs |-> commands[c].ixs, signatures |-> Keypairs(commands[c].request)]
<1>1. /\ d.step = "submit"
      /\ flight' = flight \cup {x}
      /\ commands' = [commands EXCEPT ![c] = e]
      /\ UNCHANGED <<squads, votes>>
  BY DEF SubmitDirectly, Send
<1>2. Grows /\ IndicesInv' /\ ApprovalsAreInformed'
  BY <1>1, SquadsKept DEF SubmissionInv
<1>3. IsSound(staged, proposals, c, d)
  BY DEF SubmissionInv, CommandsInv
<1>4. IsUnsubmitted(d) /\ IsCommand(d)
  BY <1>1, <1>3, Zenon DEF IsSound
<1>5. x.command = c /\ x.ixs = d.ixs
  OBVIOUS
<1> HIDE DEF d, x
<1>6. e.step = "wait" /\ e.proposal = d.proposal
  BY <1>4, CommandFields
<1>7. IsSound(staged', proposals', c, e)
  BY <1>2, <1>3, SoundStep
<1> HIDE DEF e
<1>8. /\ CommandsInv'
      /\ DOMAIN commands' = DOMAIN commands
      /\ commands'[c] = e
      /\ \A k \in DOMAIN commands : k # c => commands'[k] = commands[k]
  BY <1>1, <1>2, <1>7, CommandChanged DEF SubmissionInv
<1>9. IsSent(x, e)
  BY <1>4, <1>5, <1>6 DEF IsSent, IsDirect, IsUnsubmitted
<1>10. FlightInv'
  BY <1>1, <1>5, <1>8, <1>9, FlightMore DEF SubmissionInv, d
<1> QED BY <1>2, <1>8, <1>10 DEF SubmissionInv

LEMMA ProposeFields ==
    ASSUME NEW p, NEW ixs, NEW index, NEW approved,
           p = [instructions |-> ixs, transaction_index |-> index, approved |-> approved]
    PROVE  p.instructions = ixs /\ p.transaction_index = index /\ p.approved = approved
OBVIOUS

LEMMA ProposeShape ==
    ASSUME IsMultisig(multisig), NEW member, NEW vault_index, NEW ixs,
           NEW p, p = Propose(multisig, member, vault_index, ixs)
    PROVE  /\ p.transaction_index \in Nat
           /\ p.approved \in BOOLEAN
           /\ p.instructions = Built(p.transaction_index, member, p.instructions[1].vault_index,
                                     p.instructions[1].message, p.approved)
<1> DEFINE index == multisig.transaction_index + 1
           approved == "vote" \in multisig.members[member]
           message == TransactionMessage(Message(ixs, Vault[vault_index]))
           built == Built(index, member, vault_index, message, approved)
<1>1. p = [instructions |-> built, transaction_index |-> index, approved |-> approved]
  BY Zenon DEF Propose, Built
<1>2. index \in Nat
  BY DEF IsMultisig
<1>3. approved \in BOOLEAN
  OBVIOUS
<1> HIDE DEF index, message, approved, built
<1>4. p.instructions = built /\ p.transaction_index = index /\ p.approved = approved
  BY <1>1, ProposeFields, Zenon
<1>5. built[1].vault_index = vault_index /\ built[1].message = message
  <2>1. built[1] = VaultTransactionCreate(index, member, vault_index, message)
    BY <1>3, BuiltParts DEF built
  <2> QED BY <2>1 DEF VaultTransactionCreate
<1>6. p.instructions[1].vault_index = vault_index /\ p.instructions[1].message = message
  BY <1>4, <1>5, Zenon
<1> QED BY <1>2, <1>3, <1>4, <1>6, Zenon DEF built

LEMMA ProposalNext ==
    ASSUME SubmissionInv, NEW c \in DOMAIN commands, SubmitProposal(c)
    PROVE  SubmissionInv'
<1> DEFINE d == commands[c]
           p == Propose(multisig, d.request.keypair, d.request.vault_index, d.ixs)
           list == <<p>>
           e == Proposing(d, "wait", list)
           x == [command |-> c, payer |-> d.request.keypair,
                 ixs |-> p.instructions, signatures |-> {d.request.keypair}]
<1>1. /\ d.step = "submit"
      /\ flight' = flight \cup {x}
      /\ UNCHANGED <<squads, votes>>
  BY DEF SubmitProposal, Send
<1>2. commands' = [commands EXCEPT ![c].step = "wait", ![c].proposal = <<p>>]
  BY DEF SubmitProposal
<1>3. Grows /\ IndicesInv' /\ ApprovalsAreInformed'
  BY <1>1, SquadsKept DEF SubmissionInv
<1>4. IsSound(staged, proposals, c, d)
  BY DEF SubmissionInv, CommandsInv
<1>5. x.command = c /\ x.ixs = p.instructions
  OBVIOUS
<1>6. /\ p.transaction_index \in Nat
      /\ p.approved \in BOOLEAN
      /\ p.instructions = Built(p.transaction_index, d.request.keypair,
                                p.instructions[1].vault_index, p.instructions[1].message,
                                p.approved)
  BY ProposeShape DEF SubmissionInv, IndicesInv
<1> HIDE DEF p, x, list
<1>7. commands' = [commands EXCEPT ![c] = e]
  <2>1. PICK S : commands \in Seq(S)
    BY DEF SubmissionInv, CommandsInv
  <2> QED BY <1>2, <2>1 DEF list, Proposing
<1> HIDE DEF d
<1>8. IsCommand(d)
  BY <1>4, Zenon DEF IsSound
<1>9. /\ e.step = "wait" /\ e.proposal = list /\ e.request = d.request /\ e.report = d.report
      /\ IsCommand(e)
  BY <1>8, ProposalFields
<1> HIDE DEF e
<1>10. IsSound(staged', proposals', c, e)
  <2>1. IsSound(staged', proposals', c, d)
    BY <1>3, <1>4, SoundKept
  <2>2. e.report.kind = "proposed" =>
          HoldsFor(staged', proposals', c, e.request.keypair, e.report.index, e.report.approved)
    BY <1>9, <2>1, Zenon DEF IsSound
  <2>3. e.step # "submit" /\ e.step # "landed"
    BY <1>9
  <2> QED BY <1>9, <2>2, <2>3, Zenon DEF IsSound
<1>11. /\ CommandsInv'
       /\ DOMAIN commands' = DOMAIN commands
       /\ commands'[c] = e
       /\ \A k \in DOMAIN commands : k # c => commands'[k] = commands[k]
  BY <1>3, <1>7, <1>10, CommandChanged DEF SubmissionInv
<1>12. IsSent(x, e)
  <2>1. e.proposal[1] = p /\ e.step # "submit"
    BY <1>9 DEF list
  <2>2. IsProposed(x, e)
    BY <1>5, <1>6, <1>9, <2>1, Zenon DEF IsProposed
  <2> QED BY <2>1, <2>2, Zenon DEF IsSent
<1>13. FlightInv'
  BY <1>1, <1>5, <1>11, <1>12, FlightMore DEF SubmissionInv, d
<1> QED BY <1>3, <1>11, <1>13 DEF SubmissionInv

LEMMA GiveUpNext ==
    ASSUME SubmissionInv, NEW c \in DOMAIN commands, GiveUp(c)
    PROVE  SubmissionInv'
<1> DEFINE d == commands[c]
           e == [d EXCEPT !.step = "done"]
<1>1. /\ commands' = [commands EXCEPT ![c] = e]
      /\ UNCHANGED flight
      /\ UNCHANGED <<squads, votes>>
  BY DEF GiveUp
<1>2. Grows /\ IndicesInv' /\ ApprovalsAreInformed'
  BY <1>1, SquadsKept DEF SubmissionInv
<1>3. IsSound(staged, proposals, c, d)
  BY DEF SubmissionInv, CommandsInv
<1>4. IsCommand(d)
  BY <1>3, Zenon DEF IsSound
<1> HIDE DEF d
<1>5. e.step = "done" /\ e.proposal = d.proposal /\ e.request = d.request
  BY <1>4, CommandFields
<1>6. IsSound(staged', proposals', c, e)
  BY <1>2, <1>3, SoundStep
<1> HIDE DEF e
<1>7. /\ CommandsInv'
      /\ DOMAIN commands' = DOMAIN commands
      /\ commands'[c] = e
      /\ \A k \in DOMAIN commands : k # c => commands'[k] = commands[k]
  BY <1>1, <1>2, <1>6, CommandChanged DEF SubmissionInv
<1>8. FlightInv'
  BY <1>1, <1>5, <1>7, FlightKept DEF SubmissionInv, d
<1> QED BY <1>2, <1>7, <1>8 DEF SubmissionInv
Reporting(d, step, report) == [d EXCEPT !.step = step, !.report = report]

LEMMA ReportFields ==
    ASSUME NEW d, IsCommand(d), NEW step, NEW report, NEW e, e = Reporting(d, step, report)
    PROVE  /\ IsCommand(e)
           /\ e.step = step
           /\ e.request = d.request
           /\ e.proposal = d.proposal
           /\ e.report = report
BY DEF IsCommand, Reporting

LEMMA ReportNext ==
    ASSUME SubmissionInv, NEW c \in DOMAIN commands, Report(c)
    PROVE  SubmissionInv'
<1> DEFINE d == commands[c]
           p == d.proposal[1]
           proposed == [kind |-> "proposed", index |-> ReportedIndex(p), approved |-> p.approved]
           sent == [kind |-> "sent"]
           report == IF d.proposal = <<>> THEN sent ELSE proposed
           e == Reporting(d, "done", report)
<1>1. /\ d.step = "landed"
      /\ UNCHANGED flight
      /\ UNCHANGED <<squads, votes>>
  BY DEF Report
<1>2. commands' = [commands EXCEPT ![c].step = "done", ![c].report = report]
  BY Zenon DEF Report
<1>3. Grows /\ IndicesInv' /\ ApprovalsAreInformed'
  BY <1>1, SquadsKept DEF SubmissionInv
<1>4. IsSound(staged, proposals, c, d)
  BY DEF SubmissionInv, CommandsInv
<1>5. /\ proposed.kind = "proposed" /\ proposed.index = p.transaction_index
      /\ proposed.approved = p.approved
      /\ sent.kind = "sent"
  BY DEF ReportedIndex
<1>6. report = IF d.proposal = <<>> THEN sent ELSE proposed
  OBVIOUS
<1> HIDE DEF report, proposed, sent
<1>7. commands' = [commands EXCEPT ![c] = e]
  <2>1. PICK S : commands \in Seq(S)
    BY DEF SubmissionInv, CommandsInv
  <2> QED BY <1>2, <2>1 DEF Reporting
<1> HIDE DEF d
<1>8. IsCommand(d)
  BY <1>4, Zenon DEF IsSound
<1>9. /\ e.step = "done" /\ e.proposal = d.proposal /\ e.request = d.request /\ e.report = report
      /\ IsCommand(e)
  BY <1>8, ReportFields
<1> HIDE DEF e
<1>10. IsSound(staged', proposals', c, e)
  <2>1. IsSound(staged', proposals', c, d)
    BY <1>3, <1>4, SoundKept
  <2>2. CASE d.proposal = <<>>
    <3>1. e.report.kind # "proposed"
      BY <1>5, <1>6, <1>9, <2>2
    <3>2. e.step # "submit" /\ e.step # "landed"
      BY <1>9
    <3> QED BY <1>9, <3>1, <3>2, Zenon DEF IsSound
  <2>3. CASE d.proposal # <<>>
    <3>1. e.report.index = p.transaction_index /\ e.report.approved = p.approved
      <4>1. e.report = proposed
        BY <1>6, <1>9, <2>3
      <4> QED BY <1>5, <4>1
    <3>2. HoldsFor(staged', proposals', c, d.request.keypair, p.transaction_index, p.approved)
      BY <1>1, <2>1, <2>3, Zenon DEF IsSound
    <3>3. HoldsFor(staged', proposals', c, e.request.keypair, e.report.index, e.report.approved)
      BY <1>9, <3>1, <3>2, Zenon
    <3>4. e.step # "submit" /\ e.step # "landed"
      BY <1>9
    <3> QED BY <1>9, <3>3, <3>4, Zenon DEF IsSound
  <2> QED BY <2>2, <2>3
<1>11. /\ CommandsInv'
       /\ DOMAIN commands' = DOMAIN commands
       /\ commands'[c] = e
       /\ \A k \in DOMAIN commands : k # c => commands'[k] = commands[k]
  BY <1>3, <1>7, <1>10, CommandChanged DEF SubmissionInv
<1>12. FlightInv'
  BY <1>1, <1>9, <1>11, FlightKept DEF SubmissionInv, d
<1> QED BY <1>3, <1>11, <1>12 DEF SubmissionInv
-----------------------------------------------------------------------------
(* The tool hears that a transaction landed or failed. *)
LEMMA HeardNext ==
    ASSUME CommandsInv, FlightInv, Grows, NEW x \in flight, flight' = flight \ {x},
           NEW step \in {"landed", "failed"}, Heard(x, step),
           NEW d, d = commands[x.command],
           d.proposal # <<>> =>
               HoldsFor(staged', proposals', x.command, d.request.keypair,
                        d.proposal[1].transaction_index, d.proposal[1].approved)
               \/ step = "failed"
    PROVE  CommandsInv' /\ FlightInv'
<1> DEFINE c == x.command
           e == [d EXCEPT !.step = step]
<1>1. c \in DOMAIN commands /\ IsSent(x, d)
  BY DEF FlightInv
<1>2. IsSound(staged, proposals, c, d)
  BY <1>1 DEF CommandsInv
<1>3. IsSound(staged', proposals', c, d) /\ IsCommand(d)
  <2>1. IsSound(staged', proposals', c, d)
    BY <1>2, SoundKept
  <2> QED BY <2>1, Zenon DEF IsSound
<1>4. CASE d.step = "wait"
  <2>1. commands' = [commands EXCEPT ![c] = e]
    BY <1>4 DEF Heard
  <2>2. /\ e.step = step /\ e.proposal = d.proposal /\ e.request = d.request /\ IsCommand(e)
        /\ e.report = d.report
    BY <1>3, CommandFields
  <2> HIDE DEF e
  <2>3. IsSound(staged', proposals', c, e)
    <3>1. e.report.kind = "proposed" =>
             HoldsFor(staged', proposals', c, e.request.keypair, e.report.index, e.report.approved)
      BY <1>3, <2>2, Zenon DEF IsSound
    <3>2. e.step # "submit" /\ (e.step = "landed" => step # "failed")
      BY <2>2
    <3>3. e.step = "landed" /\ e.proposal # <<>> =>
              HoldsFor(staged', proposals', c, e.request.keypair,
                       e.proposal[1].transaction_index, e.proposal[1].approved)
      BY <2>2, <3>2, Zenon
    <3> QED BY <2>2, <3>1, <3>2, <3>3, Zenon DEF IsSound
  <2>4. /\ CommandsInv'
        /\ DOMAIN commands' = DOMAIN commands
        /\ commands'[c] = e
        /\ \A k \in DOMAIN commands : k # c => commands'[k] = commands[k]
    BY <1>1, <2>1, <2>3, CommandChanged
  <2>5. FlightInv'
    <3>1. e.step # "submit"
      BY <2>2
    <3> QED BY <1>1, <2>2, <2>4, <3>1, FlightKept
  <2> QED BY <2>4, <2>5
<1>5. CASE d.step # "wait"
  <2>1. UNCHANGED commands
    BY <1>5 DEF Heard
  <2>2. CommandsInv'
    BY <2>1, CommandsKept
  <2>3. \A y \in flight' : y.command \in DOMAIN commands' /\ IsSent(y, commands'[y.command])
    BY <2>1 DEF FlightInv
  <2> QED BY <2>2, <2>3, Zenon DEF FlightInv
<1> QED BY <1>4, <1>5

LEMMA RefuseNext ==
    ASSUME SubmissionInv, NEW x \in flight, Refuse(x)
    PROVE  SubmissionInv'
<1>1. flight' = flight \ {x} /\ Heard(x, "failed") /\ UNCHANGED <<squads, votes>>
  BY DEF Refuse
<1>2. Grows /\ IndicesInv' /\ ApprovalsAreInformed'
  BY <1>1, SquadsKept DEF SubmissionInv
<1>3. CommandsInv' /\ FlightInv'
  BY <1>1, <1>2, HeardNext DEF SubmissionInv
<1> QED BY <1>2, <1>3 DEF SubmissionInv
(* What a transaction of a command does to the multisig. *)
LEMMA LandedProposal ==
    ASSUME IndicesInv, ApprovalsAreInformed, NEW x, NEW d, IsProposed(x, d),
           Becomes(Execute(x.ixs, x.command)), UNCHANGED votes
    PROVE  /\ Grows /\ IndicesInv' /\ ApprovalsAreInformed'
           /\ HoldsFor(staged', proposals', x.command, d.request.keypair,
                       d.proposal[1].transaction_index, d.proposal[1].approved)
<1> DEFINE c == x.command
           index == d.proposal[1].transaction_index
           approved == d.proposal[1].approved
           member == d.request.keypair
           vault_index == x.ixs[1].vault_index
           message == x.ixs[1].message
           t == Execute(x.ixs, c)
           stage == Stage(index, member, vault_index, message, c)
<1>1. /\ index \in Nat
      /\ approved \in BOOLEAN
      /\ x.ixs = Built(index, member, vault_index, message, approved)
  BY Zenon DEF IsProposed
<1>2. t = Execute(Built(index, member, vault_index, message, approved), c)
  BY <1>1, Zenon
<1>3. Succeeds(t) /\ multisig' = t.multisig /\ staged' = t.staged /\ proposals' = t.proposals
  BY Zenon DEF Becomes
<1>4. /\ IsMultisig(multisig)
      /\ DOMAIN proposals \subseteq 1..multisig.transaction_index
      /\ DOMAIN staged = 1..multisig.transaction_index
  BY DEF IndicesInv
<1>5. stage.command = c /\ stage.creator = member
  BY DEF Stage
<1> HIDE DEF index, approved, member, vault_index, message, t, c
<1>6. /\ index = multisig.transaction_index + 1
      /\ t.multisig = [multisig EXCEPT !.transaction_index = index]
      /\ t.staged = With(staged, index, stage)
      /\ DOMAIN t.proposals = DOMAIN proposals \cup {index}
      /\ \A i \in DOMAIN proposals : t.proposals[i] = proposals[i] /\ i # index
      /\ IsProposal(t.proposals[index])
      /\ t.proposals[index].approved \subseteq {member}
      /\ approved => member \in t.proposals[index].approved
  BY <1>1, <1>2, <1>3, <1>4, ProposalLands
<1> HIDE DEF stage
<1>7. /\ DOMAIN staged' = DOMAIN staged \cup {index}
      /\ staged'[index] = stage
      /\ \A i \in DOMAIN staged : staged'[i] = staged[i]
  BY <1>3, <1>4, <1>6 DEF With, IsMultisig
<1>8. /\ DOMAIN proposals' = DOMAIN proposals \cup {index}
      /\ \A i \in DOMAIN proposals : proposals'[i] = proposals[i] /\ i # index
      /\ IsProposal(proposals'[index])
      /\ proposals'[index].approved \subseteq {member}
      /\ approved => member \in proposals'[index].approved
  BY <1>3, <1>6
<1>9. Grows
  BY <1>7, <1>8 DEF Grows
<1>10. IsMultisig(multisig') /\ multisig'.transaction_index = index
  BY <1>3, <1>4, <1>6 DEF IsMultisig
<1>11. IndicesInv'
  <2>1. DOMAIN staged' = 1..multisig'.transaction_index
    BY <1>4, <1>6, <1>7, <1>10 DEF IsMultisig
  <2>2. DOMAIN proposals' \subseteq DOMAIN staged'
    BY <1>7, <1>8 DEF IndicesInv
  <2>3. \A i \in DOMAIN proposals' : IsProposal(proposals'[i])
    BY <1>8 DEF IndicesInv
  <2> QED BY <1>10, <2>1, <2>2, <2>3, Zenon DEF IndicesInv
<1>12. ApprovalsAreInformed'
  <2>1. ASSUME NEW i \in DOMAIN proposals', NEW m \in proposals'[i].approved
        PROVE  <<i, m>> \in votes' \/ staged'[i].creator = m
    <3>1. CASE i = index
      BY <1>5, <1>7, <1>8, <2>1, <3>1
    <3>2. CASE i # index
      <4>1. i \in DOMAIN proposals /\ m \in proposals[i].approved
        BY <1>8, <2>1, <3>2
      <4>2. <<i, m>> \in votes \/ staged[i].creator = m
        BY <4>1 DEF ApprovalsAreInformed
      <4>3. i \in DOMAIN staged
        BY <4>1 DEF IndicesInv
      <4> QED BY <1>7, <4>2, <4>3
    <3> QED BY <3>1, <3>2
  <2> QED BY <2>1, Zenon DEF ApprovalsAreInformed
<1>13. HoldsFor(staged', proposals', c, member, index, approved)
  BY <1>5, <1>7, <1>8 DEF HoldsFor
<1> QED BY <1>9, <1>11, <1>12, <1>13, Zenon DEF c, member, index, approved

LEMMA LandNext ==
    ASSUME SubmissionInv, NEW x \in flight, Land(x)
    PROVE  SubmissionInv'
<1> DEFINE d == commands[x.command]
<1>1. /\ Becomes(Execute(x.ixs, x.command)) /\ flight' = flight \ {x} /\ Heard(x, "landed")
      /\ UNCHANGED votes
  BY DEF Land
<1>2. IsDirect(x, d) \/ IsProposed(x, d)
  BY DEF SubmissionInv, FlightInv, IsSent
<1>3. /\ Grows /\ IndicesInv' /\ ApprovalsAreInformed'
      /\ d.proposal # <<>> =>
             HoldsFor(staged', proposals', x.command, d.request.keypair,
                      d.proposal[1].transaction_index, d.proposal[1].approved)
  <2>1. CASE IsDirect(x, d)
    <3>1. /\ d.proposal = <<>>
          /\ Len(x.ixs) \in Nat
          /\ \A k \in 1..Len(x.ixs) : x.ixs[k].program # SquadsProgram
      BY <2>1, Zenon DEF IsDirect
    <3>2. /\ Execute(x.ixs, x.command).multisig = multisig
          /\ Execute(x.ixs, x.command).staged = staged
          /\ Execute(x.ixs, x.command).proposals = proposals
      BY <3>1, DirectLands
    <3>3. UNCHANGED <<squads, votes>>
      <4>1. UNCHANGED multisig /\ UNCHANGED staged /\ UNCHANGED proposals
        BY <1>1, <3>2, Zenon DEF Becomes
      <4> QED BY <1>1, <4>1 DEF squads
    <3>4. Grows /\ IndicesInv' /\ ApprovalsAreInformed'
      BY <3>3, SquadsKept DEF SubmissionInv
    <3> QED BY <3>1, <3>4, Zenon
  <2>2. CASE IsProposed(x, d)
    <3> HIDE DEF d
    <3> QED BY <1>1, <2>2, LandedProposal, Zenon DEF SubmissionInv
  <2> QED BY <1>2, <2>1, <2>2
<1>4. CommandsInv' /\ FlightInv'
  BY <1>1, <1>3, HeardNext DEF SubmissionInv
<1> QED BY <1>3, <1>4 DEF SubmissionInv
-----------------------------------------------------------------------------
(* Members and the programs leave commands and transactions alone. *)
LEMMA OthersNext ==
    ASSUME SubmissionInv, Grows, IndicesInv', ApprovalsAreInformed', UNCHANGED <<commands, flight>>
    PROVE  SubmissionInv'
<1>1. UNCHANGED commands /\ UNCHANGED flight
  OBVIOUS
<1>2. CommandsInv'
  BY <1>1, CommandsKept DEF SubmissionInv
<1>3. FlightInv'
  BY <1>1, Zenon DEF SubmissionInv, FlightInv
<1> QED BY <1>2, <1>3 DEF SubmissionInv

LEMMA VoteNext ==
    ASSUME SubmissionInv, NEW member, NEW index \in DOMAIN proposals, Vote(member, index)
    PROVE  SubmissionInv'
<1> DEFINE old == proposals[index]
           new == [old EXCEPT !.approved = @ \cup {member}]
<1>1. /\ proposals' = [proposals EXCEPT ![index] = new]
      /\ votes' = votes \cup {<<index, member>>}
      /\ UNCHANGED <<commands, flight>>
      /\ UNCHANGED multisig /\ UNCHANGED staged
  BY DEF Vote
<1>2. IsProposal(old)
  BY DEF SubmissionInv, IndicesInv
<1>3. IsProposal(new) /\ new.approved = old.approved \cup {member}
  BY <1>2 DEF IsProposal
<1> HIDE DEF new
<1>4. /\ DOMAIN proposals' = DOMAIN proposals
      /\ proposals'[index] = new
      /\ \A i \in DOMAIN proposals : i # index => proposals'[i] = proposals[i]
  BY <1>1
<1>5. Grows
  BY <1>1, <1>3, <1>4 DEF Grows
<1>6. IndicesInv'
  <2>1. \A i \in DOMAIN proposals' : IsProposal(proposals'[i])
    BY <1>3, <1>4 DEF SubmissionInv, IndicesInv
  <2>2. /\ IsMultisig(multisig') /\ DOMAIN staged' = 1..multisig'.transaction_index
        /\ DOMAIN proposals' \subseteq DOMAIN staged'
    BY <1>1, <1>4, Zenon DEF SubmissionInv, IndicesInv
  <2> QED BY <2>1, <2>2, Zenon DEF IndicesInv
<1>7. ApprovalsAreInformed'
  <2>1. ASSUME NEW i \in DOMAIN proposals', NEW m \in proposals'[i].approved
        PROVE  <<i, m>> \in votes' \/ staged'[i].creator = m
    <3>1. i \in DOMAIN proposals
      BY <1>4
    <3>2. CASE i = index /\ m = member
      BY <1>1, <3>2
    <3>3. CASE m \in proposals[i].approved
      <4>1. <<i, m>> \in votes \/ staged[i].creator = m
        BY <3>1, <3>3 DEF SubmissionInv, ApprovalsAreInformed
      <4> QED BY <1>1, <4>1
    <3> QED BY <1>3, <1>4, <2>1, <3>1, <3>2, <3>3
  <2> QED BY <2>1, Zenon DEF ApprovalsAreInformed
<1> QED BY <1>1, <1>5, <1>6, <1>7, OthersNext

LEMMA ExecutedFields ==
    ASSUME NEW p, IsProposal(p), NEW value, NEW q, q = [p EXCEPT !.executed = value]
    PROVE  IsProposal(q) /\ q.approved = p.approved
BY DEF IsProposal

LEMMA ExecuteProposalNext ==
    ASSUME SubmissionInv, NEW index \in DOMAIN proposals, ExecuteProposal(index)
    PROVE  SubmissionInv'
<1> DEFINE old == proposals[index]
           new == [old EXCEPT !.executed = TRUE]
<1>1. /\ proposals' = [proposals EXCEPT ![index] = new]
      /\ UNCHANGED <<commands, flight>>
      /\ UNCHANGED multisig /\ UNCHANGED staged /\ UNCHANGED votes
  BY DEF ExecuteProposal
<1>2. IsProposal(old)
  BY DEF SubmissionInv, IndicesInv
<1>3. IsProposal(new) /\ new.approved = old.approved
  <2>1. new = [old EXCEPT !.executed = TRUE]
    OBVIOUS
  <2> HIDE DEF new, old
  <2> QED BY <1>2, <2>1, ExecutedFields, Zenon
<1> HIDE DEF new
<1>4. /\ DOMAIN proposals' = DOMAIN proposals
      /\ \A i \in DOMAIN proposals : proposals'[i] = IF i = index THEN new ELSE proposals[i]
  BY <1>1
<1>5. \A i \in DOMAIN proposals :
          proposals'[i].approved = proposals[i].approved /\ IsProposal(proposals'[i])
  BY <1>3, <1>4 DEF SubmissionInv, IndicesInv
<1>6. Grows
  BY <1>1, <1>4, <1>5 DEF Grows
<1>7. IndicesInv'
  <2>1. \A i \in DOMAIN proposals' : IsProposal(proposals'[i])
    BY <1>4, <1>5
  <2>2. /\ IsMultisig(multisig') /\ DOMAIN staged' = 1..multisig'.transaction_index
        /\ DOMAIN proposals' \subseteq DOMAIN staged'
    BY <1>1, <1>4, Zenon DEF SubmissionInv, IndicesInv
  <2> QED BY <2>1, <2>2, Zenon DEF IndicesInv
<1>8. ApprovalsAreInformed'
  <2>1. ASSUME NEW i \in DOMAIN proposals', NEW m \in proposals'[i].approved
        PROVE  <<i, m>> \in votes' \/ staged'[i].creator = m
    <3>1. i \in DOMAIN proposals /\ m \in proposals[i].approved
      BY <1>4, <1>5, <2>1
    <3>2. <<i, m>> \in votes \/ staged[i].creator = m
      BY <3>1 DEF SubmissionInv, ApprovalsAreInformed
    <3> QED BY <1>1, <3>2
  <2> QED BY <2>1, Zenon DEF ApprovalsAreInformed
<1> QED BY <1>1, <1>6, <1>7, <1>8, OthersNext

LEMMA ChangeMemberNext ==
    ASSUME SubmissionInv, NEW member, NEW permissions, ChangeMember(member, permissions)
    PROVE  SubmissionInv'
<1>1. /\ multisig' = [multisig EXCEPT !.members[member] = permissions,
                                      !.stale_transaction_index = multisig.transaction_index]
      /\ UNCHANGED <<commands, flight>>
      /\ UNCHANGED staged /\ UNCHANGED proposals /\ UNCHANGED votes
  BY DEF ChangeMember
<1>2. IsMultisig(multisig') /\ multisig'.transaction_index = multisig.transaction_index
  <2>1. IsMultisig(multisig)
    BY DEF SubmissionInv, IndicesInv
  <2> QED BY <1>1, <2>1 DEF IsMultisig
<1>3. Grows
  BY <1>1 DEF Grows
<1>4. IndicesInv'
  BY <1>1, <1>2, Zenon DEF SubmissionInv, IndicesInv
<1>5. ApprovalsAreInformed'
  BY <1>1, Zenon DEF SubmissionInv, ApprovalsAreInformed
<1> QED BY <1>1, <1>3, <1>4, <1>5, OthersNext

LEMMA SubmissionNext == SubmissionInv /\ [Next]_vars => SubmissionInv'
<1> SUFFICES ASSUME SubmissionInv, [Next]_vars PROVE SubmissionInv'
  OBVIOUS
<1>1. CASE \E r \in Requests : Start(r)
  BY <1>1, StartNext
<1>2. ASSUME NEW c \in DOMAIN commands,
             SubmitDirectly(c) \/ SubmitProposal(c) \/ GiveUp(c) \/ Report(c)
      PROVE  SubmissionInv'
  BY <1>2, DirectNext, ProposalNext, GiveUpNext, ReportNext
<1>3. ASSUME NEW x \in flight, Land(x) \/ Refuse(x)
      PROVE  SubmissionInv'
  BY <1>3, LandNext, RefuseNext
<1>4. CASE \E m \in DOMAIN multisig.members, i \in DOMAIN proposals : Vote(m, i)
  BY <1>4, VoteNext
<1>5. CASE \E i \in DOMAIN proposals : ExecuteProposal(i)
  BY <1>5, ExecuteProposalNext
<1>6. CASE \E m \in DOMAIN multisig.members, p \in Permissions : ChangeMember(m, p)
  BY <1>6, ChangeMemberNext
<1>7. CASE UNCHANGED vars
  <2>1. UNCHANGED <<squads, votes>> /\ UNCHANGED <<commands, flight>>
    BY <1>7 DEF vars
  <2> QED BY <2>1, SquadsKept, OthersNext DEF SubmissionInv
<1> QED BY <1>1, <1>2, <1>3, <1>4, <1>5, <1>6, <1>7, Zenon DEF Next

(* An approval counts only for what its member built or looked at, however *)
(* the members' commands, votes and changes of permissions interleave.     *)
THEOREM ApprovalsInformed == Spec => []ApprovalsAreInformed
<1>1. SubmissionInv => ApprovalsAreInformed
  BY DEF SubmissionInv
<1> QED BY <1>1, SubmissionInit, SubmissionNext, PTL DEF Spec

(* The index that Submission::summary prints holds what the command built. *)
THEOREM ReportsAreHeld == Spec => []ReportedIsHeld
<1>1. SubmissionInv => ReportedIsHeld
  <2> SUFFICES ASSUME SubmissionInv, NEW c \in DOMAIN commands,
                      commands[c].report.kind = "proposed"
               PROVE  LET report == commands[c].report IN
                      /\ report.index \in DOMAIN staged \cap DOMAIN proposals
                      /\ staged[report.index].command = c
                      /\ report.approved =>
                             commands[c].request.keypair \in proposals[report.index].approved
    BY Zenon DEF ReportedIsHeld
  <2>1. IsSound(staged, proposals, c, commands[c])
    BY DEF SubmissionInv, CommandsInv
  <2> QED BY <2>1, Zenon DEF IsSound, HoldsFor
<1> QED BY <1>1, SubmissionInit, SubmissionNext, PTL DEF Spec
-----------------------------------------------------------------------------
-----------------------------------------------------------------------------
(* Who has to sign. *)
LEMMA MetaFields ==
    ASSUME NEW k
    PROVE  /\ New(k, TRUE).key = k
           /\ New(k, FALSE).key = k
           /\ NewReadonly(k, TRUE).key = k
           /\ NewReadonly(k, FALSE).key = k
BY DEF New, NewReadonly

LEMMA MetaSigner ==
    ASSUME NEW k
    PROVE  /\ New(k, TRUE).signer
           /\ ~New(k, FALSE).signer
           /\ NewReadonly(k, TRUE).signer
           /\ ~NewReadonly(k, FALSE).signer
BY DEF New, NewReadonly

(* The accounts that sign are those of K. *)
SignedBy(metas, K) ==
    /\ \A m \in metas : m.signer => m.key \in K
    /\ \A k \in K : \E m \in metas : m.signer /\ m.key = k

LEMMA SignersAre ==
    ASSUME NEW metas, NEW K, SignedBy(metas, K)
    PROVE  SignersOf(metas) = K
BY Zenon DEF SignersOf, SignedBy

LEMMA MetasSigned ==
    ASSUME NEW ixs, NEW payer, NEW K, payer \in K,
           \A ix \in Range(ixs) : \A m \in Range(ix.accounts) : m.signer => m.key \in K,
           \A k \in K : k # payer =>
               \E ix \in Range(ixs) : \E m \in Range(ix.accounts) : m.signer /\ m.key = k
    PROVE  SignersOf(Metas(ixs, payer)) = K
<1> DEFINE metas == Metas(ixs, payer)
<1>1. ASSUME NEW m \in metas, m.signer
      PROVE  m.key \in K
  <2>1. CASE m = New(payer, TRUE)
    BY <2>1, MetaFields
  <2>2. CASE \E ix \in Range(ixs) : m \in Range(ix.accounts)
    BY <1>1, <2>2
  <2>3. CASE \E ix \in Range(ixs) : m = NewReadonly(ix.program, FALSE)
    BY <1>1, <2>3, MetaSigner
  <2>4. \/ m \in {New(payer, TRUE)}
        \/ m \in UNION {Range(ix.accounts) : ix \in Range(ixs)}
        \/ m \in {NewReadonly(ix.program, FALSE) : ix \in Range(ixs)}
    BY DEF Metas
  <2>5. \/ m = New(payer, TRUE)
        \/ \E ix \in Range(ixs) : m \in Range(ix.accounts)
        \/ \E ix \in Range(ixs) : m = NewReadonly(ix.program, FALSE)
    BY <2>4, Zenon
  <2> QED BY <2>1, <2>2, <2>3, <2>5, Zenon
<1>2. ASSUME NEW k \in K
      PROVE  \E m \in metas : m.signer /\ m.key = k
  <2>1. CASE k = payer
    <3>1. New(payer, TRUE) \in metas
      BY Zenon DEF Metas
    <3> QED BY <2>1, <3>1, MetaFields, MetaSigner, Zenon
  <2>2. CASE k # payer
    <3>1. PICK ix \in Range(ixs) : \E m \in Range(ix.accounts) : m.signer /\ m.key = k
      BY <2>2
    <3>2. PICK m \in Range(ix.accounts) : m.signer /\ m.key = k
      BY <3>1
    <3>3. m \in metas
      BY Zenon DEF Metas
    <3> QED BY <3>2, <3>3, Zenon
  <2> QED BY <2>1, <2>2
<1>3. SignedBy(metas, K)
  BY <1>1, <1>2, Zenon DEF SignedBy
<1> QED BY <1>3, SignersAre, Zenon
LEMMA Range2 == ASSUME NEW a, NEW b PROVE Range(<<a, b>>) = {a, b}
BY DEF Range
LEMMA Range3 == ASSUME NEW a, NEW b, NEW c PROVE Range(<<a, b, c>>) = {a, b, c}
BY DEF Range
LEMMA Range4 == ASSUME NEW a, NEW b, NEW c, NEW d PROVE Range(<<a, b, c, d>>) = {a, b, c, d}
BY DEF Range
LEMMA Range5 ==
    ASSUME NEW a, NEW b, NEW c, NEW d, NEW e PROVE Range(<<a, b, c, d, e>>) = {a, b, c, d, e}
BY DEF Range

(* What the builders ask for. *)
LEMMA InitializeSigned ==
    ASSUME NEW b PROVE SignedBy(Range(BuildInitialize(b).accounts), {b.payer})
<1> DEFINE w == New(b.payer, TRUE)
           x == New(b.state_pda, FALSE)
           y == New(b.native_sol_buffer, FALSE)
           z == NewReadonly(SystemProgram, FALSE)
<1>1. BuildInitialize(b).accounts = <<w, x, y, z>>
  BY DEF BuildInitialize
<1>2. \A m \in {w, x, y, z} : m.signer => m.key \in {b.payer}
  BY MetaFields, MetaSigner, Zenon
<1>3. \A k \in {b.payer} : \E m \in {w, x, y, z} : m.signer /\ m.key = k
  BY MetaFields, MetaSigner, Zenon
<1> HIDE DEF w, x, y, z
<1>4. Range(BuildInitialize(b).accounts) = {w, x, y, z}
  BY <1>1, Range4
<1> QED BY <1>2, <1>3, <1>4, Zenon DEF SignedBy

LEMMA AddSolverSigned ==
    ASSUME NEW b PROVE SignedBy(Range(BuildAddSolver(b).accounts), {b.authority, b.payer})
<1> DEFINE w == NewReadonly(b.authority, TRUE)
           x == New(b.payer, TRUE)
           y == New(b.state_pda, FALSE)
           z == NewReadonly(SystemProgram, FALSE)
<1>1. BuildAddSolver(b).accounts = <<w, x, y, z>>
  BY DEF BuildAddSolver
<1>2. \A m \in {w, x, y, z} : m.signer => m.key \in {b.authority, b.payer}
  BY MetaFields, MetaSigner, Zenon
<1>3. \A k \in {b.authority, b.payer} : \E m \in {w, x, y, z} : m.signer /\ m.key = k
  BY MetaFields, MetaSigner, Zenon
<1> HIDE DEF w, x, y, z
<1>4. Range(BuildAddSolver(b).accounts) = {w, x, y, z}
  BY <1>1, Range4
<1> QED BY <1>2, <1>3, <1>4, Zenon DEF SignedBy

LEMMA RemoveSolverSigned ==
    ASSUME NEW b PROVE SignedBy(Range(BuildRemoveSolver(b).accounts), {b.authority})
<1>1. Range(BuildRemoveSolver(b).accounts)
        = {NewReadonly(b.authority, TRUE), New(b.rent_recipient, FALSE), New(b.state_pda, FALSE)}
  BY Range3 DEF BuildRemoveSolver
<1> QED BY <1>1, MetaFields, MetaSigner, Zenon DEF SignedBy

LEMMA TransferAuthoritySigned ==
    ASSUME NEW b PROVE SignedBy(Range(BuildTransferAuthority(b).accounts), {b.signer})
<1>1. Range(BuildTransferAuthority(b).accounts)
        = {NewReadonly(b.signer, TRUE), New(b.state_pda, FALSE)}
  BY Range2 DEF BuildTransferAuthority
<1> QED BY <1>1, MetaFields, MetaSigner, Zenon DEF SignedBy

LEMMA CreateBuffersSigned ==
    ASSUME NEW b, NEW n \in Nat, Len(b.buffers) = n
    PROVE  SignedBy(Range(BuildCreateBuffers(b).accounts), {b.payer})
<1> DEFINE written(k) == New(b.buffers[k].buffer_pda, FALSE)
           read(k) == NewReadonly(b.buffers[k].mint, FALSE)
           payer == New(b.payer, TRUE)
           S == {written(k) : k \in 1..n} \cup {read(k) : k \in 1..n}
           q == [k \in 1..n |-> <<written(k), read(k)>>]
           H == {New(b.payer, TRUE), NewReadonly(SystemProgram, FALSE),
                 NewReadonly(b.token_program, FALSE)}
           head == <<New(b.payer, TRUE), NewReadonly(SystemProgram, FALSE),
                     NewReadonly(b.token_program, FALSE)>>
           accounts == BuildCreateBuffers(b).accounts
<1>1. accounts = head \o FlattenSeq(q)
  BY DEF BuildCreateBuffers
<1>2. \A m \in S : ~m.signer
  BY MetaSigner, Zenon
<1>3. q \in [1..n -> Seq(S)]
  <2> HIDE DEF written, read
  <2>1. \A k \in 1..n : <<written(k), read(k)>> \in Seq(S)
    OBVIOUS
  <2> QED BY <2>1
<1>4. head \in Seq(H) /\ Len(head) = 3 /\ head[1] = payer
  OBVIOUS
<1>5. \A m \in H : m.signer => m = payer
  BY MetaSigner, Zenon
<1>6. payer.signer /\ payer.key = b.payer
  BY MetaFields, MetaSigner, Zenon
<1> HIDE DEF S, q, H, head, accounts, payer
<1>7. FlattenSeq(q) \in Seq(S)
  BY <1>3, FlattenType
<1> DEFINE flat == FlattenSeq(q)
<1> HIDE DEF flat
<1>8. /\ accounts \in Seq(H \cup S)
      /\ 1 \in DOMAIN accounts
      /\ accounts[1] = payer
  <2>1. head \in Seq(H \cup S) /\ flat \in Seq(H \cup S)
    BY <1>4, <1>7, SeqMonotonic DEF flat
  <2>2. accounts = head \o flat
    BY <1>1 DEF flat
  <2>3. /\ accounts \in Seq(H \cup S)
        /\ Len(accounts) = Len(head) + Len(flat)
        /\ \A i \in 1..Len(head) : accounts[i] = head[i]
    BY <2>1, <2>2, ConcatProperties
  <2> QED BY <1>4, <2>1, <2>3
<1>9. payer \in Range(accounts) /\ Range(accounts) \subseteq H \cup S
  BY <1>8 DEF Range
<1>10. \A m \in Range(accounts) : m.signer => m.key \in {b.payer}
  BY <1>2, <1>5, <1>6, <1>9, Zenon
<1>11. \A k \in {b.payer} : \E m \in Range(accounts) : m.signer /\ m.key = k
  BY <1>6, <1>9, Zenon
<1>12. SignedBy(Range(accounts), {b.payer})
  BY <1>10, <1>11, Zenon DEF SignedBy
<1> QED BY <1>12 DEF accounts
-----------------------------------------------------------------------------
(* What the commands ask for. *)
LEMMA JoinedField ==
    ASSUME NEW c, NEW d, NEW f, f \in DOMAIN c
    PROVE  f \in DOMAIN Joined(c, d) /\ Joined(c, d)[f] = c[f]
BY DEF Joined

LEMMA ClientInitializeSigned ==
    ASSUME NEW c, "payer" \in DOMAIN c
    PROVE  SignedBy(Range(ClientInitialize(c).accounts), {c.payer})
<1> DEFINE b == WithNativeBuffer(c)
<1>1. b["payer"] = c["payer"]
  BY JoinedField DEF WithNativeBuffer, WithState
<1> HIDE DEF b
<1>2. b.payer = c.payer
  BY <1>1
<1>3. SignedBy(Range(BuildInitialize(b).accounts), {b.payer})
  BY InitializeSigned
<1> QED BY <1>2, <1>3, Zenon DEF ClientInitialize, b

LEMMA ClientAddSolverSigned ==
    ASSUME NEW c, "payer" \in DOMAIN c, "authority" \in DOMAIN c
    PROVE  SignedBy(Range(ClientAddSolver(c).accounts), {c.authority, c.payer})
<1> DEFINE b == WithState(c)
<1>1. b["payer"] = c["payer"] /\ b["authority"] = c["authority"]
  BY JoinedField DEF WithState
<1> HIDE DEF b
<1>2. b.payer = c.payer /\ b.authority = c.authority
  BY <1>1
<1>3. SignedBy(Range(BuildAddSolver(b).accounts), {b.authority, b.payer})
  BY AddSolverSigned
<1> QED BY <1>2, <1>3, Zenon DEF ClientAddSolver, b

LEMMA ClientRemoveSolverSigned ==
    ASSUME NEW c, "authority" \in DOMAIN c
    PROVE  SignedBy(Range(ClientRemoveSolver(c).accounts), {c.authority})
<1> DEFINE b == WithState(c)
<1>1. b["authority"] = c["authority"]
  BY JoinedField DEF WithState
<1> HIDE DEF b
<1>2. b.authority = c.authority
  BY <1>1
<1>3. SignedBy(Range(BuildRemoveSolver(b).accounts), {b.authority})
  BY RemoveSolverSigned
<1> QED BY <1>2, <1>3, Zenon DEF ClientRemoveSolver, b

LEMMA ClientTransferAuthoritySigned ==
    ASSUME NEW c, "signer" \in DOMAIN c
    PROVE  SignedBy(Range(ClientTransferAuthority(c).accounts), {c.signer})
<1> DEFINE b == WithState(c)
<1>1. b["signer"] = c["signer"]
  BY JoinedField DEF WithState
<1> HIDE DEF b
<1>2. b.signer = c.signer
  BY <1>1
<1>3. SignedBy(Range(BuildTransferAuthority(b).accounts), {b.signer})
  BY TransferAuthoritySigned
<1> QED BY <1>2, <1>3, Zenon DEF ClientTransferAuthority, b

LEMMA ClientCreateBuffersSigned ==
    ASSUME NEW c, "payer" \in DOMAIN c, "buffers" \notin DOMAIN c,
           NEW n \in Nat, Len(c.mints) = n
    PROVE  SignedBy(Range(ClientCreateBuffers(c).accounts), {c.payer})
<1> DEFINE b == WithBuffers(c)
           entry(k) == Joined(c.mints[k], [buffer_pda |-> Buffer[c.mints[k].mint]])
           all == [k \in 1..n |-> entry(k)]
           d == [buffers |-> all]
<1>1. b = Joined(c, d)
  BY Zenon DEF WithBuffers
<1> HIDE DEF entry
<1>2. Len(all) = n
  OBVIOUS
<1> HIDE DEF all
<1>3. "buffers" \in DOMAIN d /\ d["buffers"] = all
  OBVIOUS
<1> HIDE DEF b, d
<1>4. b["payer"] = c["payer"] /\ b["buffers"] = all
  BY <1>1, <1>3 DEF Joined
<1>5. b.payer = c.payer /\ b.buffers = all
  BY <1>4
<1>6. SignedBy(Range(BuildCreateBuffers(b).accounts), {b.payer})
  BY <1>2, <1>5, CreateBuffersSigned
<1> QED BY <1>5, <1>6, Zenon DEF ClientCreateBuffers, b

(* The instructions q are ixs, for the settlement program. *)
Wraps(q, ixs) ==
    /\ DOMAIN q = DOMAIN ixs
    /\ \A k \in DOMAIN ixs :
           /\ q[k].accounts = ixs[k].accounts
           /\ q[k].program = SettlementProgram
           /\ q[k].data = ixs[k].data

WithPayer(payer, J) == {payer} \cup J

LEMMA WrappedSigners ==
    ASSUME NEW q, NEW ixs, Wraps(q, ixs), NEW payer, NEW J,
           \A k \in DOMAIN ixs : SignedBy(Range(ixs[k].accounts), J),
           DOMAIN ixs # {} \/ J \subseteq {payer}
    PROVE  SignersOf(Metas(q, payer)) = WithPayer(payer, J)
<1> DEFINE K == {payer} \cup J
<1>1. ASSUME NEW ix \in Range(q), NEW m \in Range(ix.accounts), m.signer
      PROVE  m.key \in K
  <2>1. PICK k \in DOMAIN q : ix = q[k]
    BY Zenon DEF Range
  <2>2. k \in DOMAIN ixs /\ ix.accounts = ixs[k].accounts
    BY <2>1, Zenon DEF Wraps
  <2>3. SignedBy(Range(ixs[k].accounts), J) /\ m \in Range(ixs[k].accounts)
    BY <2>2, Zenon
  <2>4. m.key \in J
    BY <1>1, <2>3, Zenon DEF SignedBy
  <2> QED BY <2>4
<1>2. ASSUME NEW key \in K, key # payer
      PROVE  \E ix \in Range(q) : \E m \in Range(ix.accounts) : m.signer /\ m.key = key
  <2>1. key \in J /\ DOMAIN ixs # {}
    BY <1>2
  <2>2. PICK k \in DOMAIN ixs : TRUE
    BY <2>1
  <2>3. q[k] \in Range(q) /\ q[k].accounts = ixs[k].accounts
    BY Zenon DEF Wraps, Range
  <2>4. \E m \in Range(ixs[k].accounts) : m.signer /\ m.key = key
    BY <2>1, Zenon DEF SignedBy
  <2> QED BY <2>3, <2>4, Zenon
<1>3. payer \in K
  OBVIOUS
<1> HIDE DEF K
<1>4. SignersOf(Metas(q, payer)) = K
  <2>1. \A ix \in Range(q) : \A m \in Range(ix.accounts) : m.signer => m.key \in K
    BY <1>1, Zenon
  <2>2. \A k \in K : k # payer =>
            \E ix \in Range(q) : \E m \in Range(ix.accounts) : m.signer /\ m.key = k
    BY <1>2, Zenon
  <2> QED BY <1>3, <2>1, <2>2, MetasSigned
<1> QED BY <1>4, Zenon DEF K, WithPayer

LEMMA RunWraps ==
    ASSUME NEW r
    PROVE  /\ r.command = "initialize" => Wraps(Run(r), RunInitialize(r))
           /\ r.command = "solver add" => Wraps(Run(r), RunSolverAdd(r))
           /\ r.command = "solver remove" => Wraps(Run(r), RunSolverRemove(r))
           /\ r.command = "authority transfer" => Wraps(Run(r), RunAuthorityTransfer(r))
           /\ r.command = "buffer create" => Wraps(Run(r), RunBufferCreate(r))
<1> DEFINE ixs == CASE r.command = "initialize" -> RunInitialize(r)
                    [] r.command = "solver add" -> RunSolverAdd(r)
                    [] r.command = "solver remove" -> RunSolverRemove(r)
                    [] r.command = "authority transfer" -> RunAuthorityTransfer(r)
                    [] r.command = "buffer create" -> RunBufferCreate(r)
<1>1. Run(r) = [k \in DOMAIN ixs |-> [program |-> SettlementProgram, accounts |-> ixs[k].accounts,
                                      data |-> ixs[k].data]]
  BY Zenon DEF Run
<1>2. /\ r.command = "initialize" => ixs = RunInitialize(r)
      /\ r.command = "solver add" => ixs = RunSolverAdd(r)
      /\ r.command = "solver remove" => ixs = RunSolverRemove(r)
      /\ r.command = "authority transfer" => ixs = RunAuthorityTransfer(r)
      /\ r.command = "buffer create" => ixs = RunBufferCreate(r)
  <2>1. ASSUME r.command = "initialize" PROVE ixs = RunInitialize(r)
    BY <2>1
  <2>2. ASSUME r.command = "solver add" PROVE ixs = RunSolverAdd(r)
    BY <2>2
  <2>3. ASSUME r.command = "solver remove" PROVE ixs = RunSolverRemove(r)
    BY <2>3
  <2>4. ASSUME r.command = "authority transfer" PROVE ixs = RunAuthorityTransfer(r)
    BY <2>4
  <2>5. ASSUME r.command = "buffer create" PROVE ixs = RunBufferCreate(r)
    BY <2>5
  <2> HIDE DEF ixs
  <2> QED BY <2>1, <2>2, <2>3, <2>4, <2>5
<1> HIDE DEF ixs
<1>3. Wraps(Run(r), ixs)
  BY <1>1 DEF Wraps
<1> QED BY <1>2, <1>3, Zenon
LEMMA BuffersSigned ==
    ASSUME NEW r \in Requests, r.command = "buffer create",
           NEW k \in DOMAIN RunBufferCreate(r)
    PROVE  SignedBy(Range(RunBufferCreate(r)[k].accounts), {Payer(r)})
<1> DEFINE missing == {m \in Range(r.mints) : Buffer[m] \notin existing}
           mintsOf(program) == SetToSeq({m \in missing : TokenProgramOf[m] = program})
           programs == SetToSeq({TokenProgramOf[m] : m \in missing})
           T == {m \in missing : TokenProgramOf[m] = programs[k]}
           mints == [j \in DOMAIN mintsOf(programs[k]) |-> [mint |-> mintsOf(programs[k])[j]]]
           c == [payer |-> Payer(r), token_program |-> programs[k], mints |-> mints]
<1>1. RunBufferCreate(r) = [i \in DOMAIN programs |->
            ClientCreateBuffers(
                [payer |-> Payer(r), token_program |-> programs[i],
                 mints |-> [j \in DOMAIN mintsOf(programs[i]) |->
                               [mint |-> mintsOf(programs[i])[j]]]])]
  BY Zenon DEF RunBufferCreate
<1>2. RunBufferCreate(r)[k] = ClientCreateBuffers(c)
  BY <1>1
<1>3. IsFiniteSet(T)
  <2>1. r.mints \in Seq(DOMAIN Buffer)
    BY SubmissionAssumption
  <2>2. IsFiniteSet(Range(r.mints))
    BY <2>1, RangeFinite, Zenon
  <2> QED BY <2>2, FS_Subset
<1>4. mintsOf(programs[k]) = SetToSeq(T)
  OBVIOUS
<1> HIDE DEF T, programs
<1>5. Cardinality(T) \in Nat /\ DOMAIN SetToSeq(T) = 1..Cardinality(T)
  BY <1>3, SetToSeqDomain
<1> DEFINE n == Cardinality(T)
           q == SetToSeq(T)
<1>6. mints = [j \in 1..n |-> [mint |-> q[j]]]
  BY <1>4, <1>5
<1> HIDE DEF n, q, mints
<1>7. n \in Nat /\ Len(mints) = n
  <2>1. n \in Nat
    BY <1>5 DEF n
  <2> DEFINE e(j) == [mint |-> q[j]]
  <2>2. mints = [j \in 1..n |-> e(j)]
    BY <1>6
  <2> HIDE DEF e
  <2>3. mints \in [1..n -> {e(j) : j \in 1..n}]
    BY <2>2
  <2> QED BY <2>1, <2>3, LenIs
<1>8. /\ "payer" \in DOMAIN c /\ "buffers" \notin DOMAIN c
      /\ c.mints = mints /\ c.payer = Payer(r)
  OBVIOUS
<1> HIDE DEF c
<1>9. SignedBy(Range(ClientCreateBuffers(c).accounts), {c.payer})
  BY <1>7, <1>8, ClientCreateBuffersSigned
<1> QED BY <1>2, <1>8, <1>9, Zenon

(* Who signs what command r built, beside or instead of a vault. *)
SignersFor(r) == {Payer(r)} \cup CoSigners(r)

LEMMA RequestSigned ==
    ASSUME NEW r \in Requests
    PROVE  SignersOf(Metas(Run(r), Payer(r))) = SignersFor(r)
<1>2. r.command \in Names
  BY SubmissionAssumption
<1>3. CASE r.command = "initialize"
  <2> DEFINE c == [payer |-> Payer(r),
                   manager |-> Or(r.manager, Payer(r)),
                   solver_authority |-> Or(r.solver_authority, Payer(r)),
                   reclaim_authority |-> Or(r.reclaim_authority, Payer(r)),
                   settlement_owned_order_authority |-> Or(r.order_authority, Payer(r))]
  <2>1. RunInitialize(r) = <<ClientInitialize(c)>>
    BY Zenon DEF RunInitialize
  <2>2. "payer" \in DOMAIN c /\ c.payer = Payer(r)
    OBVIOUS
  <2> HIDE DEF c
  <2>3. SignedBy(Range(ClientInitialize(c).accounts), {Payer(r)})
    BY <2>2, ClientInitializeSigned
  <2>4. \A k \in DOMAIN RunInitialize(r) :
            SignedBy(Range(RunInitialize(r)[k].accounts), {Payer(r)})
    BY <2>1, <2>3
  <2>5. SignersOf(Metas(Run(r), Payer(r))) = WithPayer(Payer(r), {Payer(r)})
    <3>1. Wraps(Run(r), RunInitialize(r))
      BY <1>3, RunWraps
    <3>2. {Payer(r)} \subseteq {Payer(r)}
      OBVIOUS
    <3> QED BY <2>4, <3>1, <3>2, WrappedSigners
  <2>6. SignersFor(r) = {Payer(r)} \cup {}
    BY <1>3, Zenon DEF SignersFor, CoSigners
  <2> QED BY <2>5, <2>6 DEF WithPayer
<1>4. CASE r.command = "solver add"
  <2> DEFINE signer == SignerOr(r, r.signer)
             c == [authority |-> signer, payer |-> Payer(r), solver |-> r.solver]
  <2>1. RunSolverAdd(r) = <<ClientAddSolver(c)>>
    BY Zenon DEF RunSolverAdd
  <2>2. SignersFor(r) = {Payer(r)} \cup {signer}
    <3>1. r.command \notin {"initialize", "buffer create"}
      BY <1>4
    <3> QED BY <3>1, Zenon DEF SignersFor, CoSigners
  <2> HIDE DEF signer
  <2>3. "payer" \in DOMAIN c /\ "authority" \in DOMAIN c /\ c.payer = Payer(r) /\ c.authority = signer
    OBVIOUS
  <2> HIDE DEF c
  <2>4. SignedBy(Range(ClientAddSolver(c).accounts), {signer, Payer(r)})
    BY <2>3, ClientAddSolverSigned
  <2>5. \A k \in DOMAIN RunSolverAdd(r) :
            SignedBy(Range(RunSolverAdd(r)[k].accounts), {signer, Payer(r)})
    BY <2>1, <2>4
  <2>6. 1 \in DOMAIN RunSolverAdd(r)
    BY <2>1
  <2>7. SignersOf(Metas(Run(r), Payer(r))) = WithPayer(Payer(r), {signer, Payer(r)})
    <3>1. Wraps(Run(r), RunSolverAdd(r))
      BY <1>4, RunWraps
    <3>2. DOMAIN RunSolverAdd(r) # {}
      BY <2>6
    <3> QED BY <2>5, <3>1, <3>2, WrappedSigners
  <2> QED BY <2>2, <2>7 DEF WithPayer
<1>5. CASE r.command = "solver remove"
  <2> DEFINE signer == SignerOr(r, r.signer)
             c == [authority |-> signer, rent_recipient |-> Or(r.rent_recipient, Payer(r)),
                   solver |-> r.solver]
  <2>1. RunSolverRemove(r) = <<ClientRemoveSolver(c)>>
    BY Zenon DEF RunSolverRemove
  <2>2. SignersFor(r) = {Payer(r)} \cup {signer}
    <3>1. r.command \notin {"initialize", "buffer create"}
      BY <1>5
    <3> QED BY <3>1, Zenon DEF SignersFor, CoSigners
  <2> HIDE DEF signer
  <2>3. "authority" \in DOMAIN c /\ c.authority = signer
    OBVIOUS
  <2> HIDE DEF c
  <2>4. SignedBy(Range(ClientRemoveSolver(c).accounts), {signer})
    BY <2>3, ClientRemoveSolverSigned
  <2>5. \A k \in DOMAIN RunSolverRemove(r) :
            SignedBy(Range(RunSolverRemove(r)[k].accounts), {signer})
    BY <2>1, <2>4
  <2>6. 1 \in DOMAIN RunSolverRemove(r)
    BY <2>1
  <2>7. SignersOf(Metas(Run(r), Payer(r))) = WithPayer(Payer(r), {signer})
    <3>1. Wraps(Run(r), RunSolverRemove(r))
      BY <1>5, RunWraps
    <3>2. DOMAIN RunSolverRemove(r) # {}
      BY <2>6
    <3> QED BY <2>5, <3>1, <3>2, WrappedSigners
  <2> QED BY <2>2, <2>7 DEF WithPayer
<1>6. CASE r.command = "authority transfer"
  <2> DEFINE signer == SignerOr(r, r.signer)
             c == [signer |-> signer, role |-> r.role, new_authority |-> r.new_authority]
  <2>1. RunAuthorityTransfer(r) = <<ClientTransferAuthority(c)>>
    BY Zenon DEF RunAuthorityTransfer
  <2>2. SignersFor(r) = {Payer(r)} \cup {signer}
    <3>1. r.command \notin {"initialize", "buffer create"}
      BY <1>6
    <3> QED BY <3>1, Zenon DEF SignersFor, CoSigners
  <2> HIDE DEF signer
  <2>3. "signer" \in DOMAIN c /\ c.signer = signer
    OBVIOUS
  <2> HIDE DEF c
  <2>4. SignedBy(Range(ClientTransferAuthority(c).accounts), {signer})
    BY <2>3, ClientTransferAuthoritySigned
  <2>5. \A k \in DOMAIN RunAuthorityTransfer(r) :
            SignedBy(Range(RunAuthorityTransfer(r)[k].accounts), {signer})
    BY <2>1, <2>4
  <2>6. 1 \in DOMAIN RunAuthorityTransfer(r)
    BY <2>1
  <2>7. SignersOf(Metas(Run(r), Payer(r))) = WithPayer(Payer(r), {signer})
    <3>1. Wraps(Run(r), RunAuthorityTransfer(r))
      BY <1>6, RunWraps
    <3>2. DOMAIN RunAuthorityTransfer(r) # {}
      BY <2>6
    <3> QED BY <2>5, <3>1, <3>2, WrappedSigners
  <2> QED BY <2>2, <2>7 DEF WithPayer
<1>7. CASE r.command = "buffer create"
  <2>1. \A k \in DOMAIN RunBufferCreate(r) :
            SignedBy(Range(RunBufferCreate(r)[k].accounts), {Payer(r)})
    BY <1>7, BuffersSigned
  <2>2. SignersOf(Metas(Run(r), Payer(r))) = WithPayer(Payer(r), {Payer(r)})
    <3>1. Wraps(Run(r), RunBufferCreate(r))
      BY <1>7, RunWraps
    <3>2. {Payer(r)} \subseteq {Payer(r)}
      OBVIOUS
    <3> QED BY <2>1, <3>1, <3>2, WrappedSigners
  <2>3. SignersFor(r) = {Payer(r)} \cup {}
    BY <1>7, Zenon DEF SignersFor, CoSigners
  <2> QED BY <2>2, <2>3 DEF WithPayer
<1> QED BY <1>2, <1>3, <1>4, <1>5, <1>6, <1>7 DEF Names

(* What stages, proposes and approves. *)
LEMMA BuiltSigned ==
    ASSUME NEW index, NEW member, NEW vault_index, NEW message, NEW approved \in BOOLEAN
    PROVE  SignersOf(Metas(Built(index, member, vault_index, message, approved), member)) = {member}
<1> DEFINE a == VaultTransactionCreate(index, member, vault_index, message)
           b == ProposalCreate(index, member)
           d == ProposalApprove(index, member)
           ixs == Built(index, member, vault_index, message, approved)
           last == IF approved THEN <<d>> ELSE <<>>
<1>1. ixs = <<a, b>> \o last
  BY Zenon DEF Built
<1>2. \A m \in Range(a.accounts) : m.signer => m.key = member
  <2> DEFINE t == New(MultisigAddress, FALSE)
             u == New(TransactionPda(index), FALSE)
             v == NewReadonly(member, TRUE)
             w == New(member, TRUE)
             y == NewReadonly(SystemProgram, FALSE)
  <2>1. a.accounts = <<t, u, v, w, y>>
    BY DEF VaultTransactionCreate
  <2>2. \A m \in {t, u, v, w, y} : m.signer => m.key = member
    BY MetaFields, MetaSigner, Zenon
  <2> HIDE DEF a, t, u, v, w, y
  <2>3. Range(a.accounts) = {t, u, v, w, y}
    BY <2>1, Range5
  <2> QED BY <2>2, <2>3, Zenon
<1>3. \A m \in Range(b.accounts) : m.signer => m.key = member
  <2> DEFINE t == NewReadonly(MultisigAddress, FALSE)
             u == New(ProposalPda(index), FALSE)
             v == NewReadonly(member, TRUE)
             w == New(member, TRUE)
             y == NewReadonly(SystemProgram, FALSE)
  <2>1. b.accounts = <<t, u, v, w, y>>
    BY DEF ProposalCreate
  <2>2. \A m \in {t, u, v, w, y} : m.signer => m.key = member
    BY MetaFields, MetaSigner, Zenon
  <2> HIDE DEF b, t, u, v, w, y
  <2>3. Range(b.accounts) = {t, u, v, w, y}
    BY <2>1, Range5
  <2> QED BY <2>2, <2>3, Zenon
<1>4. \A m \in Range(d.accounts) : m.signer => m.key = member
  <2>1. d.accounts = <<NewReadonly(MultisigAddress, FALSE), New(member, TRUE),
                       New(ProposalPda(index), FALSE)>>
    BY DEF ProposalApprove
  <2> HIDE DEF d
  <2>2. Range(d.accounts) = {NewReadonly(MultisigAddress, FALSE), New(member, TRUE),
                             New(ProposalPda(index), FALSE)}
    BY <2>1, Range3
  <2> QED BY <2>2, MetaFields, MetaSigner, Zenon
<1> HIDE DEF a, b, d, ixs
<1>5. ixs \in Seq({a, b, d})
  <2>1. <<a, b>> \in Seq({a, b, d}) /\ <<d>> \in Seq({a, b, d}) /\ <<>> \in Seq({a, b, d})
    OBVIOUS
  <2>2. last \in Seq({a, b, d})
    BY <2>1, Zenon
  <2> HIDE DEF last
  <2> QED BY <1>1, <2>1, <2>2, ConcatProperties
<1>6. Range(ixs) \subseteq {a, b, d}
  BY <1>5 DEF Range
<1>7. \A ix \in Range(ixs) : \A m \in Range(ix.accounts) : m.signer => m.key \in {member}
  BY <1>2, <1>3, <1>4, <1>6, Zenon
<1>8. SignersOf(Metas(ixs, member)) = {member}
  BY <1>7, MetasSigned
<1> QED BY <1>8 DEF ixs
-----------------------------------------------------------------------------
(* Numbers as bytes. *)
LEMMA PowerIsPowerOf ==
    ASSUME NEW k
    PROVE  Power(k) = PowerOf(Byte, k)
BY Zenon DEF Power, PowerOf

LEMMA ByteIsBase == Byte \in Nat \ {0}
BY BytesAssumption

LEMMA ToBytesDigits ==
    ASSUME NEW v, NEW width
    PROVE  ToBytes(v, width) = [k \in 1..width |-> Digit(Byte, v, k)]
BY PowerIsPowerOf DEF ToBytes, Digit

LEMMA BytesBack ==
    ASSUME NEW v \in Nat, NEW width \in Nat
    PROVE  FromBytes(ToBytes(v, width)) = v % Power(width)
<1> DEFINE bytes == ToBytes(v, width)
           f == [k \in DOMAIN bytes |-> bytes[k] * Power(k - 1)]
<1>1. FromBytes(bytes) = SumFunctionOnSet(f, DOMAIN bytes)
  BY Zenon DEF FromBytes
<1>2. DOMAIN bytes = 1..width /\ \A k \in 1..width : bytes[k] = Digit(Byte, v, k)
  BY ToBytesDigits
<1> HIDE DEF bytes
<1>3. \A k \in 1..width : f[k] = Digit(Byte, v, k) * PowerOf(Byte, k - 1)
  BY <1>2, PowerIsPowerOf
<1> HIDE DEF f
<1>4. SumFunctionOnSet(f, 1..width) = v % PowerOf(Byte, width)
  BY <1>3, ByteIsBase, DigitsBack
<1> QED BY <1>1, <1>2, <1>4, PowerIsPowerOf DEF bytes

(* from_le_bytes gives back what to_le_bytes was given, if that fits into  *)
(* the width, for any base and any width.                                  *)
THEOREM RoundTrip ==
    ASSUME NEW v \in Nat, NEW width \in Nat, v < Power(width)
    PROVE  FromBytes(ToBytes(v, width)) = v
<1>1. Power(width) \in Nat \ {0}
  BY ByteIsBase, PowerType, PowerIsPowerOf
<1>2. v \in 0..(Power(width) - 1)
  BY <1>1
<1>3. v % Power(width) = v
  BY <1>1, <1>2, SmallRemainder
<1> QED BY <1>3, BytesBack

-----------------------------------------------------------------------------
(* A compiled message, and an instruction of it as it is packed. *)
IsCompiled(ix) ==
    /\ ix.program_id_index \in Nat
    /\ ix.accounts \in Seq(Nat)
    /\ ix.data \in Seq(Nat)

IsMessage(m) ==
    /\ m.num_required_signatures \in Nat
    /\ m.num_required_signatures - m.num_readonly_signed_accounts \in Nat
    /\ WritableNonSigners(m) \in Nat
    /\ Len(m.account_keys) \in Nat
    /\ m.account_keys \in [1..Len(m.account_keys) -> Seq(Nat)]
    /\ \A k \in 1..Len(m.account_keys) : Len(m.account_keys[k]) = KeyWidth
    /\ Len(m.instructions) \in Nat
    /\ DOMAIN m.instructions = 1..Len(m.instructions)
    /\ \A i \in 1..Len(m.instructions) : IsCompiled(m.instructions[i])
    /\ \A i \in 1..Len(m.instructions) :
           LET ix == m.instructions[i] IN
           /\ ix.program_id_index < Len(m.account_keys)
           /\ \A k \in 1..Len(ix.accounts) : ix.accounts[k] < Len(m.account_keys)

PackedIx(ix) ==
    <<ix.program_id_index, Len(ix.accounts)>> \o ix.accounts
    \o ToBytes(Len(ix.data), LenWidth) \o ix.data
PackedIxs(m) == [i \in DOMAIN m.instructions |-> PackedIx(m.instructions[i])]

LEMMA ToBytesType ==
    ASSUME NEW v \in Nat, NEW width \in Nat
    PROVE  ToBytes(v, width) \in Seq(Nat) /\ Len(ToBytes(v, width)) = width
<1>1. \A k \in 1..width : Digit(Byte, v, k) \in Nat
  <2>1. ASSUME NEW k \in 1..width PROVE Digit(Byte, v, k) \in Nat
    <3>1. Digit(Byte, v, k) \in 0..(Byte - 1)
      BY ByteIsBase, DigitType
    <3> QED BY <3>1, ByteIsBase
  <2> QED BY <2>1
<1> QED BY <1>1, ToBytesDigits

LEMMA PackedIxType ==
    ASSUME NEW ix, IsCompiled(ix)
    PROVE  PackedIx(ix) \in Seq(Nat)
<1>1. Len(ix.data) \in Nat /\ Len(ix.accounts) \in Nat
  BY DEF IsCompiled
<1>2. ToBytes(Len(ix.data), LenWidth) \in Seq(Nat)
  BY <1>1, ToBytesType, SquadsAssumption
<1>3. <<ix.program_id_index, Len(ix.accounts)>> \in Seq(Nat)
  BY <1>1 DEF IsCompiled
<1>4. ix.accounts \in Seq(Nat) /\ ix.data \in Seq(Nat)
  BY DEF IsCompiled
<1> DEFINE a == <<ix.program_id_index, Len(ix.accounts)>>
           b == ix.accounts
           c == ToBytes(Len(ix.data), LenWidth)
           d == ix.data
<1>5. PackedIx(ix) = ((a \o b) \o c) \o d
  BY Zenon DEF PackedIx
<1> HIDE DEF a, b, c, d
<1>6. a \in Seq(Nat) /\ b \in Seq(Nat) /\ c \in Seq(Nat) /\ d \in Seq(Nat)
  BY <1>2, <1>3, <1>4 DEF a, b, c, d
<1> QED BY <1>5, <1>6
(* Where a packed message has what. *)
LEMMA Laid ==
    ASSUME NEW m, IsMessage(m)
    PROVE  LET bytes == TransactionMessage(m)
               n == Len(m.account_keys)
           IN  /\ bytes \in Seq(Nat)
               /\ bytes[1] = m.num_required_signatures
               /\ bytes[2] = m.num_required_signatures - m.num_readonly_signed_accounts
               /\ bytes[3] = WritableNonSigners(m)
               /\ bytes[4] = n
               /\ \A k \in 1..n : Holds(bytes, 5 + (k - 1) * KeyWidth, m.account_keys[k])
               /\ 5 + n * KeyWidth <= Len(bytes)
               /\ bytes[5 + n * KeyWidth] = Len(m.instructions)
               /\ Holds(bytes, 6 + n * KeyWidth, FlattenSeq(PackedIxs(m)))
<1> DEFINE head == <<m.num_required_signatures,
                  m.num_required_signatures - m.num_readonly_signed_accounts,
                  WritableNonSigners(m), Len(m.account_keys)>>
           keys == FlattenSeq(m.account_keys)
           count == <<Len(m.instructions)>>
           ixs == FlattenSeq(PackedIxs(m))
           end == <<0>>
           bytes == TransactionMessage(m)
           n == Len(m.account_keys)
<1>1. bytes = (((head \o keys) \o count) \o ixs) \o end
  BY Zenon DEF TransactionMessage, PackedIxs, PackedIx
<1>2. n \in Nat /\ m.account_keys \in [1..n -> Seq(Nat)] /\ KeyWidth \in Nat
      /\ \A k \in 1..n : Len(m.account_keys[k]) = KeyWidth
  BY BytesAssumption DEF IsMessage
<1>3. head \in Seq(Nat) /\ Len(head) = 4 /\ head[1] = m.num_required_signatures
      /\ head[2] = m.num_required_signatures - m.num_readonly_signed_accounts
      /\ head[3] = WritableNonSigners(m) /\ head[4] = n
  BY DEF IsMessage
<1>4. keys \in Seq(Nat)
  BY <1>2, FlattenType
<1>5. count \in Seq(Nat) /\ Len(count) = 1 /\ count[1] = Len(m.instructions)
  BY DEF IsMessage
<1>6. ixs \in Seq(Nat)
  <2> DEFINE k == Len(m.instructions)
  <2>1. k \in Nat /\ DOMAIN m.instructions = 1..k /\ \A i \in 1..k : IsCompiled(m.instructions[i])
    BY DEF IsMessage
  <2> HIDE DEF k
  <2>2. \A i \in 1..k : PackedIx(m.instructions[i]) \in Seq(Nat)
    BY <2>1, PackedIxType
  <2>3. PackedIxs(m) \in [1..k -> Seq(Nat)]
    BY <2>1, <2>2 DEF PackedIxs
  <2> QED BY <2>1, <2>3, FlattenType
<1>7. end \in Seq(Nat)
  OBVIOUS
<1> DEFINE keyed == head \o keys
           start == keyed \o count
           most == start \o ixs
<1> HIDE DEF head, keys, count, ixs, end, bytes, n
<1>0. head \in Seq(Nat) /\ Len(head) = 4 /\ count \in Seq(Nat) /\ Len(count) = 1
  BY <1>3, <1>5
<1>8. keyed \in Seq(Nat) /\ Len(keyed) = 4 + Len(keys) /\ Len(keys) \in Nat
  <2>1. keyed \in Seq(Nat) /\ Len(keyed) = Len(head) + Len(keys) /\ Len(keys) \in Nat
    BY <1>0, <1>4, TwoParts, Zenon DEF keyed
  <2> QED BY <1>0, <2>1
<1> HIDE DEF keyed
<1>9. start \in Seq(Nat) /\ Len(start) = 5 + Len(keys)
  <2>1. start \in Seq(Nat) /\ Len(start) = Len(keyed) + Len(count)
    BY <1>0, <1>8, TwoParts, Zenon DEF start
  <2> QED BY <1>0, <1>8, <2>1
<1> HIDE DEF start
<1>10. most \in Seq(Nat)
  BY <1>6, <1>9
<1> HIDE DEF most
<1>11. bytes \in Seq(Nat) /\ Holds(bytes, 1, most \o end)
  <2>1. bytes = most \o end
    BY <1>1 DEF keyed, start, most
  <2>2. bytes \in Seq(Nat)
    BY <1>7, <1>10, <2>1
  <2>3. Len(bytes) \in Nat /\ \A j \in 1..Len(bytes) : 1 + j - 1 = j
    BY <2>2
  <2>4. Holds(bytes, 1, bytes)
    BY <2>3 DEF Holds
  <2> QED BY <2>1, <2>2, <2>4
<1>12. Holds(bytes, 1, start) /\ Holds(bytes, 1 + Len(start), ixs)
  <2>1. Holds(bytes, 1, most)
    BY <1>7, <1>10, <1>11, HoldsParts
  <2> QED BY <1>6, <1>9, <1>11, <2>1, HoldsParts DEF most
<1>13. Holds(bytes, 1, keyed) /\ Holds(bytes, 1 + Len(keyed), count)
  BY <1>5, <1>8, <1>11, <1>12, HoldsParts DEF start
<1>14. Holds(bytes, 1, head) /\ Holds(bytes, 1 + Len(head), keys)
  <2>1. head \in Seq(Nat) /\ keys \in Seq(Nat) /\ bytes \in Seq(Nat) /\ 1 \in Nat \ {0}
    BY <1>0, <1>4, <1>11
  <2>2. Holds(bytes, 1, head \o keys)
    BY <1>13 DEF keyed
  <2> QED BY ONLY <2>1, <2>2, HoldsParts, Zenon
<1>15. Holds(bytes, 5, keys)
  BY <1>3, <1>14
<1>16. Len(keys) = n * KeyWidth /\ \A k \in 1..n : Holds(bytes, 5 + (k - 1) * KeyWidth, m.account_keys[k])
  <2>1. Holds(bytes, 5, FlattenSeq(m.account_keys))
    BY <1>15 DEF keys
  <2>2. bytes \in Seq(Nat) /\ 5 \in Nat \ {0}
    BY <1>11
  <2>3. /\ Len(FlattenSeq(m.account_keys)) = n * KeyWidth
        /\ \A k \in 1..n : Holds(bytes, 5 + (k - 1) * KeyWidth, m.account_keys[k])
    BY ONLY <1>2, <2>1, <2>2, EqualWidths
  <2> QED BY <2>3 DEF keys
<1>17. bytes[1] = head[1] /\ bytes[2] = head[2] /\ bytes[3] = head[3] /\ bytes[4] = head[4]
  BY <1>3, <1>14 DEF Holds
<1>18. 5 + Len(keys) <= Len(bytes) /\ bytes[5 + Len(keys)] = count[1]
  <2>1. 1 + Len(keyed) = 5 + Len(keys)
    BY <1>8
  <2>2. Holds(bytes, 5 + Len(keys), count)
    BY <1>13, <2>1
  <2>3. (5 + Len(keys)) + 1 - 1 = 5 + Len(keys)
    BY <1>8
  <2> QED BY <1>5, <2>2, <2>3 DEF Holds
<1>19. Holds(bytes, 6 + Len(keys), ixs)
  <2>1. 1 + Len(start) = 6 + Len(keys)
    BY <1>8, <1>9
  <2> QED BY <1>12, <2>1
<1> DEFINE kw == n * KeyWidth
<1>20. /\ 5 + kw <= Len(bytes) /\ bytes[5 + kw] = count[1] /\ Holds(bytes, 6 + kw, ixs)
  BY <1>16, <1>18, <1>19
<1> QED BY <1>3, <1>5, <1>11, <1>16, <1>17, <1>20 DEF bytes, n, ixs
(* How Unpack reads an instruction at p. *)
DataAt(bytes, p) == p + 2 + bytes[p + 1]
DataLen(bytes, p) ==
    FromBytes(SubSeq(bytes, DataAt(bytes, p), DataAt(bytes, p) + LenWidth - 1))
DataOf(bytes, p) ==
    SubSeq(bytes, DataAt(bytes, p) + LenWidth,
           DataAt(bytes, p) + LenWidth + DataLen(bytes, p) - 1)

LEMMA ReadOne ==
    ASSUME NEW bytes \in Seq(Nat), NEW p \in Nat \ {0}, NEW ix, IsCompiled(ix),
           Len(ix.data) < Power(LenWidth), Holds(bytes, p, PackedIx(ix))
    PROVE  /\ bytes[p] = ix.program_id_index
           /\ bytes[p + 1] = Len(ix.accounts)
           /\ \A k \in 1..Len(ix.accounts) : bytes[p + 1 + k] = ix.accounts[k]
           /\ DataAt(bytes, p) + LenWidth + DataLen(bytes, p) = p + Len(PackedIx(ix))
           /\ DataOf(bytes, p) = ix.data
<1> DEFINE head == <<ix.program_id_index, Len(ix.accounts)>>
           acc == ix.accounts
           len == ToBytes(Len(ix.data), LenWidth)
           data == ix.data
           first == head \o acc
           second == first \o len
<1>1. PackedIx(ix) = second \o data
  BY Zenon DEF PackedIx
<1>2. acc \in Seq(Nat) /\ data \in Seq(Nat) /\ Len(data) \in Nat /\ Len(acc) \in Nat
  BY DEF IsCompiled
<1>3. head \in Seq(Nat) /\ Len(head) = 2
  BY <1>2 DEF IsCompiled
<1>4. head[1] = ix.program_id_index /\ head[2] = Len(acc)
  OBVIOUS
<1>5. LenWidth \in Nat /\ len \in Seq(Nat) /\ Len(len) = LenWidth
  BY <1>2, ToBytesType, SquadsAssumption
<1>6. FromBytes(len) = Len(data)
  BY <1>2, <1>5, RoundTrip
<1> HIDE DEF head, acc, len, data
<1>7. first \in Seq(Nat) /\ Len(first) = 2 + Len(acc)
  <2>1. first \in Seq(Nat) /\ Len(first) = Len(head) + Len(acc)
    BY <1>2, <1>3, TwoParts, Zenon
  <2> QED BY <1>3, <2>1
<1> HIDE DEF first
<1>8. second \in Seq(Nat) /\ Len(second) = 2 + Len(acc) + LenWidth
  <2>1. second \in Seq(Nat) /\ Len(second) = Len(first) + Len(len)
    BY <1>5, <1>7, TwoParts, Zenon
  <2> QED BY <1>5, <1>7, <2>1
<1> HIDE DEF second
<1>9. Len(PackedIx(ix)) = 2 + Len(acc) + LenWidth + Len(data)
  <2>1. Len(PackedIx(ix)) = Len(second) + Len(data)
    BY <1>1, <1>2, <1>8, TwoParts, Zenon
  <2> QED BY <1>8, <2>1
<1>10. Holds(bytes, p, second) /\ Holds(bytes, p + Len(second), data)
  <2>1. Holds(bytes, p, second \o data)
    BY <1>1
  <2> QED BY <1>2, <1>8, <2>1, HoldsParts, Zenon
<1>11. Holds(bytes, p, first) /\ Holds(bytes, p + Len(first), len)
  <2>1. Holds(bytes, p, first \o len)
    BY <1>10 DEF second
  <2> QED BY <1>5, <1>7, <2>1, HoldsParts, Zenon
<1>12. Holds(bytes, p, head) /\ Holds(bytes, p + Len(head), acc)
  <2>1. Holds(bytes, p, head \o acc)
    BY <1>11 DEF first
  <2> QED BY <1>2, <1>3, <2>1, HoldsParts, Zenon
<1>13. bytes[p] = head[1] /\ bytes[p + 1] = head[2]
  <2>1. bytes[p + 1 - 1] = head[1] /\ bytes[p + 2 - 1] = head[2]
    BY <1>3, <1>12 DEF Holds
  <2> QED BY <2>1
<1>14. ASSUME NEW k \in 1..Len(acc) PROVE bytes[p + 1 + k] = acc[k]
  <2>1. bytes[(p + Len(head)) + k - 1] = acc[k]
    BY <1>12 DEF Holds
  <2>2. (p + Len(head)) + k - 1 = p + 1 + k
    BY <1>2, <1>3
  <2> QED BY <2>1, <2>2
<1>15. DataAt(bytes, p) = p + Len(first)
  <2>1. DataAt(bytes, p) = p + 2 + Len(acc)
    BY <1>4, <1>13 DEF DataAt
  <2> QED BY <1>2, <1>7, <2>1
<1>16. DataLen(bytes, p) = Len(data)
  <2> DEFINE a == p + Len(first)
  <2>1. a \in Nat \ {0}
    BY <1>2, <1>7
  <2>2. Holds(bytes, a, len)
    BY <1>11
  <2> HIDE DEF a
  <2>3. SubSeq(bytes, a, a + Len(len) - 1) = len
    BY <1>5, <2>1, <2>2, CutOut
  <2>4. DataLen(bytes, p) = FromBytes(SubSeq(bytes, a, a + LenWidth - 1))
    BY <1>15, Zenon DEF DataLen, a
  <2> QED BY <1>5, <1>6, <2>3, <2>4
<1>17. DataOf(bytes, p) = data
  <2> DEFINE a == p + Len(second)
  <2>1. a \in Nat \ {0}
    BY <1>2, <1>5, <1>8
  <2>2. Holds(bytes, a, data)
    BY <1>10
  <2>3. DataAt(bytes, p) + LenWidth = a
    BY <1>2, <1>5, <1>7, <1>8, <1>15
  <2> HIDE DEF a
  <2>4. SubSeq(bytes, a, a + Len(data) - 1) = data
    BY <1>2, <2>1, <2>2, CutOut
  <2> QED BY <1>16, <2>3, <2>4, Zenon DEF DataOf
<1>18. DataAt(bytes, p) + LenWidth + DataLen(bytes, p) = p + Len(PackedIx(ix))
  BY <1>2, <1>5, <1>7, <1>9, <1>15, <1>16
<1> QED BY <1>4, <1>13, <1>14, <1>17, <1>18 DEF acc, data
(* The parts of Unpack. *)
KeysOf(bytes) == [k \in 1..bytes[4] |-> Chunk(SubSeq(bytes, 5, Len(bytes)), KeyWidth, k)]
AfterKeys(bytes) == 5 + bytes[4] * KeyWidth
MetaOf(bytes, k) ==
    [key |-> KeysOf(bytes)[k + 1], signer |-> k < bytes[1],
     writable |-> k < bytes[2] \/ k \in bytes[1]..(bytes[1] + bytes[3] - 1)]
InstructionOf(bytes, p) ==
    [program |-> KeysOf(bytes)[bytes[p] + 1],
     accounts |-> [k \in 1..bytes[p + 1] |-> MetaOf(bytes, bytes[p + 1 + k])],
     data |-> DataOf(bytes, p)]
AtStep(bytes, g, i) ==
    IF i = 1 THEN AfterKeys(bytes) + 1
             ELSE DataAt(bytes, g[i - 1]) + LenWidth + DataLen(bytes, g[i - 1])
IsAt(bytes, g) == g = [i \in 1..bytes[AfterKeys(bytes)] |-> AtStep(bytes, g, i)]

LEMMA UnpackParts ==
    ASSUME NEW bytes
    PROVE  LET at == CHOOSE g : IsAt(bytes, g)
           IN  Unpack(bytes) = [i \in 1..bytes[AfterKeys(bytes)] |-> InstructionOf(bytes, at[i])]
BY Zenon DEF Unpack, InstructionOf, MetaOf, KeysOf, AfterKeys, DataOf, DataLen, DataAt, IsAt, AtStep

(* What is read back. *)
MetaAt(m, k) ==
    [key |-> m.account_keys[k + 1], signer |-> k < m.num_required_signatures,
     writable |-> \/ k < m.num_required_signatures - m.num_readonly_signed_accounts
                  \/ k \in m.num_required_signatures..(m.num_required_signatures
                                                       + WritableNonSigners(m) - 1)]
ReadBack(m, ix) ==
    [program |-> m.account_keys[ix.program_id_index + 1],
     accounts |-> [k \in 1..Len(ix.accounts) |-> MetaAt(m, ix.accounts[k])],
     data |-> ix.data]

(* The keys are read back. *)
LEMMA KeysBack ==
    ASSUME NEW m, IsMessage(m), NEW k \in 1..Len(m.account_keys)
    PROVE  KeysOf(TransactionMessage(m))[k] = m.account_keys[k]
<1> DEFINE bytes == TransactionMessage(m)
           n == Len(m.account_keys)
           key == m.account_keys[k]
           rest == SubSeq(bytes, 5, Len(bytes))
           a == (k - 1) * KeyWidth
<1>1. /\ bytes \in Seq(Nat) /\ bytes[4] = n /\ 5 + n * KeyWidth <= Len(bytes)
      /\ Holds(bytes, 5 + (k - 1) * KeyWidth, key)
  BY Laid
<1>2. n \in Nat /\ key \in Seq(Nat) /\ Len(key) = KeyWidth /\ KeyWidth \in Nat \ {0}
  BY BytesAssumption DEF IsMessage
<1>3. KeysOf(bytes)[k] = Chunk(rest, KeyWidth, k)
  <2> HIDE DEF bytes, rest
  <2> QED BY <1>1 DEF KeysOf, rest
<1>4. a \in Nat /\ k * KeyWidth = a + KeyWidth /\ k * KeyWidth <= n * KeyWidth
  <2>1. k \in Nat /\ k <= n /\ k - 1 \in Nat
    BY <1>2
  <2>2. (k - 1) * KeyWidth \in Nat /\ k * KeyWidth = (k - 1) * KeyWidth + KeyWidth
    BY <1>2, <2>1
  <2>3. k * KeyWidth <= n * KeyWidth
    BY <1>2, <2>1
  <2> QED BY <2>2, <2>3
<1> DEFINE b == k * KeyWidth
           c == n * KeyWidth
<1>5. c \in Nat /\ Len(bytes) \in Nat
  BY <1>1, <1>2
<1>6. Chunk(rest, KeyWidth, k) = SubSeq(rest, a + 1, b)
  BY Zenon DEF Chunk
<1> HIDE DEF a, b, c, bytes, n, key
<1>7. rest \in Seq(Nat) /\ Len(rest) = Len(bytes) - 4
      /\ \A j \in 1..(Len(bytes) - 4) : rest[j] = bytes[j + 4]
  <2>1. Len(bytes) >= 5 /\ bytes \in Seq(Nat)
    BY <1>1, <1>5 DEF c
  <2> QED BY <1>5, <2>1
<1>8. a + KeyWidth <= Len(bytes) - 5 /\ b = a + KeyWidth /\ a \in Nat
  <2>1. 5 + c <= Len(bytes)
    BY <1>1 DEF c
  <2>2. a \in Nat /\ b = a + KeyWidth /\ b <= c
    BY <1>4 DEF a, b, c
  <2> QED BY <1>2, <1>5, <2>1, <2>2
<1>9. Holds(rest, a + 1, key)
  <2> HIDE DEF rest
  <2>0. Holds(bytes, 5 + a, key)
    BY <1>1 DEF a
  <2>1. ASSUME NEW j \in 1..Len(key) PROVE rest[(a + 1) + j - 1] = key[j]
    <3>1. bytes[5 + a + j - 1] = key[j]
      BY <2>0 DEF Holds
    <3>2. a + j \in 1..(Len(bytes) - 4) /\ 5 + a + j - 1 = (a + j) + 4 /\ (a + 1) + j - 1 = a + j
      BY <1>2, <1>5, <1>8
    <3> QED BY <1>7, <3>1, <3>2
  <2>2. (a + 1) + Len(key) - 1 <= Len(rest)
    BY <1>2, <1>5, <1>7, <1>8
  <2> QED BY <2>1, <2>2 DEF Holds
<1>10. SubSeq(rest, a + 1, (a + 1) + Len(key) - 1) = key
  <2>1. a + 1 \in Nat \ {0} /\ rest \in Seq(Nat)
    BY <1>7, <1>8
  <2> HIDE DEF rest
  <2> QED BY <1>2, <1>9, <2>1, CutOut
<1>11. (a + 1) + Len(key) - 1 = b
  BY <1>2, <1>8
<1> HIDE DEF rest
<1>12. KeysOf(bytes)[k] = key
  BY <1>3, <1>6, <1>10, <1>11
<1> QED BY <1>12 DEF bytes, key

(* Squads reads the bytes of transaction_message as the very message that  *)
(* was packed, for any number of keys, instructions and accounts, and data *)
(* of any length, as long as the counts fit into their bytes: no length    *)
(* prefix is taken for data and no index for another.                      *)
THEOREM UnpackBack ==
    ASSUME NEW m, IsMessage(m), MessageFits(m)
    PROVE  Unpack(TransactionMessage(m))
             = [i \in 1..Len(m.instructions) |-> ReadBack(m, m.instructions[i])]
<1> DEFINE bytes == TransactionMessage(m)
           n == Len(m.account_keys)
           count == Len(m.instructions)
           first == 6 + n * KeyWidth
           q == PackedIxs(m)
<1>1. /\ bytes \in Seq(Nat)
      /\ bytes[1] = m.num_required_signatures
      /\ bytes[2] = m.num_required_signatures - m.num_readonly_signed_accounts
      /\ bytes[3] = WritableNonSigners(m)
      /\ bytes[4] = n
      /\ bytes[5 + n * KeyWidth] = count
      /\ Holds(bytes, first, FlattenSeq(q))
  BY Laid
<1>2. /\ n \in Nat /\ count \in Nat /\ DOMAIN m.instructions = 1..count
      /\ \A i \in 1..count : IsCompiled(m.instructions[i])
      /\ KeyWidth \in Nat
  BY BytesAssumption DEF IsMessage
<1>3. \A i \in 1..count : Len(m.instructions[i].data) < Power(LenWidth)
  BY <1>2 DEF MessageFits
<1> HIDE DEF bytes, n, count
<1>4. q \in [1..count -> Seq(Nat)] /\ \A i \in 1..count : q[i] = PackedIx(m.instructions[i])
  <2>1. \A i \in 1..count : PackedIx(m.instructions[i]) \in Seq(Nat)
    BY <1>2, PackedIxType
  <2> QED BY <1>2, <2>1 DEF PackedIxs
<1>5. first \in Nat \ {0} /\ AfterKeys(bytes) + 1 = first /\ bytes[AfterKeys(bytes)] = count
  <2> DEFINE c == n * KeyWidth
  <2>1. c \in Nat /\ bytes[5 + c] = count
    BY <1>1, <1>2
  <2>2. AfterKeys(bytes) = 5 + c
    BY <1>1, Zenon DEF AfterKeys
  <2> HIDE DEF c
  <2>3. first = 6 + c
    BY DEF c
  <2> HIDE DEF first
  <2> QED BY <2>1, <2>2, <2>3
<1> HIDE DEF first, q
<1>6. PICK off : IsLayout(bytes, first, q, count, off)
  BY <1>1, <1>2, <1>4, <1>5, FlattenHolds
<1> DEFINE at == CHOOSE g : IsAt(bytes, g)
           h == [i \in 1..count |-> first + off[i]]
<1>7. /\ off[1] = 0
      /\ \A i \in 1..count : /\ off[i] \in Nat
                             /\ off[i + 1] = off[i] + Len(q[i])
                             /\ Holds(bytes, first + off[i], q[i])
  BY <1>6 DEF IsLayout
<1>8. ASSUME NEW i \in 1..count
      PROVE  LET ix == m.instructions[i]
                 p == first + off[i]
             IN  /\ bytes[p] = ix.program_id_index
                 /\ bytes[p + 1] = Len(ix.accounts)
                 /\ \A k \in 1..Len(ix.accounts) : bytes[p + 1 + k] = ix.accounts[k]
                 /\ DataAt(bytes, p) + LenWidth + DataLen(bytes, p) = p + Len(q[i])
                 /\ DataOf(bytes, p) = ix.data
  <2> DEFINE ix == m.instructions[i]
             p == first + off[i]
  <2>1. p \in Nat \ {0} /\ Holds(bytes, p, PackedIx(ix))
    BY <1>4, <1>5, <1>7
  <2>2. IsCompiled(ix) /\ Len(ix.data) < Power(LenWidth) /\ q[i] = PackedIx(ix)
    BY <1>2, <1>3, <1>4
  <2> HIDE DEF ix, p
  <2>3. /\ bytes[p] = ix.program_id_index
        /\ bytes[p + 1] = Len(ix.accounts)
        /\ \A k \in 1..Len(ix.accounts) : bytes[p + 1 + k] = ix.accounts[k]
        /\ DataAt(bytes, p) + LenWidth + DataLen(bytes, p) = p + Len(PackedIx(ix))
        /\ DataOf(bytes, p) = ix.data
    <3>1. bytes \in Seq(Nat)
      BY <1>1
    <3> QED BY ONLY <2>1, <2>2, <3>1, ReadOne
  <2> QED BY <2>2, <2>3 DEF ix, p
<1>9. ASSUME NEW i \in 1..count PROVE h[i] = AtStep(bytes, h, i)
  <2>1. CASE i = 1
    <3>1. h[i] = first + 0
      BY <1>7, <2>1
    <3>2. AtStep(bytes, h, i) = AfterKeys(bytes) + 1
      BY <2>1, Zenon DEF AtStep
    <3> QED BY <1>5, <3>1, <3>2
  <2>2. CASE i # 1
    <3> DEFINE p == first + off[i - 1]
    <3>1. i - 1 \in 1..count /\ (i - 1) + 1 = i /\ h[i - 1] = p /\ h[i] = first + off[i]
      BY <1>2, <2>2
    <3>2. DataAt(bytes, p) + LenWidth + DataLen(bytes, p) = p + Len(q[i - 1])
      BY <1>8, <3>1
    <3>3. AtStep(bytes, h, i) = DataAt(bytes, p) + LenWidth + DataLen(bytes, p)
      BY <2>2, <3>1, Zenon DEF AtStep
    <3>4. off[i - 1] \in Nat /\ off[i] = off[i - 1] + Len(q[i - 1]) /\ Len(q[i - 1]) \in Nat
      BY <1>4, <1>7, <3>1
    <3>5. first + off[i] = p + Len(q[i - 1])
      BY <1>5, <3>4
    <3> QED BY <3>1, <3>2, <3>3, <3>5
  <2> QED BY <2>1, <2>2
<1>10. IsAt(bytes, h)
  <2>1. h = [i \in 1..count |-> h[i]]
    OBVIOUS
  <2> HIDE DEF h
  <2>2. h = [i \in 1..count |-> AtStep(bytes, h, i)]
    BY <1>9, <2>1
  <2> QED BY <1>5, <2>2, Zenon DEF IsAt
<1>11. IsAt(bytes, at)
  BY <1>10, Zenon
<1> HIDE DEF at
<1>12. \A i \in 1..count : at[i] = AtStep(bytes, at, i)
  <2>1. at = [i \in 1..count |-> AtStep(bytes, at, i)]
    BY <1>5, <1>11, Zenon DEF IsAt
  <2> QED BY <2>1
<1> HIDE DEF h
<1> DEFINE N == {k \in Nat : k \in 1..count => at[k] = h[k]}
<1>13. ASSUME NEW k \in Nat, \A j \in 0..(k - 1) : j \in N
      PROVE  k \in N
  <2> SUFFICES ASSUME k \in 1..count PROVE at[k] = h[k]
    OBVIOUS
  <2>1. at[k] = AtStep(bytes, at, k) /\ h[k] = AtStep(bytes, h, k)
    BY <1>9, <1>12
  <2>2. CASE k = 1
    <3>1. AtStep(bytes, at, k) = AtStep(bytes, h, k)
      BY <2>2, Zenon DEF AtStep
    <3> QED BY <2>1, <3>1
  <2>3. CASE k # 1
    <3>1. at[k - 1] = h[k - 1]
      <4>1. k - 1 \in 0..(k - 1) /\ k - 1 \in 1..count
        BY <1>2, <2>3
      <4> QED BY <1>13, <4>1
    <3>2. AtStep(bytes, at, k) = AtStep(bytes, h, k)
      BY <3>1, Zenon DEF AtStep
    <3> QED BY <2>1, <3>2
  <2> QED BY <2>2, <2>3
<1> HIDE DEF N
<1>14. Nat \subseteq N
  BY <1>13, NumbersInduction
<1>15. \A k \in 1..count : at[k] = first + off[k]
  <2>1. \A k \in 1..count : at[k] = h[k]
    BY <1>2, <1>14 DEF N
  <2>2. \A k \in 1..count : h[k] = first + off[k]
    BY DEF h
  <2> QED BY <2>1, <2>2
<1>16. ASSUME NEW i \in 1..count
       PROVE  InstructionOf(bytes, at[i]) = ReadBack(m, m.instructions[i])
  <2> DEFINE ix == m.instructions[i]
             p == at[i]
  <2>1. /\ bytes[p] = ix.program_id_index
        /\ bytes[p + 1] = Len(ix.accounts)
        /\ \A k \in 1..Len(ix.accounts) : bytes[p + 1 + k] = ix.accounts[k]
        /\ DataOf(bytes, p) = ix.data
    BY <1>8, <1>15
  <2>2. /\ ix.program_id_index \in Nat /\ Len(ix.accounts) \in Nat
        /\ \A k \in 1..Len(ix.accounts) : ix.accounts[k] \in Nat
    <3>1. IsCompiled(ix)
      BY <1>2
    <3> HIDE DEF ix
    <3> QED BY ONLY <3>1 DEF IsCompiled
  <2>3. /\ ix.program_id_index < n
        /\ \A k \in 1..Len(ix.accounts) : ix.accounts[k] < n
    BY DEF IsMessage, n, count
  <2>4. ASSUME NEW k \in Nat, k < n
        PROVE  KeysOf(bytes)[k + 1] = m.account_keys[k + 1] /\ MetaOf(bytes, k) = MetaAt(m, k)
    <3>1. k + 1 \in 1..Len(m.account_keys)
      BY <1>2, <2>4 DEF n
    <3>2. KeysOf(bytes)[k + 1] = m.account_keys[k + 1]
      BY <3>1, KeysBack DEF bytes
    <3>3. MetaOf(bytes, k) = MetaAt(m, k)
      BY <1>1, <3>2, Zenon DEF MetaOf, MetaAt
    <3> QED BY <3>2, <3>3
  <2> HIDE DEF ix, p
  <2> DEFINE f == [k \in 1..bytes[p + 1] |-> MetaOf(bytes, bytes[p + 1 + k])]
             g == [k \in 1..Len(ix.accounts) |-> MetaAt(m, ix.accounts[k])]
  <2>5. f = g
    <3>1. \A k \in 1..Len(ix.accounts) : MetaOf(bytes, bytes[p + 1 + k]) = MetaAt(m, ix.accounts[k])
      BY <2>1, <2>2, <2>3, <2>4
    <3> QED BY ONLY <2>1, <3>1
  <2>6. KeysOf(bytes)[bytes[p] + 1] = m.account_keys[ix.program_id_index + 1]
    BY <2>1, <2>2, <2>3, <2>4
  <2>7. InstructionOf(bytes, p) = [program |-> KeysOf(bytes)[bytes[p] + 1], accounts |-> f,
                                   data |-> DataOf(bytes, p)]
    BY Zenon DEF InstructionOf
  <2>8. ReadBack(m, ix) = [program |-> m.account_keys[ix.program_id_index + 1], accounts |-> g,
                           data |-> ix.data]
    BY Zenon DEF ReadBack
  <2> HIDE DEF f, g
  <2>9. InstructionOf(bytes, p) = ReadBack(m, ix)
    BY <2>1, <2>5, <2>6, <2>7, <2>8, Zenon
  <2> QED BY <2>9 DEF p, ix
<1>17. Unpack(bytes) = [i \in 1..count |-> InstructionOf(bytes, at[i])]
  BY <1>5, UnpackParts, Zenon DEF at
<1>18. Unpack(bytes) = [i \in 1..count |-> ReadBack(m, m.instructions[i])]
  BY <1>16, <1>17, Zenon
<1> QED BY <1>18 DEF bytes, count
-----------------------------------------------------------------------------
LEMMA EmptyLists == SetToSeq({}) = <<>>
<1>1. Lists(SetToSeq({}), {}, 0)
  BY SetToSeqLists, FS_EmptySet
<1> DEFINE q == SetToSeq({})
<1>2. q \in [1..0 -> {}]
  BY <1>1 DEF Lists
<1> HIDE DEF q
<1>3. q = <<>>
  BY <1>2
<1> QED BY <1>3 DEF q

(* What an instruction is made of. *)
IsIx(ix) ==
    /\ ix.program \in Key
    /\ ix.data \in Seq(Nat)
    /\ Len(ix.accounts) \in Nat
    /\ DOMAIN ix.accounts = 1..Len(ix.accounts)
    /\ \A k \in 1..Len(ix.accounts) : ix.accounts[k].key \in Key
AreIxs(ixs) ==
    /\ Len(ixs) \in Nat
    /\ DOMAIN ixs = 1..Len(ixs)
    /\ \A i \in 1..Len(ixs) : IsIx(ixs[i])

(* The accounts of a message, without their privileges. *)
Named(ixs, payer) ==
    {payer} \cup {ix.program : ix \in Range(ixs)}
    \cup UNION {{m.key : m \in Range(ix.accounts)} : ix \in Range(ixs)}

LEMMA KeysAre ==
    ASSUME NEW ixs, NEW payer
    PROVE  /\ Keys(Metas(ixs, payer)) = Named(ixs, payer)
           /\ SignersOf(Metas(ixs, payer)) \subseteq Named(ixs, payer)
           /\ WrittenOf(Metas(ixs, payer)) \subseteq Named(ixs, payer)
           /\ payer \in WrittenOf(Metas(ixs, payer))
<1> DEFINE metas == Metas(ixs, payer)
           K == Keys(metas)
<1>1. SignersOf(metas) \subseteq K /\ WrittenOf(metas) \subseteq K
  BY Zenon DEF SignersOf, WrittenOf, Keys
<1>2. K = Named(ixs, payer)
  <2>1. ASSUME NEW key \in K PROVE key \in Named(ixs, payer)
    <3>1. PICK m \in metas : m.key = key
      BY Zenon DEF Keys
    <3>2. \/ m = New(payer, TRUE)
          \/ \E ix \in Range(ixs) : m \in Range(ix.accounts)
          \/ \E ix \in Range(ixs) : m = NewReadonly(ix.program, FALSE)
      BY Zenon DEF Metas
    <3>3. CASE m = New(payer, TRUE)
      <4>1. key = payer
        BY <3>1, <3>3, MetaFields
      <4> QED BY <4>1, Zenon DEF Named
    <3>4. CASE \E ix \in Range(ixs) : m \in Range(ix.accounts)
      <4>1. PICK ix \in Range(ixs) : m \in Range(ix.accounts)
        BY <3>4
      <4>2. key \in {n.key : n \in Range(ix.accounts)}
        BY <3>1, <4>1, Zenon
      <4>3. key \in UNION {{n.key : n \in Range(jx.accounts)} : jx \in Range(ixs)}
        BY <4>2, Zenon
      <4> QED BY <4>3, Zenon DEF Named
    <3>5. CASE \E ix \in Range(ixs) : m = NewReadonly(ix.program, FALSE)
      <4>1. PICK ix \in Range(ixs) : m = NewReadonly(ix.program, FALSE)
        BY <3>5
      <4>2. key = ix.program
        BY <3>1, <4>1, MetaFields
      <4> QED BY <4>2, Zenon DEF Named
    <3> QED BY <3>2, <3>3, <3>4, <3>5
  <2>2. ASSUME NEW key \in Named(ixs, payer) PROVE key \in K
    <3>1. CASE key = payer
      <4>1. New(payer, TRUE) \in metas
        BY Zenon DEF Metas
      <4>2. New(payer, TRUE).key = key
        BY <3>1, MetaFields
      <4> QED BY <4>1, <4>2, Zenon DEF Keys
    <3>2. CASE \E ix \in Range(ixs) : key = ix.program
      <4>1. PICK ix \in Range(ixs) : key = ix.program
        BY <3>2
      <4>2. NewReadonly(ix.program, FALSE) \in metas
        BY Zenon DEF Metas
      <4>3. NewReadonly(ix.program, FALSE).key = key
        BY <4>1, MetaFields
      <4> QED BY <4>2, <4>3, Zenon DEF Keys
    <3>3. CASE \E ix \in Range(ixs) : \E m \in Range(ix.accounts) : key = m.key
      <4>1. PICK ix \in Range(ixs) : \E m \in Range(ix.accounts) : key = m.key
        BY <3>3
      <4>2. PICK m \in Range(ix.accounts) : key = m.key
        BY <4>1
      <4>3. m \in metas
        BY Zenon DEF Metas
      <4> QED BY <4>2, <4>3, Zenon DEF Keys
    <3>4. \/ key = payer
          \/ \E ix \in Range(ixs) : key = ix.program
          \/ \E ix \in Range(ixs) : \E m \in Range(ix.accounts) : key = m.key
      BY Zenon DEF Named
    <3> QED BY <3>1, <3>2, <3>3, <3>4
  <2> QED BY <2>1, <2>2, Zenon
<1>3. payer \in WrittenOf(metas)
  <2>1. New(payer, TRUE) \in metas
    BY Zenon DEF Metas
  <2>2. New(payer, TRUE).key = payer /\ New(payer, TRUE).writable
    BY DEF New
  <2> QED BY <2>1, <2>2, Zenon DEF WrittenOf
<1> QED BY <1>1, <1>2, <1>3
(* They are addresses, and finitely many. *)
LEMMA NamedFinite ==
    ASSUME NEW ixs, AreIxs(ixs), NEW payer \in Key
    PROVE  IsFiniteSet(Named(ixs, payer)) /\ Named(ixs, payer) \subseteq Key
<1>1. /\ Len(ixs) \in Nat /\ DOMAIN ixs = 1..Len(ixs)
      /\ \A i \in 1..Len(ixs) : IsIx(ixs[i])
  BY DEF AreIxs
<1>2. IsFiniteSet(1..Len(ixs))
  BY <1>1, FS_Interval
<1>3. \A ix \in Range(ixs) : IsIx(ix)
  BY <1>1 DEF Range
<1>4. IsFiniteSet(Range(ixs))
  <2>1. IsFiniteSet({ixs[i] : i \in 1..Len(ixs)})
    BY <1>2, ImageFinite
  <2> QED BY <1>1, <2>1, Zenon DEF Range
<1> DEFINE R == Range(ixs)
           keysOf(ix) == {m.key : m \in Range(ix.accounts)}
           A == {ix.program : ix \in R}
           F == {keysOf(ix) : ix \in R}
<1>5. Named(ixs, payer) = {payer} \cup A \cup UNION F
  BY Zenon DEF Named
<1>6. ASSUME NEW ix \in R
      PROVE  IsFiniteSet(keysOf(ix)) /\ keysOf(ix) \subseteq Key
  <2>1. /\ Len(ix.accounts) \in Nat /\ DOMAIN ix.accounts = 1..Len(ix.accounts)
        /\ \A k \in 1..Len(ix.accounts) : ix.accounts[k].key \in Key
    BY <1>3, Zenon DEF IsIx
  <2> DEFINE f == [k \in 1..Len(ix.accounts) |-> ix.accounts[k].key]
  <2>2. IsFiniteSet(1..Len(ix.accounts))
    BY <2>1, FS_Interval
  <2>3. IsFiniteSet({f[k] : k \in 1..Len(ix.accounts)})
    <3> HIDE DEF f
    <3> QED BY <2>2, ImageFinite
  <2>4. {f[k] : k \in 1..Len(ix.accounts)} = {ix.accounts[k].key : k \in 1..Len(ix.accounts)}
    OBVIOUS
  <2>5. keysOf(ix) = {ix.accounts[k].key : k \in 1..Len(ix.accounts)}
    BY <2>1, Zenon DEF Range
  <2>6. {ix.accounts[k].key : k \in 1..Len(ix.accounts)} \subseteq Key
    BY <2>1, Zenon
  <2> QED BY <2>3, <2>4, <2>5, <2>6
<1> HIDE DEF keysOf, R
<1>7. IsFiniteSet(A) /\ A \subseteq Key
  <2> DEFINE f == [ix \in R |-> ix.program]
  <2>1. IsFiniteSet({f[ix] : ix \in R})
    <3> HIDE DEF f
    <3> QED BY <1>4, ImageFinite DEF R
  <2>2. {f[ix] : ix \in R} = A
    OBVIOUS
  <2>3. A \subseteq Key
    BY <1>3, Zenon DEF IsIx, R
  <2> QED BY <2>1, <2>2, <2>3
<1>8. IsFiniteSet(UNION F) /\ UNION F \subseteq Key
  <2> DEFINE f == [ix \in R |-> keysOf(ix)]
  <2>1. IsFiniteSet({f[ix] : ix \in R})
    <3> HIDE DEF f
    <3> QED BY <1>4, ImageFinite DEF R
  <2>2. {f[ix] : ix \in R} = F
    OBVIOUS
  <2>3. \A T \in F : IsFiniteSet(T) /\ T \subseteq Key
    BY <1>6
  <2> HIDE DEF F
  <2>4. IsFiniteSet(UNION F)
    BY <2>1, <2>2, <2>3, FS_UNION
  <2> QED BY <2>3, <2>4
<1> HIDE DEF A, F
<1>9. IsFiniteSet({payer} \cup A \cup UNION F)
  <2>1. IsFiniteSet({payer})
    BY FS_Singleton
  <2> QED BY <1>7, <1>8, <2>1, FS_Union
<1> QED BY <1>5, <1>7, <1>8, <1>9
(* The keys of a message: the vault, a that are written, b that are not. *)
IsKeyList(keys, K, W, vault, a, b) ==
    /\ a \in Nat /\ b \in Nat
    /\ Len(keys) = 1 + a + b
    /\ keys \in Seq(K)
    /\ keys[1] = vault
    /\ \A j \in 1..a : keys[1 + j] \in (K \cap W) \ {vault}
    /\ \A j \in 1..b : keys[1 + a + j] \in K \ (W \cup {vault})
    /\ \A x \in K : \E k \in 1..(1 + a + b) : keys[k] = x

LEMMA KeyListIs ==
    ASSUME NEW K, IsFiniteSet(K), NEW W \in SUBSET K, NEW vault \in W
    PROVE  LET others == K \ {vault}
               keys == <<vault>> \o SetToSeq(others \cap W) \o SetToSeq(others \ W)
           IN  IsKeyList(keys, K, W, vault, Cardinality(others \cap W), Cardinality(others \ W))
<1> DEFINE others == K \ {vault}
           A == others \cap W
           B == others \ W
           a == Cardinality(A)
           b == Cardinality(B)
           p == SetToSeq(A)
           q == SetToSeq(B)
           keys == <<vault>> \o p \o q
<1>1. IsFiniteSet(A) /\ IsFiniteSet(B)
  BY FS_Subset
<1>2. Lists(p, A, a) /\ Lists(q, B, b)
  BY <1>1, SetToSeqLists
<1> HIDE DEF p, q, a, b
<1>3. /\ a \in Nat /\ b \in Nat /\ p \in [1..a -> A] /\ q \in [1..b -> B]
      /\ \A x \in A : \E k \in 1..a : p[k] = x
      /\ \A x \in B : \E k \in 1..b : q[k] = x
  BY <1>2 DEF Lists
<1>4. /\ p \in Seq(K) /\ q \in Seq(K) /\ Len(p) = a /\ Len(q) = b
      /\ \A j \in 1..a : p[j] \in A
      /\ \A j \in 1..b : q[j] \in B
  BY <1>3
<1> HIDE DEF A, B
<1> DEFINE first == <<vault>> \o p
<1>5. /\ first \in Seq(K) /\ Len(first) = 1 + a
      /\ first[1] = vault /\ \A j \in 1..a : first[1 + j] = p[j]
  <2>1. <<vault>> \in Seq(K)
    OBVIOUS
  <2> QED BY <1>3, <1>4, <2>1
<1> HIDE DEF first
<1>6. /\ keys \in Seq(K) /\ Len(keys) = 1 + a + b
      /\ \A j \in 1..(1 + a) : keys[j] = first[j]
      /\ \A j \in 1..b : keys[1 + a + j] = q[j]
  <2>1. keys = first \o q
    BY DEF first
  <2> HIDE DEF keys
  <2>2. /\ keys \in Seq(K) /\ Len(keys) = Len(first) + Len(q)
        /\ \A j \in 1..Len(first) : keys[j] = first[j]
        /\ \A j \in 1..Len(q) : keys[Len(first) + j] = q[j]
    <3>1. first \in Seq(K) /\ q \in Seq(K)
      BY <1>4, <1>5
    <3> QED BY ONLY <2>1, <3>1, JoinedParts
  <2> QED BY <1>3, <1>4, <1>5, <2>2
<1> HIDE DEF keys
<1>7. keys[1] = vault /\ \A j \in 1..a : keys[1 + j] = p[j]
  <2>1. 1 \in 1..(1 + a) /\ \A j \in 1..a : 1 + j \in 1..(1 + a)
    BY <1>3
  <2> QED BY <1>5, <1>6, <2>1
<1>8. DOMAIN keys = 1..(1 + a + b)
  BY <1>6
<1>9. ASSUME NEW x \in K PROVE \E k \in 1..(1 + a + b) : keys[k] = x
  <2>1. CASE x = vault
    <3>1. 1 \in 1..(1 + a + b)
      BY <1>3
    <3> QED BY <1>7, <2>1, <3>1
  <2>2. CASE x \in A
    <3>1. PICK k \in 1..a : p[k] = x
      BY <1>3, <2>2
    <3>2. 1 + k \in 1..(1 + a + b) /\ keys[1 + k] = x
      BY <1>3, <1>7, <3>1
    <3> QED BY <3>2
  <2>3. CASE x \in B
    <3>1. PICK k \in 1..b : q[k] = x
      BY <1>3, <2>3
    <3>2. 1 + a + k \in 1..(1 + a + b) /\ keys[1 + a + k] = x
      BY <1>3, <1>6, <3>1
    <3> QED BY <3>2
  <2> QED BY <2>1, <2>2, <2>3 DEF A, B
<1>10. /\ \A j \in 1..a : keys[1 + j] \in (K \cap W) \ {vault}
       /\ \A j \in 1..b : keys[1 + a + j] \in K \ (W \cup {vault})
  <2>1. \A j \in 1..a : keys[1 + j] \in A
    BY <1>4, <1>7
  <2>2. \A j \in 1..b : keys[1 + a + j] \in B
    BY <1>4, <1>6
  <2> QED BY <2>1, <2>2 DEF A, B
<1>11. IsKeyList(keys, K, W, vault, a, b)
  BY <1>3, <1>6, <1>7, <1>8, <1>9, <1>10 DEF IsKeyList
<1> QED BY <1>11 DEF keys, a, b, p, q, A, B

(* Where a key is, tells what may be done with it. *)
LEMMA PlaceTells ==
    ASSUME NEW keys, NEW K, NEW W \in SUBSET K, NEW vault \in W, NEW a, NEW b,
           IsKeyList(keys, K, W, vault, a, b), NEW k \in 1..(1 + a + b)
    PROVE  /\ k - 1 \in Nat /\ k - 1 < Len(keys)
           /\ keys[k] \in K
           /\ k - 1 < 1 <=> keys[k] = vault
           /\ (k - 1 < 1 - 0 \/ k - 1 \in 1..(1 + a - 1)) <=> keys[k] \in W
<1>1. /\ a \in Nat /\ b \in Nat /\ Len(keys) = 1 + a + b /\ keys[1] = vault
      /\ \A j \in 1..a : keys[1 + j] \in (K \cap W) \ {vault}
      /\ \A j \in 1..b : keys[1 + a + j] \in K \ (W \cup {vault})
  BY DEF IsKeyList
<1>2. CASE k = 1
  BY <1>1, <1>2
<1>3. CASE k # 1 /\ k <= 1 + a
  <2> DEFINE j == k - 1
  <2>1. j \in 1..a /\ 1 + j = k
    BY <1>1, <1>3
  <2>2. keys[k] \in (K \cap W) \ {vault}
    BY <1>1, <2>1
  <2> QED BY <1>1, <2>1, <2>2
<1>4. CASE k > 1 + a
  <2> DEFINE j == k - 1 - a
  <2>1. j \in 1..b /\ 1 + a + j = k
    BY <1>1, <1>4
  <2>2. keys[k] \in K \ (W \cup {vault})
    BY <1>1, <2>1
  <2> QED BY <1>1, <1>4, <2>2
<1> QED BY <1>1, <1>2, <1>3, <1>4
(* The parts of Message. *)
KeysIn(ixs, payer) ==
    LET metas == Metas(ixs, payer)
        signers == SignersOf(metas)
        written == WrittenOf(metas)
        others == Keys(metas) \ signers
    IN  <<payer>> \o SetToSeq((signers \cap written) \ {payer})
        \o SetToSeq(signers \ written) \o SetToSeq(others \cap written)
        \o SetToSeq(others \ written)
Place(keys, key) == (CHOOSE k \in DOMAIN keys : keys[k] = key) - 1
Places(keys, metas) == [k \in DOMAIN metas |-> Place(keys, metas[k].key)]
Compiled(keys, ix) ==
    [program_id_index |-> Place(keys, ix.program), accounts |-> Places(keys, ix.accounts),
     data |-> ix.data]

LEMMA MessageFields ==
    ASSUME NEW ixs, NEW payer
    PROVE  LET m == Message(ixs, payer)
               metas == Metas(ixs, payer)
               signers == SignersOf(metas)
               written == WrittenOf(metas)
           IN  /\ m.num_required_signatures = Cardinality(signers)
               /\ m.num_readonly_signed_accounts = Cardinality(signers \ written)
               /\ m.num_readonly_unsigned_accounts = Cardinality((Keys(metas) \ signers) \ written)
               /\ m.account_keys = KeysIn(ixs, payer)
               /\ m.instructions = [i \in DOMAIN ixs |-> Compiled(KeysIn(ixs, payer), ixs[i])]
<1> DEFINE metas == Metas(ixs, payer)
           signers == SignersOf(metas)
           written == WrittenOf(metas)
           x == Cardinality(signers)
           y == Cardinality(signers \ written)
           z == Cardinality((Keys(metas) \ signers) \ written)
           keys == KeysIn(ixs, payer)
           list == [i \in DOMAIN ixs |-> Compiled(keys, ixs[i])]
<1>1. Message(ixs, payer) = [num_required_signatures |-> x, num_readonly_signed_accounts |-> y,
                             num_readonly_unsigned_accounts |-> z, account_keys |-> keys,
                             instructions |-> list]
  BY Zenon DEF Message, KeysIn, Compiled, Place, Places
<1> HIDE DEF x, y, z, keys, list
<1>2. LET m == Message(ixs, payer)
      IN  /\ m.num_required_signatures = x
          /\ m.num_readonly_signed_accounts = y
          /\ m.num_readonly_unsigned_accounts = z
          /\ m.account_keys = keys
          /\ m.instructions = list
  BY <1>1
<1> QED BY <1>2 DEF x, y, z, keys, list

LEMMA CompiledFields ==
    ASSUME NEW keys, NEW ix
    PROVE  /\ Compiled(keys, ix).program_id_index = Place(keys, ix.program)
           /\ Compiled(keys, ix).accounts = Places(keys, ix.accounts)
           /\ Compiled(keys, ix).data = ix.data
BY DEF Compiled

(* The keys of a message that the vault alone signs. *)
LEMMA VaultKeys ==
    ASSUME NEW ixs, AreIxs(ixs), NEW vault \in Key, SignersOf(Metas(ixs, vault)) = {vault}
    PROVE  LET m == Message(ixs, vault)
               K == Named(ixs, vault)
               W == WrittenOf(Metas(ixs, vault))
               others == K \ {vault}
           IN  /\ W \in SUBSET K /\ vault \in W
               /\ m.num_required_signatures = 1
               /\ m.num_readonly_signed_accounts = 0
               /\ m.num_readonly_unsigned_accounts = Cardinality(others \ W)
               /\ IsKeyList(m.account_keys, K, W, vault, Cardinality(others \cap W),
                            Cardinality(others \ W))
<1> DEFINE m == Message(ixs, vault)
           metas == Metas(ixs, vault)
           K == Named(ixs, vault)
           W == WrittenOf(metas)
           S == SignersOf(metas)
           others == K \ {vault}
<1>1. Keys(metas) = K /\ W \subseteq K /\ vault \in W
  BY KeysAre
<1>2. /\ m.num_required_signatures = Cardinality(S)
      /\ m.num_readonly_signed_accounts = Cardinality(S \ W)
      /\ m.num_readonly_unsigned_accounts = Cardinality((Keys(metas) \ S) \ W)
      /\ m.account_keys = KeysIn(ixs, vault)
  BY MessageFields
<1>3. KeysIn(ixs, vault) = <<vault>> \o SetToSeq((S \cap W) \ {vault})
        \o SetToSeq(S \ W) \o SetToSeq((Keys(metas) \ S) \cap W)
        \o SetToSeq((Keys(metas) \ S) \ W)
  BY Zenon DEF KeysIn
<1>4. S = {vault}
  OBVIOUS
<1>5. IsFiniteSet(K)
  BY NamedFinite
<1> HIDE DEF m, S, K, W, metas
<1>6. S \ W = {} /\ (S \cap W) \ {vault} = {} /\ Keys(metas) \ S = others
  BY <1>1, <1>4
<1> DEFINE p == SetToSeq(others \cap W)
           q == SetToSeq(others \ W)
<1> HIDE DEF others
<1>7. KeysIn(ixs, vault) = <<vault>> \o <<>> \o <<>> \o p \o q
  BY <1>3, <1>6, EmptyLists, Zenon
<1>8. <<vault>> \o <<>> = <<vault>>
  OBVIOUS
<1>9. m.account_keys = <<vault>> \o p \o q
  BY <1>2, <1>7, <1>8, Zenon
<1>10. IsKeyList(<<vault>> \o p \o q, K, W, vault, Cardinality(others \cap W),
                 Cardinality(others \ W))
  BY <1>1, <1>5, KeyListIs DEF others
<1>11. m.num_required_signatures = 1
  BY <1>2, <1>4, FS_Singleton
<1>12. m.num_readonly_signed_accounts = 0
  BY <1>2, <1>6, FS_EmptySet
<1>13. m.num_readonly_unsigned_accounts = Cardinality(others \ W)
  BY <1>2, <1>6
<1>14. IsKeyList(m.account_keys, K, W, vault, Cardinality(others \cap W),
                 Cardinality(others \ W))
  BY <1>9, <1>10
<1> QED BY <1>1, <1>11, <1>12, <1>13, <1>14 DEF m, K, W, metas, others
LEMMA PlaceIs ==
    ASSUME NEW keys, NEW key, \E k \in DOMAIN keys : keys[k] = key
    PROVE  \E k \in DOMAIN keys : keys[k] = key /\ Place(keys, key) = k - 1
BY Zenon DEF Place

(* The privileges an account has in a message of the vault. *)
Granted(key, vault, W) == [key |-> key, signer |-> key = vault, writable |-> key \in W]

LEMMA PlaceGrants ==
    ASSUME NEW ixs, AreIxs(ixs), NEW vault \in Key, SignersOf(Metas(ixs, vault)) = {vault},
           NEW key \in Named(ixs, vault)
    PROVE  LET m == Message(ixs, vault)
               p == Place(m.account_keys, key)
           IN  /\ p \in Nat /\ p < Len(m.account_keys)
               /\ m.account_keys[p + 1] = key
               /\ MetaAt(m, p) = Granted(key, vault, WrittenOf(Metas(ixs, vault)))
<1> DEFINE m == Message(ixs, vault)
           keys == m.account_keys
           p == Place(keys, key)
           K == Named(ixs, vault)
           W == WrittenOf(Metas(ixs, vault))
           a == Cardinality((K \ {vault}) \cap W)
           b == Cardinality((K \ {vault}) \ W)
<1>1. /\ W \in SUBSET K /\ vault \in W
      /\ m.num_required_signatures = 1
      /\ m.num_readonly_signed_accounts = 0
      /\ m.num_readonly_unsigned_accounts = b
      /\ IsKeyList(keys, K, W, vault, a, b)
  BY VaultKeys
<1> HIDE DEF m, keys, K, W, a, b
<1>2. /\ a \in Nat /\ b \in Nat /\ Len(keys) = 1 + a + b /\ DOMAIN keys = 1..(1 + a + b)
      /\ \A x \in K : \E k \in 1..(1 + a + b) : keys[k] = x
  BY <1>1 DEF IsKeyList
<1>3. \E k \in DOMAIN keys : keys[k] = key
  BY <1>2 DEF K
<1>4. PICK k \in DOMAIN keys : keys[k] = key /\ p = k - 1
  BY <1>3, PlaceIs
<1>5. k \in 1..(1 + a + b)
  BY <1>2
<1>6. /\ k - 1 \in Nat /\ k - 1 < Len(keys)
      /\ keys[k] \in K
      /\ k - 1 < 1 <=> keys[k] = vault
      /\ (k - 1 < 1 - 0 \/ k - 1 \in 1..(1 + a - 1)) <=> keys[k] \in W
  <2>1. W \in SUBSET K /\ vault \in W /\ IsKeyList(keys, K, W, vault, a, b)
    BY <1>1
  <2> QED BY ONLY <1>5, <2>1, PlaceTells
<1>7. WritableNonSigners(m) = a
  <2>1. WritableNonSigners(m) = (1 + a + b) - 1 - b
    BY <1>1, <1>2 DEF WritableNonSigners, keys
  <2> QED BY <1>2, <2>1
<1> HIDE DEF p
<1>8. p + 1 = k
  BY <1>4, <1>5, <1>2
<1>9. MetaAt(m, p) = [key |-> keys[p + 1], signer |-> p < 1,
                      writable |-> p < 1 - 0 \/ p \in 1..(1 + a - 1)]
  BY <1>1, <1>7, Zenon DEF MetaAt, keys
<1>10. (p < 1) = (key = vault)
  BY <1>4, <1>6
<1>11. (p < 1 - 0 \/ p \in 1..(1 + a - 1)) = (key \in W)
  BY <1>4, <1>6
<1>12. keys[p + 1] = key
  BY <1>4, <1>8
<1>13. MetaAt(m, p) = Granted(key, vault, W)
  BY <1>9, <1>10, <1>11, <1>12, Zenon DEF Granted
<1>14. p \in Nat /\ p < Len(keys)
  BY <1>4, <1>6
<1> QED BY <1>12, <1>13, <1>14 DEF m, keys, p, W

(* The message of a vault is well formed, and names what ixs name. *)
LEMMA MessageIs ==
    ASSUME NEW ixs, AreIxs(ixs), NEW vault \in Key, SignersOf(Metas(ixs, vault)) = {vault}
    PROVE  LET m == Message(ixs, vault)
               W == WrittenOf(Metas(ixs, vault))
           IN  /\ IsMessage(m)
               /\ Len(m.instructions) = Len(ixs)
               /\ \A i \in 1..Len(ixs) :
                      LET back == ReadBack(m, m.instructions[i]) IN
                      /\ back.program = ixs[i].program
                      /\ back.data = ixs[i].data
                      /\ back.accounts = [k \in DOMAIN ixs[i].accounts |->
                                              Granted(ixs[i].accounts[k].key, vault, W)]
<1> DEFINE m == Message(ixs, vault)
           keys == m.account_keys
           K == Named(ixs, vault)
           W == WrittenOf(Metas(ixs, vault))
           a == Cardinality((K \ {vault}) \cap W)
           b == Cardinality((K \ {vault}) \ W)
           n == Len(ixs)
           list == m.instructions
<1>1. /\ W \in SUBSET K /\ vault \in W
      /\ m.num_required_signatures = 1
      /\ m.num_readonly_signed_accounts = 0
      /\ m.num_readonly_unsigned_accounts = b
      /\ IsKeyList(keys, K, W, vault, a, b)
  BY VaultKeys
<1>2. list = [i \in DOMAIN ixs |-> Compiled(keys, ixs[i])]
  <2>1. m.account_keys = KeysIn(ixs, vault)
        /\ m.instructions = [i \in DOMAIN ixs |-> Compiled(KeysIn(ixs, vault), ixs[i])]
    BY MessageFields
  <2> QED BY <2>1, Zenon
<1>3. n \in Nat /\ DOMAIN ixs = 1..n /\ \A i \in 1..n : IsIx(ixs[i])
  BY DEF AreIxs
<1>4. ASSUME NEW key \in K
      PROVE  /\ Place(keys, key) \in Nat /\ Place(keys, key) < Len(keys)
             /\ keys[Place(keys, key) + 1] = key
             /\ MetaAt(m, Place(keys, key)) = Granted(key, vault, W)
  BY PlaceGrants
<1>5. K \subseteq Key
  BY NamedFinite
<1> HIDE DEF m, keys, K, W, a, b, n, list
<1>6. /\ a \in Nat /\ b \in Nat /\ Len(keys) = 1 + a + b /\ DOMAIN keys = 1..(1 + a + b)
      /\ \A k \in 1..(1 + a + b) : keys[k] \in K
  <2>1. a \in Nat /\ b \in Nat /\ Len(keys) = 1 + a + b /\ DOMAIN keys = 1..(1 + a + b)
    BY <1>1 DEF IsKeyList
  <2>2. keys \in Seq(K)
    BY <1>1 DEF IsKeyList
  <2> QED BY <2>1, <2>2
<1>7. Len(list) = n /\ DOMAIN list = 1..n /\ \A i \in 1..n : list[i] = Compiled(keys, ixs[i])
  <2> DEFINE c(i) == Compiled(keys, ixs[i])
  <2>1. list = [i \in 1..n |-> c(i)]
    BY <1>2, <1>3
  <2> HIDE DEF c
  <2>2. list \in [1..n -> {c(i) : i \in 1..n}]
    BY <2>1
  <2>3. Len(list) = n
    BY <1>3, <2>2, LenIs
  <2> QED BY <2>1, <2>3 DEF c
<1>8. ASSUME NEW i \in 1..n
      PROVE  /\ ixs[i].program \in K
             /\ Len(ixs[i].accounts) \in Nat /\ DOMAIN ixs[i].accounts = 1..Len(ixs[i].accounts)
             /\ ixs[i].data \in Seq(Nat)
             /\ \A k \in 1..Len(ixs[i].accounts) : ixs[i].accounts[k].key \in K
  <2>1. /\ Len(ixs[i].accounts) \in Nat /\ DOMAIN ixs[i].accounts = 1..Len(ixs[i].accounts)
        /\ ixs[i].data \in Seq(Nat)
    BY <1>3 DEF IsIx
  <2>2. ixs[i] \in Range(ixs)
    BY <1>3 DEF Range
  <2>3. ixs[i].program \in K
    BY <2>2, Zenon DEF K, Named
  <2>4. ASSUME NEW k \in 1..Len(ixs[i].accounts) PROVE ixs[i].accounts[k].key \in K
    <3>1. ixs[i].accounts[k] \in Range(ixs[i].accounts)
      BY <2>1 DEF Range
    <3>2. ixs[i].accounts[k].key \in {x.key : x \in Range(ixs[i].accounts)}
      BY <3>1, Zenon
    <3>3. ixs[i].accounts[k].key \in UNION {{x.key : x \in Range(ix.accounts)} : ix \in Range(ixs)}
      BY <2>2, <3>2, Zenon
    <3> QED BY <3>3, Zenon DEF K, Named
  <2> QED BY <2>1, <2>3, <2>4
<1>9. ASSUME NEW i \in 1..n
      PROVE  /\ list[i].program_id_index = Place(keys, ixs[i].program)
             /\ list[i].data = ixs[i].data
             /\ list[i].accounts = Places(keys, ixs[i].accounts)
             /\ Len(list[i].accounts) = Len(ixs[i].accounts)
             /\ list[i].accounts \in Seq(Nat)
             /\ \A k \in 1..Len(ixs[i].accounts) :
                    list[i].accounts[k] = Place(keys, ixs[i].accounts[k].key)
  <2>1. /\ list[i].program_id_index = Place(keys, ixs[i].program)
        /\ list[i].data = ixs[i].data
        /\ list[i].accounts = Places(keys, ixs[i].accounts)
    BY <1>7, CompiledFields
  <2> DEFINE l == Len(ixs[i].accounts)
             at(k) == Place(keys, ixs[i].accounts[k].key)
             f == Places(keys, ixs[i].accounts)
  <2>2. l \in Nat /\ f = [k \in 1..l |-> at(k)]
    BY <1>8 DEF Places
  <2>3. \A k \in 1..l : at(k) \in Nat
    BY <1>4, <1>8
  <2> HIDE DEF l, at, f
  <2>4. f \in Seq(Nat) /\ Len(f) = l /\ \A k \in 1..l : f[k] = at(k)
    BY <2>2, <2>3
  <2> QED BY <2>1, <2>4 DEF l, f, at
<1>10. IsMessage(m)
  <2>1. WritableNonSigners(m) = a
    <3>1. WritableNonSigners(m) = (1 + a + b) - 1 - b
      BY <1>1, <1>6 DEF WritableNonSigners, keys
    <3> QED BY <1>6, <3>1
  <2>2. \A k \in 1..Len(keys) : keys[k] \in Seq(Nat) /\ Len(keys[k]) = KeyWidth
    <3>1. KeyWidth \in Nat /\ Byte \in Nat
      BY BytesAssumption
    <3>2. \A key \in Key : key \in Seq(Nat) /\ Len(key) = KeyWidth
      BY <3>1 DEF Key
    <3> QED BY <1>5, <1>6, <3>2
  <2>3. Len(keys) \in Nat /\ keys \in [1..Len(keys) -> Seq(Nat)]
    <3>1. keys \in Seq(K)
      BY <1>1 DEF IsKeyList
    <3> QED BY <2>2, <3>1
  <2>4. \A i \in 1..n : IsCompiled(list[i])
    BY <1>4, <1>8, <1>9 DEF IsCompiled
  <2>5. ASSUME NEW i \in 1..n
        PROVE  /\ list[i].program_id_index < Len(keys)
               /\ \A k \in 1..Len(list[i].accounts) : list[i].accounts[k] < Len(keys)
    <3>1. list[i].program_id_index < Len(keys)
      BY <1>4, <1>8, <1>9
    <3>2. ASSUME NEW k \in 1..Len(list[i].accounts) PROVE list[i].accounts[k] < Len(keys)
      <4>1. k \in 1..Len(ixs[i].accounts) /\ list[i].accounts[k] = Place(keys, ixs[i].accounts[k].key)
        BY <1>9
      <4>2. ixs[i].accounts[k].key \in K
        BY <1>8, <4>1
      <4> QED BY <1>4, <4>1, <4>2
    <3> QED BY <3>1, <3>2
  <2>6. /\ m.num_required_signatures \in Nat
        /\ m.num_required_signatures - m.num_readonly_signed_accounts \in Nat
        /\ WritableNonSigners(m) \in Nat
    BY <1>1, <1>6, <2>1
  <2>7. /\ Len(list) \in Nat
        /\ DOMAIN list = 1..Len(list)
        /\ \A i \in 1..Len(list) : IsCompiled(list[i])
        /\ \A i \in 1..Len(list) :
               LET ix == list[i] IN
               /\ ix.program_id_index < Len(keys)
               /\ \A k \in 1..Len(ix.accounts) : ix.accounts[k] < Len(keys)
    BY <1>3, <1>7, <2>4, <2>5
  <2> QED BY <2>2, <2>3, <2>6, <2>7, Zenon DEF IsMessage, keys, list
<1>11. ASSUME NEW i \in 1..n
       PROVE  LET back == ReadBack(m, list[i]) IN
              /\ back.program = ixs[i].program
              /\ back.data = ixs[i].data
              /\ back.accounts = [k \in DOMAIN ixs[i].accounts |->
                                      Granted(ixs[i].accounts[k].key, vault, W)]
  <2> DEFINE ix == list[i]
             f == [k \in 1..Len(ix.accounts) |-> MetaAt(m, ix.accounts[k])]
             g == [k \in DOMAIN ixs[i].accounts |-> Granted(ixs[i].accounts[k].key, vault, W)]
             x == keys[ix.program_id_index + 1]
             d == ix.data
  <2>1. ReadBack(m, ix) = [program |-> x, accounts |-> f, data |-> d]
    BY Zenon DEF ReadBack, keys
  <2>2. x = ixs[i].program /\ d = ixs[i].data
    BY <1>4, <1>8, <1>9
  <2>3. \A k \in 1..Len(ixs[i].accounts) :
            MetaAt(m, ix.accounts[k]) = Granted(ixs[i].accounts[k].key, vault, W)
    BY <1>4, <1>8, <1>9
  <2>4. DOMAIN ixs[i].accounts = 1..Len(ixs[i].accounts) /\ Len(ix.accounts) = Len(ixs[i].accounts)
    BY <1>8, <1>9
  <2>5. f = g
    BY <2>3, <2>4, Zenon
  <2> HIDE DEF ix, f, g, x, d
  <2>6. LET back == ReadBack(m, ix) IN
        back.program = x /\ back.data = d /\ back.accounts = f
    BY <2>1
  <2> QED BY <2>2, <2>5, <2>6, Zenon DEF g, ix
<1> QED BY <1>7, <1>10, <1>11 DEF m, n, list, W
-----------------------------------------------------------------------------
(* The instructions that the commands build are well formed. *)
IsBody(ix) ==
    /\ ix.data \in Seq(Nat)
    /\ Len(ix.accounts) \in Nat
    /\ DOMAIN ix.accounts = 1..Len(ix.accounts)
    /\ \A k \in 1..Len(ix.accounts) : ix.accounts[k].key \in Key

LEMMA BodyOf ==
    ASSUME NEW ix, ix.data \in Seq(Nat), NEW S, ix.accounts \in Seq(S), \A m \in S : m.key \in Key
    PROVE  IsBody(ix)
<1>1. /\ Len(ix.accounts) \in Nat /\ DOMAIN ix.accounts = 1..Len(ix.accounts)
      /\ \A k \in 1..Len(ix.accounts) : ix.accounts[k] \in S
  OBVIOUS
<1>2. \A k \in 1..Len(ix.accounts) : ix.accounts[k].key \in Key
  BY <1>1
<1> QED BY <1>1, <1>2, Zenon DEF IsBody

LEMMA KeyBytes ==
    ASSUME NEW key \in Key
    PROVE  key \in Seq(Nat)
<1>1. KeyWidth \in Nat /\ Byte \in Nat
  BY BytesAssumption
<1> QED BY <1>1 DEF Key

LEMMA SystemKey == SystemProgram \in Key
BY BytesAssumption DEF SystemProgram, Key

LEMMA InitializeBody ==
    ASSUME NEW b, b.payer \in Key, b.state_pda \in Key, b.native_sol_buffer \in Key,
           b.manager \in Key, b.solver_authority \in Key, b.reclaim_authority \in Key,
           b.settlement_owned_order_authority \in Key
    PROVE  IsBody(BuildInitialize(b))
<1> DEFINE w == New(b.payer, TRUE)
           x == New(b.state_pda, FALSE)
           y == New(b.native_sol_buffer, FALSE)
           z == NewReadonly(SystemProgram, FALSE)
           ix == BuildInitialize(b)
           p == b.manager
           q == b.solver_authority
           r == b.reclaim_authority
           s == b.settlement_owned_order_authority
<1>1. ix.accounts = <<w, x, y, z>> /\ ix.data = <<3>> \o p \o q \o r \o s
  BY DEF BuildInitialize
<1>2. \A m \in {w, x, y, z} : m.key \in Key
  <2>1. w.key \in Key /\ x.key \in Key /\ y.key \in Key
    BY MetaFields
  <2>2. z.key \in Key
    BY MetaFields, SystemKey
  <2> HIDE DEF w, x, y, z
  <2> QED BY <2>1, <2>2
<1>3. p \in Seq(Nat) /\ q \in Seq(Nat) /\ r \in Seq(Nat) /\ s \in Seq(Nat)
  BY KeyBytes
<1> HIDE DEF w, x, y, z, ix, p, q, r, s
<1>4. ix.data \in Seq(Nat)
  <2> DEFINE a1 == <<3>>
             a2 == a1 \o p
             a3 == a2 \o q
             a4 == a3 \o r
             a5 == a4 \o s
  <2>1. a1 \in Seq(Nat) /\ ix.data = a5
    BY <1>1
  <2> HIDE DEF a1
  <2>2. a2 \in Seq(Nat)
    BY <1>3, <2>1, ConcatProperties
  <2> HIDE DEF a2
  <2>3. a3 \in Seq(Nat)
    BY <1>3, <2>2, ConcatProperties
  <2> HIDE DEF a3
  <2>4. a4 \in Seq(Nat)
    BY <1>3, <2>3, ConcatProperties
  <2> HIDE DEF a4
  <2>5. a5 \in Seq(Nat)
    BY <1>3, <2>4, ConcatProperties
  <2> QED BY <2>1, <2>5
<1>5. ix.accounts \in Seq({w, x, y, z})
  BY <1>1
<1>6. IsBody(ix)
  BY <1>2, <1>4, <1>5, BodyOf
<1> QED BY <1>6 DEF ix

LEMMA AddSolverBody ==
    ASSUME NEW b, b.authority \in Key, b.payer \in Key, b.state_pda \in Key, b.solver \in Key
    PROVE  IsBody(BuildAddSolver(b))
<1> DEFINE w == NewReadonly(b.authority, TRUE)
           x == New(b.payer, TRUE)
           y == New(b.state_pda, FALSE)
           z == NewReadonly(SystemProgram, FALSE)
           ix == BuildAddSolver(b)
           p == b.solver
<1>1. ix.accounts = <<w, x, y, z>> /\ ix.data = <<8>> \o p
  BY DEF BuildAddSolver
<1>2. \A m \in {w, x, y, z} : m.key \in Key
  <2>1. w.key \in Key /\ x.key \in Key /\ y.key \in Key
    BY MetaFields
  <2>2. z.key \in Key
    BY MetaFields, SystemKey
  <2> HIDE DEF w, x, y, z
  <2> QED BY <2>1, <2>2
<1>3. p \in Seq(Nat)
  BY KeyBytes
<1> HIDE DEF w, x, y, z, ix, p
<1>4. ix.data \in Seq(Nat)
  BY <1>1, <1>3, ConcatProperties
<1>5. ix.accounts \in Seq({w, x, y, z})
  BY <1>1
<1>6. IsBody(ix)
  BY <1>2, <1>4, <1>5, BodyOf
<1> QED BY <1>6 DEF ix

LEMMA RemoveSolverBody ==
    ASSUME NEW b, b.authority \in Key, b.rent_recipient \in Key, b.state_pda \in Key,
           b.solver \in Key
    PROVE  IsBody(BuildRemoveSolver(b))
<1> DEFINE w == NewReadonly(b.authority, TRUE)
           x == New(b.rent_recipient, FALSE)
           y == New(b.state_pda, FALSE)
           ix == BuildRemoveSolver(b)
           p == b.solver
<1>1. ix.accounts = <<w, x, y>> /\ ix.data = <<9>> \o p
  BY DEF BuildRemoveSolver
<1>2. \A m \in {w, x, y} : m.key \in Key
  <2>1. w.key \in Key /\ x.key \in Key /\ y.key \in Key
    BY MetaFields
  <2> HIDE DEF w, x, y
  <2> QED BY <2>1
<1>3. p \in Seq(Nat)
  BY KeyBytes
<1> HIDE DEF w, x, y, ix, p
<1>4. ix.data \in Seq(Nat)
  BY <1>1, <1>3, ConcatProperties
<1>5. ix.accounts \in Seq({w, x, y})
  BY <1>1
<1>6. IsBody(ix)
  BY <1>2, <1>4, <1>5, BodyOf
<1> QED BY <1>6 DEF ix

LEMMA TransferAuthorityBody ==
    ASSUME NEW b, b.signer \in Key, b.state_pda \in Key, b.role \in Nat, b.new_authority \in Key
    PROVE  IsBody(BuildTransferAuthority(b))
<1> DEFINE w == NewReadonly(b.signer, TRUE)
           x == New(b.state_pda, FALSE)
           ix == BuildTransferAuthority(b)
           p == b.new_authority
<1>1. ix.accounts = <<w, x>> /\ ix.data = <<7, b.role>> \o p
  BY DEF BuildTransferAuthority
<1>2. \A m \in {w, x} : m.key \in Key
  <2>1. w.key \in Key /\ x.key \in Key
    BY MetaFields
  <2> HIDE DEF w, x
  <2> QED BY <2>1
<1>3. p \in Seq(Nat) /\ <<7, b.role>> \in Seq(Nat)
  BY KeyBytes
<1> HIDE DEF w, x, ix, p
<1>4. ix.data \in Seq(Nat)
  BY <1>1, <1>3, ConcatProperties
<1>5. ix.accounts \in Seq({w, x})
  BY <1>1
<1>6. IsBody(ix)
  BY <1>2, <1>4, <1>5, BodyOf
<1> QED BY <1>6 DEF ix

LEMMA CreateBuffersBody ==
    ASSUME NEW b, NEW n \in Nat, Len(b.buffers) = n, b.payer \in Key, b.token_program \in Key,
           \A k \in 1..n : b.buffers[k].buffer_pda \in Key /\ b.buffers[k].mint \in Key
    PROVE  IsBody(BuildCreateBuffers(b))
<1> DEFINE written(k) == New(b.buffers[k].buffer_pda, FALSE)
           read(k) == NewReadonly(b.buffers[k].mint, FALSE)
           S == {written(k) : k \in 1..n} \cup {read(k) : k \in 1..n}
           q == [k \in 1..n |-> <<written(k), read(k)>>]
           x == New(b.payer, TRUE)
           y == NewReadonly(SystemProgram, FALSE)
           z == NewReadonly(b.token_program, FALSE)
           head == <<x, y, z>>
           ix == BuildCreateBuffers(b)
<1>1. ix.accounts = head \o FlattenSeq(q) /\ ix.data = <<4>>
  BY DEF BuildCreateBuffers
<1>2. \A m \in S : m.key \in Key
  <2>1. \A k \in 1..n : written(k).key \in Key /\ read(k).key \in Key
    BY MetaFields, Zenon
  <2> HIDE DEF written, read
  <2> QED BY <2>1
<1>3. q \in [1..n -> Seq(S)]
  <2> HIDE DEF written, read
  <2>1. ASSUME NEW k \in 1..n
        PROVE  <<written(k), read(k)>> \in Seq(S)
    <3>1. written(k) \in S /\ read(k) \in S
      BY Zenon
    <3> HIDE DEF S
    <3> QED BY <3>1
  <2> HIDE DEF S
  <2> QED BY <2>1, Zenon
<1>4. \A m \in {x, y, z} : m.key \in Key
  <2>1. x.key \in Key /\ z.key \in Key
    BY MetaFields
  <2>2. y.key \in Key
    BY MetaFields, SystemKey
  <2> HIDE DEF x, y, z
  <2> QED BY <2>1, <2>2
<1> HIDE DEF S, q, ix, x, y, z
<1> DEFINE T == {x, y, z} \cup S
<1>5. ix.accounts \in Seq(T)
  <2>1. FlattenSeq(q) \in Seq(S)
    BY <1>3, FlattenType
  <2>2. FlattenSeq(q) \in Seq(T)
    BY <2>1, SeqMonotonic
  <2>3. head \in Seq(T)
    OBVIOUS
  <2> HIDE DEF T, head
  <2> QED BY <1>1, <2>2, <2>3, ConcatProperties
<1>6. \A m \in T : m.key \in Key
  BY <1>2, <1>4
<1>7. ix.data \in Seq(Nat)
  BY <1>1
<1> HIDE DEF T
<1>8. IsBody(ix)
  BY <1>5, <1>6, <1>7, BodyOf
<1> QED BY <1>8 DEF ix

LEMMA JoinedOther ==
    ASSUME NEW c, NEW d, NEW f, f \notin DOMAIN c, f \in DOMAIN d
    PROVE  Joined(c, d)[f] = d[f]
BY DEF Joined

LEMMA JoinedDomain ==
    ASSUME NEW c, NEW d
    PROVE  DOMAIN Joined(c, d) = DOMAIN c \cup DOMAIN d
BY DEF Joined

LEMMA StateField ==
    ASSUME NEW c, "state_pda" \notin DOMAIN c
    PROVE  /\ WithState(c)["state_pda"] = StatePda
           /\ DOMAIN WithState(c) = DOMAIN c \cup {"state_pda"}
           /\ \A f \in DOMAIN c : WithState(c)[f] = c[f]
<1> DEFINE d == [state_pda |-> StatePda]
<1>1. DOMAIN d = {"state_pda"} /\ d["state_pda"] = StatePda
  OBVIOUS
<1>2. WithState(c) = Joined(c, d)
  BY Zenon DEF WithState
<1> HIDE DEF d
<1> QED BY <1>1, <1>2, JoinedOther, JoinedDomain, JoinedField

LEMMA NativeBufferField ==
    ASSUME NEW c, "state_pda" \notin DOMAIN c, "native_sol_buffer" \notin DOMAIN c
    PROVE  /\ WithNativeBuffer(c)["native_sol_buffer"] = NativeBuffer
           /\ WithNativeBuffer(c)["state_pda"] = StatePda
           /\ \A f \in DOMAIN c : WithNativeBuffer(c)[f] = c[f]
<1> DEFINE d == [native_sol_buffer |-> NativeBuffer]
           e == WithState(c)
<1>1. DOMAIN d = {"native_sol_buffer"} /\ d["native_sol_buffer"] = NativeBuffer
  OBVIOUS
<1>2. WithNativeBuffer(c) = Joined(e, d)
  BY Zenon DEF WithNativeBuffer
<1>3. /\ e["state_pda"] = StatePda
      /\ DOMAIN e = DOMAIN c \cup {"state_pda"}
      /\ \A f \in DOMAIN c : e[f] = c[f]
  BY StateField
<1> HIDE DEF d, e
<1>4. "native_sol_buffer" \notin DOMAIN e
  BY <1>3
<1> QED BY <1>1, <1>2, <1>3, <1>4, JoinedOther, JoinedField

LEMMA ProgramKeys == StatePda \in Key /\ NativeBuffer \in Key /\ SettlementProgram \in Key
BY SubmissionAssumption

LEMMA ClientInitializeBody ==
    ASSUME NEW c,
           DOMAIN c = {"payer", "manager", "solver_authority", "reclaim_authority",
                       "settlement_owned_order_authority"},
           \A f \in DOMAIN c : c[f] \in Key
    PROVE  IsBody(ClientInitialize(c))
<1> DEFINE b == WithNativeBuffer(c)
<1>1. "state_pda" \notin DOMAIN c /\ "native_sol_buffer" \notin DOMAIN c
  OBVIOUS
<1>2. /\ b["native_sol_buffer"] = NativeBuffer /\ b["state_pda"] = StatePda
      /\ \A f \in DOMAIN c : b[f] = c[f]
  BY <1>1, NativeBufferField
<1> HIDE DEF b
<1>3. /\ b.payer \in Key /\ b.state_pda \in Key /\ b.native_sol_buffer \in Key
      /\ b.manager \in Key /\ b.solver_authority \in Key /\ b.reclaim_authority \in Key
      /\ b.settlement_owned_order_authority \in Key
  BY <1>2, ProgramKeys
<1>4. IsBody(BuildInitialize(b))
  BY <1>3, InitializeBody
<1> QED BY <1>4, Zenon DEF ClientInitialize, b

LEMMA ClientAddSolverBody ==
    ASSUME NEW c, DOMAIN c = {"authority", "payer", "solver"}, \A f \in DOMAIN c : c[f] \in Key
    PROVE  IsBody(ClientAddSolver(c))
<1> DEFINE b == WithState(c)
<1>1. "state_pda" \notin DOMAIN c
  OBVIOUS
<1>2. b["state_pda"] = StatePda /\ \A f \in DOMAIN c : b[f] = c[f]
  BY <1>1, StateField
<1> HIDE DEF b
<1>3. b.authority \in Key /\ b.payer \in Key /\ b.state_pda \in Key /\ b.solver \in Key
  BY <1>2, ProgramKeys
<1>4. IsBody(BuildAddSolver(b))
  BY <1>3, AddSolverBody
<1> QED BY <1>4, Zenon DEF ClientAddSolver, b

LEMMA ClientRemoveSolverBody ==
    ASSUME NEW c, DOMAIN c = {"authority", "rent_recipient", "solver"},
           \A f \in DOMAIN c : c[f] \in Key
    PROVE  IsBody(ClientRemoveSolver(c))
<1> DEFINE b == WithState(c)
<1>1. "state_pda" \notin DOMAIN c
  OBVIOUS
<1>2. b["state_pda"] = StatePda /\ \A f \in DOMAIN c : b[f] = c[f]
  BY <1>1, StateField
<1> HIDE DEF b
<1>3. b.authority \in Key /\ b.rent_recipient \in Key /\ b.state_pda \in Key /\ b.solver \in Key
  BY <1>2, ProgramKeys
<1>4. IsBody(BuildRemoveSolver(b))
  BY <1>3, RemoveSolverBody
<1> QED BY <1>4, Zenon DEF ClientRemoveSolver, b

LEMMA ClientTransferAuthorityBody ==
    ASSUME NEW c, DOMAIN c = {"signer", "role", "new_authority"},
           c["signer"] \in Key, c["role"] \in Nat, c["new_authority"] \in Key
    PROVE  IsBody(ClientTransferAuthority(c))
<1> DEFINE b == WithState(c)
<1>1. "state_pda" \notin DOMAIN c
  OBVIOUS
<1>2. b["state_pda"] = StatePda /\ \A f \in DOMAIN c : b[f] = c[f]
  BY <1>1, StateField
<1> HIDE DEF b
<1>3. b.signer \in Key /\ b.role \in Nat /\ b.state_pda \in Key /\ b.new_authority \in Key
  BY <1>2, ProgramKeys
<1>4. IsBody(BuildTransferAuthority(b))
  BY <1>3, TransferAuthorityBody
<1> QED BY <1>4, Zenon DEF ClientTransferAuthority, b

LEMMA ClientCreateBuffersBody ==
    ASSUME NEW c, DOMAIN c = {"payer", "token_program", "mints"},
           c["payer"] \in Key, c["token_program"] \in Key,
           NEW n \in Nat, NEW q \in [1..n -> DOMAIN Buffer],
           c["mints"] = [k \in 1..n |-> [mint |-> q[k]]]
    PROVE  IsBody(ClientCreateBuffers(c))
<1> DEFINE b == WithBuffers(c)
           one(k) == [mint |-> q[k]]
           entry(k) == Joined(one(k), [buffer_pda |-> Buffer[q[k]]])
           all == [k \in 1..n |-> entry(k)]
           d == [buffers |-> all]
<1>1. ASSUME NEW k \in 1..n
      PROVE  entry(k).mint \in Key /\ entry(k).buffer_pda \in Key
  <2> DEFINE e == [buffer_pda |-> Buffer[q[k]]]
  <2>1. DOMAIN one(k) = {"mint"} /\ one(k)["mint"] = q[k] /\ DOMAIN e = {"buffer_pda"}
        /\ e["buffer_pda"] = Buffer[q[k]]
    OBVIOUS
  <2>2. entry(k) = Joined(one(k), e)
    OBVIOUS
  <2>3. q[k] \in Key /\ Buffer[q[k]] \in Key
    BY SubmissionAssumption
  <2> HIDE DEF e, one, entry
  <2>4. entry(k)["mint"] = q[k] /\ entry(k)["buffer_pda"] = Buffer[q[k]]
    BY <2>1, <2>2, JoinedField, JoinedOther
  <2> QED BY <2>3, <2>4
<1>2. b = Joined(c, d)
  <2> DEFINE given == [k \in 1..n |-> one(k)]
  <2>1. c.mints = given
    OBVIOUS
  <2>2. Len(given) = n /\ \A k \in 1..n : given[k] = one(k) /\ given[k].mint = q[k]
    <3>1. \A k \in 1..n : given[k] = one(k) /\ one(k).mint = q[k]
      OBVIOUS
    <3>2. Len(given) = n
      <4> HIDE DEF one
      <4>1. given \in [1..n -> {one(k) : k \in 1..n}]
        OBVIOUS
      <4> QED BY <4>1, LenIs
    <3> QED BY <3>1, <3>2
  <2> HIDE DEF given, one
  <2>3. [k \in 1..Len(given) |-> Joined(given[k], [buffer_pda |-> Buffer[given[k].mint]])] = all
    BY <2>2
  <2>4. b = Joined(c, [buffers |-> [k \in 1..Len(c.mints) |->
                    Joined(c.mints[k], [buffer_pda |-> Buffer[c.mints[k].mint]])]])
    BY Zenon DEF WithBuffers
  <2> HIDE DEF all
  <2> QED BY <2>1, <2>3, <2>4, Zenon
<1> HIDE DEF entry
<1>3. Len(all) = n /\ \A k \in 1..n : all[k] = entry(k)
  OBVIOUS
<1> HIDE DEF all
<1>4. "buffers" \in DOMAIN d /\ d["buffers"] = all
  OBVIOUS
<1> HIDE DEF b, d
<1>5. b["payer"] = c["payer"] /\ b["token_program"] = c["token_program"] /\ b["buffers"] = all
  BY <1>2, <1>4, JoinedField, JoinedOther
<1>6. /\ b.payer \in Key /\ b.token_program \in Key /\ Len(b.buffers) = n
      /\ \A k \in 1..n : b.buffers[k].buffer_pda \in Key /\ b.buffers[k].mint \in Key
  BY <1>1, <1>3, <1>5
<1>7. IsBody(BuildCreateBuffers(b))
  BY <1>6, CreateBuffersBody
<1> QED BY <1>7, Zenon DEF ClientCreateBuffers, b

LEMMA PayerKey ==
    ASSUME NEW r \in Requests
    PROVE  Payer(r) \in Key
BY SubmissionAssumption DEF Payer

LEMMA OrKey ==
    ASSUME NEW arg \in OptionalKey, NEW default \in Key
    PROVE  Or(arg, default) \in Key
BY DEF Or, OptionalKey

LEMMA SignerKey ==
    ASSUME NEW r \in Requests, NEW path \in OptionalKey
    PROVE  SignerOr(r, path) \in Key
<1>1. r.keypair \in Key /\ (r.squads => Vault[r.vault_index] \in Key)
  BY SubmissionAssumption
<1>2. Or(path, r.keypair) \in Key
  BY <1>1, OrKey
<1> QED BY <1>1, <1>2 DEF SignerOr

LEMMA RangeIn ==
    ASSUME NEW S, NEW q \in Seq(S)
    PROVE  Range(q) \subseteq S
<1>1. \A i \in DOMAIN q : q[i] \in S
  OBVIOUS
<1> QED BY <1>1, Zenon DEF Range

LEMMA BuffersBody ==
    ASSUME NEW r \in Requests, r.command = "buffer create", Ready(r),
           NEW k \in DOMAIN RunBufferCreate(r)
    PROVE  IsBody(RunBufferCreate(r)[k])
<1> DEFINE missing == {m \in Range(r.mints) : Buffer[m] \notin existing}
           mintsOf(program) == SetToSeq({m \in missing : TokenProgramOf[m] = program})
           P == {TokenProgramOf[m] : m \in missing}
           programs == SetToSeq(P)
           T == {m \in missing : TokenProgramOf[m] = programs[k]}
           q == SetToSeq(T)
           n == Cardinality(T)
           mints == [j \in DOMAIN mintsOf(programs[k]) |-> [mint |-> mintsOf(programs[k])[j]]]
           c == [payer |-> Payer(r), token_program |-> programs[k], mints |-> mints]
<1>1. RunBufferCreate(r) = [i \in DOMAIN programs |->
            ClientCreateBuffers(
                [payer |-> Payer(r), token_program |-> programs[i],
                 mints |-> [j \in DOMAIN mintsOf(programs[i]) |->
                               [mint |-> mintsOf(programs[i])[j]]]])]
  BY Zenon DEF RunBufferCreate
<1>2. RunBufferCreate(r)[k] = ClientCreateBuffers(c) /\ k \in DOMAIN programs
  BY <1>1
<1>3. r.mints \in Seq(DOMAIN Buffer)
  BY SubmissionAssumption
<1>4. IsFiniteSet(missing) /\ missing \subseteq DOMAIN Buffer
  <2>1. IsFiniteSet(Range(r.mints))
    BY <1>3, RangeFinite, Zenon
  <2>2. IsFiniteSet(missing)
    BY <2>1, FS_Subset
  <2>3. Range(r.mints) \subseteq DOMAIN Buffer
    BY <1>3, RangeIn, Zenon
  <2> QED BY <2>2, <2>3
<1>5. \A m \in missing : m \in DOMAIN TokenProgramOf
  <2>1. \A i \in DOMAIN r.mints : r.mints[i] \in DOMAIN TokenProgramOf \/ Buffer[r.mints[i]] \in existing
    BY DEF Ready
  <2> QED BY <2>1, Zenon DEF Range
<1> HIDE DEF missing
<1>6. P \subseteq Key /\ IsFiniteSet(P)
  <2>1. P \subseteq Key
    <3>1. \A m \in DOMAIN TokenProgramOf : TokenProgramOf[m] \in Key
      BY SubmissionAssumption
    <3> QED BY <1>5, <3>1
  <2>2. IsFiniteSet(P)
    BY <1>4, ImageFinite
  <2> QED BY <2>1, <2>2
<1>7. programs[k] \in Key
  <2>1. Lists(programs, P, Cardinality(P))
    BY <1>6, SetToSeqLists
  <2> HIDE DEF P, programs
  <2>2. programs \in [1..Cardinality(P) -> P]
    BY <2>1 DEF Lists
  <2> QED BY <1>2, <1>6, <2>2
<1> HIDE DEF P, programs
<1>8. T \subseteq DOMAIN Buffer /\ IsFiniteSet(T)
  BY <1>4, FS_Subset
<1>9. mintsOf(programs[k]) = q
  OBVIOUS
<1> HIDE DEF T
<1>10. n \in Nat /\ q \in [1..n -> DOMAIN Buffer]
  <2>1. Lists(q, T, n)
    BY <1>8, SetToSeqLists
  <2>2. n \in Nat
    BY <1>8, FS_CardinalityType
  <2> HIDE DEF n, q
  <2> QED BY <1>8, <2>1, <2>2 DEF Lists
<1> HIDE DEF q, n
<1>11. mints = [j \in 1..n |-> [mint |-> q[j]]]
  BY <1>9, <1>10
<1>12. Payer(r) \in Key
  BY PayerKey
<1> HIDE DEF mints
<1>13. /\ DOMAIN c = {"payer", "token_program", "mints"}
       /\ c["payer"] = Payer(r) /\ c["token_program"] = programs[k] /\ c["mints"] = mints
  OBVIOUS
<1> HIDE DEF c
<1>14. IsBody(ClientCreateBuffers(c))
  BY <1>7, <1>10, <1>11, <1>12, <1>13, ClientCreateBuffersBody
<1> QED BY <1>2, <1>14

LEMMA RequestBodies ==
    ASSUME NEW r \in Requests, Ready(r)
    PROVE  \E ixs : Wraps(Run(r), ixs) /\ \A k \in DOMAIN ixs : IsBody(ixs[k])
<1>1. Payer(r) \in Key
  BY PayerKey
<1>2. CASE r.command = "initialize"
  <2> DEFINE c == [payer |-> Payer(r),
                   manager |-> Or(r.manager, Payer(r)),
                   solver_authority |-> Or(r.solver_authority, Payer(r)),
                   reclaim_authority |-> Or(r.reclaim_authority, Payer(r)),
                   settlement_owned_order_authority |-> Or(r.order_authority, Payer(r))]
  <2>1. RunInitialize(r) = <<ClientInitialize(c)>>
    BY Zenon DEF RunInitialize
  <2>2. {r.manager, r.solver_authority, r.reclaim_authority, r.order_authority} \subseteq OptionalKey
    BY <1>2, SubmissionAssumption
  <2>3. /\ Or(r.manager, Payer(r)) \in Key /\ Or(r.solver_authority, Payer(r)) \in Key
        /\ Or(r.reclaim_authority, Payer(r)) \in Key /\ Or(r.order_authority, Payer(r)) \in Key
    BY <1>1, <2>2, OrKey
  <2>4. /\ DOMAIN c = {"payer", "manager", "solver_authority", "reclaim_authority",
                       "settlement_owned_order_authority"}
        /\ c["payer"] \in Key /\ c["manager"] \in Key /\ c["solver_authority"] \in Key
        /\ c["reclaim_authority"] \in Key /\ c["settlement_owned_order_authority"] \in Key
    BY <1>1, <2>3
  <2> HIDE DEF c
  <2>5. \A f \in DOMAIN c : c[f] \in Key
    BY <2>4
  <2>6. IsBody(ClientInitialize(c))
    BY <2>4, <2>5, ClientInitializeBody
  <2>7. \A k \in DOMAIN RunInitialize(r) : IsBody(RunInitialize(r)[k])
    BY <2>1, <2>6
  <2> QED BY <1>2, <2>7, RunWraps
<1>3. CASE r.command = "solver add"
  <2> DEFINE signer == SignerOr(r, r.signer)
             c == [authority |-> signer, payer |-> Payer(r), solver |-> r.solver]
  <2>1. RunSolverAdd(r) = <<ClientAddSolver(c)>>
    BY Zenon DEF RunSolverAdd
  <2>2. r.signer \in OptionalKey /\ r.solver \in Key
    BY <1>3, SubmissionAssumption
  <2>3. signer \in Key
    BY <2>2, SignerKey
  <2> HIDE DEF signer
  <2>4. /\ DOMAIN c = {"authority", "payer", "solver"}
        /\ c["authority"] \in Key /\ c["payer"] \in Key /\ c["solver"] \in Key
    BY <1>1, <2>2, <2>3
  <2> HIDE DEF c
  <2>5. IsBody(ClientAddSolver(c))
    BY <2>4, ClientAddSolverBody
  <2>6. \A k \in DOMAIN RunSolverAdd(r) : IsBody(RunSolverAdd(r)[k])
    BY <2>1, <2>5
  <2> QED BY <1>3, <2>6, RunWraps
<1>4. CASE r.command = "solver remove"
  <2> DEFINE signer == SignerOr(r, r.signer)
             to == Or(r.rent_recipient, Payer(r))
             c == [authority |-> signer, rent_recipient |-> to, solver |-> r.solver]
  <2>1. RunSolverRemove(r) = <<ClientRemoveSolver(c)>>
    BY Zenon DEF RunSolverRemove
  <2>2. r.signer \in OptionalKey /\ r.rent_recipient \in OptionalKey /\ r.solver \in Key
    BY <1>4, SubmissionAssumption
  <2>3. signer \in Key /\ to \in Key
    BY <1>1, <2>2, SignerKey, OrKey
  <2> HIDE DEF signer, to
  <2>4. /\ DOMAIN c = {"authority", "rent_recipient", "solver"}
        /\ c["authority"] \in Key /\ c["rent_recipient"] \in Key /\ c["solver"] \in Key
    BY <2>2, <2>3
  <2> HIDE DEF c
  <2>5. IsBody(ClientRemoveSolver(c))
    BY <2>4, ClientRemoveSolverBody
  <2>6. \A k \in DOMAIN RunSolverRemove(r) : IsBody(RunSolverRemove(r)[k])
    BY <2>1, <2>5
  <2> QED BY <1>4, <2>6, RunWraps
<1>5. CASE r.command = "authority transfer"
  <2> DEFINE signer == SignerOr(r, r.signer)
             c == [signer |-> signer, role |-> r.role, new_authority |-> r.new_authority]
  <2>1. RunAuthorityTransfer(r) = <<ClientTransferAuthority(c)>>
    BY Zenon DEF RunAuthorityTransfer
  <2>2. r.signer \in OptionalKey /\ r.role \in Nat /\ r.new_authority \in Key
    <3>1. r.signer \in OptionalKey /\ r.role \in 0..3 /\ r.new_authority \in Key
      BY <1>5, SubmissionAssumption
    <3> QED BY <3>1
  <2>3. signer \in Key
    BY <2>2, SignerKey
  <2> HIDE DEF signer
  <2>4. /\ DOMAIN c = {"signer", "role", "new_authority"}
        /\ c["signer"] \in Key /\ c["role"] \in Nat /\ c["new_authority"] \in Key
    BY <2>2, <2>3
  <2> HIDE DEF c
  <2>5. IsBody(ClientTransferAuthority(c))
    BY <2>4, ClientTransferAuthorityBody
  <2>6. \A k \in DOMAIN RunAuthorityTransfer(r) : IsBody(RunAuthorityTransfer(r)[k])
    BY <2>1, <2>5
  <2> QED BY <1>5, <2>6, RunWraps
<1>6. CASE r.command = "buffer create"
  <2>1. \A k \in DOMAIN RunBufferCreate(r) : IsBody(RunBufferCreate(r)[k])
    BY <1>6, BuffersBody
  <2> QED BY <1>6, <2>1, RunWraps
<1>7. r.command \in Names
  BY SubmissionAssumption
<1> QED BY <1>2, <1>3, <1>4, <1>5, <1>6, <1>7 DEF Names

(* What a command is to send is a list of instructions. *)
LEMMA RequestTyped ==
    ASSUME NEW r \in Requests, Ready(r)
    PROVE  AreIxs(Run(r))
<1>1. PICK ixs : Wraps(Run(r), ixs) /\ \A k \in DOMAIN ixs : IsBody(ixs[k])
  BY RequestBodies
<1>2. Len(Run(r)) \in Nat /\ DOMAIN Run(r) = 1..Len(Run(r))
  BY RunShape
<1>3. ASSUME NEW k \in 1..Len(Run(r))
      PROVE  IsIx(Run(r)[k])
  <2>1. /\ Run(r)[k].program = SettlementProgram
        /\ Run(r)[k].accounts = ixs[k].accounts
        /\ Run(r)[k].data = ixs[k].data
        /\ IsBody(ixs[k])
    BY <1>1, <1>2 DEF Wraps
  <2> QED BY <2>1, ProgramKeys, Zenon DEF IsIx, IsBody
<1> QED BY <1>2, <1>3, Zenon DEF AreIxs

-----------------------------------------------------------------------------
(* What a command is about to send is signed by the keypairs it has, and   *)
(* well formed.                                                            *)
UnsentSigned(d) ==
    d.step = "submit" =>
        /\ SignersOf(Metas(d.ixs, Payer(d.request))) = SignersFor(d.request)
        /\ AreIxs(d.ixs)
        /\ Payer(d.request) \in Key
Signed(x) == SignersOf(Metas(x.ixs, x.payer)) = x.signatures

SignaturesInv ==
    /\ \A c \in DOMAIN commands : UnsentSigned(commands[c])
    /\ \A x \in flight : Signed(x)

LEMMA SignaturesInit == Init => SignaturesInv
BY DEF Init, SignaturesInv

(* One command left the step in which it submits. *)
LEMMA SignaturesKept ==
    ASSUME CommandsInv, SignaturesInv, NEW c \in DOMAIN commands, NEW e, e.step # "submit",
           commands' = [commands EXCEPT ![c] = e],
           \A x \in flight' : x \in flight \/ Signed(x)
    PROVE  SignaturesInv'
<1>1. PICK S : commands \in Seq(S)
  BY DEF CommandsInv
<1>2. /\ DOMAIN commands' = DOMAIN commands
      /\ commands'[c] = e
      /\ \A k \in DOMAIN commands : k # c => commands'[k] = commands[k]
  BY <1>1
<1>3. UnsentSigned(e)
  BY DEF UnsentSigned
<1>4. \A k \in DOMAIN commands' : UnsentSigned(commands'[k])
  BY <1>2, <1>3, Zenon DEF SignaturesInv
<1>5. \A x \in flight' : Signed(x)
  BY DEF SignaturesInv
<1> QED BY <1>4, <1>5, Zenon DEF SignaturesInv

LEMMA SignedStart ==
    ASSUME SubmissionInv, SignaturesInv, NEW r \in Requests, Start(r)
    PROVE  SignaturesInv'
<1> DEFINE d == [request |-> r, step |-> "submit", ixs |-> Run(r), proposal |-> <<>>,
                 report |-> NoReport]
<1>1. commands' = Append(commands, d) /\ UNCHANGED flight
  BY Zenon DEF Start
<1>2. d.request = r /\ d.ixs = Run(r)
  OBVIOUS
<1> HIDE DEF d
<1>3. UnsentSigned(d)
  <2>1. AreIxs(Run(r))
    BY RequestTyped DEF Start
  <2>2. Payer(r) \in Key
    BY PayerKey
  <2> QED BY <1>2, <2>1, <2>2, RequestSigned, Zenon DEF UnsentSigned
<1>4. PICK S : commands \in Seq(S)
  BY DEF SubmissionInv, CommandsInv
<1>5. /\ DOMAIN commands' = DOMAIN commands \cup {Len(commands) + 1}
      /\ commands'[Len(commands) + 1] = d
      /\ \A k \in DOMAIN commands : commands'[k] = commands[k]
  <2>1. commands \in Seq(S \cup {d})
    BY <1>4, SeqMonotonic
  <2> QED BY <1>1, <2>1
<1>6. \A k \in DOMAIN commands' : UnsentSigned(commands'[k])
  BY <1>3, <1>5 DEF SignaturesInv
<1>7. \A x \in flight' : Signed(x)
  BY <1>1 DEF SignaturesInv
<1> QED BY <1>6, <1>7, Zenon DEF SignaturesInv

LEMMA SignedDirect ==
    ASSUME SubmissionInv, SignaturesInv, NEW c \in DOMAIN commands, SubmitDirectly(c)
    PROVE  SignaturesInv'
<1> DEFINE d == commands[c]
           e == [d EXCEPT !.step = "wait"]
           x == [command |-> c, payer |-> commands[c].request.keypair,
                 ixs |-> commands[c].ixs, signatures |-> Keypairs(commands[c].request)]
<1>1. /\ d.step = "submit" /\ ~d.request.squads
      /\ flight' = flight \cup {x}
      /\ commands' = [commands EXCEPT ![c] = e]
  BY DEF SubmitDirectly, Send
<1>2. IsCommand(d)
  BY Zenon DEF SubmissionInv, CommandsInv, IsSound
<1>3. x.ixs = d.ixs /\ x.payer = d.request.keypair /\ x.signatures = Keypairs(d.request)
  OBVIOUS
<1>4. UnsentSigned(d)
  BY DEF SignaturesInv
<1> HIDE DEF d, x
<1>5. e.step = "wait"
  BY <1>2, CommandFields
<1> HIDE DEF e
<1>6. Signed(x)
  <2>1. Payer(d.request) = d.request.keypair
    BY <1>1, Zenon DEF Payer
  <2>2. SignersFor(d.request) = Keypairs(d.request)
    BY <2>1, Zenon DEF SignersFor, Keypairs
  <2>3. SignersOf(Metas(d.ixs, d.request.keypair)) = Keypairs(d.request)
    BY <1>1, <1>4, <2>1, <2>2, Zenon DEF UnsentSigned
  <2> QED BY <1>3, <2>3, Zenon DEF Signed
<1>7. e.step # "submit" /\ \A y \in flight' : y \in flight \/ Signed(y)
  BY <1>1, <1>5, <1>6
<1> QED BY <1>1, <1>7, SignaturesKept DEF SubmissionInv

LEMMA SignedProposal ==
    ASSUME SubmissionInv, SignaturesInv, NEW c \in DOMAIN commands, SubmitProposal(c)
    PROVE  SignaturesInv'
<1> DEFINE d == commands[c]
           p == Propose(multisig, d.request.keypair, d.request.vault_index, d.ixs)
           list == <<p>>
           e == Proposing(d, "wait", list)
           x == [command |-> c, payer |-> d.request.keypair,
                 ixs |-> p.instructions, signatures |-> {d.request.keypair}]
<1>1. flight' = flight \cup {x}
  BY DEF SubmitProposal, Send
<1>2. commands' = [commands EXCEPT ![c].step = "wait", ![c].proposal = <<p>>]
  BY DEF SubmitProposal
<1>3. IsCommand(d)
  BY Zenon DEF SubmissionInv, CommandsInv, IsSound
<1>4. /\ x.ixs = p.instructions /\ x.payer = d.request.keypair
      /\ x.signatures = {d.request.keypair}
  OBVIOUS
<1>5. /\ p.transaction_index \in Nat
      /\ p.approved \in BOOLEAN
      /\ p.instructions = Built(p.transaction_index, d.request.keypair,
                                p.instructions[1].vault_index, p.instructions[1].message,
                                p.approved)
  BY ProposeShape DEF SubmissionInv, IndicesInv
<1> HIDE DEF p, x, list
<1>6. commands' = [commands EXCEPT ![c] = e]
  <2>1. PICK S : commands \in Seq(S)
    BY DEF SubmissionInv, CommandsInv
  <2> QED BY <1>2, <2>1 DEF list, Proposing
<1> HIDE DEF d
<1>7. e.step = "wait"
  BY <1>3, ProposalFields
<1> HIDE DEF e
<1>8. Signed(x)
  <2>1. SignersOf(Metas(p.instructions, d.request.keypair)) = {d.request.keypair}
    <3> DEFINE index == p.transaction_index
               member == d.request.keypair
               vault_index == p.instructions[1].vault_index
               message == p.instructions[1].message
               approved == p.approved
    <3>1. SignersOf(Metas(Built(index, member, vault_index, message, approved), member)) = {member}
      <4>1. approved \in BOOLEAN
        BY <1>5
      <4> HIDE DEF index, member, vault_index, message, approved
      <4> QED BY <4>1, BuiltSigned
    <3> QED BY <1>5, <3>1, Zenon
  <2> QED BY <1>4, <2>1, Zenon DEF Signed
<1>9. e.step # "submit" /\ \A y \in flight' : y \in flight \/ Signed(y)
  BY <1>1, <1>7, <1>8
<1> QED BY <1>6, <1>9, SignaturesKept DEF SubmissionInv, d

LEMMA SignedGiveUp ==
    ASSUME SubmissionInv, SignaturesInv, NEW c \in DOMAIN commands, GiveUp(c)
    PROVE  SignaturesInv'
<1> DEFINE d == commands[c]
           e == [d EXCEPT !.step = "done"]
<1>1. commands' = [commands EXCEPT ![c] = e] /\ UNCHANGED flight
  BY DEF GiveUp
<1>2. IsCommand(d)
  BY Zenon DEF SubmissionInv, CommandsInv, IsSound
<1> HIDE DEF d
<1>3. e.step = "done"
  BY <1>2, CommandFields
<1> HIDE DEF e
<1>4. e.step # "submit" /\ \A y \in flight' : y \in flight \/ Signed(y)
  BY <1>1, <1>3
<1> QED BY <1>1, <1>4, SignaturesKept DEF SubmissionInv, d

LEMMA SignedReport ==
    ASSUME SubmissionInv, SignaturesInv, NEW c \in DOMAIN commands, Report(c)
    PROVE  SignaturesInv'
<1> DEFINE d == commands[c]
           report == IF d.proposal = <<>> THEN [kind |-> "sent"]
                     ELSE LET proposal == d.proposal[1] IN
                          [kind |-> "proposed", index |-> ReportedIndex(proposal),
                           approved |-> proposal.approved]
           e == Reporting(d, "done", report)
<1>1. UNCHANGED flight
  BY DEF Report
<1>2. commands' = [commands EXCEPT ![c].step = "done", ![c].report = report]
  BY Zenon DEF Report
<1>3. IsCommand(d)
  BY Zenon DEF SubmissionInv, CommandsInv, IsSound
<1> HIDE DEF report
<1>4. commands' = [commands EXCEPT ![c] = e]
  <2>1. PICK S : commands \in Seq(S)
    BY DEF SubmissionInv, CommandsInv
  <2> QED BY <1>2, <2>1 DEF Reporting
<1> HIDE DEF d
<1>5. e.step = "done"
  BY <1>3, ReportFields
<1> HIDE DEF e
<1>6. e.step # "submit" /\ \A y \in flight' : y \in flight \/ Signed(y)
  BY <1>1, <1>5
<1> QED BY <1>4, <1>6, SignaturesKept DEF SubmissionInv, d

LEMMA SignedHeard ==
    ASSUME SubmissionInv, SignaturesInv, NEW x \in flight, flight' = flight \ {x},
           NEW step, step # "submit", Heard(x, step)
    PROVE  SignaturesInv'
<1> DEFINE c == x.command
           d == commands[c]
           e == [d EXCEPT !.step = step]
<1>1. c \in DOMAIN commands
  BY DEF SubmissionInv, FlightInv
<1>2. \A y \in flight' : y \in flight
  OBVIOUS
<1>3. CASE d.step = "wait"
  <2>1. commands' = [commands EXCEPT ![c] = e]
    BY <1>3 DEF Heard
  <2>2. IsCommand(d)
    BY <1>1, Zenon DEF SubmissionInv, CommandsInv, IsSound
  <2> HIDE DEF d
  <2>3. e.step # "submit"
    BY <2>2, CommandFields
  <2> HIDE DEF e
  <2> QED BY <1>1, <1>2, <2>1, <2>3, SignaturesKept DEF SubmissionInv
<1>4. CASE d.step # "wait"
  <2>1. UNCHANGED commands
    BY <1>4 DEF Heard
  <2> QED BY <1>2, <2>1, Zenon DEF SignaturesInv
<1> QED BY <1>3, <1>4

LEMMA SignaturesNext == SubmissionInv /\ SignaturesInv /\ [Next]_vars => SignaturesInv'
<1> SUFFICES ASSUME SubmissionInv, SignaturesInv, [Next]_vars PROVE SignaturesInv'
  OBVIOUS
<1>1. CASE \E r \in Requests : Start(r)
  BY <1>1, SignedStart
<1>2. ASSUME NEW c \in DOMAIN commands,
             SubmitDirectly(c) \/ SubmitProposal(c) \/ GiveUp(c) \/ Report(c)
      PROVE  SignaturesInv'
  BY <1>2, SignedDirect, SignedProposal, SignedGiveUp, SignedReport
<1>3. ASSUME NEW x \in flight, Land(x) \/ Refuse(x)
      PROVE  SignaturesInv'
  <2>1. flight' = flight \ {x} /\ (Heard(x, "landed") \/ Heard(x, "failed"))
    BY <1>3, Zenon DEF Land, Refuse
  <2> QED BY <2>1, SignedHeard
<1>4. ASSUME UNCHANGED <<commands, flight>>
      PROVE  SignaturesInv'
  BY <1>4, Zenon DEF SignaturesInv
<1>5. CASE \E m \in DOMAIN multisig.members, i \in DOMAIN proposals : Vote(m, i)
  BY <1>4, <1>5 DEF Vote
<1>6. CASE \E i \in DOMAIN proposals : ExecuteProposal(i)
  BY <1>4, <1>6 DEF ExecuteProposal
<1>7. CASE \E m \in DOMAIN multisig.members, p \in Permissions : ChangeMember(m, p)
  BY <1>4, <1>7 DEF ChangeMember
<1>8. CASE UNCHANGED vars
  BY <1>4, <1>8 DEF vars
<1> QED BY <1>1, <1>2, <1>3, <1>5, <1>6, <1>7, <1>8, Zenon DEF Next

(* Context::submit signs with exactly the keypairs that the compiled       *)
(* message asks for, for every command, with and without a co-signer, and  *)
(* for every proposal.                                                     *)
THEOREM SignaturesAreExact == Spec => []SignaturesMatch
<1>1. SignaturesInv => SignaturesMatch
  BY Zenon DEF SignaturesInv, SignaturesMatch, Signed
<1>2. Spec => []SubmissionInv
  BY SubmissionInit, SubmissionNext, PTL DEF Spec
<1> QED BY <1>1, <1>2, SignaturesInit, SignaturesNext, PTL DEF Spec
-----------------------------------------------------------------------------
(* What the multisig holds: the message of ixs, packed, for a vault that   *)
(* alone signs it.                                                         *)
IsPacked(ixs, vault_index, message) ==
    /\ message = TransactionMessage(Message(ixs, Vault[vault_index]))
    /\ MessageFits(Message(ixs, Vault[vault_index]))
    /\ SignersOf(Metas(ixs, Vault[vault_index])) = {Vault[vault_index]}
    /\ AreIxs(ixs)
    /\ Vault[vault_index] \in Key

(* Commands keep what they built. *)
IxsKept ==
    \A c \in DOMAIN commands : c \in DOMAIN commands' /\ commands'[c].ixs = commands[c].ixs

IsPlain(x) == \A k \in 1..Len(x.ixs) : x.ixs[k].program # SquadsProgram
Carries(x, ixs) == IsPlain(x) \/ IsPacked(ixs, x.ixs[1].vault_index, x.ixs[1].message)

IsStaged(stage, list) ==
    /\ stage.command \in DOMAIN list
    /\ IsPacked(list[stage.command].ixs, stage.vault_index, stage.message)

PackedInv ==
    /\ \A x \in flight : Carries(x, commands[x.command].ixs)
    /\ \A i \in DOMAIN staged : IsStaged(staged[i], commands)

LEMMA StagedKept ==
    ASSUME NEW stage, IsStaged(stage, commands), IxsKept
    PROVE  IsStaged(stage, commands')
BY Zenon DEF IsStaged, IxsKept

(* Nothing is staged, and what is sent is packed. *)
LEMMA PackedKept ==
    ASSUME FlightInv, PackedInv, IxsKept,
           UNCHANGED staged \/
             \E index : /\ DOMAIN staged' = DOMAIN staged \cup {index}
                        /\ IsStaged(staged'[index], commands)
                        /\ \A i \in DOMAIN staged : i # index => staged'[i] = staged[i],
           \A x \in flight' : x \in flight \/ Carries(x, commands'[x.command].ixs)
    PROVE  PackedInv'
<1>1. ASSUME NEW x \in flight'
      PROVE  Carries(x, commands'[x.command].ixs)
  <2>1. CASE x \in flight
    <3>1. Carries(x, commands[x.command].ixs) /\ x.command \in DOMAIN commands
      BY <2>1 DEF PackedInv, FlightInv
    <3>2. commands'[x.command].ixs = commands[x.command].ixs
      BY <3>1 DEF IxsKept
    <3> QED BY <3>1, <3>2, Zenon
  <2> QED BY <2>1
<1>2. ASSUME NEW i \in DOMAIN staged'
      PROVE  IsStaged(staged'[i], commands')
  <2>1. IsStaged(staged'[i], commands)
    BY Zenon DEF PackedInv
  <2> QED BY <2>1, StagedKept
<1> QED BY <1>1, <1>2, Zenon DEF PackedInv

LEMMA PackedInit == Init => PackedInv
BY DEF Init, PackedInv

(* One command took a step, and keeps its instructions. *)
LEMMA IxsStay ==
    ASSUME CommandsInv, NEW c \in DOMAIN commands, NEW e, e.ixs = commands[c].ixs,
           commands' = [commands EXCEPT ![c] = e]
    PROVE  IxsKept
<1>1. PICK S : commands \in Seq(S)
  BY DEF CommandsInv
<1>2. /\ DOMAIN commands' = DOMAIN commands
      /\ commands'[c] = e
      /\ \A k \in DOMAIN commands : k # c => commands'[k] = commands[k]
  BY <1>1
<1> QED BY <1>2, Zenon DEF IxsKept

LEMMA PackedStart ==
    ASSUME SubmissionInv, PackedInv, NEW r \in Requests, Start(r)
    PROVE  PackedInv'
<1> DEFINE d == [request |-> r, step |-> "submit", ixs |-> Run(r), proposal |-> <<>>,
                 report |-> NoReport]
<1>1. commands' = Append(commands, d) /\ UNCHANGED flight /\ UNCHANGED <<squads>>
  BY Zenon DEF Start
<1> HIDE DEF d
<1>2. PICK S : commands \in Seq(S)
  BY DEF SubmissionInv, CommandsInv
<1>3. IxsKept
  <2>1. commands \in Seq(S \cup {d})
    BY <1>2, SeqMonotonic
  <2>2. /\ DOMAIN commands' = DOMAIN commands \cup {Len(commands) + 1}
        /\ \A k \in DOMAIN commands : commands'[k] = commands[k]
    BY <1>1, <2>1
  <2> QED BY <2>2, Zenon DEF IxsKept
<1>4. UNCHANGED staged
  BY <1>1 DEF squads
<1> QED BY <1>1, <1>3, <1>4, PackedKept DEF SubmissionInv

LEMMA PackedDirect ==
    ASSUME SubmissionInv, PackedInv, NEW c \in DOMAIN commands, SubmitDirectly(c)
    PROVE  PackedInv'
<1> DEFINE d == commands[c]
           e == [d EXCEPT !.step = "wait"]
           x == [command |-> c, payer |-> commands[c].request.keypair,
                 ixs |-> commands[c].ixs, signatures |-> Keypairs(commands[c].request)]
<1>1. /\ d.step = "submit"
      /\ flight' = flight \cup {x}
      /\ commands' = [commands EXCEPT ![c] = e]
      /\ UNCHANGED <<squads>>
  BY DEF SubmitDirectly, Send
<1>2. IsSound(staged, proposals, c, d)
  BY Zenon DEF SubmissionInv, CommandsInv
<1>3. x.ixs = d.ixs
  OBVIOUS
<1> HIDE DEF d, x
<1>4. IsCommand(d) /\ IsUnsubmitted(d)
  BY <1>1, <1>2, Zenon DEF IsSound
<1>5. e.ixs = d.ixs
  BY <1>4, CommandFields
<1> HIDE DEF e
<1>6. IxsKept
  BY <1>1, <1>5, IxsStay DEF SubmissionInv, d
<1>7. IsPlain(x)
  BY <1>3, <1>4, Zenon DEF IsPlain, IsUnsubmitted
<1>8. \A y \in flight' : y \in flight \/ Carries(y, commands'[y.command].ixs)
  BY <1>1, <1>7, Zenon DEF Carries
<1>9. UNCHANGED staged
  BY <1>1 DEF squads
<1> QED BY <1>6, <1>8, <1>9, PackedKept DEF SubmissionInv

(* The message of a proposal. *)
LEMMA ProposeMessage ==
    ASSUME NEW members, NEW member, NEW vault_index, NEW ixs,
           NEW p, p = Propose(members, member, vault_index, ixs)
    PROVE  /\ p.instructions[1].vault_index = vault_index
           /\ p.instructions[1].message = TransactionMessage(Message(ixs, Vault[vault_index]))
<1> DEFINE index == members.transaction_index + 1
           approved == "vote" \in members.members[member]
           message == TransactionMessage(Message(ixs, Vault[vault_index]))
           built == Built(index, member, vault_index, message, approved)
<1>1. p = [instructions |-> built, transaction_index |-> index, approved |-> approved]
  BY Zenon DEF Propose, Built
<1>2. approved \in BOOLEAN
  OBVIOUS
<1> HIDE DEF index, message, approved, built
<1>3. p.instructions = built
  BY <1>1, ProposeFields, Zenon
<1>4. built[1].vault_index = vault_index /\ built[1].message = message
  <2>1. built[1] = VaultTransactionCreate(index, member, vault_index, message)
    BY <1>2, BuiltParts DEF built
  <2> QED BY <2>1 DEF VaultTransactionCreate
<1> QED BY <1>3, <1>4, Zenon DEF message

LEMMA PackedProposal ==
    ASSUME SubmissionInv, SignaturesInv, PackedInv, NEW c \in DOMAIN commands, SubmitProposal(c)
    PROVE  PackedInv'
<1> DEFINE d == commands[c]
           r == d.request
           p == Propose(multisig, r.keypair, r.vault_index, d.ixs)
           list == <<p>>
           e == Proposing(d, "wait", list)
           x == [command |-> c, payer |-> r.keypair,
                 ixs |-> p.instructions, signatures |-> {r.keypair}]
<1>1. /\ d.step = "submit" /\ r.squads
      /\ CoSigners(r) \subseteq {Vault[r.vault_index]}
      /\ CanPropose(multisig, r.keypair, r.vault_index, d.ixs)
      /\ flight' = flight \cup {x}
      /\ UNCHANGED <<squads>>
  BY DEF SubmitProposal, Send
<1>2. commands' = [commands EXCEPT ![c].step = "wait", ![c].proposal = <<p>>]
  BY DEF SubmitProposal
<1>3. IsCommand(d)
  BY Zenon DEF SubmissionInv, CommandsInv, IsSound
<1>4. x.command = c /\ x.ixs = p.instructions
  OBVIOUS
<1>5. /\ p.instructions[1].vault_index = r.vault_index
      /\ p.instructions[1].message = TransactionMessage(Message(d.ixs, Vault[r.vault_index]))
  BY ProposeMessage
<1>6. UnsentSigned(d)
  BY DEF SignaturesInv
<1> HIDE DEF p, x, list
<1>7. commands' = [commands EXCEPT ![c] = e]
  <2>1. PICK S : commands \in Seq(S)
    BY DEF SubmissionInv, CommandsInv
  <2> QED BY <1>2, <2>1 DEF list, Proposing
<1> HIDE DEF d, r
<1>8. e.ixs = d.ixs
  BY <1>3 DEF IsCommand, Proposing
<1> HIDE DEF e
<1>9. IxsKept
  BY <1>7, <1>8, IxsStay DEF SubmissionInv, d
<1>10. commands'[c].ixs = d.ixs
  BY <1>9 DEF IxsKept, d
<1>11. IsPacked(d.ixs, r.vault_index, p.instructions[1].message)
  <2>1. Payer(r) = Vault[r.vault_index]
    BY <1>1, Zenon DEF Payer
  <2>2. SignersFor(r) = {Vault[r.vault_index]}
    BY <1>1, <2>1, Zenon DEF SignersFor
  <2>3. SignersOf(Metas(d.ixs, Vault[r.vault_index])) = {Vault[r.vault_index]}
    BY <1>1, <1>6, <2>1, <2>2, Zenon DEF UnsentSigned, r
  <2>4. MessageFits(Message(d.ixs, Vault[r.vault_index]))
    BY <1>1, Zenon DEF CanPropose
  <2>5. AreIxs(d.ixs) /\ Vault[r.vault_index] \in Key
    BY <1>1, <1>6, <2>1, Zenon DEF UnsentSigned, r
  <2> QED BY <1>5, <2>3, <2>4, <2>5, Zenon DEF IsPacked
<1>12. Carries(x, commands'[x.command].ixs)
  BY <1>4, <1>5, <1>10, <1>11, Zenon DEF Carries
<1>13. \A y \in flight' : y \in flight \/ Carries(y, commands'[y.command].ixs)
  BY <1>1, <1>12, Zenon
<1>14. UNCHANGED staged
  BY <1>1 DEF squads
<1> QED BY <1>9, <1>13, <1>14, PackedKept DEF SubmissionInv
LEMMA PackedGiveUp ==
    ASSUME SubmissionInv, PackedInv, NEW c \in DOMAIN commands, GiveUp(c)
    PROVE  PackedInv'
<1> DEFINE d == commands[c]
           e == [d EXCEPT !.step = "done"]
<1>1. commands' = [commands EXCEPT ![c] = e] /\ UNCHANGED flight /\ UNCHANGED <<squads>>
  BY DEF GiveUp
<1>2. IsCommand(d)
  BY Zenon DEF SubmissionInv, CommandsInv, IsSound
<1> HIDE DEF d
<1>3. e.ixs = d.ixs
  BY <1>2, CommandFields
<1> HIDE DEF e
<1>4. IxsKept
  BY <1>1, <1>3, IxsStay DEF SubmissionInv, d
<1>5. UNCHANGED staged
  BY <1>1 DEF squads
<1> QED BY <1>1, <1>4, <1>5, PackedKept DEF SubmissionInv

LEMMA PackedReport ==
    ASSUME SubmissionInv, PackedInv, NEW c \in DOMAIN commands, Report(c)
    PROVE  PackedInv'
<1> DEFINE d == commands[c]
           report == IF d.proposal = <<>> THEN [kind |-> "sent"]
                     ELSE LET proposal == d.proposal[1] IN
                          [kind |-> "proposed", index |-> ReportedIndex(proposal),
                           approved |-> proposal.approved]
           e == Reporting(d, "done", report)
<1>1. UNCHANGED flight /\ UNCHANGED <<squads>>
  BY DEF Report
<1>2. commands' = [commands EXCEPT ![c].step = "done", ![c].report = report]
  BY Zenon DEF Report
<1>3. IsCommand(d)
  BY Zenon DEF SubmissionInv, CommandsInv, IsSound
<1> HIDE DEF report
<1>4. commands' = [commands EXCEPT ![c] = e]
  <2>1. PICK S : commands \in Seq(S)
    BY DEF SubmissionInv, CommandsInv
  <2> QED BY <1>2, <2>1 DEF Reporting
<1> HIDE DEF d
<1>5. e.ixs = d.ixs
  BY <1>3 DEF IsCommand, Reporting
<1> HIDE DEF e
<1>6. IxsKept
  BY <1>4, <1>5, IxsStay DEF SubmissionInv, d
<1>7. UNCHANGED staged
  BY <1>1 DEF squads
<1> QED BY <1>1, <1>6, <1>7, PackedKept DEF SubmissionInv

LEMMA HeardKeepsIxs ==
    ASSUME SubmissionInv, NEW x \in flight, NEW step, Heard(x, step)
    PROVE  IxsKept
<1> DEFINE c == x.command
           d == commands[c]
           e == [d EXCEPT !.step = step]
<1>1. c \in DOMAIN commands
  BY DEF SubmissionInv, FlightInv
<1>2. CASE d.step = "wait"
  <2>1. commands' = [commands EXCEPT ![c] = e]
    BY <1>2 DEF Heard
  <2>2. IsCommand(d)
    BY <1>1, Zenon DEF SubmissionInv, CommandsInv, IsSound
  <2> HIDE DEF d
  <2>3. e.ixs = d.ixs
    BY <2>2, CommandFields
  <2> HIDE DEF e
  <2> QED BY <1>1, <2>1, <2>3, IxsStay DEF SubmissionInv, d
<1>3. CASE d.step # "wait"
  <2>1. UNCHANGED commands
    BY <1>3 DEF Heard
  <2> QED BY <2>1, Zenon DEF IxsKept
<1> QED BY <1>2, <1>3

(* What a proposal that lands stages. *)
LEMMA LandedStage ==
    ASSUME IndicesInv, NEW x, NEW d, IsProposed(x, d), Becomes(Execute(x.ixs, x.command))
    PROVE  \E index :
              /\ DOMAIN staged' = DOMAIN staged \cup {index}
              /\ \A i \in DOMAIN staged : i # index => staged'[i] = staged[i]
              /\ staged'[index].command = x.command
              /\ staged'[index].vault_index = x.ixs[1].vault_index
              /\ staged'[index].message = x.ixs[1].message
<1> DEFINE c == x.command
           index == d.proposal[1].transaction_index
           approved == d.proposal[1].approved
           member == d.request.keypair
           vault_index == x.ixs[1].vault_index
           message == x.ixs[1].message
           t == Execute(x.ixs, c)
           stage == Stage(index, member, vault_index, message, c)
<1>1. /\ index \in Nat
      /\ approved \in BOOLEAN
      /\ x.ixs = Built(index, member, vault_index, message, approved)
  BY Zenon DEF IsProposed
<1>2. t = Execute(Built(index, member, vault_index, message, approved), c)
  BY <1>1, Zenon
<1>3. Succeeds(t) /\ staged' = t.staged
  BY Zenon DEF Becomes
<1>4. /\ IsMultisig(multisig)
      /\ DOMAIN proposals \subseteq 1..multisig.transaction_index
  BY DEF IndicesInv
<1>5. stage.command = c /\ stage.vault_index = vault_index /\ stage.message = message
  BY DEF Stage
<1> HIDE DEF index, approved, member, vault_index, message, t, c
<1>6. /\ index = multisig.transaction_index + 1
      /\ t.multisig = [multisig EXCEPT !.transaction_index = index]
      /\ t.staged = With(staged, index, stage)
      /\ DOMAIN t.proposals = DOMAIN proposals \cup {index}
      /\ \A i \in DOMAIN proposals : t.proposals[i] = proposals[i] /\ i # index
      /\ IsProposal(t.proposals[index])
      /\ t.proposals[index].approved \subseteq {member}
      /\ approved => member \in t.proposals[index].approved
  BY <1>1, <1>2, <1>3, <1>4, ProposalLands
<1> HIDE DEF stage
<1>7. /\ DOMAIN staged' = DOMAIN staged \cup {index}
      /\ staged'[index] = stage
      /\ \A i \in DOMAIN staged : i # index => staged'[i] = staged[i]
  BY <1>3, <1>6 DEF With
<1> QED BY <1>5, <1>7, Zenon DEF c, vault_index, message

LEMMA PackedLand ==
    ASSUME SubmissionInv, PackedInv, NEW x \in flight, Land(x)
    PROVE  PackedInv'
<1> DEFINE d == commands[x.command]
<1>1. Becomes(Execute(x.ixs, x.command)) /\ flight' = flight \ {x} /\ Heard(x, "landed")
  BY DEF Land
<1>2. x.command \in DOMAIN commands /\ (IsDirect(x, d) \/ IsProposed(x, d))
  BY DEF SubmissionInv, FlightInv, IsSent
<1>3. IxsKept
  BY <1>1, HeardKeepsIxs
<1>4. Carries(x, d.ixs)
  BY DEF PackedInv
<1>5. CASE IsDirect(x, d)
  <2>1. /\ Len(x.ixs) \in Nat
        /\ \A k \in 1..Len(x.ixs) : x.ixs[k].program # SquadsProgram
    BY <1>5, Zenon DEF IsDirect
  <2>2. Execute(x.ixs, x.command).staged = staged
    BY <2>1, DirectLands
  <2>3. UNCHANGED staged
    BY <1>1, <2>2, Zenon DEF Becomes
  <2> QED BY <1>1, <1>3, <2>3, PackedKept DEF SubmissionInv
<1>6. CASE IsProposed(x, d)
  <2>1. ~IsPlain(x)
    <3> DEFINE index == d.proposal[1].transaction_index
               approved == d.proposal[1].approved
               member == d.request.keypair
               vault_index == x.ixs[1].vault_index
               message == x.ixs[1].message
               ixs == Built(index, member, vault_index, message, approved)
    <3>1. x.ixs = ixs /\ approved \in BOOLEAN
      BY <1>6, Zenon DEF IsProposed
    <3> HIDE DEF index, member, vault_index, message, approved
    <3>2. /\ Len(ixs) = IF approved THEN 3 ELSE 2
          /\ ixs[1] = VaultTransactionCreate(index, member, vault_index, message)
      BY <3>1, BuiltParts
    <3>3. VaultTransactionCreate(index, member, vault_index, message).program = SquadsProgram
      BY DEF VaultTransactionCreate
    <3> HIDE DEF ixs
    <3>4. 1 \in 1..Len(ixs)
      BY <3>1, <3>2
    <3> QED BY <3>1, <3>2, <3>3, <3>4, Zenon DEF IsPlain
  <2>2. IsPacked(d.ixs, x.ixs[1].vault_index, x.ixs[1].message)
    BY <1>4, <2>1, Zenon DEF Carries
  <2>3. PICK index :
            /\ DOMAIN staged' = DOMAIN staged \cup {index}
            /\ \A i \in DOMAIN staged : i # index => staged'[i] = staged[i]
            /\ staged'[index].command = x.command
            /\ staged'[index].vault_index = x.ixs[1].vault_index
            /\ staged'[index].message = x.ixs[1].message
    <3> HIDE DEF d
    <3> QED BY <1>1, <1>6, LandedStage DEF SubmissionInv
  <2>4. IsStaged(staged'[index], commands)
    BY <1>2, <2>2, <2>3, Zenon DEF IsStaged
  <2>5. \A y \in flight' : y \in flight \/ Carries(y, commands'[y.command].ixs)
    BY <1>1
  <2>6. FlightInv
    BY DEF SubmissionInv
  <2>7. \E k : /\ DOMAIN staged' = DOMAIN staged \cup {k}
              /\ IsStaged(staged'[k], commands)
              /\ \A i \in DOMAIN staged : i # k => staged'[i] = staged[i]
    BY <2>3, <2>4, Zenon
  <2> QED BY ONLY PackedInv, <1>3, <2>5, <2>6, <2>7, PackedKept
<1> QED BY <1>2, <1>5, <1>6

LEMMA PackedNext == SubmissionInv /\ SignaturesInv /\ PackedInv /\ [Next]_vars => PackedInv'
<1> SUFFICES ASSUME SubmissionInv, SignaturesInv, PackedInv, [Next]_vars PROVE PackedInv'
  OBVIOUS
<1>1. CASE \E r \in Requests : Start(r)
  BY <1>1, PackedStart
<1>2. ASSUME NEW c \in DOMAIN commands,
             SubmitDirectly(c) \/ SubmitProposal(c) \/ GiveUp(c) \/ Report(c)
      PROVE  PackedInv'
  BY <1>2, PackedDirect, PackedProposal, PackedGiveUp, PackedReport
<1>3. ASSUME NEW x \in flight, Land(x) \/ Refuse(x)
      PROVE  PackedInv'
  <2>1. CASE Refuse(x)
    <3>1. flight' = flight \ {x} /\ Heard(x, "failed") /\ UNCHANGED <<squads>>
      BY <2>1, Zenon DEF Refuse
    <3>2. IxsKept
      BY <3>1, HeardKeepsIxs
    <3>3. UNCHANGED staged
      BY <3>1 DEF squads
    <3> QED BY <3>1, <3>2, <3>3, PackedKept DEF SubmissionInv
  <2> QED BY <1>3, <2>1, PackedLand
<1>4. ASSUME UNCHANGED <<commands, flight, staged>>
      PROVE  PackedInv'
  BY <1>4, Zenon DEF PackedInv
<1>5. CASE \E m \in DOMAIN multisig.members, i \in DOMAIN proposals : Vote(m, i)
  BY <1>4, <1>5 DEF Vote
<1>6. CASE \E i \in DOMAIN proposals : ExecuteProposal(i)
  BY <1>4, <1>6 DEF ExecuteProposal
<1>7. CASE \E m \in DOMAIN multisig.members, p \in Permissions : ChangeMember(m, p)
  BY <1>4, <1>7 DEF ChangeMember
<1>8. CASE UNCHANGED vars
  BY <1>4, <1>8 DEF vars, squads
<1> QED BY <1>1, <1>2, <1>3, <1>5, <1>6, <1>7, <1>8, Zenon DEF Next
(* A packed message unpacks to the instructions it was made from. *)
LEMMA PackedUnpacks ==
    ASSUME NEW ixs, NEW vault_index, NEW message, IsPacked(ixs, vault_index, message)
    PROVE  LET vault == Vault[vault_index]
               unpacked == Unpack(message)
           IN  /\ DOMAIN unpacked = DOMAIN ixs
               /\ \A k \in DOMAIN ixs :
                      /\ unpacked[k].program = ixs[k].program
                      /\ unpacked[k].data = ixs[k].data
                      /\ unpacked[k].accounts =
                           [j \in DOMAIN ixs[k].accounts |->
                               Granted(ixs[k].accounts[j].key, vault,
                                       WrittenOf(Metas(ixs, vault)))]
<1> DEFINE vault == Vault[vault_index]
           m == Message(ixs, vault)
           W == WrittenOf(Metas(ixs, vault))
           list == m.instructions
           unpacked == Unpack(message)
           n == Len(ixs)
<1>1. /\ message = TransactionMessage(m)
      /\ MessageFits(m)
      /\ SignersOf(Metas(ixs, vault)) = {vault}
      /\ AreIxs(ixs)
      /\ vault \in Key
  BY Zenon DEF IsPacked
<1>2. /\ IsMessage(m)
      /\ Len(list) = n
      /\ \A i \in 1..n :
             LET back == ReadBack(m, list[i]) IN
             /\ back.program = ixs[i].program
             /\ back.data = ixs[i].data
             /\ back.accounts = [k \in DOMAIN ixs[i].accounts |->
                                     Granted(ixs[i].accounts[k].key, vault, W)]
  <2> HIDE DEF vault
  <2> QED BY <1>1, MessageIs
<1>3. n \in Nat /\ DOMAIN ixs = 1..n
  BY <1>1, Zenon DEF AreIxs
<1> HIDE DEF vault, m, W
<1>4. unpacked = [i \in 1..Len(list) |-> ReadBack(m, list[i])]
  BY <1>1, <1>2, UnpackBack
<1> HIDE DEF n, unpacked, list
<1>5. DOMAIN unpacked = 1..n /\ \A i \in 1..n : unpacked[i] = ReadBack(m, list[i])
  BY <1>2, <1>4, Zenon
<1>6. /\ DOMAIN unpacked = DOMAIN ixs
      /\ \A k \in DOMAIN ixs :
             /\ unpacked[k].program = ixs[k].program
             /\ unpacked[k].data = ixs[k].data
             /\ unpacked[k].accounts = [j \in DOMAIN ixs[k].accounts |->
                                            Granted(ixs[k].accounts[j].key, vault, W)]
  <2> SUFFICES ASSUME NEW k \in DOMAIN ixs
               PROVE  /\ unpacked[k].program = ixs[k].program
                      /\ unpacked[k].data = ixs[k].data
                      /\ unpacked[k].accounts = [j \in DOMAIN ixs[k].accounts |->
                                                     Granted(ixs[k].accounts[j].key, vault, W)]
    BY <1>3, <1>5, Zenon
  <2>1. unpacked[k] = ReadBack(m, list[k]) /\ k \in 1..n
    BY <1>3, <1>5, Zenon
  <2>2. /\ ReadBack(m, list[k]).program = ixs[k].program
        /\ ReadBack(m, list[k]).data = ixs[k].data
        /\ ReadBack(m, list[k]).accounts = [j \in DOMAIN ixs[k].accounts |->
                                                Granted(ixs[k].accounts[j].key, vault, W)]
    BY <1>2, <2>1, Zenon
  <2> QED BY <2>1, <2>2, Zenon
<1> QED BY <1>6, Zenon DEF unpacked, W, vault

LEMMA PackedIsBuilt == PackedInv => StagedIsBuilt
<1> SUFFICES ASSUME PackedInv, NEW i \in DOMAIN staged
             PROVE  LET vault == Vault[staged[i].vault_index]
                        built == commands[staged[i].command].ixs
                        metas == Metas(built, vault)
                        unpacked == Unpack(staged[i].message)
                    IN  /\ SignersOf(metas) = {vault}
                        /\ DOMAIN unpacked = DOMAIN built
                        /\ \A k \in DOMAIN built :
                               /\ unpacked[k].program = built[k].program
                               /\ unpacked[k].data = built[k].data
                               /\ unpacked[k].accounts =
                                    [j \in DOMAIN built[k].accounts |->
                                        LET key == built[k].accounts[j].key IN
                                        [key |-> key, signer |-> key = vault,
                                         writable |-> key \in WrittenOf(metas)]]
  BY Zenon DEF StagedIsBuilt
<1> DEFINE vault == Vault[staged[i].vault_index]
           built == commands[staged[i].command].ixs
           metas == Metas(built, vault)
           unpacked == Unpack(staged[i].message)
<1>1. IsPacked(built, staged[i].vault_index, staged[i].message)
  BY Zenon DEF PackedInv, IsStaged
<1>2. SignersOf(metas) = {vault}
  BY <1>1, Zenon DEF IsPacked
<1>3. /\ DOMAIN unpacked = DOMAIN built
      /\ \A k \in DOMAIN built :
             /\ unpacked[k].program = built[k].program
             /\ unpacked[k].data = built[k].data
             /\ unpacked[k].accounts =
                  [j \in DOMAIN built[k].accounts |->
                      Granted(built[k].accounts[j].key, vault, WrittenOf(metas))]
  BY <1>1, PackedUnpacks
<1> QED BY <1>2, <1>3, Zenon DEF Granted

(* Whatever instructions a command builds, however many signers, writable  *)
(* and read accounts they name and in whatever order those are put, the    *)
(* bytes that transaction_message stages for the multisig are read back by *)
(* Squads as these instructions, with the accounts, the privileges and the *)
(* data they were built with, and ask for no signature but the vault's.    *)
THEOREM StagedIsWhatWasBuilt == Spec => []StagedIsBuilt
<1>1. Spec => []SubmissionInv
  BY SubmissionInit, SubmissionNext, PTL DEF Spec
<1>2. Spec => []SignaturesInv
  BY <1>1, SignaturesInit, SignaturesNext, PTL DEF Spec
<1> QED BY <1>1, <1>2, PackedInit, PackedNext, PackedIsBuilt, PTL DEF Spec
===============================================================================
