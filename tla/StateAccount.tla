----------------------------- MODULE StateAccount -----------------------------
(***************************************************************************)
(* The state account: the holders of the four roles, and the solvers as a  *)
(* sorted list of addresses in the account's data, which grows and shrinks *)
(* by one slot with the list and keeps the account's rent in step.         *)
(*                                                                         *)
(* Addresses are numbers, compared like their bytes.  The trusted ones     *)
(* stand for the people the protocol relies on: they hand the guarded      *)
(* roles, and a solver's approval, to trusted addresses only.  The other   *)
(* roles may be in anybody's hands, and everybody may submit anything.     *)
(***************************************************************************)
EXTENDS Integers, Sequences

CONSTANTS
    Addresses,      \* the accounts there are, all possible solvers
    Holders,        \* bound: the addresses that sign and are given roles
    Trusted,        \* those the protocol relies on ...
    Guarded,        \* ... and the roles that are theirs
    INITIALIZER,    \* the one address that may initialize
    StatePda,       \* the account itself, as a recipient of lamports
    HeaderRent,     \* rent-exempt minimum of the header ...
    SlotRent,       \* ... and of one solver slot
    MaxDonation     \* bound: lamports sent to the account by others

Roles == {"Manager", "SolverAuthority", "ReclaimAuthority", "SettlementOwnedOrderAuthority"}

ASSUME StateAccountAssumption ==
    /\ Addresses \subseteq Nat \ {0}
    /\ Holders \subseteq Addresses
    /\ Trusted \subseteq Addresses
    /\ Guarded \subseteq Roles
    /\ {"Manager", "SolverAuthority"} \subseteq Guarded
    /\ INITIALIZER \in Trusted \cap Holders
    /\ StatePda \notin Addresses
    /\ HeaderRent \in Nat
    /\ SlotRent \in Nat
    /\ MaxDonation \in Nat

VARIABLES
    live,           \* the account exists, owned by the program ...
    buffer,         \* ... and so does the native SOL buffer
    holder,         \* the holder of each role
    region,         \* the solver slots after the header
    lamports,       \* the account's balance
    donated,        \* lamports others sent to it (bounded)
    request         \* history: the last change of the list, as it was asked for

vars == <<live, buffer, holder, region, lamports, donated, request>>

MinimumBalance(slots) == HeaderRent + SlotRent * slots

Init ==
    /\ live = FALSE
    /\ buffer = FALSE
    /\ holder = [r \in Roles |-> INITIALIZER]
    /\ region = <<>>
    /\ lamports = 0
    /\ donated = 0
    /\ request = <<>>

(* A trusted signer keeps the guarded roles among the trusted, and an      *)
(* approval is the business of one of them.                                *)
Entrusts(signer, role, a) == signer \in Trusted /\ role \in Guarded => a \in Trusted

-----------------------------------------------------------------------------
(* slice::binary_search: halve the range, given by its first slot and its  *)
(* size, until one entry is left.  found tells whether that is the entry;  *)
(* index is its slot, or the slot where it belongs, counted from 0.        *)
Ranges(n) == {p \in (0..n) \X (1..n) : p[1] + p[2] <= n}

BinarySearch(list, seek) ==
    LET n == Len(list)
        base[p \in Ranges(n)] ==
            LET b == p[1]
                size == p[2]
                half == size \div 2
            IN  IF size = 1 THEN b
                ELSE base[<<IF list[b + half + 1] > seek THEN b ELSE b + half, size - half>>]
        last == base[<<0, n>>]
    IN  IF n = 0 THEN [found |-> FALSE, index |-> 0]
        ELSE [found |-> list[last + 1] = seek,
              index |-> IF list[last + 1] < seek THEN last + 1 ELSE last]

IsSolver(s) == BinarySearch(region, s).found

(* Shift the entries from slot index on up by one, into the spare slot at  *)
(* the end, and write solver into the gap.                                 *)
Shifted(list, index, solver) ==
    [k \in 1..Len(list) |->
        CASE k <= index     -> list[k]
          [] k = index + 1  -> solver
          [] OTHER          -> list[k - 1]]

(* Mutants of InsertSolver: the new solver goes to the end; the search     *)
(* also covers the spare slot.                                             *)
InsertAtEnd(grown, solver) ==
    LET at == BinarySearch(SubSeq(grown, 1, Len(grown) - 1), solver) IN
    /\ ~at.found
    /\ region' = Shifted(grown, Len(grown) - 1, solver)
InsertSearchingSpare(grown, solver) ==
    LET at == BinarySearch(grown, solver) IN
    /\ ~at.found
    /\ region' = Shifted(grown, at.index, solver)

(* insert_solver on the account grown by one slot: the last slot is spare. *)
InsertSolver(grown, solver) ==
    LET at == BinarySearch(SubSeq(grown, 1, Len(grown) - 1), solver) IN
    /\ ~at.found
    /\ region' = Shifted(grown, at.index, solver)

(* Mutant of RemoveSlot: the first slot is dropped, whoever it holds. *)
RemoveFirstSlot(solver) ==
    LET at == BinarySearch(region, solver) IN
    /\ at.found
    /\ region' = [k \in 1..(Len(region) - 1) |-> region[k + 1]]

(* remove_solver and the resize after it: the entries after the solver     *)
(* move down one slot and the stale last slot is cut off.                  *)
RemoveSlot(solver) ==
    LET at == BinarySearch(region, solver) IN
    /\ at.found
    /\ region' = [k \in 1..(Len(region) - 1) |->
                    IF k <= at.index THEN region[k] ELSE region[k + 1]]

-----------------------------------------------------------------------------
(* Initialize: the account is created, topped up to its rent (it may be    *)
(* prefunded), and so is the native SOL buffer, and the roles are written. *)
Initialize(signer, holders) ==
    /\ signer = INITIALIZER
    /\ ~live
    /\ ~buffer
    /\ \A r \in Roles : Entrusts(signer, r, holders[r])
    /\ live' = TRUE
    /\ buffer' = TRUE
    /\ lamports' = IF lamports < MinimumBalance(0) THEN MinimumBalance(0) ELSE lamports
    /\ holder' = holders
    /\ UNCHANGED <<region, donated, request>>

(* Mutant of TopUp: a payer pays for the slots there are. *)
TopUpTooLittle(slots) ==
    IF lamports < MinimumBalance(slots - 1) THEN MinimumBalance(slots - 1) ELSE lamports

(* The balance once a payer has made up the shortfall for so many slots. *)
TopUp(slots) ==
    IF lamports < MinimumBalance(slots) THEN MinimumBalance(slots) ELSE lamports

AddSolver(signer, solver) ==
    /\ live
    /\ signer = holder["SolverAuthority"]
    /\ Entrusts(signer, "SolverAuthority", solver)
    /\ lamports' = TopUp(Len(region) + 1)
    /\ InsertSolver(Append(region, 0), solver)
    /\ request' = <<"add", solver>>
    /\ UNCHANGED <<live, buffer, holder, donated>>

(* RemoveSolver: the rent of the freed slot, and all that was donated, go  *)
(* to a recipient, unless that is the account itself.                      *)
RemoveSolver(signer, solver, recipient) ==
    /\ live
    /\ signer = holder["SolverAuthority"]
    /\ RemoveSlot(solver)
    /\ request' = <<"remove", solver>>
    /\ lamports >= MinimumBalance(Len(region) - 1)
    /\ lamports' = IF recipient = StatePda THEN lamports ELSE MinimumBalance(Len(region) - 1)
    /\ UNCHANGED <<live, buffer, holder, donated>>

(* Mutant of MayTransfer: the holder of any role may transfer every role. *)
AnyHolderMayTransfer(signer, role) == \E r \in Roles : signer = holder[r]

MayTransfer(signer, role) == signer = holder["Manager"] \/ signer = holder[role]

TransferAuthority(signer, role, new) ==
    /\ live
    /\ MayTransfer(signer, role)
    /\ Entrusts(signer, role, new)
    /\ holder' = [holder EXCEPT ![role] = new]
    /\ UNCHANGED <<live, buffer, region, lamports, donated, request>>

(* Anybody may send lamports to the account's address. *)
Donate ==
    /\ donated < MaxDonation
    /\ donated' = donated + 1
    /\ lamports' = lamports + 1
    /\ UNCHANGED <<live, buffer, holder, region, request>>

Next ==
    \/ \E s \in Holders, h \in [Roles -> Holders] : Initialize(s, h)
    \/ \E s \in Holders, a \in Addresses : AddSolver(s, a)
    \/ \E s \in Holders, a \in Addresses, c \in Holders \cup {StatePda} : RemoveSolver(s, a, c)
    \/ \E s, a \in Holders, r \in Roles : TransferAuthority(s, r, a)
    \/ Donate

Spec == Init /\ [][Next]_vars

-----------------------------------------------------------------------------
(* The variables keep their types. *)
TypeOK ==
    /\ live \in BOOLEAN
    /\ buffer = live
    /\ holder \in [Roles -> Holders]
    /\ region \in Seq(Addresses)
    /\ lamports \in Nat
    /\ donated \in 0..MaxDonation
    /\ request \in {<<>>} \cup ({"add", "remove"} \X Addresses)

(* Whatever the order of additions and removals, the account answers       *)
(* is_solver like a plain set: AddSolver, RemoveSolver and the binary      *)
(* search over the shifted slots implement SolverRegistry.                 *)
Registry == INSTANCE SolverRegistry WITH solvers <- {s \in Addresses : IsSolver(s)}
ImplementsRegistry == Registry!Spec

(* The slots hold exactly the solvers that is_solver finds, once each and  *)
(* in order: no removed solver lingers in a slot, none is lost.            *)
SlotsAreSolvers ==
    /\ \A j, k \in 1..Len(region) : j < k => region[j] < region[k]
    /\ \A k \in 1..Len(region) : IsSolver(region[k])

(* The account stays rent exempt at every size, so the checked_sub of      *)
(* RemoveSolver ("basically unreachable") never fails and the runtime      *)
(* never rejects the account.                                              *)
StaysRentExempt == live => lamports >= MinimumBalance(Len(region))

(* Roles are separate (G9, G12): as long as the trusted keep the guarded   *)
(* roles and the approvals among themselves, nobody else ever gets hold of *)
(* a guarded role or settles, whatever the holders of the other roles and  *)
(* everybody else submit.                                                  *)
RolesStayTrusted == \A r \in Guarded : holder[r] \in Trusted
SolversAreTrusted == \A k \in 1..Len(region) : region[k] \in Trusted
NoEscalation == RolesStayTrusted /\ SolversAreTrusted
===============================================================================
