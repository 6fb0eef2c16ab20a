---------------------------- MODULE SolverRegistry ----------------------------
(***************************************************************************)
(* What the state account promises the rest of the program: a set of       *)
(* solvers and one holder for each role, both changed one at a time.       *)
(***************************************************************************)
CONSTANTS Addresses, Roles

VARIABLES
    live,           \* the account is initialized
    holder,         \* the holder of each role, once it is
    solvers,        \* the set of approved solvers
    request         \* the change of that set asked for last

Init ==
    /\ live = FALSE
    /\ holder \in [Roles -> Addresses]
    /\ solvers = {}
    /\ request = <<>>

Initialize ==
    /\ ~live
    /\ live' = TRUE
    /\ holder' \in [Roles -> Addresses]
    /\ UNCHANGED <<solvers, request>>

Add(s) ==
    /\ live
    /\ s \notin solvers
    /\ solvers' = solvers \cup {s}
    /\ request' = <<"add", s>>
    /\ UNCHANGED <<live, holder>>

Remove(s) ==
    /\ live
    /\ s \in solvers
    /\ solvers' = solvers \ {s}
    /\ request' = <<"remove", s>>
    /\ UNCHANGED <<live, holder>>

Transfer(r, a) ==
    /\ live
    /\ holder' = [holder EXCEPT ![r] = a]
    /\ UNCHANGED <<live, solvers, request>>

Next ==
    \/ Initialize
    \/ \E s \in Addresses : Add(s) \/ Remove(s)
    \/ \E r \in Roles, a \in Addresses : Transfer(r, a)

Spec == Init /\ [][Next]_<<live, holder, solvers, request>>
===============================================================================
