----------------------------- MODULE TradingProofs -----------------------------
(***************************************************************************)
(* Proofs about Trading, for any mints, command lines, accounts and orders *)
(* at the start, and for any number of commands, changes and ticks.        *)
(***************************************************************************)
EXTENDS Trading, SharedLemmas

-----------------------------------------------------------------------------
(* Recursion: what the accounts are after the first k instructions, after  *)
(* the first j pulls, and after the first j pushes.                        *)
StepAll(s, ixs, k) == IF Succeeds(s) THEN Execute(s, ixs, k) ELSE s
IsRun(g, ixs, n) ==
    g = [k \in 0..n |-> IF k = 0 THEN Chain
                        ELSE IF Succeeds(g[k - 1]) THEN Execute(g[k - 1], ixs, k) ELSE g[k - 1]]
Ran(ixs) == CHOOSE g : IsRun(g, ixs, Len(ixs))

LEMMA ExecuteAllIsRun ==
    ASSUME NEW ixs
    PROVE  ExecuteAll(ixs) = Ran(ixs)[Len(ixs)]
BY Zenon DEF ExecuteAll, Ran, IsRun

LEMMA RunExists ==
    ASSUME NEW ixs, NEW n \in Nat
    PROVE  \E g : IsRun(g, ixs, n)
<1> DEFINE N == {k \in Nat : \E g : IsRun(g, ixs, k)}
<1>1. ASSUME NEW k \in Nat, \A j \in 0..(k - 1) : j \in N
      PROVE  k \in N
  <2> DEFINE step(f, j) == IF j = 0 THEN Chain
                           ELSE IF Succeeds(f[j - 1]) THEN Execute(f[j - 1], ixs, j) ELSE f[j - 1]
             next(x) == IF Succeeds(x) THEN Execute(x, ixs, k) ELSE x
  <2>1. CASE k = 0
    <3> DEFINE h == [j \in 0..0 |-> Chain]
    <3>1. h = [j \in 0..0 |-> step(h, j)]
      OBVIOUS
    <3>2. IsRun(h, ixs, 0)
      BY <3>1, Zenon DEF IsRun
    <3> QED BY <2>1, <3>2
  <2>2. CASE k # 0
    <3>1. PICK g : IsRun(g, ixs, k - 1)
      BY <1>1, <2>2
    <3> DEFINE h == [j \in 0..k |-> IF j = k THEN next(g[k - 1]) ELSE g[j]]
    <3>2. g = [j \in 0..(k - 1) |-> step(g, j)]
      BY <3>1, Zenon DEF IsRun
    <3>3. ASSUME NEW j \in 0..k PROVE h[j] = step(h, j)
      <4>1. CASE j = k
        <5>1. h[j - 1] = g[k - 1] /\ h[j] = next(g[k - 1])
          BY <2>2, <4>1
        <5>2. step(h, j) = next(h[j - 1])
          BY <2>2, <4>1
        <5> HIDE DEF step, next, h
        <5> QED BY <4>1, <5>1, <5>2
      <4>2. CASE j # k
        <5>1. j \in 0..(k - 1) /\ h[j] = g[j]
          BY <4>2
        <5>2. g[j] = step(g, j)
          BY <3>2, <5>1
        <5>3. j # 0 => h[j - 1] = g[j - 1]
          BY <5>1
        <5> QED BY <5>1, <5>2, <5>3
      <4> QED BY <4>1, <4>2
    <3>4. h = [j \in 0..k |-> step(h, j)]
      <4>1. h = [j \in 0..k |-> h[j]]
        OBVIOUS
      <4> HIDE DEF h, step
      <4> QED BY <3>3, <4>1
    <3>5. IsRun(h, ixs, k)
      BY <3>4, Zenon DEF IsRun
    <3> HIDE DEF h
    <3> QED BY <3>5
  <2> QED BY <2>1, <2>2
<1> HIDE DEF N
<1>2. Nat \subseteq N
  BY <1>1, NumbersInduction
<1> QED BY <1>2 DEF N

LEMMA RunStep ==
    ASSUME NEW ixs, Len(ixs) \in Nat
    PROVE  /\ Ran(ixs)[0] = Chain
           /\ \A k \in 1..Len(ixs) : Ran(ixs)[k] = StepAll(Ran(ixs)[k - 1], ixs, k)
<1> DEFINE g == Ran(ixs)
<1>1. IsRun(g, ixs, Len(ixs))
  BY RunExists, Zenon DEF Ran
<1> HIDE DEF g
<1>2. g = [k \in 0..Len(ixs) |-> IF k = 0 THEN Chain
              ELSE IF Succeeds(g[k - 1]) THEN Execute(g[k - 1], ixs, k) ELSE g[k - 1]]
  BY <1>1, Zenon DEF IsRun
<1>3. g[0] = Chain
  BY <1>2
<1>4. ASSUME NEW k \in 1..Len(ixs)
      PROVE  g[k] = StepAll(g[k - 1], ixs, k)
  <2>1. k \in 0..Len(ixs) /\ k # 0
    OBVIOUS
  <2> QED BY <1>2, <2>1 DEF StepAll
<1> QED BY <1>3, <1>4 DEF g

StepPull(x, pulls, pushes, k) == IF Succeeds(x) THEN Process(x, pulls[k], pushes[k]) ELSE x
IsPulls(g, s, pulls, pushes, n) ==
    g = [k \in 0..n |-> IF k = 0 THEN s
                        ELSE IF Succeeds(g[k - 1]) THEN Process(g[k - 1], pulls[k], pushes[k]) ELSE g[k - 1]]
Pulled(s, pulls, pushes) == CHOOSE g : IsPulls(g, s, pulls, pushes, Len(pulls))

LEMMA ProcessAllIsPulled ==
    ASSUME NEW s, NEW pulls, NEW pushes
    PROVE  ProcessAll(s, pulls, pushes) = Pulled(s, pulls, pushes)[Len(pulls)]
BY Zenon DEF ProcessAll, Pulled, IsPulls

LEMMA PulledExists ==
    ASSUME NEW s, NEW pulls, NEW pushes, NEW n \in Nat
    PROVE  \E g : IsPulls(g, s, pulls, pushes, n)
<1> DEFINE N == {k \in Nat : \E g : IsPulls(g, s, pulls, pushes, k)}
<1>1. ASSUME NEW k \in Nat, \A j \in 0..(k - 1) : j \in N
      PROVE  k \in N
  <2> DEFINE step(f, j) == IF j = 0 THEN s
                           ELSE IF Succeeds(f[j - 1]) THEN Process(f[j - 1], pulls[j], pushes[j]) ELSE f[j - 1]
             next(x) == IF Succeeds(x) THEN Process(x, pulls[k], pushes[k]) ELSE x
  <2>1. CASE k = 0
    <3> DEFINE h == [j \in 0..0 |-> s]
    <3>1. h = [j \in 0..0 |-> step(h, j)]
      OBVIOUS
    <3>2. IsPulls(h, s, pulls, pushes, 0)
      BY <3>1, Zenon DEF IsPulls
    <3> QED BY <2>1, <3>2
  <2>2. CASE k # 0
    <3>1. PICK g : IsPulls(g, s, pulls, pushes, k - 1)
      BY <1>1, <2>2
    <3> DEFINE h == [j \in 0..k |-> IF j = k THEN next(g[k - 1]) ELSE g[j]]
    <3>2. g = [j \in 0..(k - 1) |-> step(g, j)]
      BY <3>1, Zenon DEF IsPulls
    <3>3. ASSUME NEW j \in 0..k PROVE h[j] = step(h, j)
      <4>1. CASE j = k
        <5>1. h[j - 1] = g[k - 1] /\ h[j] = next(g[k - 1])
          BY <2>2, <4>1
        <5>2. step(h, j) = next(h[j - 1])
          BY <2>2, <4>1
        <5> HIDE DEF step, next, h
        <5> QED BY <4>1, <5>1, <5>2
      <4>2. CASE j # k
        <5>1. j \in 0..(k - 1) /\ h[j] = g[j]
          BY <4>2
        <5>2. g[j] = step(g, j)
          BY <3>2, <5>1
        <5>3. j # 0 => h[j - 1] = g[j - 1]
          BY <5>1
        <5> QED BY <5>1, <5>2, <5>3
      <4> QED BY <4>1, <4>2
    <3>4. h = [j \in 0..k |-> step(h, j)]
      <4>1. h = [j \in 0..k |-> h[j]]
        OBVIOUS
      <4> HIDE DEF h, step
      <4> QED BY <3>3, <4>1
    <3>5. IsPulls(h, s, pulls, pushes, k)
      BY <3>4, Zenon DEF IsPulls
    <3> HIDE DEF h
    <3> QED BY <3>5
  <2> QED BY <2>1, <2>2
<1> HIDE DEF N
<1>2. Nat \subseteq N
  BY <1>1, NumbersInduction
<1> QED BY <1>2 DEF N

LEMMA PulledStep ==
    ASSUME NEW s, NEW pulls, NEW pushes, Len(pulls) \in Nat
    PROVE  /\ Pulled(s, pulls, pushes)[0] = s
           /\ \A k \in 1..Len(pulls) : Pulled(s, pulls, pushes)[k] = StepPull(Pulled(s, pulls, pushes)[k - 1], pulls, pushes, k)
<1> DEFINE g == Pulled(s, pulls, pushes)
<1>1. IsPulls(g, s, pulls, pushes, Len(pulls))
  BY PulledExists, Zenon DEF Pulled
<1> HIDE DEF g
<1>2. g = [k \in 0..Len(pulls) |-> IF k = 0 THEN s
              ELSE IF Succeeds(g[k - 1]) THEN Process(g[k - 1], pulls[k], pushes[k]) ELSE g[k - 1]]
  BY <1>1, Zenon DEF IsPulls
<1>3. g[0] = s
  BY <1>2
<1>4. ASSUME NEW k \in 1..Len(pulls)
      PROVE  g[k] = StepPull(g[k - 1], pulls, pushes, k)
  <2>1. k \in 0..Len(pulls) /\ k # 0
    OBVIOUS
  <2> QED BY <1>2, <2>1 DEF StepPull
<1> QED BY <1>3, <1>4 DEF g

StepPush(x, pushes, k) == IF Succeeds(x) THEN Push(x, pushes[k]) ELSE x
IsPushes(g, s, pushes, n) ==
    g = [k \in 0..n |-> IF k = 0 THEN s
                        ELSE IF Succeeds(g[k - 1]) THEN Push(g[k - 1], pushes[k]) ELSE g[k - 1]]
Pushed(s, pushes) == CHOOSE g : IsPushes(g, s, pushes, Len(pushes))

LEMMA PushFundsIsPushed ==
    ASSUME NEW s, NEW pushes
    PROVE  PushFunds(s, pushes) = Pushed(s, pushes)[Len(pushes)]
BY Zenon DEF PushFunds, Pushed, IsPushes

LEMMA PushedExists ==
    ASSUME NEW s, NEW pushes, NEW n \in Nat
    PROVE  \E g : IsPushes(g, s, pushes, n)
<1> DEFINE N == {k \in Nat : \E g : IsPushes(g, s, pushes, k)}
<1>1. ASSUME NEW k \in Nat, \A j \in 0..(k - 1) : j \in N
      PROVE  k \in N
  <2> DEFINE step(f, j) == IF j = 0 THEN s
                           ELSE IF Succeeds(f[j - 1]) THEN Push(f[j - 1], pushes[j]) ELSE f[j - 1]
             next(x) == IF Succeeds(x) THEN Push(x, pushes[k]) ELSE x
  <2>1. CASE k = 0
    <3> DEFINE h == [j \in 0..0 |-> s]
    <3>1. h = [j \in 0..0 |-> step(h, j)]
      OBVIOUS
    <3>2. IsPushes(h, s, pushes, 0)
      BY <3>1, Zenon DEF IsPushes
    <3> QED BY <2>1, <3>2
  <2>2. CASE k # 0
    <3>1. PICK g : IsPushes(g, s, pushes, k - 1)
      BY <1>1, <2>2
    <3> DEFINE h == [j \in 0..k |-> IF j = k THEN next(g[k - 1]) ELSE g[j]]
    <3>2. g = [j \in 0..(k - 1) |-> step(g, j)]
      BY <3>1, Zenon DEF IsPushes
    <3>3. ASSUME NEW j \in 0..k PROVE h[j] = step(h, j)
      <4>1. CASE j = k
        <5>1. h[j - 1] = g[k - 1] /\ h[j] = next(g[k - 1])
          BY <2>2, <4>1
        <5>2. step(h, j) = next(h[j - 1])
          BY <2>2, <4>1
        <5> HIDE DEF step, next, h
        <5> QED BY <4>1, <5>1, <5>2
      <4>2. CASE j # k
        <5>1. j \in 0..(k - 1) /\ h[j] = g[j]
          BY <4>2
        <5>2. g[j] = step(g, j)
          BY <3>2, <5>1
        <5>3. j # 0 => h[j - 1] = g[j - 1]
          BY <5>1
        <5> QED BY <5>1, <5>2, <5>3
      <4> QED BY <4>1, <4>2
    <3>4. h = [j \in 0..k |-> step(h, j)]
      <4>1. h = [j \in 0..k |-> h[j]]
        OBVIOUS
      <4> HIDE DEF h, step
      <4> QED BY <3>3, <4>1
    <3>5. IsPushes(h, s, pushes, k)
      BY <3>4, Zenon DEF IsPushes
    <3> HIDE DEF h
    <3> QED BY <3>5
  <2> QED BY <2>1, <2>2
<1> HIDE DEF N
<1>2. Nat \subseteq N
  BY <1>1, NumbersInduction
<1> QED BY <1>2 DEF N

LEMMA PushedStep ==
    ASSUME NEW s, NEW pushes, Len(pushes) \in Nat
    PROVE  /\ Pushed(s, pushes)[0] = s
           /\ \A k \in 1..Len(pushes) : Pushed(s, pushes)[k] = StepPush(Pushed(s, pushes)[k - 1], pushes, k)
<1> DEFINE g == Pushed(s, pushes)
<1>1. IsPushes(g, s, pushes, Len(pushes))
  BY PushedExists, Zenon DEF Pushed
<1> HIDE DEF g
<1>2. g = [k \in 0..Len(pushes) |-> IF k = 0 THEN s
              ELSE IF Succeeds(g[k - 1]) THEN Push(g[k - 1], pushes[k]) ELSE g[k - 1]]
  BY <1>1, Zenon DEF IsPushes
<1>3. g[0] = s
  BY <1>2
<1>4. ASSUME NEW k \in 1..Len(pushes)
      PROVE  g[k] = StepPush(g[k - 1], pushes, k)
  <2>1. k \in 0..Len(pushes) /\ k # 0
    OBVIOUS
  <2> QED BY <1>2, <2>1 DEF StepPush
<1> QED BY <1>3, <1>4 DEF g
-----------------------------------------------------------------------------
(* The accounts of a chain, and its orders, filled by whatever amounts.    *)
AccountsOK(f) ==
    /\ f = [a \in DOMAIN f |-> f[a]]
    /\ \A a \in DOMAIN f : IsAccount(f[a])

InFull(i) == [withdrawn |-> i.sell_amount, received |-> i.buy_amount]

IsOrder(i, o) ==
    /\ IsIntent(i)
    /\ o \in [fill: FillAmounts, cancelled: {o.cancelled}, created_by: {o.created_by}]

OrdersOK(f) ==
    /\ f = [i \in DOMAIN f |-> f[i]]
    /\ \A i \in DOMAIN f : IsOrder(i, f[i])

IsState(s) ==
    s = [result |-> s.result, accounts |-> s.accounts, orders |-> s.orders, sol |-> s.sol]

IsChain(s) == IsState(s) /\ AccountsOK(s.accounts) /\ OrdersOK(s.orders)

(* g is f after a transfer. *)
If(condition, amount) == IF condition THEN amount ELSE 0

Moved(f, g, from, to, amount) ==
    /\ DOMAIN g = DOMAIN f
    /\ AccountsOK(g)
    /\ \A a \in DOMAIN f :
           /\ g[a].owner = f[a].owner
           /\ g[a].mint = f[a].mint
           /\ g[a].amount + If(a = from, amount) = f[a].amount + If(a = to, amount)
           /\ g[a].delegated = f[a].delegated
                  - If(a = from /\ from # to /\ f[a].owner # StatePda, amount)

LEMMA FailedState ==
    ASSUME NEW s, IsChain(s)
    PROVE  /\ IsChain(Failed(s))
           /\ ~Succeeds(Failed(s))
<1>1. IsState(s)
  BY DEF IsChain
<1>2. IsState(Failed(s)) /\ ~Succeeds(Failed(s))
  BY <1>1 DEF Failed, Succeeds, IsState
<1>3. Failed(s).accounts = s.accounts /\ Failed(s).orders = s.orders
  BY <1>1 DEF Failed, IsState
<1> QED BY <1>2, <1>3 DEF IsChain

(* A transfer that goes through. *)
LEMMA MoveStep ==
    ASSUME NEW s, IsChain(s), NEW from, NEW to, NEW amount \in Nat,
           NEW t, t = Move(s, from, to, amount), Succeeds(t)
    PROVE  /\ IsChain(t)
           /\ CanMove(s, from, to, amount)
           /\ t.orders = s.orders
           /\ t.sol = s.sol
           /\ t.result = s.result
           /\ Moved(s.accounts, t.accounts, from, to, amount)
<1> DEFINE f == s.accounts
           later == IF f[from].owner = StatePda THEN f[from].delegated ELSE f[from].delegated - amount
           g == [f EXCEPT ![from].amount = @ - amount,
                          ![from].delegated = IF s.accounts[from].owner = StatePda THEN @ ELSE @ - amount,
                          ![to].amount = @ + amount]
<1>1. CanMove(s, from, to, amount)
  <2> SUFFICES ASSUME ~CanMove(s, from, to, amount) PROVE FALSE
    OBVIOUS
  <2>1. t = Failed(s)
    BY Zenon DEF Move
  <2> QED BY <2>1, FailedState
<1>2. /\ from \in DOMAIN f /\ to \in DOMAIN f
      /\ f[from].amount >= amount
      /\ f[from].owner = StatePda \/ f[from].delegated >= amount
  BY <1>1 DEF CanMove
<1>3. AccountsOK(f) /\ f = [a \in DOMAIN f |-> f[a]]
  BY DEF IsChain, AccountsOK
<1>4. \A a \in DOMAIN f : IsAccount(f[a]) /\ f[a].amount \in Nat /\ f[a].delegated \in Nat
  BY DEF IsChain, AccountsOK, IsAccount
<1>5. CASE from = to
  <2>1. t = s
    BY <1>1, <1>5, Zenon DEF Move
  <2>2. Moved(f, f, from, to, amount)
    BY <1>3, <1>4, <1>5 DEF Moved, If
  <2> QED BY <1>1, <2>1, <2>2
<1>6. CASE from # to
  <2>1. t = [s EXCEPT !.accounts[from].amount = @ - amount,
                      !.accounts[from].delegated = IF s.accounts[from].owner = StatePda THEN @ ELSE @ - amount,
                      !.accounts[to].amount = @ + amount]
    BY <1>1, <1>6, Zenon DEF Move
  <2>2. t = [s EXCEPT !.accounts = g]
    BY <2>1 DEF IsChain, IsState
  <2>3. /\ DOMAIN g = DOMAIN f
        /\ g = [a \in DOMAIN g |-> g[a]]
        /\ g[from] = [f[from] EXCEPT !.amount = f[from].amount - amount, !.delegated = later]
        /\ g[to] = [f[to] EXCEPT !.amount = f[to].amount + amount]
        /\ \A a \in DOMAIN f \ {from, to} : g[a] = f[a]
    BY <1>2, <1>3, <1>4, <1>6 DEF IsAccount
  <2> HIDE DEF g
  <2>4. f[from].amount - amount \in Nat /\ later \in Nat /\ f[to].amount + amount \in Nat
    BY <1>2, <1>4
  <2>5. later = f[from].delegated - If(f[from].owner # StatePda, amount)
    BY <1>2, <1>4 DEF If
  <2>6. /\ IsAccount(g[from])
        /\ g[from].owner = f[from].owner /\ g[from].mint = f[from].mint
        /\ g[from].amount = f[from].amount - amount /\ g[from].delegated = later
    <3>1. IsAccount(f[from])
      BY <1>2, <1>4
    <3> DEFINE x == f[from].amount - amount
    <3>2. x \in Nat /\ g[from] = [f[from] EXCEPT !.amount = x, !.delegated = later]
      BY <2>3, <2>4
    <3> HIDE DEF later, f, x
    <3>3. /\ IsAccount(g[from])
          /\ g[from].owner = f[from].owner /\ g[from].mint = f[from].mint
          /\ g[from].amount = x /\ g[from].delegated = later
      BY <2>4, <3>1, <3>2 DEF IsAccount
    <3> QED BY <3>3 DEF x
  <2>7. /\ IsAccount(g[to])
        /\ g[to].owner = f[to].owner /\ g[to].mint = f[to].mint
        /\ g[to].amount = f[to].amount + amount /\ g[to].delegated = f[to].delegated
    <3>1. g[to] = [f[to] EXCEPT !.amount = f[to].amount + amount, !.delegated = f[to].delegated]
      BY <1>2, <1>4, <2>3 DEF IsAccount
    <3>2. IsAccount(f[to]) /\ f[to].delegated \in Nat
      BY <1>2, <1>4
    <3> DEFINE x == f[to].amount + amount
               y == f[to].delegated
    <3>3. x \in Nat /\ y \in Nat /\ g[to] = [f[to] EXCEPT !.amount = x, !.delegated = y]
      BY <2>4, <3>1, <3>2
    <3> HIDE DEF f, x, y
    <3>4. /\ IsAccount(g[to])
          /\ g[to].owner = f[to].owner /\ g[to].mint = f[to].mint
          /\ g[to].amount = x /\ g[to].delegated = y
      BY <3>2, <3>3 DEF IsAccount
    <3> QED BY <3>4 DEF x, y
  <2> HIDE DEF later
  <2>8. Moved(f, g, from, to, amount)
    <3>1. AccountsOK(g)
      BY <1>4, <2>3, <2>6, <2>7 DEF AccountsOK
    <3>2. ASSUME NEW a \in DOMAIN f
          PROVE  /\ g[a].owner = f[a].owner
                 /\ g[a].mint = f[a].mint
                 /\ g[a].amount + If(a = from, amount) = f[a].amount + If(a = to, amount)
                 /\ g[a].delegated = f[a].delegated
                        - If(a = from /\ from # to /\ f[a].owner # StatePda, amount)
      <4>1. CASE a = from
        BY <1>2, <1>4, <1>6, <2>5, <2>6, <4>1 DEF If
      <4>2. CASE a = to
        BY <1>2, <1>4, <1>6, <2>7, <4>2 DEF If
      <4>3. CASE a \notin {from, to}
        BY <1>4, <2>3, <4>3 DEF If
      <4> QED BY <4>1, <4>2, <4>3
    <3> QED BY <2>3, <3>1, <3>2 DEF Moved
  <2>9. /\ IsState(t) /\ t.accounts = g /\ t.orders = s.orders /\ t.sol = s.sol
        /\ t.result = s.result
    BY <2>2 DEF IsChain, IsState
  <2>10. IsChain(t)
    BY <2>8, <2>9 DEF IsChain, Moved
  <2> QED BY <1>1, <2>8, <2>9, <2>10
<1> QED BY <1>5, <1>6
(* The orders after amounts were added to the fill of i. *)
Filling(f, i, amounts) == [f EXCEPT ![i].fill = AddFills(@, amounts)]

LEMMA FilledOrders ==
    ASSUME NEW f, OrdersOK(f), NEW i \in DOMAIN f, NEW amounts, AddFills(f[i].fill, amounts) \in FillAmounts
    PROVE  /\ OrdersOK(Filling(f, i, amounts))
           /\ DOMAIN Filling(f, i, amounts) = DOMAIN f
           /\ Filling(f, i, amounts)[i].fill = AddFills(f[i].fill, amounts)
           /\ \A j \in DOMAIN f \ {i} : Filling(f, i, amounts)[j] = f[j]
<1> DEFINE g == Filling(f, i, amounts)
           x == AddFills(f[i].fill, amounts)
<1>1. IsOrder(i, f[i]) /\ f = [j \in DOMAIN f |-> f[j]]
  BY DEF OrdersOK
<1>2. g = [f EXCEPT ![i].fill = x] /\ x \in FillAmounts
  BY DEF Filling
<1> HIDE DEF g, x
<1>3. /\ DOMAIN g = DOMAIN f
      /\ g = [j \in DOMAIN g |-> g[j]]
      /\ g[i] = [f[i] EXCEPT !.fill = x]
      /\ \A j \in DOMAIN f \ {i} : g[j] = f[j]
  BY <1>1, <1>2
<1>4. IsOrder(i, g[i]) /\ g[i].fill = x
  BY <1>1, <1>2, <1>3 DEF IsOrder
<1>5. OrdersOK(g)
  BY <1>3, <1>4 DEF OrdersOK
<1> QED BY <1>3, <1>4, <1>5 DEF g, x

(* Totals that are accepted fit, and an order that is full stays so. *)
LEMMA FillsGrow ==
    ASSUME NEW i, IsIntent(i), NEW prior \in FillAmounts, NEW amounts \in FillAmounts,
           ValidatedFinalAmounts(i, prior, amounts)
    PROVE  /\ AddFills(prior, amounts) \in FillAmounts
           /\ FullyFilled(i, prior) => FullyFilled(i, AddFills(prior, amounts))
<1> DEFINE final == AddFills(prior, amounts)
<1>1. /\ prior.withdrawn \in Nat /\ prior.received \in Nat
      /\ amounts.withdrawn \in Nat /\ amounts.received \in Nat
      /\ OrderAmount(i) \in Nat
  BY U64MaxAssumption DEF FillAmounts, Amount, OrderAmount, IsIntent
<1>2. /\ final = [withdrawn |-> prior.withdrawn + amounts.withdrawn,
                  received |-> prior.received + amounts.received]
      /\ final.withdrawn <= U64Max /\ final.received <= U64Max
  BY DEF AddFills, ValidatedFinalAmounts
<1> HIDE DEF final
<1>3. final \in FillAmounts
  BY <1>1, <1>2, U64MaxAssumption DEF FillAmounts, Amount
<1>4. ASSUME FullyFilled(i, prior) PROVE FullyFilled(i, final)
  BY <1>1, <1>2, <1>4 DEF FullyFilled, Filled
<1> QED BY <1>3, <1>4 DEF final

(* A settlement in full fits only an order of which nothing counts yet,    *)
(* and leaves it full.                                                     *)
LEMMA FillsOnce ==
    ASSUME NEW i, NEW o, IsOrder(i, o), ValidatedFinalAmounts(i, o.fill, InFull(i))
    PROVE  /\ ~FullyFilled(i, o.fill)
           /\ FullyFilled(i, AddFills(o.fill, InFull(i)))
           /\ AddFills(o.fill, InFull(i)) \in FillAmounts
<1> DEFINE final == AddFills(o.fill, InFull(i))
<1>1. /\ i.sell_amount \in Nat \ {0} /\ i.buy_amount \in Nat \ {0}
      /\ i.sell_amount <= U64Max /\ i.buy_amount <= U64Max
      /\ o.fill \in FillAmounts
  BY U64MaxAssumption DEF IsOrder, IsIntent
<1>2. o.fill.withdrawn \in Nat /\ o.fill.received \in Nat
  BY <1>1, U64MaxAssumption DEF FillAmounts, Amount
<1>3. InFull(i) \in FillAmounts
  BY <1>1, U64MaxAssumption DEF InFull, FillAmounts, Amount
<1>4. final \in FillAmounts
  BY <1>1, <1>3, FillsGrow DEF IsOrder
<1>5. final = [withdrawn |-> o.fill.withdrawn + i.sell_amount, received |-> o.fill.received + i.buy_amount]
  BY DEF AddFills, InFull
<1>6. Filled(i, final) <= OrderAmount(i)
  BY DEF ValidatedFinalAmounts
<1> HIDE DEF final
<1>7. ~FullyFilled(i, o.fill) /\ FullyFilled(i, final)
  BY <1>1, <1>2, <1>5, <1>6 DEF FullyFilled, Filled, OrderAmount
<1> QED BY <1>4, <1>7 DEF final

(* What CanProcess says of an order that is to be settled in full. *)
LEMMA CanProcessOrder ==
    ASSUME NEW s, OrdersOK(s.orders), NEW pull, NEW push, CanProcess(s, pull, push),
           pull.amount = pull.intent.sell_amount, push.amount = pull.intent.buy_amount
    PROVE  LET i == pull.intent IN
           /\ i \in DOMAIN s.orders
           /\ ~FullyFilled(i, s.orders[i].fill)
           /\ FullyFilled(i, AddFills(s.orders[i].fill, InFull(i)))
           /\ AddFills(s.orders[i].fill, InFull(i)) \in FillAmounts
<1> DEFINE i == pull.intent
           o == s.orders[i]
<1>1. i \in DOMAIN s.orders
  BY DEF CanProcess
<1>2. ValidatedFinalAmounts(i, o.fill, InFull(i))
  BY DEF CanProcess, FillFits, InFull
<1>3. IsOrder(i, o)
  BY <1>1 DEF OrdersOK
<1> QED BY <1>1, <1>2, <1>3, FillsOnce

LEMMA ProcessStep ==
    ASSUME NEW s, IsChain(s), NEW pull, NEW push,
           pull.amount = pull.intent.sell_amount, push.amount = pull.intent.buy_amount,
           NEW t, t = Process(s, pull, push), Succeeds(t)
    PROVE  /\ IsChain(t)
           /\ CanProcess(s, pull, push)
           /\ CanMove(s, pull.intent.sell_token_account, pull.destination, pull.amount)
           /\ pull.intent \in DOMAIN s.orders
           /\ ~FullyFilled(pull.intent, s.orders[pull.intent].fill)
           /\ FullyFilled(pull.intent, AddFills(s.orders[pull.intent].fill, InFull(pull.intent)))
           /\ AddFills(s.orders[pull.intent].fill, InFull(pull.intent)) \in FillAmounts
           /\ t.orders = Filling(s.orders, pull.intent, InFull(pull.intent))
           /\ t.sol = s.sol
           /\ t.result = s.result
           /\ Moved(s.accounts, t.accounts, pull.intent.sell_token_account, pull.destination, pull.amount)
<1> DEFINE i == pull.intent
           fill == [withdrawn |-> pull.amount, received |-> push.amount]
           u == Move(s, i.sell_token_account, pull.destination, pull.amount)
<1>1. CanProcess(s, pull, push)
  <2> SUFFICES ASSUME ~CanProcess(s, pull, push) PROVE FALSE
    OBVIOUS
  <2>1. t = Failed(s)
    BY Zenon DEF Process
  <2> QED BY <2>1, FailedState
<1>2. t = [u EXCEPT !.orders[i].fill = AddFills(@, fill)]
  BY <1>1, Zenon DEF Process
<1>3. OrdersOK(s.orders) /\ IsState(s)
  BY DEF IsChain
<1>4. /\ i \in DOMAIN s.orders
      /\ ~FullyFilled(i, s.orders[i].fill)
      /\ FullyFilled(i, AddFills(s.orders[i].fill, InFull(i)))
      /\ AddFills(s.orders[i].fill, InFull(i)) \in FillAmounts
      /\ fill = InFull(i)
  BY <1>1, <1>3, CanProcessOrder DEF InFull
<1>5. pull.amount \in Nat
  <2>1. IsOrder(i, s.orders[i])
    BY <1>3, <1>4 DEF OrdersOK
  <2> QED BY <2>1, U64MaxAssumption DEF IsOrder, IsIntent
<1> HIDE DEF u, fill
<1>6. IsState(u)
  <2>1. CASE CanMove(s, i.sell_token_account, pull.destination, pull.amount)
    <3>1. \/ u = s
          \/ \E g : u = [s EXCEPT !.accounts = g]
      <4> DEFINE from == i.sell_token_account
                 to == pull.destination
      <4>1. \/ u = s
            \/ u = [s EXCEPT !.accounts[from].amount = @ - pull.amount,
                      !.accounts[from].delegated = IF s.accounts[from].owner = StatePda THEN @ ELSE @ - pull.amount,
                      !.accounts[to].amount = @ + pull.amount]
        BY <2>1, Zenon DEF Move, u
      <4>2. \/ u = s
            \/ u = [s EXCEPT !.accounts = [s.accounts EXCEPT ![from].amount = @ - pull.amount,
                      ![from].delegated = IF s.accounts[from].owner = StatePda THEN @ ELSE @ - pull.amount,
                      ![to].amount = @ + pull.amount]]
        BY <1>3, <4>1 DEF IsState
      <4> QED BY <4>2, Zenon
    <3> QED BY <1>3, <3>1 DEF IsState
  <2>2. CASE ~CanMove(s, i.sell_token_account, pull.destination, pull.amount)
    <3>1. u = Failed(s)
      BY <2>2, Zenon DEF Move, u
    <3> QED BY <3>1, FailedState DEF IsChain
  <2> QED BY <2>1, <2>2
<1>7. /\ IsState(t)
      /\ t.accounts = u.accounts
      /\ t.sol = u.sol
      /\ t.result = u.result
      /\ t.orders = [u.orders EXCEPT ![i].fill = AddFills(@, fill)]
  BY <1>2, <1>6 DEF IsState
<1>8. Succeeds(u)
  BY <1>7 DEF Succeeds
<1>9. /\ IsChain(u)
      /\ CanMove(s, i.sell_token_account, pull.destination, pull.amount)
      /\ u.orders = s.orders
      /\ u.sol = s.sol
      /\ u.result = s.result
      /\ Moved(s.accounts, u.accounts, i.sell_token_account, pull.destination, pull.amount)
  BY <1>5, <1>8, MoveStep DEF u
<1>10. t.orders = Filling(s.orders, i, InFull(i))
  <2>1. s.orders = [j \in DOMAIN s.orders |-> s.orders[j]]
    BY <1>3 DEF OrdersOK
  <2>2. t.orders = [s.orders EXCEPT ![i].fill = AddFills(s.orders[i].fill, fill)]
    BY <1>7, <1>9
  <2> QED BY <1>4, <2>2 DEF Filling
<1>11. IsChain(t)
  BY <1>3, <1>4, <1>7, <1>9, <1>10, FilledOrders DEF IsChain
<1> QED BY <1>1, <1>4, <1>7, <1>9, <1>10, <1>11
-----------------------------------------------------------------------------
(* What an instruction that succeeds does. *)
AtaOf(ix) == [a \in {ix.account} |-> NewAccount(ix.owner, ix.mint)]
BuffersOf(ix) == [b \in {Buffer[m] : m \in ix.mints} |->
                     NewAccount(StatePda, CHOOSE m \in ix.mints : Buffer[m] = b)]
OrderOfIx(ix) == [i \in {ix.intent} |-> NewOrder(ix.created_by)]
Wrapped(s, ix) == [s EXCEPT !.sol[ix.from] = @ - ix.amount, !.accounts[ix.account].amount = @ + ix.amount]
Delegated(s, ix) == [s EXCEPT !.accounts[ix.account].delegated = ix.amount]
Reclaimed(s, ix) == [s EXCEPT !.orders = [i \in DOMAIN @ \ {ix.intent} |-> @[i]]]

LEMMA ExecuteIs ==
    ASSUME NEW s, IsChain(s), NEW ixs, NEW k, NEW t, t = Execute(s, ixs, k), Succeeds(t)
    PROVE  LET ix == ixs[k] IN
           /\ ix.op = "create_ata" => t = [s EXCEPT !.accounts = Joined(@, AtaOf(ix))]
           /\ ix.op = "wrap" => ix.account \in DOMAIN s.accounts /\ t = Wrapped(s, ix)
           /\ ix.op = "approve" => ix.account \in DOMAIN s.accounts /\ t = Delegated(s, ix)
           /\ ix.op = "create_order" =>
                  /\ ix.intent \notin DOMAIN s.orders
                  /\ t = [s EXCEPT !.orders = Joined(@, OrderOfIx(ix))]
           /\ ix.op = "create_buffers" => t = [s EXCEPT !.accounts = Joined(@, BuffersOf(ix))]
           /\ ix.op = "reclaim" => t = Reclaimed(s, ix)
           /\ ix.op = "begin" => t = ExecuteBegin(s, ixs, k)
           /\ ix.op = "finalize" => t = PushFunds(s, ix.pushes)
<1> DEFINE ix == ixs[k]
           ata == [s EXCEPT !.accounts = Joined(@, AtaOf(ix))]
           order == [s EXCEPT !.orders = Joined(@, OrderOfIx(ix))]
           buffers == [s EXCEPT !.accounts = Joined(@, BuffersOf(ix))]
           mayAta == CanCreateAta(s, ix)
           mayWrap == s.sol[ix.from] >= ix.amount /\ ix.account \in DOMAIN s.accounts
           mayApprove == ix.account \in DOMAIN s.accounts /\ s.accounts[ix.account].owner = ix.owner
           mayOrder == ix.intent \notin DOMAIN s.orders /\ CheckBytes(ix.intent)
           mayReclaim == IsReclaimable(s, ix)
<1>1. t = CASE ix.op = "create_ata" /\ mayAta -> ata
            [] ix.op = "wrap" /\ s.sol[ix.from] >= ix.amount /\ ix.account \in DOMAIN s.accounts -> Wrapped(s, ix)
            [] ix.op = "approve" /\ ix.account \in DOMAIN s.accounts /\ s.accounts[ix.account].owner = ix.owner ->
                 Delegated(s, ix)
            [] ix.op = "create_order" /\ ix.intent \notin DOMAIN s.orders /\ CheckBytes(ix.intent) -> order
            [] ix.op = "create_buffers" -> buffers
            [] ix.op = "reclaim" /\ mayReclaim -> Reclaimed(s, ix)
            [] ix.op = "begin" -> ExecuteBegin(s, ixs, k)
            [] ix.op = "finalize" -> PushFunds(s, ix.pushes)
            [] OTHER -> Failed(s)
  BY Zenon DEF Execute, AtaOf, OrderOfIx, BuffersOf, Wrapped, Delegated, Reclaimed
<1>2. t # Failed(s)
  BY FailedState
<1> DEFINE op == ix.op
           w == Wrapped(s, ix)
           d == Delegated(s, ix)
           r == Reclaimed(s, ix)
           b == ExecuteBegin(s, ixs, k)
           p == PushFunds(s, ix.pushes)
           f == Failed(s)
<1>3. t = CASE op = "create_ata" /\ mayAta -> ata
            [] op = "wrap" /\ mayWrap -> w
            [] op = "approve" /\ mayApprove -> d
            [] op = "create_order" /\ mayOrder -> order
            [] op = "create_buffers" -> buffers
            [] op = "reclaim" /\ mayReclaim -> r
            [] op = "begin" -> b
            [] op = "finalize" -> p
            [] OTHER -> f
  BY <1>1
<1>4. t # f
  BY <1>2
<1>5. /\ mayWrap => ix.account \in DOMAIN s.accounts
      /\ mayApprove => ix.account \in DOMAIN s.accounts
      /\ mayOrder => ix.intent \notin DOMAIN s.orders
  OBVIOUS
<1> HIDE DEF ix, ata, order, buffers, mayAta, mayWrap, mayApprove, mayOrder, mayReclaim, w, d, r, b, p, f, op
<1>6. /\ op = "create_ata" => t = ata
      /\ op = "wrap" => mayWrap /\ t = w
      /\ op = "approve" => mayApprove /\ t = d
      /\ op = "create_order" => mayOrder /\ t = order
      /\ op = "create_buffers" => t = buffers
      /\ op = "reclaim" => t = r
      /\ op = "begin" => t = b
      /\ op = "finalize" => t = p
  BY <1>3, <1>4
<1> QED BY <1>5, <1>6 DEF ix, op, ata, w, d, order, buffers, r, b, p
(* Accounts are added and filled, and none is taken from or changed hands; *)
(* buffers are not among the new ones.                                     *)
IsBuffer(a) == \E m \in Mints : a = Buffer[m]

Grown(f, g) ==
    /\ AccountsOK(g)
    /\ DOMAIN f \subseteq DOMAIN g
    /\ \A a \in DOMAIN f : /\ g[a].owner = f[a].owner /\ g[a].mint = f[a].mint
                           /\ g[a].amount >= f[a].amount
    /\ \A a \in DOMAIN g \ DOMAIN f : ~IsBuffer(a)

LEMMA GrownTwice ==
    ASSUME NEW f, NEW g, NEW h, AccountsOK(f), Grown(f, g), Grown(g, h)
    PROVE  Grown(f, h)
<1>1. \A a \in DOMAIN f : f[a].amount \in Nat
  BY DEF AccountsOK, IsAccount
<1>2. \A a \in DOMAIN g : g[a].amount \in Nat
  BY DEF Grown, AccountsOK, IsAccount
<1>3. \A a \in DOMAIN h : h[a].amount \in Nat
  BY DEF Grown, AccountsOK, IsAccount
<1> QED BY <1>1, <1>2, <1>3 DEF Grown

LEMMA GrownSame ==
    ASSUME NEW f, AccountsOK(f)
    PROVE  Grown(f, f)
BY DEF Grown, AccountsOK, IsAccount

LEMMA FreshAccount ==
    ASSUME NEW owner, NEW mint \in Mints
    PROVE  IsAccount(NewAccount(owner, mint)) /\ NewAccount(owner, mint).amount = 0
BY DEF IsAccount, NewAccount

LEMMA JoinedAccounts ==
    ASSUME NEW f, AccountsOK(f), NEW g, \A a \in DOMAIN g : IsAccount(g[a])
    PROVE  /\ AccountsOK(Joined(f, g))
           /\ DOMAIN Joined(f, g) = DOMAIN f \cup DOMAIN g
           /\ \A a \in DOMAIN f : Joined(f, g)[a] = f[a]
           /\ \A a \in DOMAIN g \ DOMAIN f : Joined(f, g)[a] = g[a]
<1> DEFINE h == Joined(f, g)
<1>1. /\ h = [a \in DOMAIN h |-> h[a]]
      /\ DOMAIN h = DOMAIN f \cup DOMAIN g
      /\ \A a \in DOMAIN f : h[a] = f[a]
      /\ \A a \in DOMAIN g \ DOMAIN f : h[a] = g[a]
  BY DEF Joined
<1> HIDE DEF h
<1>2. AccountsOK(h)
  BY <1>1 DEF AccountsOK
<1> QED BY <1>1, <1>2 DEF h

(* The instructions in front of the one that creates an order. *)
IsAtaIx(ix) == ix.op = "create_ata" /\ ix.mint \in Mints /\ ~IsBuffer(ix.account)

IsPreparation(ix) ==
    \/ IsAtaIx(ix)
    \/ ix.op = "wrap" /\ ix.amount \in Nat
    \/ ix.op = "approve" /\ ix.amount \in Nat

LEMMA AccountsReplaced ==
    ASSUME NEW s, IsChain(s), NEW g, AccountsOK(g), NEW t,
           IsState(t), t.accounts = g, t.orders = s.orders
    PROVE  IsChain(t)
BY DEF IsChain

LEMMA AtaStep ==
    ASSUME NEW s, IsChain(s), NEW ixs, NEW k, NEW t, t = Execute(s, ixs, k), Succeeds(t),
           IsAtaIx(ixs[k])
    PROVE  /\ IsChain(t)
           /\ t.orders = s.orders
           /\ Grown(s.accounts, t.accounts)
           /\ ixs[k].account \in DOMAIN t.accounts
<1> DEFINE ix == ixs[k]
           g == Joined(s.accounts, AtaOf(ix))
<1>1. t = [s EXCEPT !.accounts = Joined(@, AtaOf(ix))]
  BY ExecuteIs DEF IsAtaIx
<1>2. t = [s EXCEPT !.accounts = g]
  BY <1>1 DEF IsChain, IsState
<1>3. DOMAIN AtaOf(ix) = {ix.account} /\ \A a \in DOMAIN AtaOf(ix) : IsAccount(AtaOf(ix)[a])
  BY FreshAccount DEF AtaOf, IsAtaIx
<1>4. AccountsOK(s.accounts)
  BY DEF IsChain
<1>5. Grown(s.accounts, g) /\ ix.account \in DOMAIN g
  <2> DEFINE new == AtaOf(ix)
             f == s.accounts
  <2>1. DOMAIN new = {ix.account} /\ \A a \in DOMAIN new : IsAccount(new[a])
    BY <1>3
  <2>2. g = Joined(f, new) /\ AccountsOK(f)
    BY <1>4
  <2> HIDE DEF new, f, g
  <2>3. /\ AccountsOK(g) /\ DOMAIN g = DOMAIN f \cup DOMAIN new
        /\ \A a \in DOMAIN f : g[a] = f[a]
    BY <2>1, <2>2, JoinedAccounts
  <2>4. \A a \in DOMAIN f : f[a].amount \in Nat
    BY <2>2 DEF AccountsOK, IsAccount
  <2>5. Grown(f, g)
    BY <2>1, <2>3, <2>4 DEF Grown, IsAtaIx
  <2> QED BY <2>1, <2>3, <2>5 DEF f
<1> HIDE DEF g
<1>6. IsState(t) /\ t.accounts = g /\ t.orders = s.orders
  BY <1>2 DEF IsChain, IsState
<1> QED BY <1>5, <1>6, AccountsReplaced DEF Grown

LEMMA WrapStep ==
    ASSUME NEW s, IsChain(s), NEW ixs, NEW k, NEW t, t = Execute(s, ixs, k), Succeeds(t),
           ixs[k].op = "wrap", ixs[k].amount \in Nat
    PROVE  /\ IsChain(t)
           /\ t.orders = s.orders
           /\ Grown(s.accounts, t.accounts)
           /\ ixs[k].account \in DOMAIN t.accounts
           /\ t.accounts[ixs[k].account].amount >= ixs[k].amount
<1> DEFINE ix == ixs[k]
           a == ix.account
           f == s.accounts
           g == [f EXCEPT ![a].amount = @ + ix.amount]
<1>1. a \in DOMAIN f /\ t = Wrapped(s, ix)
  BY ExecuteIs
<1>2. IsState(s) /\ f = [b \in DOMAIN f |-> f[b]] /\ \A b \in DOMAIN f : IsAccount(f[b])
  BY DEF IsChain, AccountsOK
<1>3. IsState(t) /\ t.accounts = g /\ t.orders = s.orders
  BY <1>1, <1>2 DEF Wrapped, IsState
<1> DEFINE x == f[a].amount + ix.amount
<1>4. x \in Nat /\ x >= f[a].amount /\ x >= ix.amount /\ \A b \in DOMAIN f : f[b].amount \in Nat
  BY <1>1, <1>2 DEF IsAccount
<1>5. /\ DOMAIN g = DOMAIN f
      /\ g = [b \in DOMAIN g |-> g[b]]
      /\ g[a] = [f[a] EXCEPT !.amount = x]
      /\ \A b \in DOMAIN f \ {a} : g[b] = f[b]
  BY <1>1, <1>2
<1> HIDE DEF g, x
<1>6. IsAccount(g[a]) /\ g[a].owner = f[a].owner /\ g[a].mint = f[a].mint /\ g[a].amount = x
  <2>1. IsAccount(f[a])
    BY <1>1, <1>2
  <2> HIDE DEF f, a
  <2> QED BY <2>1, <1>4, <1>5 DEF IsAccount
<1>7. AccountsOK(g)
  BY <1>2, <1>5, <1>6 DEF AccountsOK
<1>8. Grown(f, g)
  <2>1. a \in DOMAIN f
    BY <1>1
  <2> HIDE DEF f, a
  <2>2. \A b \in DOMAIN f : /\ g[b].owner = f[b].owner /\ g[b].mint = f[b].mint
                            /\ g[b].amount >= f[b].amount
    <3> TAKE b \in DOMAIN f
    <3>1. CASE b = a
      BY <2>1, <3>1, <1>4, <1>5, <1>6, <1>7
    <3>2. CASE b # a
      <4>1. g[b] = f[b] /\ f[b].amount \in Nat
        BY <3>2, <1>4, <1>5
      <4> QED BY <4>1
    <3> QED BY <3>1, <3>2
  <2> QED BY <2>2, <1>4, <1>5, <1>6, <1>7 DEF Grown
<1> QED BY <1>1, <1>3, <1>4, <1>5, <1>6, <1>7, <1>8, AccountsReplaced

LEMMA ApproveStep ==
    ASSUME NEW s, IsChain(s), NEW ixs, NEW k, NEW t, t = Execute(s, ixs, k), Succeeds(t),
           ixs[k].op = "approve", ixs[k].amount \in Nat
    PROVE  /\ IsChain(t)
           /\ t.orders = s.orders
           /\ Grown(s.accounts, t.accounts)
           /\ ixs[k].account \in DOMAIN t.accounts
           /\ t.accounts[ixs[k].account].delegated = ixs[k].amount
<1> DEFINE ix == ixs[k]
           a == ix.account
           f == s.accounts
           x == ix.amount
           g == [f EXCEPT ![a].delegated = x]
<1>1. a \in DOMAIN f /\ t = Delegated(s, ix)
  BY ExecuteIs
<1>2. IsState(s) /\ f = [b \in DOMAIN f |-> f[b]] /\ \A b \in DOMAIN f : IsAccount(f[b])
  BY DEF IsChain, AccountsOK
<1>3. IsState(t) /\ t.accounts = g /\ t.orders = s.orders
  BY <1>1, <1>2 DEF Delegated, IsState
<1>4. \A b \in DOMAIN f : f[b].amount \in Nat
  BY <1>2 DEF IsAccount
<1>5. /\ DOMAIN g = DOMAIN f
      /\ g = [b \in DOMAIN g |-> g[b]]
      /\ g[a] = [f[a] EXCEPT !.delegated = x]
      /\ \A b \in DOMAIN f \ {a} : g[b] = f[b]
  BY <1>1, <1>2
<1>6. x \in Nat
  OBVIOUS
<1> HIDE DEF g, x
<1>7. /\ IsAccount(g[a]) /\ g[a].owner = f[a].owner /\ g[a].mint = f[a].mint
      /\ g[a].amount = f[a].amount /\ g[a].delegated = x
  <2>1. IsAccount(f[a])
    BY <1>1, <1>2
  <2> HIDE DEF f, a
  <2> QED BY <2>1, <1>5, <1>6 DEF IsAccount
<1>8. AccountsOK(g)
  BY <1>2, <1>5, <1>7 DEF AccountsOK
<1>9. Grown(f, g)
  <2>1. a \in DOMAIN f
    BY <1>1
  <2> HIDE DEF f, a
  <2>2. \A b \in DOMAIN f : /\ g[b].owner = f[b].owner /\ g[b].mint = f[b].mint
                            /\ g[b].amount >= f[b].amount
    <3> TAKE b \in DOMAIN f
    <3>1. CASE b = a
      BY <2>1, <3>1, <1>4, <1>5, <1>7, <1>8
    <3>2. CASE b # a
      <4>1. g[b] = f[b] /\ f[b].amount \in Nat
        BY <3>2, <1>4, <1>5
      <4> QED BY <4>1
    <3> QED BY <3>1, <3>2
  <2> QED BY <2>2, <1>4, <1>5, <1>7, <1>8 DEF Grown
<1> QED BY <1>1, <1>3, <1>5, <1>7, <1>8, <1>9, AccountsReplaced DEF x

LEMMA NewOrderOK ==
    ASSUME NEW i, IsIntent(i), NEW by
    PROVE  IsOrder(i, NewOrder(by))
<1>1. NoFill \in FillAmounts
  BY U64MaxAssumption DEF NoFill, FillAmounts, Amount
<1> QED BY <1>1 DEF NewOrder, IsOrder

LEMMA CreateStep ==
    ASSUME NEW s, IsChain(s), NEW ixs, NEW k, NEW t, t = Execute(s, ixs, k), Succeeds(t),
           ixs[k].op = "create_order", IsIntent(ixs[k].intent)
    PROVE  /\ IsChain(t)
           /\ t.accounts = s.accounts
           /\ ixs[k].intent \notin DOMAIN s.orders
           /\ DOMAIN t.orders = DOMAIN s.orders \cup {ixs[k].intent}
           /\ \A i \in DOMAIN s.orders : t.orders[i] = s.orders[i]
<1> DEFINE ix == ixs[k]
           i == ix.intent
           f == s.orders
           new == OrderOfIx(ix)
           g == Joined(f, new)
<1>1. i \notin DOMAIN f /\ t = [s EXCEPT !.orders = Joined(@, OrderOfIx(ix))]
  BY ExecuteIs
<1>2. IsState(s) /\ AccountsOK(s.accounts) /\ OrdersOK(f)
  BY DEF IsChain
<1>3. t = [s EXCEPT !.orders = g]
  BY <1>1, <1>2 DEF IsState
<1>4. DOMAIN new = {i} /\ IsOrder(i, new[i])
  BY NewOrderOK DEF OrderOfIx
<1> HIDE DEF new
<1>5. /\ g = [j \in DOMAIN g |-> g[j]]
      /\ DOMAIN g = DOMAIN f \cup {i}
      /\ \A j \in DOMAIN f : g[j] = f[j]
      /\ g[i] = new[i]
  BY <1>1, <1>4 DEF Joined
<1> HIDE DEF g
<1>6. OrdersOK(g)
  BY <1>2, <1>4, <1>5 DEF OrdersOK
<1>7. IsState(t) /\ t.orders = g /\ t.accounts = s.accounts
  BY <1>2, <1>3 DEF IsState
<1> QED BY <1>1, <1>2, <1>5, <1>6, <1>7 DEF IsChain

LEMMA ReclaimStep ==
    ASSUME NEW s, IsChain(s), NEW ixs, NEW k, NEW t, t = Execute(s, ixs, k), Succeeds(t),
           ixs[k].op = "reclaim"
    PROVE  /\ IsChain(t)
           /\ t.accounts = s.accounts
           /\ DOMAIN t.orders \subseteq DOMAIN s.orders
           /\ \A i \in DOMAIN t.orders : t.orders[i] = s.orders[i]
<1> DEFINE ix == ixs[k]
           f == s.orders
           g == [j \in DOMAIN f \ {ix.intent} |-> f[j]]
<1>1. t = Reclaimed(s, ix)
  BY ExecuteIs
<1>2. IsState(s) /\ AccountsOK(s.accounts) /\ OrdersOK(f)
  BY DEF IsChain
<1>3. t = [s EXCEPT !.orders = g]
  BY <1>1, <1>2 DEF Reclaimed, IsState
<1>4. /\ g = [j \in DOMAIN g |-> g[j]]
      /\ DOMAIN g \subseteq DOMAIN f
      /\ \A j \in DOMAIN g : g[j] = f[j]
  OBVIOUS
<1> HIDE DEF g
<1>5. OrdersOK(g)
  BY <1>2, <1>4 DEF OrdersOK
<1>6. IsState(t) /\ t.orders = g /\ t.accounts = s.accounts
  BY <1>2, <1>3 DEF IsState
<1> QED BY <1>2, <1>4, <1>5, <1>6 DEF IsChain

(* The buffers that create_buffers adds to the accounts f: empty, and the  *)
(* program's.                                                              *)
Opened(f, g, mints) ==
    /\ AccountsOK(g)
    /\ DOMAIN g = DOMAIN f \cup {Buffer[m] : m \in mints}
    /\ \A a \in DOMAIN f : g[a] = f[a]
    /\ \A m \in mints : Buffer[m] \notin DOMAIN f => g[Buffer[m]] = NewAccount(StatePda, m)

LEMMA BuffersStep ==
    ASSUME NEW s, IsChain(s), NEW ixs, NEW k, NEW t, t = Execute(s, ixs, k), Succeeds(t),
           ixs[k].op = "create_buffers", ixs[k].mints \subseteq Mints
    PROVE  /\ IsChain(t)
           /\ t.result = s.result
           /\ t.orders = s.orders
           /\ Opened(s.accounts, t.accounts, ixs[k].mints)
<1> DEFINE ix == ixs[k]
           f == s.accounts
           new == BuffersOf(ix)
           g == Joined(f, new)
<1>1. t = [s EXCEPT !.accounts = Joined(@, BuffersOf(ix))]
  BY ExecuteIs
<1>2. IsState(s) /\ AccountsOK(f)
  BY DEF IsChain
<1>3. t = [s EXCEPT !.accounts = g]
  BY <1>1, <1>2 DEF IsState
<1>4. DOMAIN new = {Buffer[m] : m \in ix.mints}
  BY DEF BuffersOf
<1>5. ASSUME NEW m \in ix.mints
      PROVE  new[Buffer[m]] = NewAccount(StatePda, m) /\ IsAccount(new[Buffer[m]])
  <2> DEFINE pick == CHOOSE n \in ix.mints : Buffer[n] = Buffer[m]
  <2>1. pick \in ix.mints /\ Buffer[pick] = Buffer[m]
    OBVIOUS
  <2>2. pick = m
    BY <2>1, TradingAssumption
  <2>3. new[Buffer[m]] = NewAccount(StatePda, pick)
    BY DEF BuffersOf
  <2> HIDE DEF pick
  <2> QED BY <2>2, <2>3, FreshAccount
<1>6. \A a \in DOMAIN new : IsAccount(new[a])
  BY <1>4, <1>5
<1> HIDE DEF new
<1>7. /\ AccountsOK(g)
      /\ DOMAIN g = DOMAIN f \cup DOMAIN new
      /\ \A a \in DOMAIN f : g[a] = f[a]
      /\ \A a \in DOMAIN new \ DOMAIN f : g[a] = new[a]
  <2> HIDE DEF f
  <2> QED BY <1>2, <1>6, JoinedAccounts DEF Grown
<1> HIDE DEF g
<1>8. IsState(t) /\ t.accounts = g /\ t.orders = s.orders /\ t.result = s.result
  BY <1>2, <1>3 DEF IsState
<1>9. Opened(f, g, ix.mints)
  <2> HIDE DEF f, ix
  <2> QED BY <1>4, <1>5, <1>7 DEF Opened
<1> QED BY <1>7, <1>8, <1>9, AccountsReplaced
-----------------------------------------------------------------------------
(* A sum over the first j numbers of P, one by one. *)
LEMMA SumPrefix ==
    ASSUME NEW n \in Nat, NEW f, \A k \in 1..n : f[k] \in Nat, NEW P \in SUBSET (1..n),
           NEW j \in 1..n
    PROVE  /\ SumFunctionOnSet(f, P \cap (1..(j - 1))) \in Nat
           /\ SumFunctionOnSet(f, P \cap (1..j)) \in Nat
           /\ SumFunctionOnSet(f, P \cap (1..j))
                = SumFunctionOnSet(f, P \cap (1..(j - 1))) + If(j \in P, f[j])
<1> DEFINE Q == P \cap (1..(j - 1))
           R == P \cap (1..j)
<1>1. IsFiniteSet(1..n)
  BY FS_Interval
<1>2. Q \subseteq 1..n /\ R \subseteq 1..n
  OBVIOUS
<1>3. IsFiniteSet(Q) /\ IsFiniteSet(R)
  BY <1>1, <1>2, FS_Subset
<1>4. (\A k \in Q : f[k] \in Nat) /\ (\A k \in R : f[k] \in Nat)
  BY <1>2
<1>5. j \in P => j \in R /\ Q = R \ {j}
  OBVIOUS
<1>6. j \notin P => Q = R
  OBVIOUS
<1> HIDE DEF Q, R
<1>7. SumFunctionOnSet(f, Q) \in Nat /\ SumFunctionOnSet(f, R) \in Nat
  BY <1>3, <1>4, SumSplits
<1>8. CASE j \in P
  <2>1. SumFunctionOnSet(f, R) = f[j] + SumFunctionOnSet(f, R \ {j})
    BY <1>3, <1>4, <1>5, <1>8, SumSplits
  <2>2. f[j] \in Nat
    OBVIOUS
  <2> QED BY <1>5, <1>7, <1>8, <2>1, <2>2 DEF If, Q, R
<1>9. CASE j \notin P
  BY <1>6, <1>7, <1>9 DEF If, Q, R
<1> QED BY <1>8, <1>9

LEMMA SumWhole ==
    ASSUME NEW n \in Nat, NEW P \in SUBSET (1..n), NEW f
    PROVE  /\ SumFunctionOnSet(f, P \cap (1..0)) = 0
           /\ SumFunctionOnSet(f, P \cap (1..n)) = SumFunctionOnSet(f, P)
<1>1. P \cap (1..0) = {}
  OBVIOUS
<1>2. P \cap (1..n) = P
  OBVIOUS
<1> QED BY <1>1, <1>2, SumEmpty

(* What the settle command looked up: the intents, with mints. *)
IsResolved(resolved) ==
    /\ Len(resolved) \in Nat
    /\ DOMAIN resolved = 1..Len(resolved)
    /\ \A k \in DOMAIN resolved : /\ IsIntent(resolved[k].intent)
                                  /\ resolved[k].sell \in Mints
                                  /\ resolved[k].buy \in Mints

SellOf(resolved) == [k \in DOMAIN resolved |-> resolved[k].intent.sell_amount]
BuyOf(resolved) == [k \in DOMAIN resolved |-> resolved[k].intent.buy_amount]

(* Which of the orders move tokens out of an account, and which into it. *)
SoldFrom(resolved, a) == {k \in DOMAIN resolved : resolved[k].intent.sell_token_account = a}
PulledInto(resolved, a) == {k \in DOMAIN resolved : Buffer[resolved[k].sell] = a}
PushedFrom(resolved, a) == {k \in DOMAIN resolved : Buffer[resolved[k].intent.buy_mint] = a}
PushedTo(resolved, a) == {k \in DOMAIN resolved : resolved[k].intent.buy_token_account = a}

LEMMA ResolvedAmounts ==
    ASSUME NEW resolved, IsResolved(resolved), NEW k \in 1..Len(resolved)
    PROVE  /\ SellOf(resolved)[k] = resolved[k].intent.sell_amount
           /\ BuyOf(resolved)[k] = resolved[k].intent.buy_amount
           /\ resolved[k].intent.sell_amount \in Nat \ {0}
           /\ resolved[k].intent.buy_amount \in Nat \ {0}
BY U64MaxAssumption DEF IsResolved, IsIntent, SellOf, BuyOf

LEMMA SetsOfOrders ==
    ASSUME NEW resolved, IsResolved(resolved), NEW a
    PROVE  /\ SoldFrom(resolved, a) \in SUBSET (1..Len(resolved))
           /\ PulledInto(resolved, a) \in SUBSET (1..Len(resolved))
           /\ PushedFrom(resolved, a) \in SUBSET (1..Len(resolved))
           /\ PushedTo(resolved, a) \in SUBSET (1..Len(resolved))
BY DEF IsResolved, SoldFrom, PulledInto, PushedFrom, PushedTo

(* The sums, over the first j of them. *)
Sold(resolved, a, j) == SumFunctionOnSet(SellOf(resolved), SoldFrom(resolved, a) \cap (1..j))
Pulling(resolved, a, j) == SumFunctionOnSet(SellOf(resolved), PulledInto(resolved, a) \cap (1..j))
Pushing(resolved, a, j) == SumFunctionOnSet(BuyOf(resolved), PushedFrom(resolved, a) \cap (1..j))
Bought(resolved, a, j) == SumFunctionOnSet(BuyOf(resolved), PushedTo(resolved, a) \cap (1..j))

LEMMA SumsNext ==
    ASSUME NEW resolved, IsResolved(resolved), NEW a, NEW j \in 1..Len(resolved)
    PROVE  LET i == resolved[j].intent IN
           /\ Sold(resolved, a, j - 1) \in Nat
           /\ Pulling(resolved, a, j - 1) \in Nat
           /\ Pushing(resolved, a, j - 1) \in Nat
           /\ Bought(resolved, a, j - 1) \in Nat
           /\ Sold(resolved, a, j)
                = Sold(resolved, a, j - 1) + If(a = i.sell_token_account, i.sell_amount)
           /\ Pulling(resolved, a, j)
                = Pulling(resolved, a, j - 1) + If(a = Buffer[resolved[j].sell], i.sell_amount)
           /\ Pushing(resolved, a, j)
                = Pushing(resolved, a, j - 1) + If(a = Buffer[i.buy_mint], i.buy_amount)
           /\ Bought(resolved, a, j)
                = Bought(resolved, a, j - 1) + If(a = i.buy_token_account, i.buy_amount)
<1> DEFINE n == Len(resolved)
           f == SellOf(resolved)
           g == BuyOf(resolved)
           A == SoldFrom(resolved, a)
           B == PulledInto(resolved, a)
           C == PushedFrom(resolved, a)
           D == PushedTo(resolved, a)
           i == resolved[j].intent
<1>1. n \in Nat /\ \A k \in 1..n : f[k] \in Nat /\ g[k] \in Nat
  BY ResolvedAmounts DEF IsResolved
<1>2. A \in SUBSET (1..n) /\ B \in SUBSET (1..n) /\ C \in SUBSET (1..n) /\ D \in SUBSET (1..n)
  BY SetsOfOrders
<1>3. f[j] = i.sell_amount /\ g[j] = i.buy_amount
  BY ResolvedAmounts
<1>4. /\ (j \in A) <=> (a = i.sell_token_account)
      /\ (j \in B) <=> (a = Buffer[resolved[j].sell])
      /\ (j \in C) <=> (a = Buffer[i.buy_mint])
      /\ (j \in D) <=> (a = i.buy_token_account)
  BY DEF IsResolved, SoldFrom, PulledInto, PushedFrom, PushedTo
<1>5. j \in 1..n
  OBVIOUS
<1> HIDE DEF n, f, g, A, B, C, D
<1>6. /\ SumFunctionOnSet(f, A \cap (1..(j - 1))) \in Nat
      /\ SumFunctionOnSet(f, A \cap (1..j)) = SumFunctionOnSet(f, A \cap (1..(j - 1))) + If(j \in A, f[j])
  BY <1>1, <1>2, <1>5, SumPrefix
<1>7. /\ SumFunctionOnSet(f, B \cap (1..(j - 1))) \in Nat
      /\ SumFunctionOnSet(f, B \cap (1..j)) = SumFunctionOnSet(f, B \cap (1..(j - 1))) + If(j \in B, f[j])
  BY <1>1, <1>2, <1>5, SumPrefix
<1>8. /\ SumFunctionOnSet(g, C \cap (1..(j - 1))) \in Nat
      /\ SumFunctionOnSet(g, C \cap (1..j)) = SumFunctionOnSet(g, C \cap (1..(j - 1))) + If(j \in C, g[j])
  BY <1>1, <1>2, <1>5, SumPrefix
<1>9. /\ SumFunctionOnSet(g, D \cap (1..(j - 1))) \in Nat
      /\ SumFunctionOnSet(g, D \cap (1..j)) = SumFunctionOnSet(g, D \cap (1..(j - 1))) + If(j \in D, g[j])
  BY <1>1, <1>2, <1>5, SumPrefix
<1>10. /\ If(j \in A, f[j]) = If(a = i.sell_token_account, i.sell_amount)
       /\ If(j \in B, f[j]) = If(a = Buffer[resolved[j].sell], i.sell_amount)
       /\ If(j \in C, g[j]) = If(a = Buffer[i.buy_mint], i.buy_amount)
       /\ If(j \in D, g[j]) = If(a = i.buy_token_account, i.buy_amount)
  BY <1>3, <1>4 DEF If
<1> QED BY <1>6, <1>7, <1>8, <1>9, <1>10 DEF Sold, Pulling, Pushing, Bought, f, g, A, B, C, D
-----------------------------------------------------------------------------
(* An account before and after transfers. *)
Transferred(a, b, out, in) ==
    /\ b.owner = a.owner /\ b.mint = a.mint
    /\ b.amount + out = a.amount + in
    /\ b.delegated + out >= a.delegated

LEMMA TransferredMore ==
    ASSUME NEW f, NEW g, NEW h, NEW from, NEW to, NEW amount \in Nat,
           AccountsOK(f), AccountsOK(g), DOMAIN g = DOMAIN f,
           Moved(g, h, from, to, amount),
           NEW a \in DOMAIN f, NEW out \in Nat, NEW in \in Nat, Transferred(f[a], g[a], out, in)
    PROVE  Transferred(f[a], h[a], out + If(a = from, amount), in + If(a = to, amount))
<1>1. /\ f[a].amount \in Nat /\ f[a].delegated \in Nat
      /\ g[a].amount \in Nat /\ g[a].delegated \in Nat
  BY DEF AccountsOK, IsAccount
<1>2. h[a].amount \in Nat /\ h[a].delegated \in Nat
  BY DEF Moved, AccountsOK, IsAccount
<1> DEFINE x == If(a = from, amount)
           y == If(a = to, amount)
           z == If(a = from /\ from # to /\ g[a].owner # StatePda, amount)
<1>3. x \in Nat /\ y \in Nat /\ z \in Nat /\ z <= x
  BY DEF If
<1>4. /\ h[a].owner = g[a].owner /\ h[a].mint = g[a].mint
      /\ h[a].amount + x = g[a].amount + y
      /\ h[a].delegated = g[a].delegated - z
  BY DEF Moved
<1> HIDE DEF x, y, z
<1>5. /\ g[a].owner = f[a].owner /\ g[a].mint = f[a].mint
      /\ g[a].amount + out = f[a].amount + in
      /\ g[a].delegated + out >= f[a].delegated
  BY DEF Transferred
<1>6. /\ h[a].amount + (out + x) = f[a].amount + (in + y)
      /\ h[a].delegated + (out + x) >= f[a].delegated
  BY <1>1, <1>2, <1>3, <1>4, <1>5
<1> QED BY <1>4, <1>5, <1>6 DEF Transferred, x, y

(* The state t after the first j pulls of a settlement that starts in s. *)
PullsAt(s, t, resolved, j) ==
    /\ IsChain(t)
    /\ t.result = s.result
    /\ DOMAIN t.accounts = DOMAIN s.accounts
    /\ \A a \in DOMAIN s.accounts :
           Transferred(s.accounts[a], t.accounts[a], Sold(resolved, a, j), Pulling(resolved, a, j))
    /\ DOMAIN t.orders = DOMAIN s.orders
    /\ \A k \in 1..j :
           LET i == resolved[k].intent IN
           /\ i \in DOMAIN s.orders
           /\ ~FullyFilled(i, s.orders[i].fill) /\ FullyFilled(i, t.orders[i].fill)
    /\ \A i \in DOMAIN s.orders :
           (\A k \in 1..j : resolved[k].intent # i) => t.orders[i] = s.orders[i]

LEMMA NoPulls ==
    ASSUME NEW s, IsChain(s), NEW resolved, IsResolved(resolved)
    PROVE  PullsAt(s, s, resolved, 0)
<1>1. ASSUME NEW a \in DOMAIN s.accounts
      PROVE  Transferred(s.accounts[a], s.accounts[a], Sold(resolved, a, 0), Pulling(resolved, a, 0))
  <2>1. Sold(resolved, a, 0) = 0 /\ Pulling(resolved, a, 0) = 0
    <3>1. /\ SoldFrom(resolved, a) \in SUBSET (1..Len(resolved))
          /\ PulledInto(resolved, a) \in SUBSET (1..Len(resolved))
          /\ Len(resolved) \in Nat
      BY SetsOfOrders DEF IsResolved
    <3> QED BY <3>1, SumWhole DEF Sold, Pulling
  <2>2. s.accounts[a].amount \in Nat /\ s.accounts[a].delegated \in Nat
    BY DEF IsChain, AccountsOK, IsAccount
  <2> QED BY <2>1, <2>2 DEF Transferred
<1>2. \A k \in 1..0 : FALSE
  OBVIOUS
<1> QED BY <1>1, <1>2 DEF PullsAt

LEMMA PullFields ==
    ASSUME NEW resolved, IsResolved(resolved), NEW k \in 1..Len(resolved)
    PROVE  LET pull == ComputePulls(resolved)[k]
               push == ComputePushes(resolved)[k]
               i == resolved[k].intent
           IN  /\ pull.intent = i /\ pull.amount = i.sell_amount
               /\ pull.destination = Buffer[resolved[k].sell]
               /\ push.amount = i.buy_amount /\ push.destination = i.buy_token_account
               /\ push.source = Buffer[i.buy_mint]
BY DEF IsResolved, ComputePulls, ComputePushes

LEMMA PullsLen ==
    ASSUME NEW resolved, IsResolved(resolved)
    PROVE  Len(ComputePulls(resolved)) = Len(resolved) /\ Len(ComputePushes(resolved)) = Len(resolved)
<1> DEFINE n == Len(resolved)
           p == ComputePulls(resolved)
           q == ComputePushes(resolved)
<1>1. n \in Nat
  BY DEF IsResolved
<1>2. p = [k \in 1..n |-> p[k]] /\ q = [k \in 1..n |-> q[k]]
  BY DEF IsResolved, ComputePulls, ComputePushes
<1> HIDE DEF n, p, q
<1>3. p \in [1..n -> {p[k] : k \in 1..n}] /\ q \in [1..n -> {q[k] : k \in 1..n}]
  BY <1>2
<1>4. Len(p) = n /\ Len(q) = n
  BY <1>1, <1>3, LenIs
<1> QED BY <1>4 DEF n, p, q

LEMMA PullNext ==
    ASSUME NEW s, IsChain(s), NEW resolved, IsResolved(resolved), NEW j \in 1..Len(resolved),
           NEW t, PullsAt(s, t, resolved, j - 1),
           NEW u, u = Process(t, ComputePulls(resolved)[j], ComputePushes(resolved)[j]), Succeeds(u)
    PROVE  PullsAt(s, u, resolved, j)
<1> DEFINE pull == ComputePulls(resolved)[j]
           push == ComputePushes(resolved)[j]
           i == resolved[j].intent
<1>1. /\ pull.intent = i /\ pull.amount = i.sell_amount
      /\ pull.destination = Buffer[resolved[j].sell]
      /\ push.amount = i.buy_amount
  BY PullFields
<1>2. i.sell_amount \in Nat \ {0} /\ i.buy_amount \in Nat \ {0}
  BY ResolvedAmounts
<1>3. IsChain(t)
  BY DEF PullsAt
<1> HIDE DEF pull, push
<1>4. u = Process(t, pull, push)
  BY DEF pull, push
<1>5. /\ IsChain(u)
      /\ i \in DOMAIN t.orders
      /\ ~FullyFilled(i, t.orders[i].fill)
      /\ FullyFilled(i, AddFills(t.orders[i].fill, InFull(i)))
      /\ AddFills(t.orders[i].fill, InFull(i)) \in FillAmounts
      /\ u.orders = Filling(t.orders, i, InFull(i))
      /\ u.result = t.result
      /\ Moved(t.accounts, u.accounts, i.sell_token_account, Buffer[resolved[j].sell], i.sell_amount)
  BY <1>1, <1>3, <1>4, ProcessStep
<1>6. /\ DOMAIN u.orders = DOMAIN t.orders
      /\ FullyFilled(i, u.orders[i].fill)
      /\ \A x \in DOMAIN t.orders \ {i} : u.orders[x] = t.orders[x]
  BY <1>3, <1>5, FilledOrders DEF IsChain
<1>8. ASSUME NEW k \in 1..(j - 1) PROVE resolved[k].intent # i
  BY <1>5, <1>8 DEF PullsAt
<1>9. s.orders[i] = t.orders[i] /\ i \in DOMAIN s.orders
  BY <1>5, <1>8 DEF PullsAt
<1>10. DOMAIN u.accounts = DOMAIN s.accounts
  BY <1>5 DEF Moved, PullsAt
<1>11. ASSUME NEW a \in DOMAIN s.accounts
       PROVE  Transferred(s.accounts[a], u.accounts[a], Sold(resolved, a, j), Pulling(resolved, a, j))
  <2>1. Transferred(s.accounts[a], t.accounts[a], Sold(resolved, a, j - 1), Pulling(resolved, a, j - 1))
    BY DEF PullsAt
  <2>2. /\ Sold(resolved, a, j - 1) \in Nat /\ Pulling(resolved, a, j - 1) \in Nat
        /\ Sold(resolved, a, j) = Sold(resolved, a, j - 1) + If(a = i.sell_token_account, i.sell_amount)
        /\ Pulling(resolved, a, j)
             = Pulling(resolved, a, j - 1) + If(a = Buffer[resolved[j].sell], i.sell_amount)
    BY SumsNext
  <2>3. /\ AccountsOK(s.accounts) /\ AccountsOK(t.accounts) /\ DOMAIN t.accounts = DOMAIN s.accounts
        /\ i.sell_amount \in Nat
    BY <1>2, <1>3 DEF IsChain, PullsAt
  <2> DEFINE f == s.accounts
             g == t.accounts
             h == u.accounts
             from == i.sell_token_account
             to == Buffer[resolved[j].sell]
             amount == i.sell_amount
             out == Sold(resolved, a, j - 1)
             in == Pulling(resolved, a, j - 1)
  <2>4. /\ Transferred(f[a], g[a], out, in) /\ out \in Nat /\ in \in Nat /\ amount \in Nat
        /\ AccountsOK(f) /\ AccountsOK(g) /\ DOMAIN g = DOMAIN f /\ a \in DOMAIN f
        /\ Moved(g, h, from, to, amount)
    BY <1>5, <2>1, <2>2, <2>3
  <2>5. /\ Sold(resolved, a, j) = out + If(a = from, amount)
        /\ Pulling(resolved, a, j) = in + If(a = to, amount)
    BY <2>2
  <2> HIDE DEF f, g, h, from, to, amount, out, in
  <2>6. Transferred(f[a], h[a], out + If(a = from, amount), in + If(a = to, amount))
    BY <2>4, TransferredMore
  <2> QED BY <2>5, <2>6 DEF f, h
<1>12. ASSUME NEW k \in 1..j
       PROVE  LET x == resolved[k].intent IN
              /\ x \in DOMAIN s.orders
              /\ ~FullyFilled(x, s.orders[x].fill) /\ FullyFilled(x, u.orders[x].fill)
  <2>1. CASE k = j
    BY <1>5, <1>6, <1>9, <2>1
  <2>2. CASE k # j
    <3>1. k \in 1..(j - 1)
      BY <2>2
    <3> DEFINE x == resolved[k].intent
    <3>2. /\ x \in DOMAIN s.orders
          /\ ~FullyFilled(x, s.orders[x].fill) /\ FullyFilled(x, t.orders[x].fill)
      BY <3>1 DEF PullsAt
    <3>3. x # i /\ x \in DOMAIN t.orders
      BY <1>8, <3>1, <3>2 DEF PullsAt
    <3> QED BY <1>6, <3>2, <3>3
  <2> QED BY <2>1, <2>2
<1>13. ASSUME NEW x \in DOMAIN s.orders, \A k \in 1..j : resolved[k].intent # x
       PROVE  u.orders[x] = s.orders[x]
  <2>1. j \in 1..j /\ x # i
    BY <1>13
  <2>2. \A k \in 1..(j - 1) : resolved[k].intent # x
    BY <1>13
  <2>3. t.orders[x] = s.orders[x] /\ x \in DOMAIN t.orders
    BY <2>2 DEF PullsAt
  <2> QED BY <1>6, <2>1, <2>3
<1>14. u.result = s.result /\ DOMAIN u.orders = DOMAIN s.orders
  BY <1>5, <1>6 DEF PullsAt
<1> QED BY <1>5, <1>10, <1>11, <1>12, <1>13, <1>14 DEF PullsAt
LEMMA PullsRun ==
    ASSUME NEW s, IsChain(s), NEW resolved, IsResolved(resolved), NEW g,
           g = Pulled(s, ComputePulls(resolved), ComputePushes(resolved))
    PROVE  \A j \in 0..Len(resolved) : Succeeds(g[j]) => PullsAt(s, g[j], resolved, j)
<1> DEFINE P == ComputePulls(resolved)
           Q == ComputePushes(resolved)
           n == Len(resolved)
           N == {j \in Nat : j <= n /\ Succeeds(g[j]) => PullsAt(s, g[j], resolved, j)}
<1>1. n \in Nat /\ Len(P) = n
  BY PullsLen DEF IsResolved
<1> HIDE DEF P, Q
<1>2. g[0] = s /\ \A j \in 1..n : g[j] = StepPull(g[j - 1], P, Q, j)
  BY <1>1, PulledStep DEF P, Q
<1>3. ASSUME NEW j \in Nat, \A k \in 0..(j - 1) : k \in N
      PROVE  j \in N
  <2> SUFFICES ASSUME j <= n, Succeeds(g[j]) PROVE PullsAt(s, g[j], resolved, j)
    OBVIOUS
  <2>1. CASE j = 0
    BY <1>2, <2>1, NoPulls
  <2>2. CASE j # 0
    <3>1. j \in 1..n /\ j - 1 \in 0..(j - 1) /\ j - 1 <= n
      BY <1>1, <2>2
    <3>2. g[j] = IF Succeeds(g[j - 1]) THEN Process(g[j - 1], P[j], Q[j]) ELSE g[j - 1]
      BY <1>2, <3>1 DEF StepPull
    <3>3. Succeeds(g[j - 1]) /\ g[j] = Process(g[j - 1], P[j], Q[j])
      BY <3>2
    <3>4. PullsAt(s, g[j - 1], resolved, j - 1)
      BY <1>3, <3>1, <3>3
    <3> QED BY <3>1, <3>3, <3>4, PullNext DEF P, Q
  <2> QED BY <2>1, <2>2
<1> HIDE DEF N
<1>4. Nat \subseteq N
  BY <1>3, NumbersInduction
<1> QED BY <1>1, <1>4 DEF N

LEMMA PullsDone ==
    ASSUME NEW s, IsChain(s), NEW resolved, IsResolved(resolved), NEW t,
           t = ProcessAll(s, ComputePulls(resolved), ComputePushes(resolved)), Succeeds(t)
    PROVE  PullsAt(s, t, resolved, Len(resolved))
<1> DEFINE g == Pulled(s, ComputePulls(resolved), ComputePushes(resolved))
<1>1. t = g[Len(resolved)]
  BY ProcessAllIsPulled, PullsLen
<1>2. Len(resolved) \in 0..Len(resolved)
  BY DEF IsResolved
<1> QED BY <1>1, <1>2, PullsRun

-----------------------------------------------------------------------------
(* The state t after the first j pushes of a settlement, from s on. *)
PushesAt(s, t, resolved, j) ==
    /\ IsChain(t)
    /\ t.result = s.result
    /\ DOMAIN t.accounts = DOMAIN s.accounts
    /\ \A a \in DOMAIN s.accounts :
           Transferred(s.accounts[a], t.accounts[a], Pushing(resolved, a, j), Bought(resolved, a, j))
    /\ t.orders = s.orders

LEMMA NoPushes ==
    ASSUME NEW s, IsChain(s), NEW resolved, IsResolved(resolved)
    PROVE  PushesAt(s, s, resolved, 0)
<1>1. ASSUME NEW a \in DOMAIN s.accounts
      PROVE  Transferred(s.accounts[a], s.accounts[a], Pushing(resolved, a, 0), Bought(resolved, a, 0))
  <2>1. Pushing(resolved, a, 0) = 0 /\ Bought(resolved, a, 0) = 0
    <3>1. /\ PushedFrom(resolved, a) \in SUBSET (1..Len(resolved))
          /\ PushedTo(resolved, a) \in SUBSET (1..Len(resolved))
          /\ Len(resolved) \in Nat
      BY SetsOfOrders DEF IsResolved
    <3> QED BY <3>1, SumWhole DEF Pushing, Bought
  <2>2. s.accounts[a].amount \in Nat /\ s.accounts[a].delegated \in Nat
    BY DEF IsChain, AccountsOK, IsAccount
  <2> QED BY <2>1, <2>2 DEF Transferred
<1> QED BY <1>1 DEF PushesAt

LEMMA PushNext ==
    ASSUME NEW s, IsChain(s), NEW resolved, IsResolved(resolved), NEW j \in 1..Len(resolved),
           NEW t, PushesAt(s, t, resolved, j - 1),
           NEW u, u = Push(t, ComputePushes(resolved)[j]), Succeeds(u)
    PROVE  PushesAt(s, u, resolved, j)
<1> DEFINE push == ComputePushes(resolved)[j]
           i == resolved[j].intent
           from == Buffer[i.buy_mint]
           to == i.buy_token_account
           amount == i.buy_amount
<1>1. push.amount = amount /\ push.destination = to /\ push.source = from
  BY PullFields
<1>2. amount \in Nat
  BY ResolvedAmounts
<1>3. IsChain(t)
  BY DEF PushesAt
<1> HIDE DEF push, from, to, amount
<1>4. u = Move(t, from, to, amount)
  BY <1>1 DEF Push, push
<1>5. /\ IsChain(u)
      /\ u.orders = t.orders
      /\ u.result = t.result
      /\ Moved(t.accounts, u.accounts, from, to, amount)
  BY <1>2, <1>3, <1>4, MoveStep
<1>6. DOMAIN u.accounts = DOMAIN s.accounts
  BY <1>5 DEF Moved, PushesAt
<1>7. ASSUME NEW a \in DOMAIN s.accounts
      PROVE  Transferred(s.accounts[a], u.accounts[a], Pushing(resolved, a, j), Bought(resolved, a, j))
  <2>1. Transferred(s.accounts[a], t.accounts[a], Pushing(resolved, a, j - 1), Bought(resolved, a, j - 1))
    BY DEF PushesAt
  <2> DEFINE f == s.accounts
             g == t.accounts
             h == u.accounts
             out == Pushing(resolved, a, j - 1)
             in == Bought(resolved, a, j - 1)
  <2>2. /\ out \in Nat /\ in \in Nat
        /\ Pushing(resolved, a, j) = out + If(a = from, amount)
        /\ Bought(resolved, a, j) = in + If(a = to, amount)
    BY SumsNext DEF from, to, amount
  <2>3. AccountsOK(f) /\ AccountsOK(g) /\ DOMAIN g = DOMAIN f /\ a \in DOMAIN f
    BY <1>3 DEF IsChain, PushesAt
  <2>4. Transferred(f[a], g[a], out, in) /\ Moved(g, h, from, to, amount)
    BY <1>5, <2>1
  <2> HIDE DEF f, g, h, out, in
  <2>5. Transferred(f[a], h[a], out + If(a = from, amount), in + If(a = to, amount))
    BY <1>2, <2>2, <2>3, <2>4, TransferredMore
  <2> QED BY <2>2, <2>5 DEF f, h
<1>8. u.result = s.result /\ u.orders = s.orders
  BY <1>5 DEF PushesAt
<1> QED BY <1>5, <1>6, <1>7, <1>8 DEF PushesAt

LEMMA PushesRun ==
    ASSUME NEW s, IsChain(s), NEW resolved, IsResolved(resolved), NEW g,
           g = Pushed(s, ComputePushes(resolved))
    PROVE  \A j \in 0..Len(resolved) : Succeeds(g[j]) => PushesAt(s, g[j], resolved, j)
<1> DEFINE Q == ComputePushes(resolved)
           n == Len(resolved)
           N == {j \in Nat : j <= n /\ Succeeds(g[j]) => PushesAt(s, g[j], resolved, j)}
<1>1. n \in Nat /\ Len(Q) = n
  BY PullsLen DEF IsResolved
<1> HIDE DEF Q
<1>2. g[0] = s /\ \A j \in 1..n : g[j] = StepPush(g[j - 1], Q, j)
  BY <1>1, PushedStep DEF Q
<1>3. ASSUME NEW j \in Nat, \A k \in 0..(j - 1) : k \in N
      PROVE  j \in N
  <2> SUFFICES ASSUME j <= n, Succeeds(g[j]) PROVE PushesAt(s, g[j], resolved, j)
    OBVIOUS
  <2>1. CASE j = 0
    BY <1>2, <2>1, NoPushes
  <2>2. CASE j # 0
    <3>1. j \in 1..n /\ j - 1 \in 0..(j - 1) /\ j - 1 <= n
      BY <1>1, <2>2
    <3>2. g[j] = IF Succeeds(g[j - 1]) THEN Push(g[j - 1], Q[j]) ELSE g[j - 1]
      BY <1>2, <3>1 DEF StepPush
    <3>3. Succeeds(g[j - 1]) /\ g[j] = Push(g[j - 1], Q[j])
      BY <3>2
    <3>4. PushesAt(s, g[j - 1], resolved, j - 1)
      BY <1>3, <3>1, <3>3
    <3> QED BY <3>1, <3>3, <3>4, PushNext DEF Q
  <2> QED BY <2>1, <2>2
<1> HIDE DEF N
<1>4. Nat \subseteq N
  BY <1>3, NumbersInduction
<1> QED BY <1>1, <1>4 DEF N

LEMMA PushesDone ==
    ASSUME NEW s, IsChain(s), NEW resolved, IsResolved(resolved), NEW t,
           t = PushFunds(s, ComputePushes(resolved)), Succeeds(t)
    PROVE  PushesAt(s, t, resolved, Len(resolved))
<1> DEFINE g == Pushed(s, ComputePushes(resolved))
<1>1. t = g[Len(resolved)]
  BY PushFundsIsPushed, PullsLen
<1>2. Len(resolved) \in 0..Len(resolved)
  BY DEF IsResolved
<1> QED BY <1>1, <1>2, PushesRun
-----------------------------------------------------------------------------
(* Whole transactions, step by step. *)
LEMMA RunBack ==
    ASSUME NEW ixs, Len(ixs) \in Nat, NEW k \in 1..Len(ixs), Succeeds(Ran(ixs)[k])
    PROVE  /\ Succeeds(Ran(ixs)[k - 1])
           /\ Ran(ixs)[k] = Execute(Ran(ixs)[k - 1], ixs, k)
<1>1. Ran(ixs)[k] = StepAll(Ran(ixs)[k - 1], ixs, k)
  BY RunStep
<1> QED BY <1>1 DEF StepAll

LEMMA ChainIs ==
    ASSUME AccountsOK(accounts), OrdersOK(orders)
    PROVE  /\ IsChain(Chain)
           /\ Chain.result = "ok"
           /\ Chain.accounts = accounts
           /\ Chain.orders = orders
BY DEF Chain, IsChain, IsState

(* A transaction that creates an order of the intent i. *)
IsOrderIxs(ixs, i) ==
    LET n == Len(ixs) IN
    /\ n \in Nat \ {0, 1}
    /\ DOMAIN ixs = 1..n
    /\ IsIntent(i)
    /\ ixs[n].op = "create_order" /\ ixs[n].intent = i
    /\ ixs[n - 1].op = "approve"
    /\ ixs[n - 1].account = i.sell_token_account /\ ixs[n - 1].amount = i.sell_amount
    /\ \A k \in 1..(n - 1) :
           /\ IsPreparation(ixs[k])
           /\ ixs[k].op = "wrap" =>
                  ixs[k].account = i.sell_token_account /\ ixs[k].amount = i.sell_amount

(* What its first k instructions have done to the accounts f. *)
Prepared(f, g, ixs, k) ==
    /\ Grown(f, g)
    /\ \A j \in 1..k :
           /\ ixs[j].account \in DOMAIN g
           /\ ixs[j].op = "wrap" => g[ixs[j].account].amount >= ixs[j].amount

LEMMA PreparationStep ==
    ASSUME NEW s, IsChain(s), NEW ixs, NEW k, NEW t, t = Execute(s, ixs, k), Succeeds(t),
           IsPreparation(ixs[k])
    PROVE  /\ IsChain(t)
           /\ t.orders = s.orders
           /\ Grown(s.accounts, t.accounts)
           /\ ixs[k].account \in DOMAIN t.accounts
           /\ ixs[k].op = "wrap" => t.accounts[ixs[k].account].amount >= ixs[k].amount
           /\ ixs[k].op = "approve" => t.accounts[ixs[k].account].delegated = ixs[k].amount
<1>1. CASE ixs[k].op = "create_ata"
  <2>1. IsAtaIx(ixs[k])
    BY <1>1 DEF IsPreparation
  <2> QED BY <1>1, <2>1, AtaStep
<1>2. CASE ixs[k].op = "wrap"
  <2>1. ixs[k].amount \in Nat
    BY <1>2 DEF IsPreparation, IsAtaIx
  <2> QED BY <1>2, <2>1, WrapStep
<1>3. CASE ixs[k].op = "approve"
  <2>1. ixs[k].amount \in Nat
    BY <1>3 DEF IsPreparation, IsAtaIx
  <2> QED BY <1>3, <2>1, ApproveStep
<1> QED BY <1>1, <1>2, <1>3 DEF IsPreparation, IsAtaIx

LEMMA PreparedMore ==
    ASSUME NEW f, AccountsOK(f), NEW g, NEW h, NEW ixs, NEW k \in Nat \ {0},
           Prepared(f, g, ixs, k - 1), Grown(g, h),
           ixs[k].account \in DOMAIN h,
           ixs[k].op = "wrap" => h[ixs[k].account].amount >= ixs[k].amount,
           \A j \in 1..k : ixs[j].op = "wrap" => ixs[j].amount \in Nat
    PROVE  Prepared(f, h, ixs, k)
<1>1. Grown(f, h)
  BY GrownTwice DEF Prepared
<1>2. ASSUME NEW j \in 1..k
      PROVE  /\ ixs[j].account \in DOMAIN h
             /\ ixs[j].op = "wrap" => h[ixs[j].account].amount >= ixs[j].amount
  <2>1. CASE j = k
    BY <2>1
  <2>2. CASE j # k
    <3>1. j \in 1..(k - 1)
      BY <2>2
    <3> DEFINE a == ixs[j].account
    <3>2. /\ a \in DOMAIN g
          /\ ixs[j].op = "wrap" => g[a].amount >= ixs[j].amount
      BY <3>1 DEF Prepared
    <3>3. a \in DOMAIN h /\ h[a].amount >= g[a].amount
      BY <3>2 DEF Grown
    <3>4. g[a].amount \in Nat /\ h[a].amount \in Nat
      BY <3>2, <3>3, <1>1 DEF Prepared, Grown, AccountsOK, IsAccount
    <3> QED BY <3>2, <3>3, <3>4
  <2> QED BY <2>1, <2>2
<1> QED BY <1>1, <1>2 DEF Prepared

LEMMA PreparationRun ==
    ASSUME AccountsOK(accounts), OrdersOK(orders), NEW ixs, NEW i, IsOrderIxs(ixs, i)
    PROVE  \A k \in 0..(Len(ixs) - 1) : Succeeds(Ran(ixs)[k]) =>
               /\ IsChain(Ran(ixs)[k])
               /\ Ran(ixs)[k].orders = orders
               /\ Prepared(accounts, Ran(ixs)[k].accounts, ixs, k)
<1> DEFINE g == Ran(ixs)
           n == Len(ixs) - 1
           holds(k) == /\ IsChain(g[k]) /\ g[k].orders = orders
                       /\ Prepared(accounts, g[k].accounts, ixs, k)
           N == {k \in Nat : k <= n /\ Succeeds(g[k]) => holds(k)}
<1>1. n \in Nat /\ Len(ixs) \in Nat
  BY DEF IsOrderIxs
<1>2. ASSUME NEW k \in Nat, \A j \in 0..(k - 1) : j \in N
      PROVE  k \in N
  <2> SUFFICES ASSUME k <= n, Succeeds(g[k]) PROVE holds(k)
    OBVIOUS
  <2>1. CASE k = 0
    <3>1. g[0] = Chain
      BY <1>1, RunStep
    <3>2. Prepared(accounts, accounts, ixs, 0)
      BY GrownSame DEF Prepared
    <3> QED BY <2>1, <3>1, <3>2, ChainIs
  <2>2. CASE k # 0
    <3>1. k \in 1..Len(ixs) /\ k - 1 \in 0..(k - 1) /\ k - 1 <= n /\ k \in 1..n
      BY <1>1, <2>2
    <3>2. Succeeds(g[k - 1]) /\ g[k] = Execute(g[k - 1], ixs, k)
      BY <1>1, <3>1, RunBack
    <3>3. holds(k - 1)
      BY <1>2, <3>1, <3>2
    <3>4. IsPreparation(ixs[k])
      BY <3>1 DEF IsOrderIxs
    <3>5. /\ IsChain(g[k])
          /\ g[k].orders = g[k - 1].orders
          /\ Grown(g[k - 1].accounts, g[k].accounts)
          /\ ixs[k].account \in DOMAIN g[k].accounts
          /\ ixs[k].op = "wrap" => g[k].accounts[ixs[k].account].amount >= ixs[k].amount
      BY <3>2, <3>3, <3>4, PreparationStep
    <3>6. \A j \in 1..k : ixs[j].op = "wrap" => ixs[j].amount \in Nat
      <4>1. \A j \in 1..k : IsPreparation(ixs[j])
        BY <3>1 DEF IsOrderIxs
      <4> QED BY <4>1 DEF IsPreparation, IsAtaIx
    <3> DEFINE x == g[k - 1].accounts
               y == g[k].accounts
    <3>7. /\ Prepared(accounts, x, ixs, k - 1) /\ Grown(x, y) /\ ixs[k].account \in DOMAIN y
          /\ ixs[k].op = "wrap" => y[ixs[k].account].amount >= ixs[k].amount
          /\ k \in Nat \ {0}
      BY <2>2, <3>3, <3>5
    <3> HIDE DEF x, y
    <3>8. Prepared(accounts, y, ixs, k)
      BY <3>6, <3>7, PreparedMore
    <3> QED BY <3>3, <3>5, <3>8 DEF y
  <2> QED BY <2>1, <2>2
<1> HIDE DEF N
<1>3. Nat \subseteq N
  BY <1>2, NumbersInduction
<1> QED BY <1>1, <1>3 DEF N

(* The transaction of an order, if it succeeds. *)
LEMMA OrderDone ==
    ASSUME AccountsOK(accounts), OrdersOK(orders), NEW ixs, NEW i, IsOrderIxs(ixs, i),
           NEW t, t = ExecuteAll(ixs), Succeeds(t)
    PROVE  /\ IsChain(t)
           /\ Prepared(accounts, t.accounts, ixs, Len(ixs) - 1)
           /\ t.accounts[i.sell_token_account].delegated = i.sell_amount
           /\ i \notin DOMAIN orders
           /\ DOMAIN t.orders = DOMAIN orders \cup {i}
           /\ \A x \in DOMAIN orders : t.orders[x] = orders[x]
<1> DEFINE g == Ran(ixs)
           n == Len(ixs)
<1>1. /\ n \in Nat /\ n \in 1..n /\ n - 1 \in 1..n /\ n - 1 \in 0..(n - 1) /\ n - 1 \in 1..(n - 1)
      /\ (n - 1) - 1 \in 0..(n - 1)
  BY DEF IsOrderIxs
<1>2. t = g[n]
  BY ExecuteAllIsRun
<1>3. Succeeds(g[n - 1]) /\ t = Execute(g[n - 1], ixs, n)
  BY <1>1, <1>2, RunBack
<1>4. /\ IsChain(g[n - 1])
      /\ g[n - 1].orders = orders
      /\ Prepared(accounts, g[n - 1].accounts, ixs, n - 1)
  BY <1>1, <1>3, PreparationRun
<1>5. Succeeds(g[(n - 1) - 1]) /\ g[n - 1] = Execute(g[(n - 1) - 1], ixs, n - 1)
  BY <1>1, <1>3, RunBack
<1>6. IsChain(g[(n - 1) - 1])
  BY <1>1, <1>5, PreparationRun
<1>7. IsPreparation(ixs[n - 1]) /\ ixs[n - 1].op = "approve"
      /\ ixs[n - 1].account = i.sell_token_account /\ ixs[n - 1].amount = i.sell_amount
  BY <1>1 DEF IsOrderIxs
<1>8. g[n - 1].accounts[i.sell_token_account].delegated = i.sell_amount
  BY <1>3, <1>5, <1>6, <1>7, PreparationStep
<1>9. ixs[n].op = "create_order" /\ ixs[n].intent = i /\ IsIntent(i)
  BY DEF IsOrderIxs
<1>10. /\ IsChain(t)
       /\ t.accounts = g[n - 1].accounts
       /\ i \notin DOMAIN orders
       /\ DOMAIN t.orders = DOMAIN orders \cup {i}
       /\ \A x \in DOMAIN orders : t.orders[x] = orders[x]
  BY <1>3, <1>4, <1>9, CreateStep
<1> QED BY <1>4, <1>8, <1>10

(* The transaction of a reclaim. *)
LEMMA ReclaimRun ==
    ASSUME AccountsOK(accounts), OrdersOK(orders), NEW ixs, Len(ixs) \in Nat,
           \A k \in 1..Len(ixs) : ixs[k].op = "reclaim"
    PROVE  \A k \in 0..Len(ixs) : Succeeds(Ran(ixs)[k]) =>
               /\ IsChain(Ran(ixs)[k])
               /\ Ran(ixs)[k].accounts = accounts
               /\ DOMAIN Ran(ixs)[k].orders \subseteq DOMAIN orders
               /\ \A i \in DOMAIN Ran(ixs)[k].orders : Ran(ixs)[k].orders[i] = orders[i]
<1> DEFINE g == Ran(ixs)
           n == Len(ixs)
           holds(k) == /\ IsChain(g[k]) /\ g[k].accounts = accounts
                       /\ DOMAIN g[k].orders \subseteq DOMAIN orders
                       /\ \A i \in DOMAIN g[k].orders : g[k].orders[i] = orders[i]
           N == {k \in Nat : k <= n /\ Succeeds(g[k]) => holds(k)}
<1>2. ASSUME NEW k \in Nat, \A j \in 0..(k - 1) : j \in N
      PROVE  k \in N
  <2> SUFFICES ASSUME k <= n, Succeeds(g[k]) PROVE holds(k)
    OBVIOUS
  <2>1. CASE k = 0
    <3>1. g[0] = Chain
      BY RunStep
    <3> QED BY <2>1, <3>1, ChainIs
  <2>2. CASE k # 0
    <3>1. k \in 1..n /\ k - 1 \in 0..(k - 1) /\ k - 1 <= n
      BY <2>2
    <3>2. Succeeds(g[k - 1]) /\ g[k] = Execute(g[k - 1], ixs, k)
      BY <3>1, RunBack
    <3>3. holds(k - 1)
      BY <1>2, <3>1, <3>2
    <3>4. /\ IsChain(g[k])
          /\ g[k].accounts = g[k - 1].accounts
          /\ DOMAIN g[k].orders \subseteq DOMAIN g[k - 1].orders
          /\ \A i \in DOMAIN g[k].orders : g[k].orders[i] = g[k - 1].orders[i]
      BY <3>1, <3>2, <3>3, ReclaimStep
    <3> QED BY <3>3, <3>4
  <2> QED BY <2>1, <2>2
<1> HIDE DEF N
<1>3. Nat \subseteq N
  BY <1>2, NumbersInduction
<1> QED BY <1>3 DEF N
-----------------------------------------------------------------------------
IsSeq(q) == Len(q) \in Nat /\ q = [k \in 1..Len(q) |-> q[k]]

(* What opens the buffers that a settlement needs. *)
IsSetup(setup) ==
    /\ Len(setup) \in Nat
    /\ DOMAIN setup = 1..Len(setup)
    /\ \A k \in DOMAIN setup : setup[k].op = "create_buffers" /\ setup[k].mints \subseteq Mints

MintsOf(setup, k) == UNION {setup[j].mints : j \in 1..k}

LEMMA OpenedTwice ==
    ASSUME NEW f, NEW g, NEW h, NEW A \in SUBSET Mints, NEW B \in SUBSET Mints,
           Opened(f, g, A), Opened(g, h, B)
    PROVE  Opened(f, h, A \cup B)
<1>1. \A m \in A \cup B : Buffer[m] \notin DOMAIN f => h[Buffer[m]] = NewAccount(StatePda, m)
  <2> SUFFICES ASSUME NEW m \in A \cup B, Buffer[m] \notin DOMAIN f
               PROVE  h[Buffer[m]] = NewAccount(StatePda, m)
    OBVIOUS
  <2>1. CASE Buffer[m] \in DOMAIN g
    <3>1. PICK x \in A : Buffer[x] = Buffer[m]
      BY <2>1 DEF Opened
    <3>2. x = m
      BY <3>1, TradingAssumption
    <3> QED BY <2>1, <3>2 DEF Opened
  <2>2. CASE Buffer[m] \notin DOMAIN g
    BY <2>2 DEF Opened
  <2> QED BY <2>1, <2>2
<1> QED BY <1>1 DEF Opened

LEMMA SetupRun ==
    ASSUME AccountsOK(accounts), OrdersOK(orders), NEW ixs, Len(ixs) \in Nat,
           NEW setup, IsSetup(setup), Len(setup) <= Len(ixs),
           \A k \in 1..Len(setup) : ixs[k] = setup[k]
    PROVE  \A k \in 0..Len(setup) : Succeeds(Ran(ixs)[k]) =>
               /\ IsChain(Ran(ixs)[k])
               /\ Ran(ixs)[k].orders = orders
               /\ Opened(accounts, Ran(ixs)[k].accounts, MintsOf(setup, k))
<1> DEFINE g == Ran(ixs)
           n == Len(setup)
           M(k) == MintsOf(setup, k)
           holds(k) == /\ IsChain(g[k]) /\ g[k].orders = orders
                       /\ Opened(accounts, g[k].accounts, M(k))
           N == {k \in Nat : k <= n /\ Succeeds(g[k]) => holds(k)}
<1>1. n \in Nat
  BY DEF IsSetup
<1>2. ASSUME NEW k \in Nat, \A j \in 0..(k - 1) : j \in N
      PROVE  k \in N
  <2> SUFFICES ASSUME k <= n, Succeeds(g[k]) PROVE holds(k)
    OBVIOUS
  <2>1. CASE k = 0
    <3>1. g[0] = Chain
      BY RunStep
    <3>2. M(0) = {}
      BY DEF MintsOf
    <3>3. Opened(accounts, accounts, {})
      BY DEF Opened
    <3> HIDE DEF M
    <3> QED BY <2>1, <3>1, <3>2, <3>3, ChainIs
  <2>2. CASE k # 0
    <3>1. k \in 1..Len(ixs) /\ k \in 1..n /\ k - 1 \in 0..(k - 1) /\ k - 1 <= n
      BY <1>1, <2>2
    <3>2. Succeeds(g[k - 1]) /\ g[k] = Execute(g[k - 1], ixs, k)
      BY <3>1, RunBack
    <3>3. holds(k - 1)
      BY <1>2, <3>1, <3>2
    <3>4. ixs[k] = setup[k] /\ ixs[k].op = "create_buffers" /\ ixs[k].mints \subseteq Mints
      BY <3>1 DEF IsSetup
    <3>5. /\ IsChain(g[k])
          /\ g[k].orders = g[k - 1].orders
          /\ Opened(g[k - 1].accounts, g[k].accounts, setup[k].mints)
      BY <3>2, <3>3, <3>4, BuffersStep
    <3>6. M(k) = M(k - 1) \cup setup[k].mints
      <4>1. 1..k = (1..(k - 1)) \cup {k}
        BY <3>1
      <4> QED BY <4>1 DEF MintsOf
    <3>7. M(k - 1) \in SUBSET Mints
      BY <1>1, <3>1 DEF MintsOf, IsSetup
    <3> DEFINE x == g[k - 1].accounts
               y == g[k].accounts
               A == M(k - 1)
               B == setup[k].mints
    <3>8. Opened(accounts, x, A) /\ Opened(x, y, B) /\ A \in SUBSET Mints /\ B \in SUBSET Mints
      BY <3>3, <3>4, <3>5, <3>7
    <3> HIDE DEF x, y, A, B
    <3>9. Opened(accounts, y, A \cup B)
      BY <3>8, OpenedTwice
    <3> QED BY <3>3, <3>5, <3>6, <3>9 DEF y, A, B
  <2> QED BY <2>1, <2>2
<1> HIDE DEF N
<1>3. Nat \subseteq N
  BY <1>2, NumbersInduction
<1> QED BY <1>1, <1>3 DEF N

LEMMA Behind ==
    ASSUME NEW n \in Nat, NEW S, NEW q \in [1..n -> S], NEW a, NEW b
    PROVE  LET r == q \o <<a, b>> IN
           /\ Len(r) = n + 2
           /\ DOMAIN r = 1..(n + 2)
           /\ \A k \in 1..n : r[k] = q[k]
           /\ r[n + 1] = a /\ r[n + 2] = b
OBVIOUS

(* The instructions of a settlement. *)
LEMMA SettlementAt ==
    ASSUME NEW payer, NEW setup, IsSeq(setup), IsSetup(setup),
           NEW resolved, NEW ixs, ixs = SettlementIxs(payer, setup, resolved)
    PROVE  LET n == Len(setup) IN
           /\ Len(ixs) = n + 2
           /\ DOMAIN ixs = 1..(n + 2)
           /\ \A k \in 1..n : ixs[k] = setup[k]
           /\ ixs[n + 1] = [op |-> "begin", solver |-> payer, finalize_ix_index |-> n + 1,
                            pulls |-> ComputePulls(resolved)]
           /\ ixs[n + 2] = [op |-> "finalize", begin_ix_index |-> n, pushes |-> ComputePushes(resolved)]
<1> DEFINE n == Len(setup)
           a == [op |-> "begin", solver |-> payer, finalize_ix_index |-> n + 1,
                 pulls |-> ComputePulls(resolved)]
           b == [op |-> "finalize", begin_ix_index |-> n, pushes |-> ComputePushes(resolved)]
           S == {setup[k] : k \in 1..n}
<1>1. n \in Nat /\ setup \in [1..n -> S]
  BY DEF IsSeq
<1>2. ixs = setup \o <<a, b>>
  BY Zenon DEF SettlementIxs
<1> HIDE DEF n, a, b, S
<1>3. LET r == setup \o <<a, b>> IN
      /\ Len(r) = n + 2
      /\ DOMAIN r = 1..(n + 2)
      /\ \A k \in 1..n : r[k] = setup[k]
      /\ r[n + 1] = a /\ r[n + 2] = b
  BY <1>1, Behind
<1> QED BY <1>2, <1>3 DEF n, a, b

LEMMA SettlementFront ==
    ASSUME NEW payer, NEW setup, IsSeq(setup), IsSetup(setup), NEW resolved
    PROVE  /\ Len(SettlementIxs(payer, setup, resolved)) = Len(setup) + 2
           /\ \A k \in 1..Len(setup) : SettlementIxs(payer, setup, resolved)[k] = setup[k]
<1> DEFINE ixs == SettlementIxs(payer, setup, resolved)
<1>1. ixs = SettlementIxs(payer, setup, resolved)
  OBVIOUS
<1> HIDE DEF ixs
<1> DEFINE n == Len(setup)
<1>2. /\ Len(ixs) = n + 2
      /\ \A k \in 1..n : ixs[k] = setup[k]
      /\ ixs[n + 1] = [op |-> "begin", solver |-> payer, finalize_ix_index |-> n + 1,
                       pulls |-> ComputePulls(resolved)]
      /\ ixs[n + 2] = [op |-> "finalize", begin_ix_index |-> n, pushes |-> ComputePushes(resolved)]
  BY <1>1, SettlementAt
<1> QED BY <1>2, Zenon DEF ixs

(* What a settlement does: it opens buffers, pulls and pushes. *)
SettlesAs(opened, pulled, t, setup, resolved) ==
    /\ IsChain(opened)
    /\ opened.orders = orders
    /\ Opened(accounts, opened.accounts, MintsOf(setup, Len(setup)))
    /\ PullsAt(opened, pulled, resolved, Len(resolved))
    /\ PushesAt(pulled, t, resolved, Len(resolved))

LEMMA SettlementDone ==
    ASSUME AccountsOK(accounts), OrdersOK(orders),
           NEW payer, NEW setup, IsSeq(setup), IsSetup(setup),
           NEW resolved, IsResolved(resolved), NEW ixs, ixs = SettlementIxs(payer, setup, resolved),
           NEW t, t = ExecuteAll(ixs), Succeeds(t)
    PROVE  \E opened, pulled : SettlesAs(opened, pulled, t, setup, resolved)
<1> DEFINE g == Ran(ixs)
           n == Len(setup)
<1>1. n \in Nat
  BY DEF IsSetup
<1>2. /\ Len(ixs) = n + 2
      /\ \A k \in 1..n : ixs[k] = setup[k]
      /\ ixs[n + 1] = [op |-> "begin", solver |-> payer, finalize_ix_index |-> n + 1,
                       pulls |-> ComputePulls(resolved)]
      /\ ixs[n + 2] = [op |-> "finalize", begin_ix_index |-> n, pushes |-> ComputePushes(resolved)]
  BY SettlementAt
<1>3. /\ Len(ixs) \in Nat /\ n <= Len(ixs) /\ n \in 0..n
      /\ n + 1 \in 1..Len(ixs) /\ n + 2 \in 1..Len(ixs)
      /\ (n + 2) - 1 = n + 1 /\ (n + 1) - 1 = n
  BY <1>1, <1>2
<1>4. t = g[n + 2]
  BY <1>2, ExecuteAllIsRun
<1>5. Succeeds(g[n + 1]) /\ t = Execute(g[n + 1], ixs, n + 2)
  BY <1>3, <1>4, RunBack
<1>6. Succeeds(g[n]) /\ g[n + 1] = Execute(g[n], ixs, n + 1)
  BY <1>3, <1>5, RunBack
<1>7. /\ IsChain(g[n])
      /\ g[n].orders = orders
      /\ Opened(accounts, g[n].accounts, MintsOf(setup, n))
  BY <1>2, <1>3, <1>6, SetupRun
<1> DEFINE s == g[n]
           u == g[n + 1]
<1>8. u = ExecuteBegin(s, ixs, n + 1)
  <2>1. ixs[n + 1].op = "begin"
    BY <1>2
  <2> QED BY <1>5, <1>6, <1>7, <2>1, ExecuteIs
<1>9. u = ProcessAll(s, ComputePulls(resolved), ComputePushes(resolved))
  <2>1. CanBegin(ixs, n + 1)
    <3> SUFFICES ASSUME ~CanBegin(ixs, n + 1) PROVE FALSE
      OBVIOUS
    <3>1. u = Failed(s)
      BY <1>8, Zenon DEF ExecuteBegin
    <3> QED BY <1>5, <1>7, <3>1, FailedState
  <2>2. ixs[n + 1].pulls = ComputePulls(resolved)
    BY <1>2
  <2>3. ixs[ixs[n + 1].finalize_ix_index + 1].pushes = ComputePushes(resolved)
    <3>1. ixs[n + 1].finalize_ix_index + 1 = n + 2
      BY <1>1, <1>2
    <3> QED BY <1>2, <3>1
  <2>4. u = ProcessAll(s, ixs[n + 1].pulls, ixs[ixs[n + 1].finalize_ix_index + 1].pushes)
    BY <1>8, <2>1, Zenon DEF ExecuteBegin
  <2> QED BY <2>2, <2>3, <2>4
<1>10. PullsAt(s, u, resolved, Len(resolved))
  BY <1>5, <1>7, <1>9, PullsDone
<1>11. IsChain(u)
  BY <1>10 DEF PullsAt
<1>12. t = PushFunds(u, ComputePushes(resolved))
  <2>1. ixs[n + 2].op = "finalize" /\ ixs[n + 2].pushes = ComputePushes(resolved)
    BY <1>2
  <2>2. t = PushFunds(u, ixs[n + 2].pushes)
    BY <1>5, <1>11, <2>1, ExecuteIs
  <2> QED BY <2>1, <2>2
<1>13. PushesAt(u, t, resolved, Len(resolved))
  BY <1>11, <1>12, PushesDone
<1> HIDE DEF g
<1> QED BY <1>7, <1>10, <1>13 DEF SettlesAs
-----------------------------------------------------------------------------
(* The invariant.  A command keeps the form of what it sends. *)
IsPrepared(c) ==
    /\ EnsureCowBalance(c.resolved)
    /\ \E setup : IsSeq(setup) /\ IsSetup(setup) /\ c.ixs = SettlementIxs(c.request.payer, setup, c.resolved)

IsRecord(c) ==
    c = [request |-> c.request, step |-> c.step, ixs |-> c.ixs, resolved |-> c.resolved, fresh |-> c.fresh]

IsCommand(c) ==
    /\ IsRecord(c)
    /\ c.request \in Requests
    /\ c.step = "prepare" => c.request.command = "settle"
    /\ c.request.command = "order" => IsOrderIxs(c.ixs, Last(c.ixs).intent)
    /\ c.request.command = "reclaim" => IsSeq(c.ixs) /\ \A k \in 1..Len(c.ixs) : c.ixs[k].op = "reclaim"
    /\ c.request.command = "settle" => c.step = "prepare" \/ IsPrepared(c)
    /\ IsResolved(c.resolved)

(* An order that the tool has just built has the account it buys into, or  *)
(* opens it.                                                               *)
OpensBuyAccount(c) ==
    LET a == Last(c.ixs).intent.buy_token_account IN
    a \in DOMAIN accounts \/ \E k \in 1..(Len(c.ixs) - 1) : c.ixs[k].account = a

(* A settlement that the tool has just built knows its orders, and the     *)
(* buffers of all mints it saw are there or opened.                        *)
HasBuffer(c, m) == Buffer[m] \in DOMAIN accounts \/ \E j \in 1..(Len(c.ixs) - 2) : m \in c.ixs[j].mints

SawChain(c) ==
    /\ c.resolved = ResolveIntents(c.request.orders)
    /\ \A i \in Range(c.request.orders) :
           /\ i \in DOMAIN orders
           /\ i.sell_token_account \in DOMAIN accounts
           /\ i.buy_token_account \in DOMAIN accounts
    /\ c.step # "prepare" => \A k \in 1..Len(c.resolved) :
           HasBuffer(c, c.resolved[k].sell) /\ HasBuffer(c, c.resolved[k].buy)

IsFresh(c) ==
    /\ c.request.command = "order" => OpensBuyAccount(c)
    /\ c.request.command = "settle" => SawChain(c)

CommandsOK ==
    /\ IsSeq(commands)
    /\ \A c \in 1..Len(commands) :
           /\ IsCommand(commands[c])
           /\ commands[c].fresh => IsFresh(commands[c])
    /\ \A c \in flight : c \in 1..Len(commands) /\ commands[c].step # "prepare"

(* An order that is not full was settled by the tool less often than       *)
(* created.                                                                *)
Times(counts, i) == IF i \in DOMAIN counts THEN counts[i] ELSE 0

CountsOK ==
    /\ \A i \in DOMAIN created : created[i] \in Nat
    /\ \A i \in DOMAIN settled : i \in DOMAIN created /\ settled[i] \in Nat /\ settled[i] <= created[i]
    /\ \A i \in DOMAIN orders :
           i \in DOMAIN created /\ (~FullyFilled(i, orders[i].fill) => Times(settled, i) < created[i])

(* What is at the address of a buffer is one. *)
BuffersOK(f) == \A m \in Mints : Buffer[m] \in DOMAIN f => IsBufferOf(f[Buffer[m]], m)

IInv ==
    /\ AccountsOK(accounts)
    /\ BuffersOK(accounts)
    /\ OrdersOK(orders)
    /\ CommandsOK
    /\ CountsOK

(* Every account of g is one of f, with the same owner and mint. *)
Kept(f, g) == \A a \in DOMAIN g : a \in DOMAIN f /\ g[a].owner = f[a].owner /\ g[a].mint = f[a].mint

LEMMA BuffersKept ==
    ASSUME NEW f, BuffersOK(f), NEW g, Kept(f, g)
    PROVE  BuffersOK(g)
BY DEF BuffersOK, Kept, IsBufferOf

LEMMA BuffersGrown ==
    ASSUME NEW f, BuffersOK(f), NEW g, Grown(f, g)
    PROVE  BuffersOK(g)
BY DEF BuffersOK, Grown, IsBufferOf, IsBuffer

LEMMA BuffersOpened ==
    ASSUME NEW f, BuffersOK(f), NEW M \in SUBSET Mints, NEW g, Opened(f, g, M)
    PROVE  BuffersOK(g)
<1> SUFFICES ASSUME NEW m \in Mints, Buffer[m] \in DOMAIN g PROVE IsBufferOf(g[Buffer[m]], m)
  BY DEF BuffersOK
<1>1. CASE Buffer[m] \in DOMAIN f
  BY <1>1 DEF BuffersOK, Opened
<1>2. CASE Buffer[m] \notin DOMAIN f
  <2>1. m \in M
    BY <1>2, TradingAssumption DEF Opened
  <2>2. g[Buffer[m]] = NewAccount(StatePda, m)
    BY <1>2, <2>1 DEF Opened
  <2> QED BY <2>2 DEF NewAccount, IsBufferOf
<1> QED BY <1>1, <1>2

LEMMA BuffersSettled ==
    ASSUME BuffersOK(accounts), NEW s, NEW u, NEW t, NEW setup, IsSetup(setup), NEW resolved,
           SettlesAs(s, u, t, setup, resolved)
    PROVE  BuffersOK(s.accounts) /\ BuffersOK(u.accounts) /\ BuffersOK(t.accounts)
<1>1. MintsOf(setup, Len(setup)) \in SUBSET Mints
  BY DEF MintsOf, IsSetup
<1>2. BuffersOK(s.accounts)
  BY <1>1, BuffersOpened DEF SettlesAs
<1>3. Kept(s.accounts, u.accounts) /\ Kept(u.accounts, t.accounts)
  BY DEF Kept, SettlesAs, PullsAt, PushesAt, Transferred
<1> QED BY <1>2, <1>3, BuffersKept

LEMMA SeqFields ==
    ASSUME NEW q, IsSeq(q)
    PROVE  DOMAIN q = 1..Len(q) /\ q \in Seq({q[k] : k \in 1..Len(q)})
<1> DEFINE n == Len(q)
           S == {q[k] : k \in 1..n}
<1>1. n \in Nat /\ q = [k \in 1..n |-> q[k]]
  BY DEF IsSeq
<1> HIDE DEF n
<1>2. DOMAIN q = 1..n /\ q \in [1..n -> S]
  BY <1>1
<1>3. q \in Seq(S)
  <2> HIDE DEF S
  <2> QED BY <1>1, <1>2
<1> QED BY <1>2, <1>3 DEF n

LEMMA SeqBuilt ==
    ASSUME NEW n \in Nat, NEW q, q = [k \in 1..n |-> q[k]]
    PROVE  IsSeq(q) /\ Len(q) = n
<1> DEFINE S == {q[k] : k \in 1..n}
<1>1. q \in [1..n -> S]
  BY Zenon
<1> HIDE DEF S
<1>2. Len(q) = n
  BY <1>1, LenIs
<1> QED BY <1>2 DEF IsSeq

LEMMA SeqJoined ==
    ASSUME NEW p, IsSeq(p), NEW q, IsSeq(q)
    PROVE  /\ IsSeq(p \o q)
           /\ Len(p \o q) = Len(p) + Len(q)
           /\ \A k \in 1..Len(p) : (p \o q)[k] = p[k]
           /\ \A k \in 1..Len(q) : (p \o q)[Len(p) + k] = q[k]
<1> DEFINE S == {p[k] : k \in 1..Len(p)} \cup {q[k] : k \in 1..Len(q)}
           r == p \o q
<1>1. p \in Seq(S) /\ q \in Seq(S)
  <2>1. /\ Len(p) \in Nat /\ p = [k \in 1..Len(p) |-> p[k]]
        /\ Len(q) \in Nat /\ q = [k \in 1..Len(q) |-> q[k]]
    BY DEF IsSeq
  <2>2. p \in [1..Len(p) -> S] /\ q \in [1..Len(q) -> S]
    BY <2>1
  <2> HIDE DEF S
  <2> QED BY <2>1, <2>2
<1> HIDE DEF S
<1>2. r \in Seq(S) /\ Len(r) = Len(p) + Len(q)
  BY <1>1
<1>3. IsSeq(r)
  <2> HIDE DEF r
  <2> QED BY <1>2 DEF IsSeq
<1>4. /\ \A k \in 1..Len(p) : r[k] = p[k]
      /\ \A k \in 1..Len(q) : r[Len(p) + k] = q[k]
  BY <1>1
<1> QED BY <1>2, <1>3, <1>4

LEMMA SeqOne ==
    ASSUME NEW e
    PROVE  IsSeq(<<e>>) /\ Len(<<e>>) = 1 /\ <<e>>[1] = e
BY DEF IsSeq

LEMMA SeqNone == IsSeq(<<>>) /\ Len(<<>>) = 0
BY DEF IsSeq

LEMMA SeqAppended ==
    ASSUME NEW q, IsSeq(q), NEW e
    PROVE  /\ IsSeq(Append(q, e))
           /\ Len(Append(q, e)) = Len(q) + 1
           /\ Append(q, e)[Len(q) + 1] = e
           /\ \A k \in 1..Len(q) : Append(q, e)[k] = q[k]
<1> DEFINE S == {q[k] : k \in 1..Len(q)} \cup {e}
           r == Append(q, e)
<1>1. q \in Seq(S) /\ e \in S
  <2>1. Len(q) \in Nat /\ q = [k \in 1..Len(q) |-> q[k]] /\ e \in S
    BY DEF IsSeq
  <2>2. q \in [1..Len(q) -> S]
    BY <2>1
  <2> HIDE DEF S
  <2> QED BY <2>1, <2>2
<1> HIDE DEF S
<1>2. r \in Seq(S) /\ Len(r) = Len(q) + 1
  BY <1>1
<1>3. IsSeq(r)
  <2> HIDE DEF r
  <2> QED BY <1>2 DEF IsSeq
<1>4. r[Len(q) + 1] = e /\ \A k \in 1..Len(q) : r[k] = q[k]
  BY <1>1
<1> QED BY <1>2, <1>3, <1>4

(* A new command leaves the earlier ones as they were. *)
LEMMA CommandBegun ==
    ASSUME IInv, NEW c, Begin(c), IsCommand(c), IsFresh(c),
           flight' = flight \/ (flight' = flight \cup {Len(commands) + 1} /\ c.step # "prepare")
    PROVE  IInv'
<1>1. /\ IsSeq(commands)
      /\ \A k \in 1..Len(commands) :
             IsCommand(commands[k]) /\ (commands[k].fresh => IsFresh(commands[k]))
      /\ \A k \in flight : k \in 1..Len(commands) /\ commands[k].step # "prepare"
  BY DEF IInv, CommandsOK
<1>2. commands' = Append(commands, c)
      /\ UNCHANGED <<accounts, orders, created, settled>>
  BY DEF Begin, chain
<1>3. /\ IsSeq(commands')
      /\ Len(commands') = Len(commands) + 1
      /\ commands'[Len(commands) + 1] = c
      /\ \A k \in 1..Len(commands) : commands'[k] = commands[k]
  BY <1>1, <1>2, SeqAppended
<1>4. Len(commands) \in Nat
  BY <1>1 DEF IsSeq
<1>5. ASSUME NEW k \in 1..Len(commands')
      PROVE  IsCommand(commands'[k]) /\ (commands'[k].fresh => IsFresh(commands'[k]))
  <2>1. CASE k = Len(commands) + 1
    BY <1>3, <2>1
  <2>2. CASE k # Len(commands) + 1
    <3>1. k \in 1..Len(commands)
      BY <1>3, <1>4, <2>2
    <3> QED BY <1>1, <1>3, <3>1
  <2> QED BY <2>1, <2>2
<1>6. ASSUME NEW k \in 1..Len(commands')
      PROVE  IsCommand(commands[k])' /\ (IsFresh(commands'[k]) => IsFresh(commands[k])')
  <2>1. IsCommand(commands[k])'
    BY <1>5 DEF IsCommand, IsPrepared
  <2>2. OpensBuyAccount(commands'[k]) => OpensBuyAccount(commands[k])'
    BY <1>2 DEF OpensBuyAccount
  <2>3. SawChain(commands'[k]) => SawChain(commands[k])'
    BY <1>2 DEF SawChain, HasBuffer, ResolveIntents
  <2> QED BY <2>1, <2>2, <2>3 DEF IsFresh
<1>7. \A k \in flight' : k \in 1..Len(commands') /\ commands'[k].step # "prepare"
  BY <1>1, <1>3, <1>4
<1>8. CommandsOK'
  BY <1>3, <1>5, <1>6, <1>7 DEF CommandsOK
<1>9. AccountsOK(accounts)' /\ BuffersOK(accounts)' /\ OrdersOK(orders)' /\ CountsOK'
  BY <1>2 DEF IInv, CountsOK
<1> QED BY <1>8, <1>9 DEF IInv

-----------------------------------------------------------------------------
(* The command line: what a term stands for has a mint, and an account     *)
(* that is there or is to be created.                                      *)
HasAtas(owner) == \A m \in Mints : ~IsBuffer(Ata[<<owner, m>>])

IsToken(token) ==
    /\ token.mint \in Mints
    /\ token.create_ata \/ token.account \in DOMAIN accounts
    /\ token.create_ata => ~IsBuffer(token.account)

LEMMA FromMint ==
    ASSUME NEW owner, HasAtas(owner), NEW mint \in Mints
    PROVE  /\ IsToken(ResolveFromMint(owner, mint))
           /\ ResolveFromMint(owner, mint).account = Ata[<<owner, mint>>]
BY Zenon DEF IsToken, ResolveFromMint, HasAtas

LEMMA FromAccount ==
    ASSUME AccountsOK(accounts), NEW a \in DOMAIN accounts
    PROVE  IsToken(ResolveFromAccount(a))
<1>1. accounts[a].mint \in Mints
  BY DEF AccountsOK, IsAccount
<1>2. ResolveFromAccount(a).mint = accounts[a].mint /\ ResolveFromAccount(a).account = a
  BY Zenon DEF ResolveFromAccount
<1>3. ~ResolveFromAccount(a).create_ata
  BY Zenon DEF ResolveFromAccount
<1> DEFINE token == ResolveFromAccount(a)
<1>4. token.mint \in Mints /\ token.account \in DOMAIN accounts /\ ~token.create_ata
  BY <1>1, <1>2, <1>3, Zenon
<1> HIDE DEF token
<1>5. IsToken(token)
  BY <1>4, Zenon DEF IsToken
<1> QED BY <1>5 DEF token

LEMMA SolResolved ==
    ASSUME NEW owner, NEW token, IsSol(token)
    PROVE  ResolveToken(owner, token) = ResolveFromMint(owner, NativeMint)
BY Zenon DEF ResolveToken

LEMMA TokenResolved ==
    ASSUME AccountsOK(accounts), NEW owner, HasAtas(owner), NEW token, CanResolve(token)
    PROVE  IsToken(ResolveToken(owner, token))
<1> DEFINE m == IF token \in Mints THEN token ELSE Symbols[token]
<1>1. NativeMint \in Mints /\ \A symbol \in DOMAIN Symbols : Symbols[symbol] \in Mints
  BY TradingAssumption
<1>2. CASE IsSol(token)
  BY <1>1, <1>2, SolResolved, FromMint
<1>3. CASE ~IsSol(token) /\ token \in DOMAIN accounts
  <2>1. ResolveToken(owner, token) = ResolveFromAccount(token)
    BY <1>3, Zenon DEF ResolveToken
  <2> QED BY <1>3, <2>1, FromAccount
<1>4. CASE ~IsSol(token) /\ token \notin DOMAIN accounts
  <2>1. ResolveToken(owner, token) = ResolveFromMint(owner, m)
    BY <1>4, Zenon DEF ResolveToken
  <2>2. m \in Mints
    BY <1>1, <1>4 DEF CanResolve
  <2> HIDE DEF m
  <2> QED BY <2>1, <2>2, FromMint
<1> QED BY <1>2, <1>3, <1>4
LEMMA AmountResolved ==
    ASSUME NEW amount, NEW decimals, CanResolveAmount(amount, decimals)
    PROVE  ResolveAmount(amount, decimals) \in 1..U64Max
<1>1. CASE amount = Omitted
  <2>1. ResolveAmount(amount, decimals) = 1
    BY <1>1, Zenon DEF ResolveAmount
  <2> QED BY <2>1, U64MaxAssumption
<1>2. CASE amount # Omitted
  BY <1>2, Zenon DEF CanResolveAmount
<1> QED BY <1>1, <1>2

LEMMA RequestAtas ==
    ASSUME NEW r \in Requests, r.command = "order"
    PROVE  HasAtas(r.payer)
BY TradingAssumption DEF IsRequest, HasAtas, IsBuffer

LEMMA OrderParsed ==
    ASSUME AccountsOK(accounts), NEW r \in Requests, r.command = "order", CanParse(r),
           NEW parsed, parsed = ParseOrder(r)
    PROVE  /\ IsToken(parsed.sell)
           /\ IsToken(parsed.buy)
           /\ parsed.sell_amount \in 1..U64Max
           /\ parsed.buy_amount \in 1..U64Max
           /\ parsed.sell_is_sol => parsed.sell.account = Ata[<<r.payer, NativeMint>>]
<1> DEFINE sides == Sides(r.kind, r.terms)
           sell == ResolveToken(r.payer, sides.sell[1])
           buy == ResolveToken(r.payer, sides.buy[1])
<1>1. \A side \in {"sell", "buy"} :
          /\ CanResolve(sides[side][1])
          /\ CanResolveAmount(sides[side][2], Decimals[ResolveToken(r.payer, sides[side][1]).mint])
  BY Zenon DEF CanParse
<1>2. /\ CanResolve(sides.sell[1]) /\ CanResolve(sides.buy[1])
      /\ CanResolveAmount(sides.sell[2], Decimals[sell.mint])
      /\ CanResolveAmount(sides.buy[2], Decimals[buy.mint])
  <2> HIDE DEF sides
  <2>1. "sell" \in {"sell", "buy"} /\ "buy" \in {"sell", "buy"}
    OBVIOUS
  <2> QED BY <1>1, <2>1, Zenon
<1>3. /\ parsed.sell = sell /\ parsed.buy = buy
      /\ parsed.sell_is_sol = (sides.sell[1] = "SOL")
      /\ parsed.sell_amount = ResolveAmount(sides.sell[2], Decimals[sell.mint])
      /\ parsed.buy_amount = ResolveAmount(sides.buy[2], Decimals[buy.mint])
  BY Zenon DEF ParseOrder
<1> DEFINE payer == r.payer
<1>8. HasAtas(payer)
  BY RequestAtas
<1>4. IsToken(sell) /\ IsToken(buy)
  BY <1>2, <1>8, TokenResolved
<1>5. /\ ResolveAmount(sides.sell[2], Decimals[sell.mint]) \in 1..U64Max
      /\ ResolveAmount(sides.buy[2], Decimals[buy.mint]) \in 1..U64Max
  <2> HIDE DEF sides, sell, buy
  <2> QED BY <1>2, AmountResolved
<1>6. sides.sell[1] = "SOL" => sell.account = Ata[<<r.payer, NativeMint>>]
  <2>1. ASSUME IsSol(sides.sell[1])
        PROVE  sell.account = Ata[<<r.payer, NativeMint>>]
    BY <1>8, <2>1, SolResolved, FromMint, TradingAssumption
  <2> HIDE DEF sides, sell
  <2> QED BY <2>1, Zenon DEF IsSol
<1> HIDE DEF sides, sell, buy
<1>7. parsed.sell_is_sol => sides.sell[1] = "SOL"
  BY <1>3, Zenon
<1> QED BY <1>3, <1>4, <1>5, <1>6, <1>7

(* What is in front of the approval: instructions of P, which has those    *)
(* that open an account for the tokens bought and wrap the SOL sold.       *)
LEMMA CreateAtaIs ==
    ASSUME NEW payer, NEW token, IsToken(token), NEW q, q = CreateAtaIx(payer, token)
    PROVE  /\ IsSeq(q)
           /\ \A k \in 1..Len(q) : IsAtaIx(q[k])
           /\ token.account \in DOMAIN accounts \/ (Len(q) = 1 /\ q[1].account = token.account)
<1> DEFINE ix == [op |-> "create_ata", account |-> token.account, owner |-> payer, mint |-> token.mint]
<1>1. CASE token.create_ata
  <2>1. q = <<ix>>
    BY <1>1, Zenon DEF CreateAtaIx
  <2>2. IsAtaIx(ix) /\ ix.account = token.account
    <3>1. ~IsBuffer(token.account) /\ token.mint \in Mints
      BY <1>1, Zenon DEF IsToken
    <3> QED BY <3>1 DEF IsAtaIx
  <2> HIDE DEF ix
  <2>3. IsSeq(q) /\ Len(q) = 1 /\ q[1] = ix
    BY <2>1, SeqOne
  <2> QED BY <2>2, <2>3
<1>2. CASE ~token.create_ata
  <2>1. q = <<>>
    BY <1>2, Zenon DEF CreateAtaIx
  <2>2. IsSeq(q) /\ Len(q) = 0
    BY <2>1, SeqNone
  <2>3. token.account \in DOMAIN accounts
    BY <1>2, Zenon DEF IsToken
  <2> QED BY <2>2, <2>3
<1> QED BY <1>1, <1>2

IsWrap(q, payer, amount) ==
    /\ IsSeq(q)
    /\ \A k \in 1..Len(q) :
           \/ IsAtaIx(q[k])
           \/ q[k].op = "wrap" /\ q[k].account = Ata[<<payer, NativeMint>>] /\ q[k].amount = amount

LEMMA WrapIs ==
    ASSUME NEW payer, HasAtas(payer), NEW amount \in Nat, NEW q, q = WrapSol(payer, amount)
    PROVE  IsWrap(q, payer, amount)
<1> DEFINE wsol == ResolveToken(payer, "WSOL")
           a == CreateAtaIx(payer, wsol)
           ix == [op |-> "wrap", from |-> payer, account |-> wsol.account, amount |-> amount]
<1>1. IsToken(wsol) /\ wsol.account = Ata[<<payer, NativeMint>>]
  <2>1. IsSol("WSOL") /\ NativeMint \in Mints
    BY TradingAssumption DEF IsSol
  <2> QED BY <2>1, SolResolved, FromMint
<1>2. q = a \o <<ix>>
  BY Zenon DEF WrapSol
<1> HIDE DEF wsol
<1>3. /\ IsSeq(a)
      /\ \A k \in 1..Len(a) : IsAtaIx(a[k])
  BY <1>1, CreateAtaIs
<1>4. ix.op = "wrap" /\ ix.account = Ata[<<payer, NativeMint>>] /\ ix.amount = amount
  BY <1>1
<1>5. IsSeq(<<ix>>) /\ Len(<<ix>>) = 1 /\ <<ix>>[1] = ix
  BY SeqOne
<1> HIDE DEF a, ix
<1>6. /\ IsSeq(q) /\ Len(q) = Len(a) + 1
      /\ \A k \in 1..Len(a) : q[k] = a[k]
      /\ q[Len(a) + 1] = ix
  BY <1>2, <1>3, <1>5, SeqJoined
<1>7. Len(a) \in Nat
  BY <1>3 DEF IsSeq
<1>8. ASSUME NEW k \in 1..Len(q) PROVE k \in 1..Len(a) \/ k = Len(a) + 1
  BY <1>6, <1>7
<1> QED BY <1>3, <1>4, <1>6, <1>8 DEF IsWrap
(* One more instruction. *)
LEMMA OneMore ==
    ASSUME NEW p, IsSeq(p), NEW x
    PROVE  /\ IsSeq(p \o <<x>>)
           /\ Len(p \o <<x>>) = Len(p) + 1
           /\ \A k \in 1..Len(p) : (p \o <<x>>)[k] = p[k]
           /\ (p \o <<x>>)[Len(p) + 1] = x
<1> DEFINE e == <<x>>
<1>1. IsSeq(e) /\ Len(e) = 1 /\ e[1] = x
  BY SeqOne
<1> HIDE DEF e
<1>2. /\ IsSeq(p \o e) /\ Len(p \o e) = Len(p) + Len(e)
      /\ \A k \in 1..Len(p) : (p \o e)[k] = p[k]
      /\ \A k \in 1..Len(e) : (p \o e)[Len(p) + k] = e[k]
  <2>1. IsSeq(e)
    BY <1>1
  <2> QED BY <2>1, SeqJoined
<1> DEFINE q == p \o e
<1> HIDE DEF q
<1>3. /\ IsSeq(q) /\ Len(q) = Len(p) + 1
      /\ \A k \in 1..Len(p) : q[k] = p[k]
      /\ q[Len(p) + 1] = x
  <2>1. /\ IsSeq(q) /\ Len(q) = Len(p) + Len(e)
        /\ \A k \in 1..Len(p) : q[k] = p[k]
        /\ \A k \in 1..Len(e) : q[Len(p) + k] = e[k]
    BY <1>2, Zenon DEF q
  <2> QED BY <1>1, <2>1
<1> QED BY <1>3, Zenon DEF q, e

LEMMA OrderBuilt ==
    ASSUME AccountsOK(accounts), NEW r \in Requests, r.command = "order", CanParse(r),
           NEW ixs, ixs = ExecuteOrder(r, ParseOrder(r))
    PROVE  /\ IsOrderIxs(ixs, OrderOf(r, ParseOrder(r)))
           /\ LET a == ParseOrder(r).buy.account IN
              a \in DOMAIN accounts \/ \E k \in 1..(Len(ixs) - 1) : ixs[k].account = a
<1> DEFINE parsed == ParseOrder(r)
           i == OrderOf(r, parsed)
           w == IF parsed.sell_is_sol THEN WrapSol(r.payer, parsed.sell_amount) ELSE <<>>
           b == CreateAtaIx(r.payer, parsed.buy)
           x == [op |-> "approve", account |-> parsed.sell.account, owner |-> r.payer,
                 amount |-> parsed.sell_amount]
           y == [op |-> "create_order", owner |-> r.payer, created_by |-> r.payer, intent |-> i]
           front == w \o b
           n == Len(front)
           ok(ix) == \/ IsAtaIx(ix)
                     \/ ix.op = "wrap" /\ ix.account = parsed.sell.account /\ ix.amount = parsed.sell_amount
<1>1. /\ IsToken(parsed.sell)
      /\ IsToken(parsed.buy)
      /\ parsed.sell_amount \in 1..U64Max
      /\ parsed.buy_amount \in 1..U64Max
      /\ parsed.sell_is_sol => parsed.sell.account = Ata[<<r.payer, NativeMint>>]
  BY OrderParsed
<1>2. parsed.sell_amount \in Nat
  BY <1>1, U64MaxAssumption
<1>3. ixs = ((w \o b) \o <<x>>) \o <<y>>
  BY Zenon DEF ExecuteOrder, Approve
<1> HIDE DEF parsed
<1>4. /\ i.sell_token_account = parsed.sell.account /\ i.buy_token_account = parsed.buy.account
      /\ i.sell_amount = parsed.sell_amount /\ i.buy_amount = parsed.buy_amount /\ i.kind = r.kind
  BY Zenon DEF OrderOf
<1>5. IsIntent(i)
  <2>1. r.kind \in OrderKind
    BY TradingAssumption DEF IsRequest
  <2> HIDE DEF i
  <2> QED BY <1>1, <1>4, <2>1 DEF IsIntent
<1> HIDE DEF i
<1>6. /\ x.op = "approve" /\ x.account = parsed.sell.account /\ x.amount = parsed.sell_amount
      /\ y.op = "create_order" /\ y.intent = i
  OBVIOUS
<1> HIDE DEF x, y
<1>7. IsSeq(w) /\ \A k \in 1..Len(w) : ok(w[k])
  <2>1. CASE parsed.sell_is_sol
    <3>1. w = WrapSol(r.payer, parsed.sell_amount)
      BY <2>1, Zenon
    <3>2. parsed.sell.account = Ata[<<r.payer, NativeMint>>]
      BY <1>1, <2>1, Zenon
    <3> HIDE DEF w
    <3>3. /\ IsSeq(w)
          /\ \A k \in 1..Len(w) :
                 \/ IsAtaIx(w[k])
                 \/ w[k].op = "wrap" /\ w[k].account = Ata[<<r.payer, NativeMint>>]
                    /\ w[k].amount = parsed.sell_amount
      <4> DEFINE payer == r.payer
                 amount == parsed.sell_amount
      <4>1. amount \in Nat /\ w = WrapSol(payer, amount)
        BY <1>2, <3>1
      <4>3. HasAtas(payer)
        BY RequestAtas
      <4> HIDE DEF payer, amount
      <4>2. IsWrap(w, payer, amount)
        BY <4>1, <4>3, WrapIs, Zenon
      <4> QED BY <4>2 DEF payer, amount, IsWrap
    <3> QED BY <3>2, <3>3
  <2>2. CASE ~parsed.sell_is_sol
    <3>1. w = <<>>
      BY <2>2, Zenon
    <3>2. IsSeq(w) /\ Len(w) = 0
      BY <3>1, SeqNone
    <3> HIDE DEF w, ok
    <3> QED BY <3>2
  <2> QED BY <2>1, <2>2
<1>8. /\ IsSeq(b) /\ \A k \in 1..Len(b) : ok(b[k])
      /\ parsed.buy.account \in DOMAIN accounts \/ (Len(b) = 1 /\ b[1].account = parsed.buy.account)
  BY <1>1, CreateAtaIs
<1> HIDE DEF w, b
<1>9. Len(w) \in Nat /\ Len(b) \in Nat
  BY <1>7, <1>8 DEF IsSeq
<1>10. /\ IsSeq(front) /\ n = Len(w) + Len(b)
       /\ \A k \in 1..Len(w) : front[k] = w[k]
       /\ \A k \in 1..Len(b) : front[Len(w) + k] = b[k]
  BY <1>7, <1>8, SeqJoined
<1> HIDE DEF front
<1>11. n \in Nat
  BY <1>9, <1>10
<1>12. ASSUME NEW k \in 1..n PROVE ok(front[k])
  <2>1. CASE k <= Len(w)
    <3>1. k \in 1..Len(w)
      BY <1>9, <2>1
    <3> QED BY <1>7, <1>10, <3>1
  <2>2. CASE ~(k <= Len(w))
    <3>1. k - Len(w) \in 1..Len(b) /\ Len(w) + (k - Len(w)) = k
      BY <1>9, <1>10, <2>2
    <3>2. front[k] = b[k - Len(w)]
      BY <1>10, <3>1
    <3> QED BY <1>8, <3>1, <3>2
  <2> QED BY <2>1, <2>2
<1>13. ixs = (front \o <<x>>) \o <<y>>
  BY <1>3 DEF front
<1>14. /\ IsSeq(ixs) /\ Len(ixs) = n + 2
       /\ \A k \in 1..n : ixs[k] = front[k]
       /\ ixs[n + 1] = x /\ ixs[n + 2] = y
  <2>1. IsSeq(front)
    BY <1>10
  <2>2. n \in Nat
    BY <1>11
  <2> DEFINE p == front \o <<x>>
             q == p \o <<y>>
  <2>3. /\ IsSeq(p) /\ Len(p) = Len(front) + 1
        /\ \A k \in 1..Len(front) : p[k] = front[k]
        /\ p[Len(front) + 1] = x
    BY <2>1, OneMore, Zenon
  <2>4. ixs = p \o <<y>>
    BY <1>13
  <2> HIDE DEF p
  <2>5. /\ IsSeq(q) /\ Len(q) = Len(p) + 1
        /\ \A k \in 1..Len(p) : q[k] = p[k]
        /\ q[Len(p) + 1] = y
    <3>1. IsSeq(p)
      BY <2>3
    <3> QED BY <3>1, OneMore, ZenonT(60)
  <2>6. ixs = q
    BY <2>4
  <2> HIDE DEF q
  <2>7. Len(q) = n + 2 /\ q[n + 2] = y /\ n + 1 \in 1..Len(p) /\ \A k \in 1..n : k \in 1..Len(p)
    BY <2>2, <2>3, <2>5
  <2> QED BY <2>3, <2>5, <2>6, <2>7
<1> HIDE DEF n
<1>15. /\ Len(ixs) \in Nat \ {0, 1} /\ DOMAIN ixs = 1..Len(ixs)
       /\ ixs[Len(ixs)] = y /\ ixs[Len(ixs) - 1] = x
  <2>1. Len(ixs) - 1 = n + 1 /\ Len(ixs) \in Nat \ {0, 1}
    BY <1>11, <1>14
  <2> QED BY <1>14, <2>1, SeqFields
<1>16. ASSUME NEW k \in 1..(Len(ixs) - 1)
       PROVE  /\ IsPreparation(ixs[k])
              /\ ixs[k].op = "wrap" => ixs[k].account = i.sell_token_account /\ ixs[k].amount = i.sell_amount
  <2>1. CASE k = n + 1
    BY <1>2, <1>6, <1>14, <2>1 DEF IsPreparation
  <2>2. CASE k # n + 1
    <3>1. k \in 1..n
      BY <1>11, <1>14, <2>2
    <3>2. ok(ixs[k])
      BY <1>12, <1>14, <3>1
    <3> QED BY <1>2, <1>4, <3>2 DEF IsPreparation, IsAtaIx
  <2> QED BY <2>1, <2>2
<1>17. IsOrderIxs(ixs, i)
  BY <1>4, <1>5, <1>6, <1>15, <1>16 DEF IsOrderIxs
<1>18. parsed.buy.account \in DOMAIN accounts
         \/ \E k \in 1..(Len(ixs) - 1) : ixs[k].account = parsed.buy.account
  <2> SUFFICES ASSUME Len(b) = 1, b[1].account = parsed.buy.account
               PROVE  \E k \in 1..(Len(ixs) - 1) : ixs[k].account = parsed.buy.account
    BY <1>8
  <2>1. 1 \in 1..Len(b) /\ Len(w) + 1 \in 1..n /\ Len(w) + 1 \in 1..(Len(ixs) - 1)
    BY <1>9, <1>10, <1>11, <1>14 DEF n
  <2>2. ixs[Len(w) + 1] = b[1]
    BY <1>10, <1>14, <2>1
  <2> QED BY <2>1, <2>2
<1> QED BY <1>17, <1>18 DEF parsed, i
LEMMA NoneResolved == IsResolved(<<>>)
<1>1. Len(<<>>) = 0 /\ DOMAIN <<>> = {} /\ 1..0 = {}
  OBVIOUS
<1> QED BY <1>1 DEF IsResolved

LEMMA RunOrderKeeps ==
    ASSUME IInv, NEW r \in Requests, RunOrder(r)
    PROVE  IInv'
<1> DEFINE parsed == ParseOrder(r)
           ixs == ExecuteOrder(r, parsed)
           i == OrderOf(r, parsed)
           c == Command(r, "sent", ixs)
<1>1. /\ r.command = "order" /\ CanParse(r) /\ Begin(c)
      /\ flight' = flight \cup {Len(commands) + 1}
  BY Zenon DEF RunOrder, Submit
<1>2. c.request = r /\ c.step = "sent" /\ c.ixs = ixs /\ c.resolved = <<>> /\ IsRecord(c)
  BY Zenon DEF Command, IsRecord
<1>3. /\ IsOrderIxs(ixs, i)
      /\ parsed.buy.account \in DOMAIN accounts
           \/ \E k \in 1..(Len(ixs) - 1) : ixs[k].account = parsed.buy.account
  BY <1>1, OrderBuilt DEF IInv
<1>4. i.buy_token_account = parsed.buy.account
  BY Zenon DEF OrderOf
<1> HIDE DEF i, ixs, c, parsed
<1>5. Last(c.ixs).intent = i
  BY <1>2, <1>3 DEF Last, IsOrderIxs
<1>6. IsCommand(c)
  <2>1. IsResolved(c.resolved)
    BY <1>2, NoneResolved
  <2> QED BY <1>1, <1>2, <1>3, <1>5, <2>1 DEF IsCommand
<1>7. IsFresh(c)
  BY <1>1, <1>2, <1>3, <1>4, <1>5 DEF OpensBuyAccount, IsFresh
<1> QED BY <1>1, <1>2, <1>6, <1>7, CommandBegun

LEMMA RunReclaimKeeps ==
    ASSUME IInv, NEW r \in Requests, RunReclaim(r)
    PROVE  IInv'
<1> DEFINE ixs == [k \in DOMAIN r.orders |->
                      [op |-> "reclaim", intent |-> r.orders[k], owner |-> r.payer,
                       recipient |-> orders[r.orders[k]].created_by]]
           c == Command(r, "sent", ixs)
           n == Len(r.orders)
<1>1. /\ r.command = "reclaim" /\ Begin(c)
      /\ flight' = flight \cup {Len(commands) + 1}
  BY Zenon DEF RunReclaim, Submit
<1>2. c.request = r /\ c.step = "sent" /\ c.ixs = ixs /\ c.resolved = <<>> /\ IsRecord(c)
  BY Zenon DEF Command, IsRecord
<1>3. r.orders \in Seq(Range(r.orders))
  BY <1>1, TradingAssumption DEF IsRequest
<1>4. n \in Nat /\ DOMAIN r.orders = 1..n
  BY <1>3
<1>5. ixs = [k \in 1..n |-> ixs[k]] /\ \A k \in 1..n : ixs[k].op = "reclaim"
  BY <1>4
<1> HIDE DEF ixs, c, n
<1>6. IsSeq(ixs) /\ \A k \in 1..Len(ixs) : ixs[k].op = "reclaim"
  BY <1>4, <1>5, SeqBuilt
<1>7. IsCommand(c)
  <2>1. IsResolved(c.resolved)
    BY <1>2, NoneResolved
  <2> QED BY <1>1, <1>2, <1>6, <2>1 DEF IsCommand
<1>8. IsFresh(c)
  BY <1>1, <1>2 DEF IsFresh
<1> QED BY <1>1, <1>2, <1>7, <1>8, CommandBegun

LEMMA RunSettleKeeps ==
    ASSUME IInv, NEW r \in Requests, RunSettle(r)
    PROVE  IInv'
<1> DEFINE list == r.orders
           resolved == ResolveIntents(list)
           c == [Command(r, "prepare", <<>>) EXCEPT !.resolved = resolved]
           n == Len(list)
<1>1. /\ r.command = "settle" /\ Begin(c) /\ flight' = flight
      /\ \A i \in Range(list) :
             /\ i \in DOMAIN orders
             /\ {i.sell_token_account, i.buy_token_account} \subseteq DOMAIN accounts
  BY Zenon DEF RunSettle
<1>2. c.request = r /\ c.step = "prepare" /\ c.resolved = resolved /\ IsRecord(c)
  <2> DEFINE yes == TRUE
             no_ixs == <<>>
             d == [request |-> r, step |-> "prepare", ixs |-> no_ixs, resolved |-> <<>>, fresh |-> yes]
  <2>1. c = [d EXCEPT !.resolved = resolved]
    BY Zenon DEF Command
  <2> HIDE DEF yes, resolved, no_ixs, c
  <2>2. c = [request |-> r, step |-> "prepare", ixs |-> no_ixs, resolved |-> resolved, fresh |-> yes]
    BY <2>1
  <2> QED BY <2>2, Zenon DEF IsRecord
<1>3. list \in Seq(Range(list))
  BY <1>1, TradingAssumption DEF IsRequest
<1>4. n \in Nat /\ DOMAIN list = 1..n
  BY <1>3
<1>5. /\ resolved = [k \in 1..n |-> resolved[k]]
      /\ \A k \in 1..n : /\ resolved[k].intent = list[k]
                         /\ resolved[k].sell = accounts[list[k].sell_token_account].mint
                         /\ resolved[k].buy = accounts[list[k].buy_token_account].mint
  BY <1>4 DEF ResolveIntents
<1>6. \A k \in 1..n : /\ list[k] \in DOMAIN orders
                      /\ list[k].sell_token_account \in DOMAIN accounts
                      /\ list[k].buy_token_account \in DOMAIN accounts
  BY <1>1, <1>4 DEF Range
<1>7. \A i \in DOMAIN orders : IsIntent(i)
  BY DEF IInv, OrdersOK, IsOrder
<1>8. \A a \in DOMAIN accounts : accounts[a].mint \in Mints
  BY DEF IInv, AccountsOK, IsAccount
<1> HIDE DEF resolved, c, n, list
<1>9. IsSeq(resolved) /\ Len(resolved) = n
  BY <1>4, <1>5, SeqBuilt
<1>10. DOMAIN resolved = 1..n
  BY <1>9, SeqFields
<1>11. IsResolved(resolved)
  BY <1>4, <1>5, <1>6, <1>7, <1>8, <1>9, <1>10 DEF IsResolved
<1>12. IsCommand(c)
  BY <1>1, <1>2, <1>11 DEF IsCommand
<1>13. IsFresh(c)
  BY <1>1, <1>2 DEF IsFresh, SawChain, resolved, list
<1> QED BY <1>1, <1>2, <1>12, <1>13, CommandBegun
LEMMA FreshReplaced ==
    ASSUME NEW c, IsRecord(c), NEW no
    PROVE  LET d == [c EXCEPT !.fresh = no] IN
           /\ d.request = c.request /\ d.step = c.step /\ d.ixs = c.ixs /\ d.resolved = c.resolved
           /\ d.fresh = no
           /\ IsRecord(d)
<1> DEFINE v == c.request
           w == c.step
           x == c.ixs
           y == c.resolved
           z == c.fresh
           d == [c EXCEPT !.fresh = no]
<1>1. c = [request |-> v, step |-> w, ixs |-> x, resolved |-> y, fresh |-> z]
  BY Zenon DEF IsRecord
<1> HIDE DEF v, w, x, y, z
<1>2. d = [request |-> v, step |-> w, ixs |-> x, resolved |-> y, fresh |-> no]
  BY <1>1
<1> HIDE DEF d
<1>3. d.request = v /\ d.step = w /\ d.ixs = x /\ d.resolved = y /\ d.fresh = no
  BY <1>2
<1>4. IsRecord(d)
  BY <1>2, <1>3, Zenon DEF IsRecord
<1> QED BY <1>3, <1>4, Zenon DEF v, w, x, y, d

LEMMA CommandOutdated ==
    ASSUME NEW c, IsRecord(c), NEW d, d = [c EXCEPT !.fresh = FALSE]
    PROVE  /\ d.request = c.request /\ d.step = c.step /\ d.ixs = c.ixs /\ d.resolved = c.resolved
           /\ ~d.fresh
           /\ IsRecord(d)
<1>1. LET e == [c EXCEPT !.fresh = FALSE] IN
      /\ e.request = c.request /\ e.step = c.step /\ e.ixs = c.ixs /\ e.resolved = c.resolved
      /\ e.fresh = FALSE
      /\ IsRecord(e)
  BY FreshReplaced, Zenon
<1> QED BY <1>1, Zenon
(* Something happened: no command is fresh any more. *)
LEMMA CommandsOutdated ==
    ASSUME CommandsOK, commands' = Outdated(commands), flight' \subseteq flight
    PROVE  CommandsOK'
<1> DEFINE n == Len(commands)
<1>1. /\ IsSeq(commands) /\ n \in Nat /\ DOMAIN commands = 1..n
      /\ \A k \in 1..n : IsCommand(commands[k])
      /\ \A k \in flight : k \in 1..n /\ commands[k].step # "prepare"
  BY SeqFields DEF CommandsOK, IsSeq
<1>2. /\ commands' = [k \in 1..n |-> commands'[k]]
      /\ \A k \in 1..n : commands'[k] = [commands[k] EXCEPT !.fresh = FALSE]
  BY <1>1, Zenon DEF Outdated
<1>3. IsSeq(commands') /\ Len(commands') = n
  BY <1>1, <1>2, SeqBuilt
<1>4. ASSUME NEW k \in 1..n
      PROVE  /\ commands'[k].request = commands[k].request /\ commands'[k].step = commands[k].step
             /\ commands'[k].ixs = commands[k].ixs /\ commands'[k].resolved = commands[k].resolved
             /\ ~commands'[k].fresh /\ IsRecord(commands'[k])
  <2> DEFINE c == commands[k]
             d == commands'[k]
  <2>1. IsRecord(c) /\ d = [c EXCEPT !.fresh = FALSE]
    BY <1>1, <1>2, Zenon DEF IsCommand
  <2> HIDE DEF c, d
  <2>2. /\ d.request = c.request /\ d.step = c.step /\ d.ixs = c.ixs /\ d.resolved = c.resolved
        /\ ~d.fresh
        /\ IsRecord(d)
    BY <2>1, CommandOutdated, Zenon
  <2> QED BY <2>2, Zenon DEF c, d
<1>5. ASSUME NEW k \in 1..n PROVE IsCommand(commands'[k])
  BY <1>1, <1>4, <1>5 DEF IsCommand, IsPrepared
<1>6. \A k \in flight' : k \in 1..n /\ commands'[k].step # "prepare"
  BY <1>1, <1>4
<1>7. \A k \in 1..n : ~commands'[k].fresh
  BY <1>4, Zenon
<1> HIDE DEF n
<1>8. \A k \in 1..Len(commands') : IsCommand(commands'[k]) /\ (commands'[k].fresh => IsFresh(commands[k])')
  BY <1>3, <1>5, <1>7, Zenon
<1>9. \A k \in flight' : k \in 1..Len(commands') /\ commands'[k].step # "prepare"
  BY <1>3, <1>6
<1> QED BY <1>3, <1>8, <1>9, Zenon DEF CommandsOK
-----------------------------------------------------------------------------
(* The settle command builds its transaction, and simulates it. *)
LEMMA SetToSeqIs ==
    ASSUME NEW S, IsFiniteSet(S)
    PROVE  \E n \in Nat : /\ SetToSeq(S) \in [1..n -> S]
                          /\ \A x \in S : \E k \in 1..n : SetToSeq(S)[k] = x
<1> DEFINE n == Cardinality(S)
           f == SetToSeq(S)
<1>1. n \in Nat /\ ExistsBijection(1..n, S)
  BY FS_CardinalityType
<1> HIDE DEF n
<1>2. \E g \in [1..n -> S] : IsInjective(g)
  BY <1>1 DEF ExistsBijection, Bijection, Injection
<1>3. f \in [1..n -> S] /\ IsInjective(f)
  BY <1>2, Zenon DEF SetToSeq, n
<1> HIDE DEF f
<1>4. f \in Injection(1..n, S)
  BY <1>3 DEF Injection, IsInjective
<1>5. Cardinality(1..n) = n
  BY <1>1, FS_Interval
<1>6. f \in Surjection(1..n, S)
  BY <1>4, <1>5, FS_Injection DEF n
<1>7. \A x \in S : \E k \in 1..n : f[k] = x
  BY <1>6 DEF Surjection
<1> QED BY <1>1, <1>3, <1>7 DEF f

LEMMA SetupIs ==
    ASSUME NEW missing \in SUBSET Mints, IsFiniteSet(missing), NEW setup, setup = SetupIxs(missing)
    PROVE  /\ IsSeq(setup)
           /\ IsSetup(setup)
           /\ \A m \in missing : \E j \in 1..Len(setup) : m \in setup[j].mints
<1> DEFINE S == {Programs[m] : m \in missing}
           programs == SetToSeq(S)
           of(k) == {m \in missing : Programs[m] = programs[k]}
<1>1. IsFiniteSet(S)
  BY ImageFinite
<1>2. PICK n \in Nat : /\ programs \in [1..n -> S]
                       /\ \A x \in S : \E k \in 1..n : programs[k] = x
  BY <1>1, SetToSeqIs
<1>3. setup = [k \in DOMAIN programs |-> [op |-> "create_buffers", mints |-> of(k)]]
  BY Zenon DEF SetupIxs
<1>4. \A m \in missing : Programs[m] \in S
  OBVIOUS
<1> HIDE DEF S
<1>5. DOMAIN programs = 1..n
  BY <1>2
<1> HIDE DEF programs
<1>6. /\ setup = [k \in 1..n |-> setup[k]]
      /\ \A k \in 1..n : setup[k].op = "create_buffers" /\ setup[k].mints = of(k)
  BY <1>3, <1>5
<1>7. IsSeq(setup) /\ Len(setup) = n
  BY <1>6, SeqBuilt
<1>8. DOMAIN setup = 1..n
  BY <1>7, SeqFields
<1>9. IsSetup(setup)
  BY <1>6, <1>7, <1>8 DEF IsSetup
<1>10. ASSUME NEW m \in missing PROVE \E j \in 1..n : m \in setup[j].mints
  <2>1. PICK k \in 1..n : programs[k] = Programs[m]
    BY <1>2, <1>4
  <2> QED BY <1>6, <2>1
<1> QED BY <1>7, <1>9, <1>10

LEMMA MissingIs ==
    ASSUME NEW resolved, IsResolved(resolved), NEW unanswered,
           NEW missing, missing = MintsToCreate(resolved, unanswered)
    PROVE  /\ missing \in SUBSET Mints
           /\ IsFiniteSet(missing)
           /\ \A k \in 1..Len(resolved) :
                  /\ Buffer[resolved[k].sell] \in DOMAIN accounts \/ resolved[k].sell \in missing
                  /\ Buffer[resolved[k].buy] \in DOMAIN accounts \/ resolved[k].buy \in missing
<1> DEFINE n == Len(resolved)
           f == [k \in 1..n |-> resolved[k].sell]
           g == [k \in 1..n |-> resolved[k].buy]
           A == {f[k] : k \in 1..n}
           B == {g[k] : k \in 1..n}
           all == UNION {{r.sell, r.buy} : r \in Range(resolved)}
<1>1. n \in Nat /\ DOMAIN resolved = 1..n
      /\ \A k \in 1..n : resolved[k].sell \in Mints /\ resolved[k].buy \in Mints
  BY DEF IsResolved
<1>2. IsFiniteSet(1..n)
  BY <1>1, FS_Interval
<1>3. IsFiniteSet(A) /\ IsFiniteSet(B)
  <2> HIDE DEF f, g
  <2> QED BY <1>2, ImageFinite
<1>4. IsFiniteSet(A \cup B)
  BY <1>3, FS_Union
<1>5. all = A \cup B
  BY <1>1 DEF Range
<1>6. A \cup B \subseteq Mints /\ \A k \in 1..n : resolved[k].sell \in A /\ resolved[k].buy \in B
  BY <1>1
<1>7. missing = {m \in all : Buffer[m] \notin DOMAIN accounts \/ m \in unanswered}
  BY Zenon DEF MintsToCreate
<1> HIDE DEF all, A, B
<1>8. missing \in SUBSET (A \cup B)
  BY <1>5, <1>7
<1>9. IsFiniteSet(missing)
  BY <1>4, <1>8, FS_Subset
<1> QED BY <1>5, <1>6, <1>7, <1>8, <1>9

LEMMA StepReplaced ==
    ASSUME NEW c, IsRecord(c), NEW x, NEW y
    PROVE  LET d == [c EXCEPT !.step = x, !.ixs = y] IN
           /\ d.request = c.request /\ d.step = x /\ d.ixs = y /\ d.resolved = c.resolved
           /\ d.fresh = c.fresh
           /\ IsRecord(d)
<1> DEFINE v == c.request
           w == c.step
           p == c.ixs
           q == c.resolved
           z == c.fresh
           e == [c EXCEPT !.step = x]
           d == [c EXCEPT !.step = x, !.ixs = y]
<1>1. c = [request |-> v, step |-> w, ixs |-> p, resolved |-> q, fresh |-> z]
  BY Zenon DEF IsRecord
<1> HIDE DEF v, w, p, q, z
<1>2. d = [request |-> v, step |-> x, ixs |-> y, resolved |-> q, fresh |-> z]
  <2>1. e = [request |-> v, step |-> x, ixs |-> p, resolved |-> q, fresh |-> z]
    BY <1>1
  <2>2. d = [e EXCEPT !.ixs = y]
    BY Zenon
  <2> HIDE DEF e
  <2> QED BY <2>1, <2>2
<1> HIDE DEF d
<1>3. d.request = v /\ d.step = x /\ d.ixs = y /\ d.resolved = q /\ d.fresh = z
  BY <1>2
<1>4. IsRecord(d)
  BY <1>2, <1>3, Zenon DEF IsRecord
<1> QED BY <1>3, <1>4, Zenon DEF v, z, q, d

(* A command goes on, and nothing else happens. *)
LEMMA CommandGoesOn ==
    ASSUME IInv, NEW c \in 1..Len(commands), NEW d,
           commands' = [commands EXCEPT ![c] = d], IsCommand(d), d.fresh => IsFresh(d),
           d.step # "prepare", flight' \subseteq flight \cup {c},
           UNCHANGED <<accounts, orders, created, settled>>
    PROVE  IInv'
<1> DEFINE n == Len(commands)
<1>1. /\ IsSeq(commands) /\ n \in Nat /\ commands = [k \in 1..n |-> commands[k]]
      /\ \A k \in 1..n : IsCommand(commands[k]) /\ (commands[k].fresh => IsFresh(commands[k]))
      /\ \A k \in flight : k \in 1..n /\ commands[k].step # "prepare"
  BY DEF IInv, CommandsOK, IsSeq
<1>2. /\ commands' = [k \in 1..n |-> commands'[k]]
      /\ commands'[c] = d
      /\ \A k \in 1..n \ {c} : commands'[k] = commands[k]
  BY <1>1
<1>3. IsSeq(commands') /\ Len(commands') = n
  BY <1>1, <1>2, SeqBuilt
<1>4. ASSUME NEW k \in 1..n
      PROVE  IsCommand(commands'[k]) /\ (commands'[k].fresh => IsFresh(commands'[k]))
  <2>1. CASE k = c
    BY <1>2, <2>1, Zenon
  <2>2. CASE k # c
    BY <1>1, <1>2, <2>2
  <2> QED BY <2>1, <2>2
<1>5. ASSUME NEW k \in 1..n
      PROVE  IsCommand(commands[k])' /\ (IsFresh(commands'[k]) => IsFresh(commands[k])')
  <2>1. IsCommand(commands[k])'
    BY <1>4 DEF IsCommand, IsPrepared
  <2>2. OpensBuyAccount(commands'[k]) => OpensBuyAccount(commands[k])'
    BY DEF OpensBuyAccount
  <2>3. SawChain(commands'[k]) => SawChain(commands[k])'
    BY DEF SawChain, HasBuffer, ResolveIntents
  <2> QED BY <2>1, <2>2, <2>3 DEF IsFresh
<1>6. \A k \in flight' : k \in 1..n /\ commands'[k].step # "prepare"
  BY <1>1, <1>2
<1>7. CommandsOK'
  BY <1>3, <1>4, <1>5, <1>6 DEF CommandsOK
<1>8. AccountsOK(accounts)' /\ BuffersOK(accounts)' /\ OrdersOK(orders)' /\ CountsOK'
  BY DEF IInv, CountsOK
<1> QED BY <1>7, <1>8 DEF IInv
LEMMA PrepareKeeps ==
    ASSUME IInv, NEW c \in DOMAIN commands, NEW unanswered, PrepareSettlement(c, unanswered)
    PROVE  IInv'
<1> DEFINE old == commands[c]
           resolved == old.resolved
           missing == MintsToCreate(resolved, unanswered)
           setup == SetupIxs(missing)
           step == IF old.request.dry_run THEN "simulate" ELSE "sent"
           ixs == SettlementIxs(old.request.payer, setup, resolved)
           d == [old EXCEPT !.step = step, !.ixs = ixs]
           n == Len(commands)
<1>1. /\ old.step = "prepare"
      /\ EnsureCowBalance(resolved)
      /\ commands' = [commands EXCEPT ![c].step = step, ![c].ixs = ixs]
      /\ flight' \subseteq flight \cup {c}
      /\ UNCHANGED <<accounts, orders, created, settled>>
  <2>1. /\ old.step = "prepare"
        /\ EnsureCowBalance(resolved)
        /\ commands' = [commands EXCEPT ![c].step = step, ![c].ixs = ixs]
        /\ UNCHANGED <<chain, now, changes, created, settled>>
    BY Zenon DEF PrepareSettlement
  <2>2. flight' = flight \/ flight' = flight \cup {c}
    BY Zenon DEF PrepareSettlement, Submit
  <2>3. UNCHANGED <<accounts, orders, created, settled>>
    BY <2>1 DEF chain
  <2> QED BY <2>1, <2>2, <2>3
<1>2. /\ n \in Nat /\ DOMAIN commands = 1..n /\ commands = [k \in 1..n |-> commands[k]]
      /\ c \in 1..n /\ IsCommand(old) /\ (old.fresh => IsFresh(old))
  BY SeqFields DEF IInv, CommandsOK, IsSeq
<1>3. IsRecord(old) /\ old.request.command = "settle" /\ IsResolved(resolved) /\ old.request \in Requests
  BY <1>1, <1>2 DEF IsCommand
<1>4. step \in {"simulate", "sent"}
  <2> HIDE DEF old
  <2> QED BY Zenon
<1> HIDE DEF step
<1>5. commands' = [commands EXCEPT ![c] = d]
  <2> HIDE DEF ixs
  <2> QED BY <1>1, <1>2
<1>6. /\ missing \in SUBSET Mints
      /\ IsFiniteSet(missing)
      /\ \A k \in 1..Len(resolved) :
             /\ Buffer[resolved[k].sell] \in DOMAIN accounts \/ resolved[k].sell \in missing
             /\ Buffer[resolved[k].buy] \in DOMAIN accounts \/ resolved[k].buy \in missing
  <2> HIDE DEF resolved
  <2> QED BY <1>3, MissingIs
<1> HIDE DEF missing
<1>7. /\ IsSeq(setup)
      /\ IsSetup(setup)
      /\ \A m \in missing : \E j \in 1..Len(setup) : m \in setup[j].mints
  BY <1>6, SetupIs
<1> HIDE DEF setup
<1>8. Len(ixs) = Len(setup) + 2 /\ \A k \in 1..Len(setup) : ixs[k] = setup[k]
  <2>1. IsSeq(setup)
    BY <1>7
  <2> DEFINE payer == old.request.payer
  <2>2. ixs = SettlementIxs(payer, setup, resolved)
    OBVIOUS
  <2> HIDE DEF payer, resolved, ixs
  <2>3. IsSetup(setup)
    BY <1>7
  <2>4. /\ Len(SettlementIxs(payer, setup, resolved)) = Len(setup) + 2
        /\ \A k \in 1..Len(setup) : SettlementIxs(payer, setup, resolved)[k] = setup[k]
    BY <2>1, <2>3, SettlementFront
  <2> QED BY <2>2, <2>4, Zenon
<1>9. /\ d.request = old.request /\ d.step = step /\ d.ixs = ixs /\ d.resolved = resolved
      /\ d.fresh = old.fresh
      /\ IsRecord(d)
  <2> HIDE DEF old, ixs
  <2> QED BY <1>3, StepReplaced, Zenon DEF resolved
<1>10. ixs = SettlementIxs(d.request.payer, setup, d.resolved)
  BY <1>9
<1> HIDE DEF ixs, d
<1>11. IsPrepared(d)
  BY <1>1, <1>7, <1>9, <1>10 DEF IsPrepared
<1>12. IsCommand(d)
  BY <1>3, <1>4, <1>9, <1>11 DEF IsCommand
<1>13. ASSUME NEW m, m \in missing PROVE HasBuffer(d, m)
  <2>1. PICK j \in 1..Len(setup) : m \in setup[j].mints
    BY <1>7, <1>13
  <2>2. Len(setup) \in Nat
    BY <1>7 DEF IsSeq
  <2>3. Len(d.ixs) - 2 = Len(setup)
    BY <1>8, <1>9, <2>2
  <2> QED BY <1>8, <1>9, <2>1, <2>3 DEF HasBuffer
<1>14. \A k \in 1..Len(resolved) : HasBuffer(d, resolved[k].sell) /\ HasBuffer(d, resolved[k].buy)
  BY <1>6, <1>13 DEF HasBuffer
<1>15. d.fresh => IsFresh(d)
  <2>1. old.fresh => SawChain(old)
    BY <1>2, <1>3 DEF IsFresh
  <2>2. SawChain(old) => SawChain(d)
    BY <1>9, <1>14 DEF SawChain
  <2>3. SawChain(d) => IsFresh(d)
    BY <1>3, <1>9 DEF IsFresh
  <2> HIDE DEF old
  <2> QED BY <1>9, <2>1, <2>2, <2>3, Zenon
<1>16. d.step # "prepare"
  BY <1>4, <1>9
<1> HIDE DEF n
<1> QED BY <1>1, <1>2, <1>5, <1>12, <1>15, <1>16, CommandGoesOn DEF n

LEMMA SimulateKeeps ==
    ASSUME IInv, NEW c \in DOMAIN commands, Simulate(c)
    PROVE  IInv'
<1> DEFINE old == commands[c]
           ixs == old.ixs
           step == IF Succeeds(ExecuteAll(ixs)) THEN "simulated" ELSE "simulation failed"
           d == [old EXCEPT !.step = step, !.ixs = ixs]
           n == Len(commands)
<1>1. /\ old.step = "simulate"
      /\ commands' = [commands EXCEPT ![c].step = step]
      /\ flight' = flight
      /\ UNCHANGED <<accounts, orders, created, settled>>
  BY DEF Simulate, chain
<1>2. /\ n \in Nat /\ DOMAIN commands = 1..n /\ commands = [k \in 1..n |-> commands[k]]
      /\ c \in 1..n /\ IsCommand(old) /\ (old.fresh => IsFresh(old))
  BY SeqFields DEF IInv, CommandsOK, IsSeq
<1>3. IsRecord(old)
  BY <1>2 DEF IsCommand
<1>4. step \in {"simulated", "simulation failed"}
  OBVIOUS
<1> HIDE DEF step
<1>5. commands' = [commands EXCEPT ![c] = d]
  <2>1. commands' = [commands EXCEPT ![c] = [old EXCEPT !.step = step]]
    BY <1>1, <1>2
  <2>2. [old EXCEPT !.step = step] = d
    <3> HIDE DEF old
    <3> QED BY <1>3 DEF IsRecord
  <2> QED BY <2>1, <2>2
<1>6. /\ d.request = old.request /\ d.step = step /\ d.ixs = ixs /\ d.resolved = old.resolved
      /\ d.fresh = old.fresh
      /\ IsRecord(d)
  <2> HIDE DEF old, ixs
  <2> QED BY <1>3, StepReplaced, Zenon
<1> HIDE DEF d
<1>7. IsCommand(d)
  BY <1>1, <1>2, <1>4, <1>6 DEF IsCommand, IsPrepared
<1>8. d.fresh => IsFresh(d)
  <2>1. IsFresh(old) => IsFresh(d)
    BY <1>1, <1>6 DEF IsFresh, SawChain, OpensBuyAccount, HasBuffer
  <2> HIDE DEF old
  <2> QED BY <1>2, <1>6, <2>1, Zenon
<1>9. d.step # "prepare"
  BY <1>4, <1>6
<1> HIDE DEF n
<1> QED BY <1>1, <1>2, <1>5, <1>7, <1>8, <1>9, CommandGoesOn DEF n
-----------------------------------------------------------------------------
(* The history: more is one more than counts for the members of S. *)
Counted(counts, more, S) ==
    /\ DOMAIN more = DOMAIN counts \cup S
    /\ \A i \in DOMAIN more : more[i] = Times(counts, i) + If(i \in S, 1)

LEMMA CountIs ==
    ASSUME NEW counts, NEW S
    PROVE  Counted(counts, Count(counts, S), S)
BY DEF Counted, Count, Times, If

LEMMA CountSame ==
    ASSUME NEW counts, \A i \in DOMAIN counts : counts[i] \in Nat
    PROVE  Counted(counts, counts, {})
BY DEF Counted, Times, If

(* What fills an order stays with it, while others may add to it. *)
FillKept(i) == FullyFilled(i, orders[i].fill) => FullyFilled(i, orders'[i].fill)

LEMMA CountsMore ==
    ASSUME CountsOK, NEW C, NEW S, Counted(created, created', C), Counted(settled, settled', S),
           \A i \in S : /\ i \in DOMAIN orders /\ ~FullyFilled(i, orders[i].fill)
                        /\ i \in DOMAIN orders' => FullyFilled(i, orders'[i].fill),
           \A i \in DOMAIN orders' :
               i \in C \/ (i \in DOMAIN orders /\ (i \in S \/ FillKept(i)))
    PROVE  CountsOK'
<1>1. \A i : Times(created, i) \in Nat /\ Times(settled, i) \in Nat /\ Times(settled, i) <= Times(created, i)
  BY DEF CountsOK, Times
<1>2. \A i : If(i \in C, 1) \in {0, 1} /\ If(i \in S, 1) \in {0, 1}
             /\ (i \in C => If(i \in C, 1) = 1) /\ (i \notin S => If(i \in S, 1) = 0)
  BY DEF If
<1>3. \A i \in DOMAIN created' : created'[i] \in Nat /\ created'[i] = Times(created, i) + If(i \in C, 1)
  BY <1>1, <1>2 DEF Counted
<1>4. \A i : Times(settled', i) = Times(settled, i) + If(i \in S, 1)
  BY <1>1, <1>2 DEF Counted, Times, If
<1>5. \A i \in DOMAIN orders : i \in DOMAIN created' /\ Times(created, i) = created[i]
  BY DEF CountsOK, Counted, Times
<1>6. ASSUME NEW i \in DOMAIN settled'
      PROVE  i \in DOMAIN created' /\ settled'[i] \in Nat /\ settled'[i] <= created'[i]
  <2>1. settled'[i] = Times(settled, i) + If(i \in S, 1) /\ settled'[i] \in Nat
    BY <1>1, <1>2 DEF Counted
  <2>2. CASE i \in S
    <3>1. i \in DOMAIN orders /\ Times(settled, i) < Times(created, i)
      BY <1>5, <2>2 DEF CountsOK
    <3> QED BY <1>1, <1>2, <1>3, <1>5, <2>1, <3>1
  <2>3. CASE i \notin S
    <3>1. i \in DOMAIN created'
      BY <2>3 DEF Counted, CountsOK
    <3> QED BY <1>1, <1>2, <1>3, <2>1, <2>3, <3>1
  <2> QED BY <2>2, <2>3
<1>7. ASSUME NEW i \in DOMAIN orders'
      PROVE  i \in DOMAIN created' /\ (~FullyFilled(i, orders'[i].fill) => Times(settled', i) < created'[i])
  <2>1. CASE i \in C
    <3>1. i \in DOMAIN created'
      BY <2>1 DEF Counted
    <3>2. ~FullyFilled(i, orders'[i].fill) => i \notin S
      OBVIOUS
    <3> QED BY <1>1, <1>2, <1>3, <1>4, <2>1, <3>1, <3>2
  <2>2. CASE i \notin C
    <3>1. i \in DOMAIN orders /\ i \in DOMAIN created'
      BY <1>5, <2>2
    <3>2. ~FullyFilled(i, orders'[i].fill) => i \notin S /\ ~FullyFilled(i, orders[i].fill)
      BY <2>2 DEF FillKept
    <3>3. ~FullyFilled(i, orders'[i].fill) => Times(settled, i) < Times(created, i)
      BY <1>5, <3>1, <3>2 DEF CountsOK
    <3> QED BY <1>1, <1>2, <1>3, <1>4, <3>1, <3>2, <3>3
  <2> QED BY <2>1, <2>2
<1> QED BY <1>3, <1>6, <1>7 DEF CountsOK, Times

LEMMA InitKeeps == Init => IInv
<1> SUFFICES ASSUME Init PROVE IInv
  OBVIOUS
<1>1. AccountsOK(accounts)
  BY TradingAssumption DEF Init, AccountsOK
<1>2. ASSUME NEW i, IsIntent(i) PROVE IsOrder(i, NewOrder(i.owner))
  BY <1>2, NewOrderOK
<1>3. /\ orders = [i \in DOMAIN orders |-> orders[i]] /\ DOMAIN orders = InitOrders
      /\ \A i \in InitOrders : orders[i] = NewOrder(i.owner)
  BY Zenon DEF Init
<1>4. OrdersOK(orders)
  BY <1>2, <1>3, TradingAssumption DEF OrdersOK
<1>5. CommandsOK
  <2>1. commands = <<>> /\ flight = {}
    BY DEF Init
  <2>2. IsSeq(commands) /\ Len(commands) = 0
    BY <2>1, SeqNone
  <2>3. \A c \in 1..0 : FALSE
    OBVIOUS
  <2> QED BY <2>1, <2>2, <2>3 DEF CommandsOK
<1>6. CountsOK
  <2>1. DOMAIN <<>> = {}
    OBVIOUS
  <2>2. created = Count(<<>>, InitOrders) /\ settled = <<>>
    BY DEF Init
  <2>3. Counted(<<>>, created, InitOrders)
    BY <2>2, CountIs
  <2>4. DOMAIN created = InitOrders /\ \A i \in InitOrders : created[i] = 1
    BY <2>1, <2>3 DEF Counted, Times, If
  <2> QED BY <1>3, <2>1, <2>2, <2>4 DEF CountsOK, Times
<1>7. BuffersOK(accounts)
  BY TradingAssumption DEF Init, BuffersOK
<1> QED BY <1>1, <1>4, <1>5, <1>6, <1>7 DEF IInv
-----------------------------------------------------------------------------
(* What everybody else does. *)
LEMMA MeanwhileKeeps ==
    ASSUME IInv, Meanwhile, AccountsOK(accounts'), BuffersOK(accounts'), OrdersOK(orders'),
           \A i \in DOMAIN orders' : i \in DOMAIN orders /\ FillKept(i)
    PROVE  IInv'
<1>1. commands' = Outdated(commands) /\ flight' = flight /\ created' = created /\ settled' = settled
  BY DEF Meanwhile
<1>2. CommandsOK'
  BY <1>1, CommandsOutdated DEF IInv
<1>3. Counted(created, created', {}) /\ Counted(settled, settled', {})
  BY <1>1, CountSame DEF IInv, CountsOK
<1>4. CountsOK'
  BY <1>3, CountsMore DEF IInv
<1> QED BY <1>2, <1>4 DEF IInv

LEMMA CancelledOrders ==
    ASSUME NEW f, OrdersOK(f), NEW i \in DOMAIN f, NEW yes
    PROVE  LET g == [f EXCEPT ![i].cancelled = yes] IN
           /\ OrdersOK(g)
           /\ DOMAIN g = DOMAIN f
           /\ \A j \in DOMAIN f : g[j].fill = f[j].fill
<1> DEFINE g == [f EXCEPT ![i].cancelled = yes]
<1>1. IsOrder(i, f[i]) /\ f = [j \in DOMAIN f |-> f[j]]
  BY DEF OrdersOK
<1>2. /\ DOMAIN g = DOMAIN f
      /\ g = [j \in DOMAIN g |-> g[j]]
      /\ g[i] = [f[i] EXCEPT !.cancelled = yes]
      /\ \A j \in DOMAIN f \ {i} : g[j] = f[j]
  BY <1>1
<1> HIDE DEF g
<1>3. IsOrder(i, g[i]) /\ g[i].fill = f[i].fill
  BY <1>1, <1>2 DEF IsOrder
<1>4. OrdersOK(g)
  BY <1>2, <1>3 DEF OrdersOK
<1> QED BY <1>2, <1>3, <1>4 DEF g

LEMMA CancelKeeps ==
    ASSUME IInv, NEW i \in DOMAIN orders, CancelOrder(i)
    PROVE  IInv'
<1>1. /\ Meanwhile /\ accounts' = accounts
      /\ orders' = [orders EXCEPT ![i].cancelled = TRUE]
  BY Zenon DEF CancelOrder
<1> DEFINE yes == TRUE
<1>2. orders' = [orders EXCEPT ![i].cancelled = yes]
  BY <1>1, Zenon
<1> HIDE DEF yes
<1>3. OrdersOK(orders)
  BY DEF IInv
<1>4. LET g == [orders EXCEPT ![i].cancelled = yes] IN
      /\ OrdersOK(g)
      /\ DOMAIN g = DOMAIN orders
      /\ \A j \in DOMAIN orders : g[j].fill = orders[j].fill
  BY <1>3, CancelledOrders
<1>5. /\ OrdersOK(orders')
      /\ DOMAIN orders' = DOMAIN orders
      /\ \A j \in DOMAIN orders : orders'[j].fill = orders[j].fill
  BY <1>2, <1>4, Zenon
<1>6. Meanwhile /\ AccountsOK(accounts') /\ BuffersOK(accounts')
  BY <1>1, Zenon DEF IInv
<1> QED BY <1>5, <1>6, MeanwhileKeeps DEF FillKept

LEMMA CloseKeeps ==
    ASSUME IInv, NEW a \in DOMAIN accounts, CloseAccount(a)
    PROVE  IInv'
<1>1. /\ Meanwhile /\ orders' = orders
      /\ accounts' = [b \in DOMAIN accounts \ {a} |-> accounts[b]]
  BY DEF CloseAccount
<1>2. AccountsOK(accounts')
  BY <1>1 DEF IInv, AccountsOK
<1>3. OrdersOK(orders')
  BY <1>1 DEF IInv
<1>4. BuffersOK(accounts')
  BY <1>1 DEF IInv, BuffersOK
<1> QED BY <1>1, <1>2, <1>3, <1>4, MeanwhileKeeps DEF FillKept

LEMMA ReopenKeeps ==
    ASSUME IInv, NEW a \in DOMAIN accounts, NEW m \in Mints, Reopen(a, m)
    PROVE  IInv'
<1>1. /\ Meanwhile /\ orders' = orders /\ accounts[a].owner # StatePda
      /\ accounts' = [accounts EXCEPT ![a].mint = m, ![a].delegated = 0]
  BY DEF Reopen
<1>2. AccountsOK(accounts') /\ BuffersOK(accounts')
  <2> DEFINE f == accounts
             g == accounts'
  <2>1. f = [b \in DOMAIN f |-> f[b]] /\ \A b \in DOMAIN f : IsAccount(f[b])
    BY DEF IInv, AccountsOK
  <2>2. g = [f EXCEPT ![a].mint = m, ![a].delegated = 0]
    BY <1>1
  <2> HIDE DEF f, g
  <2>3. /\ g = [b \in DOMAIN f |-> g[b]]
        /\ g[a] = [f[a] EXCEPT !.mint = m, !.delegated = 0]
        /\ \A b \in DOMAIN f \ {a} : g[b] = f[b]
    BY <2>1, <2>2 DEF f
  <2>4. IsAccount(g[a])
    <3> DEFINE x == f[a]
               y == [x EXCEPT !.mint = m]
               z == g[a]
    <3>1. IsAccount(x)
      BY <2>1 DEF f
    <3>2. z = [y EXCEPT !.delegated = 0]
      BY <2>3, Zenon
    <3> HIDE DEF x, z
    <3>3. IsAccount(y)
      BY <3>1 DEF IsAccount
    <3> HIDE DEF y
    <3>4. IsAccount(z)
      BY <3>2, <3>3 DEF IsAccount
    <3> QED BY <3>4 DEF z
  <2>5. AccountsOK(g)
    BY <2>1, <2>3, <2>4 DEF AccountsOK
  <2>6. BuffersOK(g)
    <3>1. f[a].owner # StatePda /\ BuffersOK(f)
      BY <1>1 DEF IInv, f
    <3>2. \A m1 \in Mints : Buffer[m1] # a
      BY <3>1 DEF BuffersOK, IsBufferOf, f
    <3> QED BY <2>3, <3>1, <3>2 DEF BuffersOK
  <2> QED BY <2>5, <2>6 DEF g
<1>3. OrdersOK(orders')
  BY <1>1 DEF IInv
<1> QED BY <1>1, <1>2, <1>3, MeanwhileKeeps DEF FillKept

LEMMA TickKeeps ==
    ASSUME IInv, Tick
    PROVE  IInv'
<1>1. Meanwhile /\ accounts' = accounts /\ orders' = orders
  BY DEF Tick
<1>2. OrdersOK(orders') /\ AccountsOK(accounts') /\ BuffersOK(accounts')
  BY <1>1 DEF IInv
<1> QED BY <1>1, <1>2, MeanwhileKeeps DEF FillKept
LEMMA AmountReplaced ==
    ASSUME NEW f, AccountsOK(f), NEW a \in DOMAIN f, NEW n \in Nat
    PROVE  LET g == [f EXCEPT ![a].amount = n] IN
           /\ AccountsOK(g) /\ DOMAIN g = DOMAIN f /\ g[a].delegated = f[a].delegated
           /\ BuffersOK(f) => BuffersOK(g)
<1> DEFINE g == [f EXCEPT ![a].amount = n]
<1>1. IsAccount(f[a]) /\ f = [b \in DOMAIN f |-> f[b]] /\ \A b \in DOMAIN f : IsAccount(f[b])
  BY DEF AccountsOK
<1>2. /\ DOMAIN g = DOMAIN f
      /\ g = [b \in DOMAIN f |-> g[b]]
      /\ g[a] = [f[a] EXCEPT !.amount = n]
      /\ \A b \in DOMAIN f \ {a} : g[b] = f[b]
  BY <1>1
<1> HIDE DEF g
<1>3. IsAccount(g[a]) /\ g[a].delegated = f[a].delegated /\ g[a].owner = f[a].owner /\ g[a].mint = f[a].mint
  BY <1>1, <1>2 DEF IsAccount
<1>4. AccountsOK(g)
  BY <1>1, <1>2, <1>3 DEF AccountsOK
<1>5. Kept(f, g)
  BY <1>2, <1>3 DEF Kept
<1> QED BY <1>2, <1>3, <1>4, <1>5, BuffersKept DEF g

LEMMA DelegatedReplaced ==
    ASSUME NEW f, AccountsOK(f), NEW a \in DOMAIN f, NEW n \in Nat
    PROVE  LET g == [f EXCEPT ![a].delegated = n] IN
           AccountsOK(g) /\ DOMAIN g = DOMAIN f /\ (BuffersOK(f) => BuffersOK(g))
<1> DEFINE g == [f EXCEPT ![a].delegated = n]
<1>1. IsAccount(f[a]) /\ f = [b \in DOMAIN f |-> f[b]] /\ \A b \in DOMAIN f : IsAccount(f[b])
  BY DEF AccountsOK
<1>2. /\ DOMAIN g = DOMAIN f
      /\ g = [b \in DOMAIN f |-> g[b]]
      /\ g[a] = [f[a] EXCEPT !.delegated = n]
      /\ \A b \in DOMAIN f \ {a} : g[b] = f[b]
  BY <1>1
<1> HIDE DEF g
<1>3. IsAccount(g[a]) /\ g[a].owner = f[a].owner /\ g[a].mint = f[a].mint
  BY <1>1, <1>2 DEF IsAccount
<1>4. AccountsOK(g)
  BY <1>1, <1>2, <1>3 DEF AccountsOK
<1>5. Kept(f, g)
  BY <1>2, <1>3 DEF Kept
<1> QED BY <1>2, <1>4, <1>5, BuffersKept DEF g

LEMMA SettleElsewhereKeeps ==
    ASSUME IInv, NEW i \in DOMAIN orders, NEW amounts \in OtherFills, SettleElsewhere(i, amounts)
    PROVE  IInv'
<1> DEFINE pull == [intent |-> i, amount |-> amounts.withdrawn]
           push == [source |-> Buffer[i.buy_mint], destination |-> i.buy_token_account,
                    amount |-> amounts.received]
           from == i.sell_token_account
           to == i.buy_token_account
           s == [accounts |-> accounts, orders |-> orders]
           n == amounts.withdrawn
           m == amounts.received
           f == accounts
           left == IF i.owner = StatePda THEN f[from].delegated ELSE f[from].delegated - n
           f1 == [f EXCEPT ![from].amount = @ - n]
           f2 == [f EXCEPT ![from].amount = @ - n,
                           ![from].delegated = IF i.owner = StatePda THEN @ ELSE @ - n]
           f3 == [f2 EXCEPT ![to].amount = @ + m]
<1>1. /\ Meanwhile
      /\ to \in DOMAIN f
      /\ CanProcess(s, pull, push)
      /\ CanMove(s, from, from, n)
      /\ accounts' = f3
      /\ orders' = Filling(orders, i, amounts)
  BY DEF SettleElsewhere, Filling
<1>2. s.accounts = f /\ s.orders = orders /\ pull.intent = i /\ pull.amount = n /\ push.amount = m
  OBVIOUS
<1>3. AccountsOK(f) /\ BuffersOK(f) /\ OrdersOK(orders) /\ f = [a \in DOMAIN f |-> f[a]]
  BY DEF IInv, AccountsOK
<1>4. /\ AddFills(orders[i].fill, amounts) \in FillAmounts
      /\ FullyFilled(i, orders[i].fill) => FullyFilled(i, AddFills(orders[i].fill, amounts))
  <2>1. amounts \in FillAmounts /\ amounts = [withdrawn |-> n, received |-> m]
    BY TradingAssumption DEF FillAmounts
  <2>2. orders[i].fill \in FillAmounts /\ IsIntent(i)
    BY <1>3 DEF OrdersOK, IsOrder
  <2> HIDE DEF s, pull, push, n, m
  <2>3. ValidatedFinalAmounts(i, orders[i].fill, amounts)
    BY <1>1, <1>2, <2>1 DEF CanProcess, FillFits
  <2> QED BY <2>1, <2>2, <2>3, FillsGrow
<1>5. /\ from \in DOMAIN f
      /\ f[from].amount >= n
      /\ f[from].owner = StatePda \/ f[from].delegated >= n
      /\ f[from].owner = i.owner
  <2> HIDE DEF s, pull, push
  <2> QED BY <1>1, <1>2 DEF CanMove, CanProcess
<1>6. n \in Nat /\ m \in Nat
  BY TradingAssumption, U64MaxAssumption DEF FillAmounts, Amount
<1>7. f[from].amount \in Nat /\ f[from].delegated \in Nat
  BY <1>3, <1>5 DEF AccountsOK, IsAccount
<1>8. f2 = [f1 EXCEPT ![from].delegated = left]
  BY Zenon
<1> HIDE DEF f, n, m, from, to
<1>9. AccountsOK(f1) /\ BuffersOK(f1) /\ DOMAIN f1 = DOMAIN f /\ f1[from].delegated = f[from].delegated
  <2> DEFINE x == f[from].amount - n
  <2>1. f1 = [f EXCEPT ![from].amount = x]
    BY <1>3, <1>5
  <2>2. x \in Nat
    BY <1>5, <1>6, <1>7
  <2> HIDE DEF x
  <2>3. LET g == [f EXCEPT ![from].amount = x] IN
        /\ AccountsOK(g) /\ DOMAIN g = DOMAIN f /\ g[from].delegated = f[from].delegated
        /\ BuffersOK(f) => BuffersOK(g)
    BY <1>3, <1>5, <2>2, AmountReplaced
  <2> QED BY <1>3, <2>1, <2>3, Zenon
<1>10. left \in Nat
  BY <1>5, <1>6, <1>7
<1> HIDE DEF f1, f2, left
<1>11. AccountsOK(f2) /\ BuffersOK(f2) /\ DOMAIN f2 = DOMAIN f
  <2>3. LET g == [f1 EXCEPT ![from].delegated = left] IN
        AccountsOK(g) /\ DOMAIN g = DOMAIN f1 /\ (BuffersOK(f1) => BuffersOK(g))
    BY <1>5, <1>9, <1>10, DelegatedReplaced
  <2> QED BY <1>8, <1>9, <2>3, Zenon
<1>12. AccountsOK(f3) /\ BuffersOK(f3)
  <2> DEFINE y == f2[to].amount + m
  <2>1. f2 = [a \in DOMAIN f2 |-> f2[a]] /\ f2[to].amount \in Nat
    BY <1>1, <1>11 DEF AccountsOK, IsAccount, f, to
  <2>2. f3 = [f2 EXCEPT ![to].amount = y] /\ to \in DOMAIN f2
    BY <1>1, <1>11, <2>1 DEF f, to
  <2>3. y \in Nat
    BY <1>6, <2>1
  <2> HIDE DEF y
  <2>4. LET g == [f2 EXCEPT ![to].amount = y] IN
        /\ AccountsOK(g) /\ DOMAIN g = DOMAIN f2 /\ g[to].delegated = f2[to].delegated
        /\ BuffersOK(f2) => BuffersOK(g)
    BY <1>11, <2>2, <2>3, AmountReplaced
  <2> QED BY <1>11, <2>2, <2>4, Zenon
<1>13. AccountsOK(accounts') /\ BuffersOK(accounts')
  BY <1>1, <1>12, Zenon
<1>14. /\ OrdersOK(orders')
       /\ DOMAIN orders' = DOMAIN orders
       /\ orders'[i].fill = AddFills(orders[i].fill, amounts)
       /\ \A j \in DOMAIN orders \ {i} : orders'[j] = orders[j]
  BY <1>1, <1>3, <1>4, FilledOrders
<1>15. \A j \in DOMAIN orders' : j \in DOMAIN orders /\ FillKept(j)
  BY <1>4, <1>14 DEF FillKept
<1>16. Meanwhile
  BY <1>1
<1> QED BY <1>13, <1>14, <1>15, <1>16, MeanwhileKeeps
-----------------------------------------------------------------------------
(* A transaction lands. *)
CreatedBy(ixs) == {ix.intent : ix \in {ix \in Range(ixs) : ix.op = "create_order"}}
SettledBy(ixs) == UNION {{p.intent : p \in Range(ix.pulls)} : ix \in {ix \in Range(ixs) : ix.op = "begin"}}

LEMMA LandIs ==
    ASSUME IInv, NEW c \in flight, Land(c)
    PROVE  LET ixs == commands[c].ixs
               t == ExecuteAll(ixs)
           IN  /\ Succeeds(t)
               /\ accounts' = t.accounts /\ orders' = t.orders
               /\ flight' = flight \ {c}
               /\ commands' = Outdated(commands)
               /\ Counted(created, created', CreatedBy(ixs))
               /\ Counted(settled, settled', SettledBy(ixs))
               /\ c \in 1..Len(commands)
               /\ IsCommand(commands[c]) /\ commands[c].step # "prepare"
               /\ commands[c].fresh => IsFresh(commands[c])
<1> DEFINE ixs == commands[c].ixs
           t == ExecuteAll(ixs)
<1>1. /\ Succeeds(t) /\ accounts' = t.accounts /\ orders' = t.orders /\ flight' = flight \ {c}
      /\ commands' = Outdated(commands)
      /\ created' = Count(created, CreatedBy(ixs))
      /\ settled' = Count(settled, SettledBy(ixs))
  BY Zenon DEF Land, CreatedBy, SettledBy
<1>2. Counted(created, created', CreatedBy(ixs)) /\ Counted(settled, settled', SettledBy(ixs))
  BY <1>1, CountIs, Zenon
<1>3. /\ c \in 1..Len(commands) /\ IsCommand(commands[c]) /\ commands[c].step # "prepare"
      /\ commands[c].fresh => IsFresh(commands[c])
  BY Zenon DEF IInv, CommandsOK
<1> QED BY <1>1, <1>2, <1>3, Zenon

LEMMA OrderIntents ==
    ASSUME NEW ixs, NEW i, IsOrderIxs(ixs, i)
    PROVE  CreatedBy(ixs) = {i} /\ SettledBy(ixs) = {}
<1> DEFINE n == Len(ixs)
<1>1. /\ n \in Nat /\ DOMAIN ixs = 1..n /\ n \in 1..n
      /\ ixs[n].op = "create_order" /\ ixs[n].intent = i
      /\ \A k \in 1..(n - 1) : IsPreparation(ixs[k])
  BY DEF IsOrderIxs
<1>2. \A k \in 1..n : k = n \/ k \in 1..(n - 1)
  <2>1. n \in Nat
    BY <1>1
  <2> HIDE DEF n
  <2> QED BY <2>1
<1>3. \A k \in 1..n : /\ ixs[k].op # "begin"
                      /\ ixs[k].op = "create_order" => k = n
  BY <1>1, <1>2 DEF IsPreparation, IsAtaIx
<1> HIDE DEF n
<1>4. {ix \in Range(ixs) : ix.op = "create_order"} = {ixs[n]}
  BY <1>1, <1>3 DEF Range
<1>5. {ix \in Range(ixs) : ix.op = "begin"} = {}
  BY <1>1, <1>3 DEF Range
<1>6. CreatedBy(ixs) = {i}
  BY <1>1, <1>4 DEF CreatedBy
<1>7. SettledBy(ixs) = {}
  BY <1>5 DEF SettledBy
<1> QED BY <1>6, <1>7

LEMMA ReclaimIntents ==
    ASSUME NEW ixs, IsSeq(ixs), \A k \in 1..Len(ixs) : ixs[k].op = "reclaim"
    PROVE  CreatedBy(ixs) = {} /\ SettledBy(ixs) = {}
<1>1. DOMAIN ixs = 1..Len(ixs)
  BY SeqFields
<1>2. {ix \in Range(ixs) : ix.op = "create_order"} = {} /\ {ix \in Range(ixs) : ix.op = "begin"} = {}
  BY <1>1 DEF Range
<1> QED BY <1>2 DEF CreatedBy, SettledBy

LEMMA SettlementIntents ==
    ASSUME NEW payer, NEW setup, IsSeq(setup), IsSetup(setup),
           NEW resolved, IsResolved(resolved), NEW ixs, ixs = SettlementIxs(payer, setup, resolved)
    PROVE  /\ CreatedBy(ixs) = {}
           /\ SettledBy(ixs) = {resolved[k].intent : k \in 1..Len(resolved)}
<1> DEFINE n == Len(setup)
           p == ComputePulls(resolved)
<1>1. /\ Len(ixs) = n + 2
      /\ DOMAIN ixs = 1..(n + 2)
      /\ \A k \in 1..n : ixs[k] = setup[k]
      /\ ixs[n + 1] = [op |-> "begin", solver |-> payer, finalize_ix_index |-> n + 1,
                       pulls |-> ComputePulls(resolved)]
      /\ ixs[n + 2] = [op |-> "finalize", begin_ix_index |-> n, pushes |-> ComputePushes(resolved)]
  BY SettlementAt
<1>2. /\ n \in Nat
      /\ \A k \in 1..n : setup[k].op = "create_buffers"
  BY DEF IsSetup
<1>3. DOMAIN p = 1..Len(resolved) /\ \A k \in 1..Len(resolved) : p[k].intent = resolved[k].intent
  BY DEF IsResolved, ComputePulls
<1>4. ixs[n + 1].op = "begin" /\ ixs[n + 1].pulls = p /\ ixs[n + 2].op = "finalize"
  BY <1>1
<1> HIDE DEF n, p
<1>5. \A k \in 1..(n + 2) : k \in 1..n \/ k = n + 1 \/ k = n + 2
  BY <1>2
<1>6. n + 1 \in 1..(n + 2)
  BY <1>2
<1>7. \A k \in 1..(n + 2) : ixs[k].op # "create_order" /\ (ixs[k].op = "begin" => k = n + 1)
  BY <1>1, <1>2, <1>4, <1>5 DEF n
<1>8. /\ {ix \in Range(ixs) : ix.op = "create_order"} = {}
      /\ {ix \in Range(ixs) : ix.op = "begin"} = {ixs[n + 1]}
  BY <1>1, <1>4, <1>6, <1>7 DEF Range, n
<1>9. {q.intent : q \in Range(p)} = {resolved[k].intent : k \in 1..Len(resolved)}
  BY <1>3 DEF Range
<1>10. CreatedBy(ixs) = {}
  BY <1>8 DEF CreatedBy
<1>11. SettledBy(ixs) = {q.intent : q \in Range(p)}
  BY <1>4, <1>8 DEF SettledBy
<1> QED BY <1>9, <1>10, <1>11

LEMMA LandKeeps ==
    ASSUME IInv, NEW c \in flight, Land(c)
    PROVE  IInv'
<1> DEFINE d == commands[c]
           ixs == d.ixs
           t == ExecuteAll(ixs)
           C == CreatedBy(ixs)
           S == SettledBy(ixs)
<1>1. /\ Succeeds(t)
      /\ accounts' = t.accounts /\ orders' = t.orders
      /\ flight' = flight \ {c}
      /\ commands' = Outdated(commands)
      /\ Counted(created, created', C)
      /\ Counted(settled, settled', S)
      /\ IsCommand(d) /\ d.step # "prepare"
  BY LandIs, Zenon
<1>2. CommandsOK'
  BY <1>1, CommandsOutdated DEF IInv
<1>3. AccountsOK(accounts) /\ BuffersOK(accounts) /\ OrdersOK(orders) /\ CountsOK
  BY DEF IInv
<1>4. d.request.command \in {"order", "settle", "reclaim"}
  BY <1>1, TradingAssumption DEF IsCommand, IsRequest
<1>5. /\ d.request.command = "order" => IsOrderIxs(ixs, Last(ixs).intent)
      /\ d.request.command = "reclaim" => IsSeq(ixs) /\ \A k \in 1..Len(ixs) : ixs[k].op = "reclaim"
      /\ d.request.command = "settle" => IsResolved(d.resolved) /\ IsPrepared(d)
  BY <1>1 DEF IsCommand
<1> DEFINE goal == /\ IsChain(t) /\ BuffersOK(t.accounts)
                   /\ \A i \in S : /\ i \in DOMAIN orders /\ ~FullyFilled(i, orders[i].fill)
                                   /\ i \in DOMAIN t.orders => FullyFilled(i, t.orders[i].fill)
                   /\ \A i \in DOMAIN t.orders :
                          i \in C \/ (i \in DOMAIN orders /\ (i \in S \/ t.orders[i].fill = orders[i].fill))
<1>6. ASSUME d.request.command = "order" PROVE goal
  <2> DEFINE i == Last(ixs).intent
  <2>1. IsOrderIxs(ixs, i)
    BY <1>5, <1>6
  <2> HIDE DEF i, ixs
  <2>2. C = {i} /\ S = {}
    BY <2>1, OrderIntents
  <2>3. IsChain(t) /\ DOMAIN t.orders = DOMAIN orders \cup {i} /\ \A x \in DOMAIN orders : t.orders[x] = orders[x]
    BY <1>1, <1>3, <2>1, OrderDone
  <2>5. Prepared(accounts, t.accounts, ixs, Len(ixs) - 1)
    BY <1>1, <1>3, <2>1, OrderDone
  <2> HIDE DEF t, C, S
  <2>6. BuffersOK(t.accounts)
    BY <1>3, <2>5, BuffersGrown DEF Prepared
  <2>4. goal
    BY <2>2, <2>3, <2>6
  <2> QED BY <2>4 DEF t, C, S
<1>7. ASSUME d.request.command = "reclaim" PROVE goal
  <2>1. IsSeq(ixs) /\ \A k \in 1..Len(ixs) : ixs[k].op = "reclaim"
    BY <1>5, <1>7
  <2> HIDE DEF ixs
  <2>2. C = {} /\ S = {}
    BY <2>1, ReclaimIntents
  <2>3. Len(ixs) \in Nat /\ Len(ixs) \in 0..Len(ixs)
    BY <2>1 DEF IsSeq
  <2>4. t = Ran(ixs)[Len(ixs)]
    BY <2>3, ExecuteAllIsRun
  <2>5. /\ IsChain(t) /\ t.accounts = accounts /\ DOMAIN t.orders \subseteq DOMAIN orders
        /\ \A i \in DOMAIN t.orders : t.orders[i] = orders[i]
    BY <1>1, <1>3, <2>1, <2>3, <2>4, ReclaimRun
  <2> HIDE DEF t, C, S
  <2>6. goal
    BY <1>3, <2>2, <2>5
  <2> QED BY <2>6 DEF t, C, S
<1>8. ASSUME d.request.command = "settle" PROVE goal
  <2> DEFINE resolved == d.resolved
             payer == d.request.payer
             n == Len(resolved)
  <2>1. IsResolved(resolved) /\ IsPrepared(d)
    BY <1>5, <1>8
  <2>2. PICK setup : IsSeq(setup) /\ IsSetup(setup) /\ ixs = SettlementIxs(payer, setup, resolved)
    BY <2>1 DEF IsPrepared
  <2> HIDE DEF ixs, payer, resolved
  <2>3. C = {} /\ S = {resolved[k].intent : k \in 1..n}
    BY <2>1, <2>2, SettlementIntents
  <2> HIDE DEF t
  <2>4. PICK s, u : SettlesAs(s, u, t, setup, resolved)
    BY <1>1, <1>3, <2>1, <2>2, SettlementDone DEF t
  <2>5. /\ IsChain(t) /\ t.orders = u.orders
        /\ DOMAIN u.orders = DOMAIN orders
        /\ \A k \in 1..n :
               LET i == resolved[k].intent IN
               /\ i \in DOMAIN orders
               /\ ~FullyFilled(i, orders[i].fill) /\ FullyFilled(i, u.orders[i].fill)
        /\ \A i \in DOMAIN orders :
               (\A k \in 1..n : resolved[k].intent # i) => u.orders[i] = orders[i]
    BY <2>4 DEF SettlesAs, PullsAt, PushesAt
  <2>8. BuffersOK(t.accounts)
    BY <1>3, <2>2, <2>4, BuffersSettled
  <2> HIDE DEF C, S, n
  <2>7. goal
    BY <2>3, <2>5, <2>8
  <2> QED BY <2>7 DEF C, S
<1>9. goal
  BY <1>4, <1>6, <1>7, <1>8
<1> HIDE DEF t, C, S
<1>10. CountsOK'
  BY <1>1, <1>3, <1>9, CountsMore DEF FillKept
<1>11. AccountsOK(accounts') /\ BuffersOK(accounts') /\ OrdersOK(orders')
  BY <1>1, <1>9 DEF IsChain
<1> QED BY <1>2, <1>10, <1>11 DEF IInv
-----------------------------------------------------------------------------
LEMMA NextKeeps == IInv /\ [Next]_vars => IInv'
<1> SUFFICES ASSUME IInv, [Next]_vars PROVE IInv'
  OBVIOUS
<1>1. ASSUME NEW r \in Requests, RunOrder(r) PROVE IInv'
  BY <1>1, RunOrderKeeps
<1>2. ASSUME NEW r \in Requests, RunSettle(r) PROVE IInv'
  BY <1>2, RunSettleKeeps
<1>3. ASSUME NEW r \in Requests, RunReclaim(r) PROVE IInv'
  BY <1>3, RunReclaimKeeps
<1>4. ASSUME NEW c \in DOMAIN commands, NEW unanswered \in {{}, Mints}, PrepareSettlement(c, unanswered)
      PROVE  IInv'
  BY <1>4, PrepareKeeps
<1>5. ASSUME NEW c \in DOMAIN commands, Simulate(c) PROVE IInv'
  BY <1>5, SimulateKeeps
<1>6. ASSUME NEW c \in flight, Land(c) PROVE IInv'
  BY <1>6, LandKeeps
<1>7. ASSUME NEW i \in DOMAIN orders, CancelOrder(i) PROVE IInv'
  BY <1>7, CancelKeeps
<1>8. ASSUME NEW i \in DOMAIN orders, NEW amounts \in OtherFills, SettleElsewhere(i, amounts) PROVE IInv'
  BY <1>8, SettleElsewhereKeeps
<1>9. ASSUME NEW a \in DOMAIN accounts, CloseAccount(a) PROVE IInv'
  BY <1>9, CloseKeeps
<1>10. ASSUME NEW a \in DOMAIN accounts, NEW m \in Mints, Reopen(a, m) PROVE IInv'
  BY <1>10, ReopenKeeps
<1>11. ASSUME Tick PROVE IInv'
  BY <1>11, TickKeeps
<1>12. ASSUME UNCHANGED vars PROVE IInv'
  <2>1. UNCHANGED <<accounts, orders, commands, flight, created, settled>>
    BY <1>12 DEF vars, chain
  <2>2. ASSUME NEW k \in 1..Len(commands)
        PROVE  IsCommand(commands[k])' = IsCommand(commands[k]) /\ IsFresh(commands[k])' = IsFresh(commands[k])
    BY <2>1 DEF IsFresh, OpensBuyAccount, SawChain, HasBuffer, ResolveIntents, IsCommand, IsPrepared
  <2>3. CommandsOK'
    BY <2>1, <2>2, Zenon DEF IInv, CommandsOK
  <2>4. AccountsOK(accounts)' /\ BuffersOK(accounts)' /\ OrdersOK(orders)' /\ CountsOK'
    BY <2>1 DEF IInv, CountsOK
  <2> QED BY <2>3, <2>4 DEF IInv
<1> QED BY <1>1, <1>2, <1>3, <1>4, <1>5, <1>6, <1>7, <1>8, <1>9, <1>10, <1>11, <1>12, Zenon DEF Next

(* The invariant: accounts and orders are well-formed, however much of an  *)
(* order was filled and by whom; every command has the form its words call *)
(* for and, while nothing else happened, saw the chain as it is; and an    *)
(* order that is not full was settled by the tool less often than it was   *)
(* created.                                                                *)
THEOREM InvariantHolds == Spec => []IInv
<1>1. Init => IInv
  BY InitKeeps
<1>2. IInv /\ [Next]_vars => IInv'
  BY NextKeeps
<1> QED BY <1>1, <1>2, PTL DEF Spec

(* The tool settles no order more often than it was created, however often *)
(* a settlement is repeated after the tool gave up on it, and whoever else *)
(* settles the order meanwhile: in full, in several parts, or nothing of   *)
(* one that is full.                                                       *)
THEOREM OrdersAreSettledOnce == Spec => []SettledOncePerCreation
<1>1. IInv => SettledOncePerCreation
  BY DEF IInv, CountsOK, SettledOncePerCreation
<1> QED BY <1>1, InvariantHolds, PTL
-----------------------------------------------------------------------------
(* A command leaves flight only when its transaction lands. *)
LEMMA OnlyLandEnds ==
    ASSUME [Next]_vars, NEW c \in flight, c \notin flight'
    PROVE  Land(c)
<1>1. ASSUME flight' = flight PROVE FALSE
  BY <1>1
<1>2. ASSUME NEW k, Submit(k) PROVE FALSE
  BY <1>2 DEF Submit
<1>3. ASSUME NEW r \in Requests, RunOrder(r) \/ RunSettle(r) \/ RunReclaim(r) PROVE FALSE
  BY <1>1, <1>2, <1>3, Zenon DEF RunOrder, RunSettle, RunReclaim
<1>4. ASSUME NEW k, NEW unanswered, PrepareSettlement(k, unanswered) PROVE FALSE
  <2>1. flight' = flight \/ Submit(k)
    BY <1>4, Zenon DEF PrepareSettlement
  <2> QED BY <1>1, <1>2, <2>1
<1>5. ASSUME NEW k, Simulate(k) PROVE FALSE
  <2>1. flight' = flight
    BY <1>5 DEF Simulate
  <2> QED BY <1>1, <2>1
<1>6. ASSUME Meanwhile PROVE FALSE
  BY <1>1, <1>6 DEF Meanwhile
<1>7. ASSUME NEW i, CancelOrder(i) \/ (\E amounts \in OtherFills : SettleElsewhere(i, amounts)) PROVE FALSE
  BY <1>6, <1>7, Zenon DEF CancelOrder, SettleElsewhere
<1>8. ASSUME NEW a, CloseAccount(a) \/ (\E m \in Mints : Reopen(a, m)) PROVE FALSE
  BY <1>6, <1>8, Zenon DEF CloseAccount, Reopen
<1>9. ASSUME Tick PROVE FALSE
  BY <1>6, <1>9 DEF Tick
<1>10. ASSUME UNCHANGED vars PROVE FALSE
  <2>1. flight' = flight
    BY <1>10 DEF vars
  <2> QED BY <1>1, <2>1
<1>11. PICK k \in flight : Land(k)
  BY <1>3, <1>4, <1>5, <1>7, <1>8, <1>9, <1>10, Zenon DEF Next
<1>12. flight' = flight \ {k}
  BY <1>11, Zenon DEF Land
<1>13. k = c
  BY <1>12
<1> QED BY <1>11, <1>13

LEMMA OrderIsReady ==
    ASSUME IInv, NEW c \in flight, Land(c), commands[c].request.command = "order", commands[c].fresh
    PROVE  LET i == Last(commands[c].ixs).intent IN
           /\ i \in DOMAIN orders'
           /\ {i.sell_token_account, i.buy_token_account} \subseteq DOMAIN accounts'
           /\ accounts'[i.sell_token_account].delegated >= i.sell_amount
           /\ (\E ix \in Range(commands[c].ixs) : ix.op = "wrap") =>
                  accounts'[i.sell_token_account].amount >= i.sell_amount
<1> DEFINE d == commands[c]
           ixs == d.ixs
           t == ExecuteAll(ixs)
           i == Last(ixs).intent
           n == Len(ixs)
<1>1. /\ Succeeds(t)
      /\ accounts' = t.accounts /\ orders' = t.orders
      /\ IsCommand(d) /\ IsFresh(d)
  BY LandIs, Zenon
<1>2. IsOrderIxs(ixs, i) /\ OpensBuyAccount(d)
  BY <1>1 DEF IsCommand, IsFresh
<1>3. i.buy_token_account \in DOMAIN accounts \/ \E k \in 1..(n - 1) : ixs[k].account = i.buy_token_account
  BY <1>2 DEF OpensBuyAccount
<1>4. AccountsOK(accounts) /\ OrdersOK(orders)
  BY DEF IInv
<1> HIDE DEF ixs, i
<1>5. /\ Prepared(accounts, t.accounts, ixs, n - 1)
      /\ t.accounts[i.sell_token_account].delegated = i.sell_amount
      /\ i \in DOMAIN t.orders
  BY <1>1, <1>2, <1>4, OrderDone
<1> HIDE DEF t
<1>6. /\ n \in Nat \ {0, 1} /\ DOMAIN ixs = 1..n
      /\ i.sell_amount \in Nat
      /\ ixs[n].op = "create_order"
      /\ ixs[n - 1].account = i.sell_token_account
      /\ \A k \in 1..(n - 1) : ixs[k].op = "wrap" =>
             ixs[k].account = i.sell_token_account /\ ixs[k].amount = i.sell_amount
  BY <1>2, U64MaxAssumption DEF IsOrderIxs, IsIntent
<1>7. n - 1 \in 1..(n - 1) /\ \A k \in 1..n : k = n \/ k \in 1..(n - 1)
  <2>1. n \in Nat \ {0, 1}
    BY <1>6
  <2> HIDE DEF n
  <2> QED BY <2>1
<1>8. i.sell_token_account \in DOMAIN t.accounts
  BY <1>5, <1>6, <1>7 DEF Prepared
<1>9. i.buy_token_account \in DOMAIN t.accounts
  BY <1>3, <1>5 DEF Prepared, Grown
<1>10. ASSUME \E ix \in Range(ixs) : ix.op = "wrap"
       PROVE  t.accounts[i.sell_token_account].amount >= i.sell_amount
  <2>1. PICK k \in 1..n : ixs[k].op = "wrap"
    BY <1>6, <1>10 DEF Range
  <2>2. k \in 1..(n - 1)
    BY <1>6, <1>7, <2>1
  <2> QED BY <1>5, <1>6, <2>1, <2>2 DEF Prepared
<1>11. t.accounts[i.sell_token_account].delegated >= i.sell_amount
  BY <1>5, <1>6
<1>12. /\ i \in DOMAIN orders'
       /\ {i.sell_token_account, i.buy_token_account} \subseteq DOMAIN accounts'
       /\ accounts'[i.sell_token_account].delegated >= i.sell_amount
       /\ (\E ix \in Range(ixs) : ix.op = "wrap") =>
              accounts'[i.sell_token_account].amount >= i.sell_amount
  BY <1>1, <1>5, <1>8, <1>9, <1>10, <1>11
<1> QED BY <1>12, Zenon DEF i, ixs

(* An order that `sell` or `buy` created can be settled at once if nothing *)
(* happened since the tool looked: both its accounts are there, all that   *)
(* it sells is delegated, and wrapped if it is SOL.                        *)
THEOREM CreatedOrdersAreReady == Spec => FreshOrdersAreReady
<1> DEFINE ready(c) ==
        commands[c].request.command = "order" /\ commands[c].fresh =>
             LET i == Last(commands[c].ixs).intent IN
             /\ i \in DOMAIN orders'
             /\ {i.sell_token_account, i.buy_token_account} \subseteq DOMAIN accounts'
             /\ accounts'[i.sell_token_account].delegated >= i.sell_amount
             /\ (\E ix \in Range(commands[c].ixs) : ix.op = "wrap") =>
                    accounts'[i.sell_token_account].amount >= i.sell_amount
<1>1. ASSUME IInv, [Next]_vars
      PROVE  [\A c \in flight \ flight' : ready(c)]_vars
  <2>1. ASSUME NEW c \in flight \ flight' PROVE ready(c)
    <3>1. c \in flight /\ Land(c)
      BY <1>1, <2>1, OnlyLandEnds
    <3> QED BY <1>1, <3>1, OrderIsReady, Zenon
  <2> HIDE DEF ready
  <2> QED BY <2>1
<1> QED BY <1>1, InvariantHolds, PTL DEF Spec, FreshOrdersAreReady
-----------------------------------------------------------------------------
(* The buffers after a settlement. *)
LEMMA SumsAtEnd ==
    ASSUME NEW resolved, IsResolved(resolved), NEW a
    PROVE  LET n == Len(resolved) IN
           /\ Sold(resolved, a, n) = SumFunctionOnSet(SellOf(resolved), SoldFrom(resolved, a))
           /\ Pulling(resolved, a, n) = SumFunctionOnSet(SellOf(resolved), PulledInto(resolved, a))
           /\ Pushing(resolved, a, n) = SumFunctionOnSet(BuyOf(resolved), PushedFrom(resolved, a))
           /\ Sold(resolved, a, n) \in Nat
           /\ Pulling(resolved, a, n) \in Nat
           /\ Pushing(resolved, a, n) \in Nat
           /\ Bought(resolved, a, n) \in Nat
<1> DEFINE n == Len(resolved)
           f == SellOf(resolved)
           g == BuyOf(resolved)
           P == SoldFrom(resolved, a)
           Q == PulledInto(resolved, a)
           R == PushedFrom(resolved, a)
           T == PushedTo(resolved, a)
<1>1. /\ n \in Nat
      /\ P \in SUBSET (1..n) /\ Q \in SUBSET (1..n) /\ R \in SUBSET (1..n) /\ T \in SUBSET (1..n)
  BY SetsOfOrders DEF IsResolved
<1>2. \A k \in 1..n : f[k] \in Nat /\ g[k] \in Nat
  BY ResolvedAmounts
<1>3. IsFiniteSet(1..n)
  BY <1>1, FS_Interval
<1> HIDE DEF n, f, g, P, Q, R, T
<1>4. IsFiniteSet(P) /\ IsFiniteSet(Q) /\ IsFiniteSet(R) /\ IsFiniteSet(T)
  BY <1>1, <1>3, FS_Subset
<1>5. /\ SumFunctionOnSet(f, P) \in Nat /\ SumFunctionOnSet(f, Q) \in Nat
      /\ SumFunctionOnSet(g, R) \in Nat /\ SumFunctionOnSet(g, T) \in Nat
  BY <1>1, <1>2, <1>4, SumSplits
<1>6. /\ SumFunctionOnSet(f, P \cap (1..n)) = SumFunctionOnSet(f, P)
      /\ SumFunctionOnSet(f, Q \cap (1..n)) = SumFunctionOnSet(f, Q)
      /\ SumFunctionOnSet(g, R \cap (1..n)) = SumFunctionOnSet(g, R)
      /\ SumFunctionOnSet(g, T \cap (1..n)) = SumFunctionOnSet(g, T)
  BY <1>1, SumWhole
<1> QED BY <1>5, <1>6 DEF Sold, Pulling, Pushing, Bought, n, f, g, P, Q, R, T

(* What a buffer receives and pays, in terms of the tallies of its mint. *)
LEMMA TalliesAre ==
    ASSUME NEW resolved, IsResolved(resolved), NEW m \in Mints
    PROVE  LET n == Len(resolved) IN
           /\ Pulling(resolved, Buffer[m], n) = SellTally(resolved, m)
           /\ (\A k \in 1..n : resolved[k].buy = resolved[k].intent.buy_mint)
                  => Pushing(resolved, Buffer[m], n) = BuyTally(resolved, m)
<1> DEFINE n == Len(resolved)
<1>1. /\ DOMAIN resolved = 1..n
      /\ \A k \in 1..n : resolved[k].sell \in Mints /\ resolved[k].buy \in Mints
  BY DEF IsResolved
<1>2. \A x \in Mints : Buffer[x] = Buffer[m] <=> x = m
  BY TradingAssumption
<1>3. PulledInto(resolved, Buffer[m]) = {k \in DOMAIN resolved : resolved[k].sell = m}
  BY <1>1, <1>2 DEF PulledInto
<1>4. (\A k \in 1..n : resolved[k].buy = resolved[k].intent.buy_mint)
        => PushedFrom(resolved, Buffer[m]) = {k \in DOMAIN resolved : resolved[k].buy = m}
  BY <1>1, <1>2 DEF PushedFrom
<1>5. SellTally(resolved, m) = SumFunctionOnSet(SellOf(resolved), {k \in DOMAIN resolved : resolved[k].sell = m})
  BY Zenon DEF SellTally, SellOf
<1>6. BuyTally(resolved, m) = SumFunctionOnSet(BuyOf(resolved), {k \in DOMAIN resolved : resolved[k].buy = m})
  BY Zenon DEF BuyTally, BuyOf
<1>7. /\ Pulling(resolved, Buffer[m], n) = SumFunctionOnSet(SellOf(resolved), PulledInto(resolved, Buffer[m]))
      /\ Pushing(resolved, Buffer[m], n) = SumFunctionOnSet(BuyOf(resolved), PushedFrom(resolved, Buffer[m]))
  BY SumsAtEnd
<1> QED BY <1>3, <1>4, <1>5, <1>6, <1>7, Zenon

LEMMA TalliesBalance ==
    ASSUME NEW resolved, IsResolved(resolved), EnsureCowBalance(resolved), NEW m \in Mints,
           \A k \in 1..Len(resolved) : resolved[k].buy = resolved[k].intent.buy_mint
    PROVE  Pulling(resolved, Buffer[m], Len(resolved)) >= Pushing(resolved, Buffer[m], Len(resolved))
<1> DEFINE n == Len(resolved)
           in == Pulling(resolved, Buffer[m], n)
           out == Pushing(resolved, Buffer[m], n)
           T == {k \in DOMAIN resolved : resolved[k].buy = m}
<1>1. in = SellTally(resolved, m) /\ out = BuyTally(resolved, m)
  BY TalliesAre
<1>2. in \in Nat /\ out \in Nat
  BY SumsAtEnd
<1> HIDE DEF in, out
<1>3. CASE T = {}
  <2>1. BuyTally(resolved, m) = SumFunctionOnSet(BuyOf(resolved), T)
    BY Zenon DEF BuyTally, BuyOf
  <2>2. out = 0
    BY <1>1, <1>3, <2>1, SumEmpty
  <2> QED BY <1>2, <2>2 DEF in, out
<1>4. CASE T # {}
  <2>1. PICK k \in DOMAIN resolved : resolved[k].buy = m
    BY <1>4
  <2>2. resolved[k] \in Range(resolved)
    BY DEF Range
  <2>3. SellTally(resolved, m) >= BuyTally(resolved, m)
    BY <2>1, <2>2, Zenon DEF EnsureCowBalance
  <2> QED BY <1>1, <2>3 DEF in, out
<1> QED BY <1>3, <1>4

LEMMA OwnSalesAre ==
    ASSUME NEW c, IsResolved(commands[c].resolved), NEW m
    PROVE  LET resolved == commands[c].resolved IN
           OwnSales(c, m) = Sold(resolved, Buffer[m], Len(resolved)) /\ OwnSales(c, m) \in Nat
<1> DEFINE resolved == commands[c].resolved
           own == SoldFrom(resolved, Buffer[m])
           f == [k \in own |-> resolved[k].intent.sell_amount]
           g == SellOf(resolved)
<1>1. OwnSales(c, m) = SumFunctionOnSet(f, own)
  BY Zenon DEF OwnSales, SoldFrom
<1> HIDE DEF resolved
<1>2. IsResolved(resolved)
  BY DEF resolved
<1>3. own \in SUBSET (1..Len(resolved)) /\ Len(resolved) \in Nat /\ own \subseteq DOMAIN resolved
  BY <1>2, SetsOfOrders DEF IsResolved
<1>4. IsFiniteSet(own)
  BY <1>3, FS_Interval, FS_Subset
<1>5. \A k \in own : f[k] = g[k]
  BY <1>3 DEF SellOf
<1> HIDE DEF f, g, own
<1>6. SumFunctionOnSet(f, own) = SumFunctionOnSet(g, own)
  BY <1>4, <1>5, SumSame
<1>7. /\ Sold(resolved, Buffer[m], Len(resolved)) = SumFunctionOnSet(g, own)
      /\ Sold(resolved, Buffer[m], Len(resolved)) \in Nat
  BY <1>2, SumsAtEnd DEF g, own
<1>8. OwnSales(c, m) = Sold(resolved, Buffer[m], Len(resolved)) /\ OwnSales(c, m) \in Nat
  BY <1>1, <1>6, <1>7
<1> QED BY <1>8, Zenon DEF resolved
LEMMA SettlementAmounts ==
    ASSUME NEW opened, NEW pulled, NEW t, NEW setup, NEW resolved, IsResolved(resolved),
           AccountsOK(accounts), SettlesAs(opened, pulled, t, setup, resolved),
           NEW b \in DOMAIN accounts
    PROVE  LET n == Len(resolved) IN
           /\ b \in DOMAIN t.accounts
           /\ t.accounts[b].amount + Pushing(resolved, b, n) + Sold(resolved, b, n)
                = accounts[b].amount + Pulling(resolved, b, n) + Bought(resolved, b, n)
<1> DEFINE n == Len(resolved)
           w == Sold(resolved, b, n)
           x == Pulling(resolved, b, n)
           y == Pushing(resolved, b, n)
           z == Bought(resolved, b, n)
<1>1. w \in Nat /\ x \in Nat /\ y \in Nat /\ z \in Nat
  BY SumsAtEnd
<1>2. b \in DOMAIN opened.accounts /\ opened.accounts[b] = accounts[b]
  BY DEF SettlesAs, Opened
<1>3. b \in DOMAIN pulled.accounts /\ Transferred(opened.accounts[b], pulled.accounts[b], w, x)
  BY <1>2 DEF SettlesAs, PullsAt
<1>4. b \in DOMAIN t.accounts /\ Transferred(pulled.accounts[b], t.accounts[b], y, z)
  BY <1>3 DEF SettlesAs, PushesAt
<1>5. IsAccount(accounts[b]) /\ IsAccount(pulled.accounts[b]) /\ IsAccount(t.accounts[b])
  BY <1>3, <1>4 DEF SettlesAs, PullsAt, PushesAt, IsChain, AccountsOK
<1> DEFINE i == accounts[b].amount
           j == pulled.accounts[b].amount
           k == t.accounts[b].amount
<1>6. i \in Nat /\ j \in Nat /\ k \in Nat
  BY <1>5 DEF IsAccount
<1>7. j + w = i + x /\ k + y = j + z
  BY <1>2, <1>3, <1>4 DEF Transferred
<1> HIDE DEF w, x, y, z, i, j, k
<1>8. k + y + w = i + x + z
  BY <1>1, <1>6, <1>7
<1> QED BY <1>4, <1>8 DEF w, x, y, z, i, j, k

LEMMA BufferKept ==
    ASSUME IInv, IInv', NEW c \in flight, Land(c), SawItsMints(c), NEW m \in Mints
    PROVE  Held(m)' >= Held(m) - OwnSales(c, m)
<1> DEFINE d == commands[c]
           ixs == d.ixs
           t == ExecuteAll(ixs)
           resolved == d.resolved
           b == Buffer[m]
<1>1. /\ Succeeds(t)
      /\ accounts' = t.accounts
      /\ IsCommand(d) /\ d.step # "prepare"
  BY LandIs, Zenon
<1>2. IsResolved(resolved)
  BY <1>1 DEF IsCommand
<1>3. OwnSales(c, m) = Sold(resolved, b, Len(resolved)) /\ OwnSales(c, m) \in Nat
  BY <1>2, OwnSalesAre
<1>4. AccountsOK(accounts) /\ OrdersOK(orders) /\ AccountsOK(accounts')
  BY DEF IInv
<1>5. Held(m) \in Nat /\ Held(m)' \in Nat
  BY <1>4 DEF Held, AccountsOK, IsAccount
<1>6. CASE b \notin DOMAIN accounts
  <2>1. Held(m) = 0
    BY <1>6 DEF Held
  <2> QED BY <1>3, <1>5, <2>1
<1>7. CASE b \in DOMAIN accounts
  <2>1. ASSUME b \in DOMAIN t.accounts, t.accounts[b].amount >= accounts[b].amount - OwnSales(c, m)
        PROVE  Held(m)' >= Held(m) - OwnSales(c, m)
    <3>1. Held(m) = accounts[b].amount /\ Held(m)' = t.accounts[b].amount
      BY <1>1, <1>7, <2>1 DEF Held
    <3> QED BY <2>1, <3>1
  <2>2. accounts[b].amount \in Nat
    BY <1>4, <1>7 DEF AccountsOK, IsAccount
  <2>3. d.request.command \in {"order", "settle", "reclaim"}
    BY <1>1, TradingAssumption DEF IsCommand, IsRequest
  <2>4. ASSUME NEW f, Grown(accounts, f), f = t.accounts
        PROVE  b \in DOMAIN t.accounts /\ t.accounts[b].amount >= accounts[b].amount - OwnSales(c, m)
    <3> DEFINE x == f[b].amount
               y == accounts[b].amount
               z == OwnSales(c, m)
    <3>1. b \in DOMAIN f /\ x >= y /\ x \in Nat /\ y \in Nat
      BY <1>7, <2>2, <2>4 DEF Grown, AccountsOK, IsAccount
    <3> HIDE DEF x, y, z
    <3>2. z \in Nat
      BY <1>3 DEF z
    <3>3. x >= y - z
      BY <3>1, <3>2
    <3> QED BY <2>4, <3>1, <3>3 DEF x, y, z
  <2>5. CASE d.request.command = "order"
    <3> DEFINE i == Last(ixs).intent
    <3>1. IsOrderIxs(ixs, i)
      BY <1>1, <2>5 DEF IsCommand
    <3> HIDE DEF i, ixs
    <3>2. Prepared(accounts, t.accounts, ixs, Len(ixs) - 1)
      BY <1>1, <1>4, <3>1, OrderDone
    <3>3. Grown(accounts, t.accounts)
      BY <3>2 DEF Prepared
    <3> HIDE DEF t
    <3> QED BY <2>1, <2>4, <3>3
  <2>6. CASE d.request.command = "reclaim"
    <3>1. IsSeq(ixs) /\ \A k \in 1..Len(ixs) : ixs[k].op = "reclaim"
      BY <1>1, <2>6 DEF IsCommand
    <3> HIDE DEF ixs
    <3>2. Len(ixs) \in Nat /\ Len(ixs) \in 0..Len(ixs)
      BY <3>1 DEF IsSeq
    <3>3. t = Ran(ixs)[Len(ixs)]
      BY <3>2, ExecuteAllIsRun
    <3>4. t.accounts = accounts
      BY <1>1, <1>4, <3>1, <3>2, <3>3, ReclaimRun
    <3> HIDE DEF t
    <3>5. Grown(accounts, t.accounts)
      BY <1>4, <3>4, GrownSame
    <3> QED BY <2>1, <2>4, <3>5
  <2>7. CASE d.request.command = "settle"
    <3> DEFINE payer == d.request.payer
               n == Len(resolved)
    <3>1. IsPrepared(d)
      BY <1>1, <2>7 DEF IsCommand
    <3>2. PICK setup : IsSeq(setup) /\ IsSetup(setup) /\ ixs = SettlementIxs(payer, setup, resolved)
      BY <3>1 DEF IsPrepared
    <3>3. EnsureCowBalance(resolved)
      BY <3>1 DEF IsPrepared
    <3>4. \A k \in 1..n : resolved[k].buy = resolved[k].intent.buy_mint
      <4>1. DOMAIN resolved = 1..n
        BY <1>2 DEF IsResolved
      <4> QED BY <4>1 DEF SawItsMints, Range
    <3> HIDE DEF ixs, payer, resolved, t
    <3>5. PICK s, u : SettlesAs(s, u, t, setup, resolved)
      BY <1>1, <1>2, <1>4, <3>2, SettlementDone DEF t
    <3> DEFINE w == Sold(resolved, b, n)
               x == Pulling(resolved, b, n)
               y == Pushing(resolved, b, n)
               z == Bought(resolved, b, n)
               i == accounts[b].amount
               k == t.accounts[b].amount
    <3>6. b \in DOMAIN t.accounts /\ k + y + w = i + x + z
      BY <1>2, <1>4, <1>7, <3>5, SettlementAmounts
    <3>7. x >= y
      BY <1>2, <3>3, <3>4, TalliesBalance
    <3>8. w \in Nat /\ x \in Nat /\ y \in Nat /\ z \in Nat
      BY <1>2, SumsAtEnd
    <3>9. k \in Nat
      BY <1>1, <1>4, <3>6 DEF AccountsOK, IsAccount
    <3>10. w = OwnSales(c, m)
      BY <1>3
    <3> HIDE DEF w, x, y, z, i, k
    <3>11. k >= i - w
      BY <2>2, <3>6, <3>7, <3>8, <3>9 DEF i
    <3> QED BY <2>1, <3>6, <3>10, <3>11 DEF i, k
  <2> QED BY <2>3, <2>5, <2>6, <2>7
<1> QED BY <1>6, <1>7

(* The settle command never spends what the buffers already held, however  *)
(* late its transaction lands and whatever others did meanwhile, but for   *)
(* what the program's own orders sell out of them.                         *)
THEOREM CommandsKeepBuffers == Spec => BuffersAreNotDrained
<1> DEFINE kept(c) == SawItsMints(c) => \A m \in Mints : Held(m)' >= Held(m) - OwnSales(c, m)
<1>1. ASSUME IInv, [Next]_vars
      PROVE  [\A c \in flight \ flight' : kept(c)]_vars
  <2>1. IInv'
    BY <1>1, NextKeeps
  <2>2. ASSUME NEW c \in flight \ flight' PROVE kept(c)
    <3>1. c \in flight /\ Land(c)
      BY <1>1, <2>2, OnlyLandEnds
    <3> QED BY <1>1, <2>1, <3>1, BufferKept
  <2> HIDE DEF kept
  <2> QED BY <2>2
<1> QED BY <1>1, InvariantHolds, PTL DEF Spec, BuffersAreNotDrained
-----------------------------------------------------------------------------
(* What succeeds, and not only what it does once it has: a transfer, a     *)
(* pull and an instruction whose conditions hold.                          *)
LEMMA MoveGoes ==
    ASSUME NEW s, IsState(s), NEW from, NEW to, NEW amount, CanMove(s, from, to, amount)
    PROVE  /\ IsState(Move(s, from, to, amount))
           /\ Move(s, from, to, amount).result = s.result
<1> DEFINE u == Move(s, from, to, amount)
<1>1. \/ u = s
      \/ u = [s EXCEPT !.accounts[from].amount = @ - amount,
                !.accounts[from].delegated = IF s.accounts[from].owner = StatePda THEN @ ELSE @ - amount,
                !.accounts[to].amount = @ + amount]
  BY Zenon DEF Move
<1> HIDE DEF u
<1>2. \/ u = s
      \/ u = [s EXCEPT !.accounts = [s.accounts EXCEPT ![from].amount = @ - amount,
                ![from].delegated = IF s.accounts[from].owner = StatePda THEN @ ELSE @ - amount,
                ![to].amount = @ + amount]]
  BY <1>1 DEF IsState
<1>3. \/ u = s
      \/ \E g : u = [s EXCEPT !.accounts = g]
  BY <1>2, Zenon
<1>4. IsState(u) /\ u.result = s.result
  BY <1>3 DEF IsState
<1> QED BY <1>4 DEF u

LEMMA ProcessGoes ==
    ASSUME NEW s, IsState(s), NEW pull, NEW push, CanProcess(s, pull, push),
           CanMove(s, pull.intent.sell_token_account, pull.destination, pull.amount), Succeeds(s)
    PROVE  Succeeds(Process(s, pull, push))
<1> DEFINE i == pull.intent
           fill == [withdrawn |-> pull.amount, received |-> push.amount]
           u == Move(s, i.sell_token_account, pull.destination, pull.amount)
           t == Process(s, pull, push)
<1>1. t = [u EXCEPT !.orders[i].fill = AddFills(@, fill)]
  BY Zenon DEF Process
<1>2. IsState(u) /\ u.result = s.result
  BY MoveGoes
<1> HIDE DEF u, t, fill
<1>3. t.result = u.result
  BY <1>1, <1>2 DEF IsState
<1> QED BY <1>2, <1>3 DEF Succeeds, t

LEMMA ExecuteGoes ==
    ASSUME NEW s, NEW ixs, NEW k
    PROVE  LET ix == ixs[k] IN
           /\ ix.op = "create_buffers" => Execute(s, ixs, k) = [s EXCEPT !.accounts = Joined(@, BuffersOf(ix))]
           /\ ix.op = "begin" => Execute(s, ixs, k) = ExecuteBegin(s, ixs, k)
           /\ ix.op = "finalize" => Execute(s, ixs, k) = PushFunds(s, ix.pushes)
<1> DEFINE ix == ixs[k]
           t == Execute(s, ixs, k)
           ata == [s EXCEPT !.accounts = Joined(@, AtaOf(ix))]
           order == [s EXCEPT !.orders = Joined(@, OrderOfIx(ix))]
           buffers == [s EXCEPT !.accounts = Joined(@, BuffersOf(ix))]
           mayAta == CanCreateAta(s, ix)
           mayWrap == s.sol[ix.from] >= ix.amount /\ ix.account \in DOMAIN s.accounts
           mayApprove == ix.account \in DOMAIN s.accounts /\ s.accounts[ix.account].owner = ix.owner
           mayOrder == ix.intent \notin DOMAIN s.orders /\ CheckBytes(ix.intent)
           mayReclaim == IsReclaimable(s, ix)
<1>1. t = CASE ix.op = "create_ata" /\ mayAta -> ata
            [] ix.op = "wrap" /\ s.sol[ix.from] >= ix.amount /\ ix.account \in DOMAIN s.accounts -> Wrapped(s, ix)
            [] ix.op = "approve" /\ ix.account \in DOMAIN s.accounts /\ s.accounts[ix.account].owner = ix.owner ->
                 Delegated(s, ix)
            [] ix.op = "create_order" /\ ix.intent \notin DOMAIN s.orders /\ CheckBytes(ix.intent) -> order
            [] ix.op = "create_buffers" -> buffers
            [] ix.op = "reclaim" /\ mayReclaim -> Reclaimed(s, ix)
            [] ix.op = "begin" -> ExecuteBegin(s, ixs, k)
            [] ix.op = "finalize" -> PushFunds(s, ix.pushes)
            [] OTHER -> Failed(s)
  BY Zenon DEF Execute, AtaOf, OrderOfIx, BuffersOf, Wrapped, Delegated, Reclaimed
<1> DEFINE op == ix.op
           w == Wrapped(s, ix)
           d == Delegated(s, ix)
           r == Reclaimed(s, ix)
           b == ExecuteBegin(s, ixs, k)
           p == PushFunds(s, ix.pushes)
           f == Failed(s)
<1> HIDE DEF t
<1>2. t = CASE op = "create_ata" /\ mayAta -> ata
            [] op = "wrap" /\ mayWrap -> w
            [] op = "approve" /\ mayApprove -> d
            [] op = "create_order" /\ mayOrder -> order
            [] op = "create_buffers" -> buffers
            [] op = "reclaim" /\ mayReclaim -> r
            [] op = "begin" -> b
            [] op = "finalize" -> p
            [] OTHER -> f
  BY <1>1
<1> HIDE DEF ix, ata, order, buffers, mayAta, mayWrap, mayApprove, mayOrder, mayReclaim, w, d, r, b, p, f, op
<1>3. /\ op = "create_buffers" => t = buffers
      /\ op = "begin" => t = b
      /\ op = "finalize" => t = p
  BY <1>2
<1> QED BY <1>3 DEF ix, op, t, buffers, b, p

(* Numbers that never fall are at most the last one. *)
LEMMA LastIsLargest ==
    ASSUME NEW n \in Nat, NEW f, f[n] \in Nat,
           \A j \in 1..n : f[j - 1] \in Nat /\ f[j] \in Nat /\ f[j - 1] <= f[j]
    PROVE  \A j \in 0..n : f[j] \in Nat /\ f[j] <= f[n]
<1> DEFINE N == {d \in Nat : d <= n => f[n - d] \in Nat /\ f[n - d] <= f[n]}
<1>1. ASSUME NEW d \in Nat, \A k \in 0..(d - 1) : k \in N
      PROVE  d \in N
  <2> SUFFICES ASSUME d <= n PROVE f[n - d] \in Nat /\ f[n - d] <= f[n]
    OBVIOUS
  <2>1. CASE d = 0
    BY <2>1
  <2>2. CASE d # 0
    <3> DEFINE j == n - (d - 1)
    <3>1. d - 1 \in 0..(d - 1) /\ d - 1 <= n /\ j \in 1..n /\ j - 1 = n - d
      BY <2>2
    <3>2. f[j] \in Nat /\ f[j] <= f[n]
      BY <1>1, <3>1
    <3>3. f[j - 1] \in Nat /\ f[j - 1] <= f[j]
      BY <3>1
    <3> QED BY <3>1, <3>2, <3>3
  <2> QED BY <2>1, <2>2
<1> HIDE DEF N
<1>2. Nat \subseteq N
  BY <1>1, NumbersInduction
<1>3. ASSUME NEW j \in 0..n PROVE f[j] \in Nat /\ f[j] <= f[n]
  <2>1. n - j \in Nat /\ n - j <= n /\ n - (n - j) = j
    OBVIOUS
  <2> QED BY <1>2, <2>1 DEF N
<1> QED BY <1>3

LEMMA SumsGrow ==
    ASSUME NEW resolved, IsResolved(resolved), NEW a, NEW j \in 0..Len(resolved)
    PROVE  /\ Sold(resolved, a, j) \in Nat /\ Sold(resolved, a, j) <= Sold(resolved, a, Len(resolved))
           /\ Pushing(resolved, a, j) \in Nat /\ Pushing(resolved, a, j) <= Pushing(resolved, a, Len(resolved))
<1> DEFINE n == Len(resolved)
           f == [k \in 0..n |-> Sold(resolved, a, k)]
           g == [k \in 0..n |-> Pushing(resolved, a, k)]
<1>1. n \in Nat
  BY DEF IsResolved
<1>2. f[n] \in Nat /\ g[n] \in Nat
  BY <1>1, SumsAtEnd
<1>3. ASSUME NEW k \in 1..n
      PROVE  /\ f[k - 1] \in Nat /\ f[k] \in Nat /\ f[k - 1] <= f[k]
             /\ g[k - 1] \in Nat /\ g[k] \in Nat /\ g[k - 1] <= g[k]
  <2> DEFINE i == resolved[k].intent
             x == If(a = i.sell_token_account, i.sell_amount)
             y == If(a = Buffer[i.buy_mint], i.buy_amount)
  <2>1. x \in Nat /\ y \in Nat
    BY ResolvedAmounts DEF If
  <2>2. /\ Sold(resolved, a, k - 1) \in Nat
        /\ Pushing(resolved, a, k - 1) \in Nat
        /\ Sold(resolved, a, k) = Sold(resolved, a, k - 1) + x
        /\ Pushing(resolved, a, k) = Pushing(resolved, a, k - 1) + y
    BY SumsNext
  <2>3. k \in 0..n /\ k - 1 \in 0..n
    BY <1>1
  <2> HIDE DEF x, y, n
  <2> QED BY <2>1, <2>2, <2>3
<1> HIDE DEF f, g
<1>4. /\ \A k \in 0..n : f[k] \in Nat /\ f[k] <= f[n]
      /\ \A k \in 0..n : g[k] \in Nat /\ g[k] <= g[n]
  <2> HIDE DEF n
  <2> QED BY <1>1, <1>2, <1>3, LastIsLargest
<1>5. n \in 0..n /\ j \in 0..n
  BY <1>1
<1> QED BY <1>4, <1>5 DEF f, g
(* What different orders sell from an account: the sum over the orders is  *)
(* the sum over the places they have in the list.                          *)
LEMMA SalesAre ==
    ASSUME NEW resolved, IsResolved(resolved), NEW list, DOMAIN list = 1..Len(resolved),
           \A k \in 1..Len(resolved) : resolved[k].intent = list[k], IsInjective(list), NEW a
    PROVE  SumFunctionOnSet([i \in Range(list) |-> i.sell_amount],
                            {i \in Range(list) : i.sell_token_account = a})
             = Sold(resolved, a, Len(resolved))
<1> DEFINE n == Len(resolved)
           h == [i \in Range(list) |-> i.sell_amount]
           R(j) == {list[k] : k \in {k \in 1..j : list[k].sell_token_account = a}}
           N == {j \in Nat : j <= n => SumFunctionOnSet(h, R(j)) = Sold(resolved, a, j)}
<1>1. n \in Nat
  BY DEF IsResolved
<1>2. \A k \in 1..n : list[k] \in Range(list) /\ h[list[k]] = list[k].sell_amount /\ h[list[k]] \in Nat
  <2>1. \A k \in 1..n : list[k] \in Range(list)
    BY DEF Range
  <2>2. \A k \in 1..n : list[k].sell_amount \in Nat
    BY ResolvedAmounts
  <2> QED BY <2>1, <2>2
<1>3. \A j, k \in 1..n : list[j] = list[k] => j = k
  BY DEF IsInjective
<1> HIDE DEF h
<1>4. ASSUME NEW j \in Nat, \A k \in 0..(j - 1) : k \in N
      PROVE  j \in N
  <2> SUFFICES ASSUME j <= n PROVE SumFunctionOnSet(h, R(j)) = Sold(resolved, a, j)
    OBVIOUS
  <2>1. CASE j = 0
    <3>1. R(0) = {}
      OBVIOUS
    <3>2. SoldFrom(resolved, a) \in SUBSET (1..n)
      BY SetsOfOrders
    <3>3. Sold(resolved, a, 0) = 0
      BY <1>1, <3>2, SumWhole DEF Sold
    <3> HIDE DEF R
    <3> QED BY <2>1, <3>1, <3>3, SumEmpty
  <2>2. CASE j # 0
    <3> DEFINE i == list[j]
               x == If(a = i.sell_token_account, i.sell_amount)
    <3>1. j \in 1..n /\ j - 1 \in 0..(j - 1) /\ j - 1 <= n
      BY <1>1, <2>2
    <3>2. SumFunctionOnSet(h, R(j - 1)) = Sold(resolved, a, j - 1)
      BY <1>4, <3>1
    <3>3. Sold(resolved, a, j) = Sold(resolved, a, j - 1) + x /\ Sold(resolved, a, j - 1) \in Nat
      <4>1. resolved[j].intent = i
        BY <3>1
      <4>2. /\ Sold(resolved, a, j - 1) \in Nat
            /\ Sold(resolved, a, j) = Sold(resolved, a, j - 1)
                 + If(a = resolved[j].intent.sell_token_account, resolved[j].intent.sell_amount)
        <5> HIDE DEF R, N
        <5>1. j \in 1..Len(resolved)
          BY <3>1
        <5> QED BY ONLY <5>1, IsResolved(resolved), SumsNext
      <4> QED BY <4>1, <4>2, Zenon
    <3>4. CASE a # i.sell_token_account
      <4>1. R(j) = R(j - 1)
        BY <3>1, <3>4
      <4>2. x = 0
        BY <3>4 DEF If
      <4> HIDE DEF R, x
      <4> QED BY <3>2, <3>3, <4>1, <4>2
    <3>5. CASE a = i.sell_token_account
      <4>1. i \in R(j) /\ R(j) \ {i} = R(j - 1)
        <5>1. i \in R(j)
          BY <3>1, <3>5
        <5>2. i \notin R(j - 1)
          BY <1>3, <3>1
        <5>3. R(j) = R(j - 1) \cup {i}
          BY <3>1, <3>5
        <5> HIDE DEF R
        <5> QED BY <5>1, <5>2, <5>3
      <4>2. IsFiniteSet(R(j))
        <5> DEFINE K == {k \in 1..j : list[k].sell_token_account = a}
        <5>1. IsFiniteSet(1..j)
          BY FS_Interval
        <5>2. K \subseteq 1..j
          OBVIOUS
        <5> HIDE DEF K
        <5>3. IsFiniteSet(K)
          BY <5>1, <5>2, FS_Subset
        <5>4. IsFiniteSet({list[k] : k \in K})
          BY ONLY <5>3, ImageFinite, Zenon
        <5>5. R(j) = {list[k] : k \in K}
          BY DEF K
        <5> HIDE DEF R
        <5> QED BY <5>4, <5>5, Zenon
      <4>3. \A y \in R(j) : h[y] \in Nat
        BY <1>2, <3>1
      <4>4. SumFunctionOnSet(h, R(j)) = h[i] + SumFunctionOnSet(h, R(j) \ {i})
        <5> DEFINE S == R(j)
        <5>1. i \in S /\ IsFiniteSet(S) /\ \A y \in S : h[y] \in Nat
          BY <4>1, <4>2, <4>3
        <5> HIDE DEF S, i
        <5>2. SumFunctionOnSet(h, S) = h[i] + SumFunctionOnSet(h, S \ {i})
          BY <5>1, SumSplits
        <5> QED BY <5>2 DEF S
      <4>5. h[i] = x /\ h[i] \in Nat
        BY <1>2, <3>1, <3>5 DEF If
      <4> DEFINE p == SumFunctionOnSet(h, R(j))
                 q == SumFunctionOnSet(h, R(j - 1))
      <4>6. p = x + q /\ q = Sold(resolved, a, j - 1) /\ x \in Nat
        BY <3>2, <4>1, <4>4, <4>5
      <4> HIDE DEF p, q, x
      <4>7. p = Sold(resolved, a, j)
        BY <3>3, <4>6
      <4> QED BY <4>7 DEF p
    <3> QED BY <3>4, <3>5
  <2> QED BY <2>1, <2>2
<1>5. R(n) = {i \in Range(list) : i.sell_token_account = a}
  BY DEF Range
<1> HIDE DEF N, R
<1>6. Nat \subseteq N
  BY <1>4, NumbersInduction
<1>7. SumFunctionOnSet(h, R(n)) = Sold(resolved, a, n)
  BY <1>1, <1>6 DEF N
<1> QED BY <1>5, <1>7 DEF h
-----------------------------------------------------------------------------
(* What a settlement needs of the state in which it begins to pull.  An    *)
(* order:                                                                  *)
IsOpen(s, i) ==
    /\ i \in DOMAIN s.orders
    /\ s.orders[i].fill = NoFill
    /\ ~s.orders[i].cancelled
    /\ ~Expired(i, now)

(* the accounts of the one at k:                                           *)
HasAccounts(f, resolved, k) ==
    LET i == resolved[k].intent IN
    /\ i.sell_token_account \in DOMAIN f /\ i.buy_token_account \in DOMAIN f
    /\ Buffer[resolved[k].sell] \in DOMAIN f /\ Buffer[i.buy_mint] \in DOMAIN f
    /\ i.buy_mint \in Mints
    /\ f[i.sell_token_account].owner = i.owner
    /\ f[i.sell_token_account].mint = i.sell_mint /\ resolved[k].sell = i.sell_mint
    /\ f[i.buy_token_account].mint = i.buy_mint /\ resolved[k].buy = i.buy_mint
    /\ i.buy_token_account # Buffer[i.buy_mint]

(* and what is sold from an account in all:                                *)
HasTokens(f, resolved, a) ==
    /\ Sold(resolved, a, Len(resolved)) <= f[a].amount
    /\ f[a].owner # StatePda => Sold(resolved, a, Len(resolved)) <= f[a].delegated

CanSettle(s, resolved) ==
    /\ \A k \in 1..Len(resolved) :
           /\ IsOpen(s, resolved[k].intent)
           /\ HasAccounts(s.accounts, resolved, k)
           /\ HasTokens(s.accounts, resolved, resolved[k].intent.sell_token_account)
    /\ \A j, k \in 1..Len(resolved) : resolved[j].intent = resolved[k].intent => j = k

(* An order filled in full at once is within its limits. *)
LEMMA FullFits ==
    ASSUME NEW i, IsIntent(i)
    PROVE  /\ ValidateLimitPrice(i, [withdrawn |-> i.sell_amount, received |-> i.buy_amount])
           /\ ValidatedFinalAmounts(i, NoFill, [withdrawn |-> i.sell_amount, received |-> i.buy_amount])
<1> DEFINE full == [withdrawn |-> i.sell_amount, received |-> i.buy_amount]
<1>1. /\ i.sell_amount \in Nat /\ i.buy_amount \in Nat
      /\ i.sell_amount <= U64Max /\ i.buy_amount <= U64Max
  BY U64MaxAssumption DEF IsIntent
<1>2. i.buy_amount * i.sell_amount >= i.sell_amount * i.buy_amount
  BY <1>1
<1>3. ValidateLimitPrice(i, full)
  BY <1>2 DEF ValidateLimitPrice
<1>4. AddFills(NoFill, full) = full
  BY <1>1 DEF AddFills, NoFill
<1>5. Filled(i, full) = OrderAmount(i) /\ OrderAmount(i) \in Nat
  BY <1>1 DEF Filled, OrderAmount
<1>6. ValidatedFinalAmounts(i, NoFill, full)
  BY <1>1, <1>4, <1>5 DEF ValidatedFinalAmounts
<1> QED BY <1>3, <1>6
(* The pull at j succeeds after those before it. *)
LEMMA PullGoes ==
    ASSUME NEW s, IsChain(s), BuffersOK(s.accounts), NEW resolved, IsResolved(resolved),
           CanSettle(s, resolved), NEW j \in 1..Len(resolved), NEW t, PullsAt(s, t, resolved, j - 1)
    PROVE  LET pull == ComputePulls(resolved)[j]
               push == ComputePushes(resolved)[j]
           IN  /\ CanProcess(t, pull, push)
               /\ CanMove(t, pull.intent.sell_token_account, pull.destination, pull.amount)
<1> DEFINE pull == ComputePulls(resolved)[j]
           push == ComputePushes(resolved)[j]
           i == resolved[j].intent
           a == i.sell_token_account
           b == Buffer[resolved[j].sell]
           n == Len(resolved)
<1>1. /\ pull.intent = i /\ pull.amount = i.sell_amount /\ pull.destination = b
      /\ push.amount = i.buy_amount /\ push.destination = i.buy_token_account
      /\ push.source = Buffer[i.buy_mint]
  BY PullFields
<1>2. IsIntent(i) /\ resolved[j].sell \in Mints
  BY DEF IsResolved
<1>3. IsOpen(s, i) /\ HasAccounts(s.accounts, resolved, j) /\ HasTokens(s.accounts, resolved, a)
  BY DEF CanSettle
<1>4. t.orders[i] = s.orders[i] /\ i \in DOMAIN t.orders
  <2>1. \A k \in 1..(j - 1) : k \in 1..n /\ k # j
    BY DEF IsResolved
  <2>2. \A k \in 1..(j - 1) : resolved[k].intent # i
    BY <2>1 DEF CanSettle
  <2> QED BY <1>3, <2>2 DEF PullsAt, IsOpen
<1>5. IsOpen(t, i)
  BY <1>3, <1>4 DEF IsOpen
<1>6. /\ a \in DOMAIN s.accounts /\ b \in DOMAIN s.accounts
      /\ DOMAIN t.accounts = DOMAIN s.accounts
  BY <1>3 DEF HasAccounts, PullsAt
<1>7. /\ t.accounts[a].owner = s.accounts[a].owner /\ t.accounts[a].mint = s.accounts[a].mint
      /\ t.accounts[b].mint = s.accounts[b].mint
  BY <1>6 DEF PullsAt, Transferred
<1>8. CanProcess(t, pull, push)
  <2> DEFINE full == [withdrawn |-> i.sell_amount, received |-> i.buy_amount]
  <2>1. ValidateLimitPrice(i, full) /\ FillFits(t, i, full)
    BY <1>2, <1>5, FullFits DEF FillFits, IsOpen
  <2>2. full = [withdrawn |-> pull.amount, received |-> push.amount]
    BY <1>1
  <2> HIDE DEF full, pull, push, i
  <2>3. /\ ValidateLimitPrice(pull.intent, [withdrawn |-> pull.amount, received |-> push.amount])
        /\ FillFits(t, pull.intent, [withdrawn |-> pull.amount, received |-> push.amount])
    BY <1>1, <2>1, <2>2
  <2>4. /\ i \in DOMAIN t.orders /\ ~t.orders[i].cancelled /\ ~Expired(i, now)
        /\ Buffer[i.buy_mint] # i.buy_token_account
        /\ i.sell_token_account \in DOMAIN t.accounts
        /\ t.accounts[i.sell_token_account].owner = i.owner
        /\ t.accounts[i.sell_token_account].mint = i.sell_mint
    BY <1>3, <1>5, <1>6, <1>7 DEF IsOpen, HasAccounts, i
  <2> QED BY <1>1, <2>3, <2>4, Zenon DEF CanProcess
<1>9. CanMove(t, a, b, i.sell_amount)
  <2>1. s.accounts[b].mint = resolved[j].sell
    BY <1>2, <1>6 DEF BuffersOK, IsBufferOf
  <2>2. t.accounts[a].mint = t.accounts[b].mint
    BY <1>3, <1>7, <2>1 DEF HasAccounts
  <2> DEFINE sold == Sold(resolved, a, j - 1)
             all == Sold(resolved, a, n)
             in == Pulling(resolved, a, j - 1)
             x == i.sell_amount
             p == s.accounts[a].amount
             q == t.accounts[a].amount
             d == s.accounts[a].delegated
             e == t.accounts[a].delegated
  <2>3. x \in Nat
    BY ResolvedAmounts
  <2>4. sold \in Nat /\ in \in Nat /\ Sold(resolved, a, j) = sold + x
    BY SumsNext DEF If
  <2>5. sold + x <= all /\ all \in Nat
    <3>1. j \in 0..n
      BY DEF IsResolved
    <3> QED BY <2>4, <3>1, SumsGrow, SumsAtEnd
  <2>6. p \in Nat /\ q \in Nat /\ d \in Nat /\ e \in Nat
    BY <1>6 DEF PullsAt, IsChain, AccountsOK, IsAccount
  <2>7. q + sold = p + in /\ e + sold >= d
    BY <1>6 DEF PullsAt, Transferred
  <2>8. all <= p /\ (s.accounts[a].owner # StatePda => all <= d)
    BY <1>3 DEF HasTokens
  <2> HIDE DEF sold, all, in, x, p, q, d, e
  <2>9. q >= x /\ (s.accounts[a].owner # StatePda => e >= x)
    BY <2>3, <2>4, <2>5, <2>6, <2>7, <2>8
  <2> QED BY <1>6, <1>7, <2>2, <2>9 DEF CanMove, q, e, x
<1> QED BY <1>1, <1>8, <1>9

LEMMA PullsGo ==
    ASSUME NEW s, IsChain(s), Succeeds(s), BuffersOK(s.accounts), NEW resolved, IsResolved(resolved),
           CanSettle(s, resolved)
    PROVE  Succeeds(ProcessAll(s, ComputePulls(resolved), ComputePushes(resolved)))
<1> DEFINE P == ComputePulls(resolved)
           Q == ComputePushes(resolved)
           n == Len(resolved)
           g == Pulled(s, P, Q)
           N == {j \in Nat : j <= n => Succeeds(g[j])}
<1>1. n \in Nat /\ Len(P) = n
  BY PullsLen DEF IsResolved
<1>2. \A j \in 0..n : Succeeds(g[j]) => PullsAt(s, g[j], resolved, j)
  BY PullsRun
<1>3. \A j \in 1..n : \A t : PullsAt(s, t, resolved, j - 1) =>
          /\ CanProcess(t, P[j], Q[j])
          /\ CanMove(t, P[j].intent.sell_token_account, P[j].destination, P[j].amount)
  BY PullGoes
<1> HIDE DEF P, Q
<1>4. g[0] = s /\ \A j \in 1..n : g[j] = StepPull(g[j - 1], P, Q, j)
  BY <1>1, PulledStep
<1>5. ProcessAll(s, P, Q) = g[n]
  BY <1>1, ProcessAllIsPulled
<1> HIDE DEF g
<1>6. ASSUME NEW j \in Nat, \A k \in 0..(j - 1) : k \in N
      PROVE  j \in N
  <2> SUFFICES ASSUME j <= n PROVE Succeeds(g[j])
    OBVIOUS
  <2>1. CASE j = 0
    BY <1>4, <2>1
  <2>2. CASE j # 0
    <3>1. j \in 1..n /\ j - 1 \in 0..(j - 1) /\ j - 1 \in 0..n /\ j - 1 <= n
      BY <1>1, <2>2
    <3>2. Succeeds(g[j - 1])
      BY <1>6, <3>1
    <3>3. PullsAt(s, g[j - 1], resolved, j - 1)
      BY <1>2, <3>1, <3>2
    <3>4. /\ CanProcess(g[j - 1], P[j], Q[j])
          /\ CanMove(g[j - 1], P[j].intent.sell_token_account, P[j].destination, P[j].amount)
      BY <1>3, <3>1, <3>3
    <3>5. IsState(g[j - 1])
      BY <3>3 DEF PullsAt, IsChain
    <3>6. g[j] = Process(g[j - 1], P[j], Q[j])
      BY <1>4, <3>1, <3>2 DEF StepPull
    <3> QED BY <3>2, <3>4, <3>5, <3>6, ProcessGoes
  <2> QED BY <2>1, <2>2
<1> HIDE DEF N
<1>7. Nat \subseteq N
  BY <1>6, NumbersInduction
<1>8. Succeeds(g[n])
  BY <1>1, <1>7 DEF N
<1> QED BY <1>5, <1>8 DEF P, Q
(* What a settlement needs of the state in which it begins to push. *)
CanPay(f, resolved) ==
    \A k \in 1..Len(resolved) :
        LET from == Buffer[resolved[k].intent.buy_mint]
            to == resolved[k].intent.buy_token_account
        IN  /\ from \in DOMAIN f /\ to \in DOMAIN f
            /\ f[from].mint = f[to].mint
            /\ f[from].owner = StatePda
            /\ f[from].amount >= Pushing(resolved, from, Len(resolved))

LEMMA PushingNext ==
    ASSUME NEW resolved, IsResolved(resolved), NEW a, NEW j \in 1..Len(resolved)
    PROVE  /\ Pushing(resolved, a, j - 1) \in Nat /\ Bought(resolved, a, j - 1) \in Nat
           /\ Pushing(resolved, a, j) = Pushing(resolved, a, j - 1)
                + If(a = Buffer[resolved[j].intent.buy_mint], resolved[j].intent.buy_amount)
  BY SumsNext

(* The push at j succeeds after those before it. *)
LEMMA PushGoes ==
    ASSUME NEW s, IsChain(s), NEW resolved, IsResolved(resolved), CanPay(s.accounts, resolved),
           NEW j \in 1..Len(resolved), NEW t, PushesAt(s, t, resolved, j - 1)
    PROVE  LET push == ComputePushes(resolved)[j]
           IN  CanMove(t, push.source, push.destination, push.amount)
<1> DEFINE push == ComputePushes(resolved)[j]
           i == resolved[j].intent
           a == Buffer[i.buy_mint]
           b == i.buy_token_account
           n == Len(resolved)
<1>1. push.amount = i.buy_amount /\ push.destination = b /\ push.source = a
  BY PullFields
<1>2. /\ a \in DOMAIN s.accounts /\ b \in DOMAIN s.accounts
      /\ s.accounts[a].mint = s.accounts[b].mint
      /\ s.accounts[a].owner = StatePda
      /\ s.accounts[a].amount >= Pushing(resolved, a, n)
  BY DEF CanPay
<1>3. DOMAIN t.accounts = DOMAIN s.accounts
  BY DEF PushesAt
<1>4. /\ t.accounts[a].owner = s.accounts[a].owner /\ t.accounts[a].mint = s.accounts[a].mint
      /\ t.accounts[b].mint = s.accounts[b].mint
  BY <1>2 DEF PushesAt, Transferred
<1> DEFINE pushed == Pushing(resolved, a, j - 1)
           all == Pushing(resolved, a, n)
           in == Bought(resolved, a, j - 1)
           x == i.buy_amount
           p == s.accounts[a].amount
           q == t.accounts[a].amount
<1>5. x \in Nat
  BY ResolvedAmounts
<1>6. pushed \in Nat /\ in \in Nat /\ Pushing(resolved, a, j) = pushed + x
  <2>1. /\ pushed \in Nat /\ in \in Nat
        /\ Pushing(resolved, a, j) = pushed + If(a = Buffer[i.buy_mint], i.buy_amount)
    BY PushingNext
  <2> HIDE DEF pushed, in
  <2> QED BY <2>1, Zenon DEF If
<1>7. pushed + x <= all /\ all \in Nat
  <2>1. j \in 0..n
    BY DEF IsResolved
  <2> QED BY <1>6, <2>1, SumsGrow, SumsAtEnd
<1>8. p \in Nat /\ q \in Nat
  BY <1>2, <1>3 DEF PushesAt, IsChain, AccountsOK, IsAccount
<1>9. q + pushed = p + in /\ p >= all
  BY <1>2 DEF PushesAt, Transferred
<1> HIDE DEF pushed, all, in, x, p, q
<1>10. q >= x
  BY <1>5, <1>6, <1>7, <1>8, <1>9
<1>11. CanMove(t, a, b, i.buy_amount)
  BY <1>2, <1>3, <1>4, <1>10 DEF CanMove, q, x
<1> QED BY <1>1, <1>11

LEMMA PushesGo ==
    ASSUME NEW s, IsChain(s), Succeeds(s), NEW resolved, IsResolved(resolved),
           CanPay(s.accounts, resolved)
    PROVE  Succeeds(PushFunds(s, ComputePushes(resolved)))
<1> DEFINE Q == ComputePushes(resolved)
           n == Len(resolved)
           g == Pushed(s, Q)
           N == {j \in Nat : j <= n => Succeeds(g[j])}
<1>1. n \in Nat /\ Len(Q) = n
  BY PullsLen DEF IsResolved
<1>2. \A j \in 0..n : Succeeds(g[j]) => PushesAt(s, g[j], resolved, j)
  BY PushesRun
<1>3. \A j \in 1..n : \A t : PushesAt(s, t, resolved, j - 1) =>
          CanMove(t, Q[j].source, Q[j].destination, Q[j].amount)
  BY PushGoes
<1> HIDE DEF Q
<1>4. g[0] = s /\ \A j \in 1..n : g[j] = StepPush(g[j - 1], Q, j)
  BY <1>1, PushedStep
<1>5. PushFunds(s, Q) = g[n]
  BY <1>1, PushFundsIsPushed
<1> HIDE DEF g
<1>6. ASSUME NEW j \in Nat, \A k \in 0..(j - 1) : k \in N
      PROVE  j \in N
  <2> SUFFICES ASSUME j <= n PROVE Succeeds(g[j])
    OBVIOUS
  <2>1. CASE j = 0
    BY <1>4, <2>1
  <2>2. CASE j # 0
    <3>1. j \in 1..n /\ j - 1 \in 0..(j - 1) /\ j - 1 \in 0..n /\ j - 1 <= n
      BY <1>1, <2>2
    <3>2. Succeeds(g[j - 1])
      BY <1>6, <3>1
    <3>3. PushesAt(s, g[j - 1], resolved, j - 1)
      BY <1>2, <3>1, <3>2
    <3>4. CanMove(g[j - 1], Q[j].source, Q[j].destination, Q[j].amount)
      BY <1>3, <3>1, <3>3
    <3>5. IsState(g[j - 1])
      BY <3>3 DEF PushesAt, IsChain
    <3>6. g[j] = Move(g[j - 1], Q[j].source, Q[j].destination, Q[j].amount)
      BY <1>4, <3>1, <3>2 DEF StepPush, Push
    <3>7. g[j].result = g[j - 1].result
      BY <3>4, <3>5, <3>6, MoveGoes
    <3> QED BY <3>2, <3>7 DEF Succeeds
  <2> QED BY <2>1, <2>2
<1> HIDE DEF N
<1>7. Nat \subseteq N
  BY <1>6, NumbersInduction
<1>8. Succeeds(g[n])
  BY <1>1, <1>7 DEF N
<1> QED BY <1>5, <1>8 DEF Q

(* The pulls leave in the buffers what is pushed out of them. *)
LEMMA PulledPays ==
    ASSUME NEW s, IsChain(s), BuffersOK(s.accounts), NEW resolved, IsResolved(resolved),
           EnsureCowBalance(resolved), CanSettle(s, resolved),
           NEW t, PullsAt(s, t, resolved, Len(resolved))
    PROVE  CanPay(t.accounts, resolved)
<1> DEFINE n == Len(resolved)
<1> SUFFICES ASSUME NEW k \in 1..n
             PROVE  LET from == Buffer[resolved[k].intent.buy_mint]
                        to == resolved[k].intent.buy_token_account
                    IN  /\ from \in DOMAIN t.accounts /\ to \in DOMAIN t.accounts
                        /\ t.accounts[from].mint = t.accounts[to].mint
                        /\ t.accounts[from].owner = StatePda
                        /\ t.accounts[from].amount >= Pushing(resolved, from, n)
  BY DEF CanPay
<1> DEFINE i == resolved[k].intent
           m == i.buy_mint
           a == Buffer[m]
           b == i.buy_token_account
           sold == Sold(resolved, a, n)
           in == Pulling(resolved, a, n)
           out == Pushing(resolved, a, n)
           p == s.accounts[a].amount
           q == t.accounts[a].amount
<1>1. HasAccounts(s.accounts, resolved, k)
  BY DEF CanSettle
<1>2. /\ a \in DOMAIN s.accounts /\ b \in DOMAIN s.accounts /\ m \in Mints
      /\ s.accounts[b].mint = m
      /\ DOMAIN t.accounts = DOMAIN s.accounts
  BY <1>1 DEF HasAccounts, PullsAt
<1>3. s.accounts[a].owner = StatePda /\ s.accounts[a].mint = m
  BY <1>2 DEF BuffersOK, IsBufferOf
<1>4. /\ Transferred(s.accounts[a], t.accounts[a], sold, in)
      /\ t.accounts[b].mint = s.accounts[b].mint
  BY <1>2 DEF PullsAt, Transferred
<1>5. sold \in Nat /\ in \in Nat /\ out \in Nat
  BY SumsAtEnd
<1>6. in >= out
  <2>1. \A j \in 1..n : resolved[j].buy = resolved[j].intent.buy_mint
    BY DEF CanSettle, HasAccounts
  <2> QED BY <1>2, <2>1, TalliesBalance
<1>7. p \in Nat /\ q \in Nat
  BY <1>2 DEF PullsAt, IsChain, AccountsOK, IsAccount
<1>8. sold <= p
  <2>1. CASE SoldFrom(resolved, a) = {}
    <3>1. sold = SumFunctionOnSet(SellOf(resolved), SoldFrom(resolved, a))
      BY SumsAtEnd
    <3>2. sold = 0
      BY <2>1, <3>1, SumEmpty
    <3> HIDE DEF sold, p
    <3> QED BY <1>7, <3>2
  <2>2. CASE SoldFrom(resolved, a) # {}
    <3>1. PICK j \in 1..n : resolved[j].intent.sell_token_account = a
      BY <2>2 DEF SoldFrom, IsResolved
    <3>2. HasTokens(s.accounts, resolved, a)
      BY <3>1 DEF CanSettle
    <3> QED BY <3>2 DEF HasTokens
  <2> QED BY <2>1, <2>2
<1>9. q + sold = p + in /\ t.accounts[a].owner = s.accounts[a].owner /\ t.accounts[a].mint = s.accounts[a].mint
  BY <1>4 DEF Transferred
<1> HIDE DEF sold, in, out, p, q
<1>10. q >= out
  BY <1>5, <1>6, <1>7, <1>8, <1>9
<1> QED BY <1>2, <1>3, <1>4, <1>9, <1>10 DEF out, q
(* Opening buffers never fails. *)
LEMMA SetupGoes ==
    ASSUME AccountsOK(accounts), OrdersOK(orders), NEW ixs, Len(ixs) \in Nat,
           NEW setup, IsSetup(setup), Len(setup) <= Len(ixs),
           \A k \in 1..Len(setup) : ixs[k] = setup[k]
    PROVE  Succeeds(Ran(ixs)[Len(setup)])
<1> DEFINE g == Ran(ixs)
           n == Len(setup)
           N == {k \in Nat : k <= n => Succeeds(g[k])}
<1>1. n \in Nat
  BY DEF IsSetup
<1>2. \A k \in 0..n : Succeeds(g[k]) => IsChain(g[k])
  BY SetupRun
<1>3. g[0] = Chain /\ \A k \in 1..Len(ixs) : g[k] = StepAll(g[k - 1], ixs, k)
  BY RunStep
<1> HIDE DEF g
<1>4. ASSUME NEW k \in Nat, \A j \in 0..(k - 1) : j \in N
      PROVE  k \in N
  <2> SUFFICES ASSUME k <= n PROVE Succeeds(g[k])
    OBVIOUS
  <2>1. CASE k = 0
    BY <1>3, <2>1, ChainIs DEF Succeeds
  <2>2. CASE k # 0
    <3> DEFINE s == g[k - 1]
               new == Joined(s.accounts, BuffersOf(ixs[k]))
    <3>1. k \in 1..Len(ixs) /\ k \in 1..n /\ k - 1 \in 0..(k - 1) /\ k - 1 \in 0..n /\ k - 1 <= n
      BY <1>1, <2>2
    <3>2. Succeeds(s)
      BY <1>4, <3>1
    <3>3. IsState(s)
      BY <1>2, <3>1, <3>2 DEF IsChain
    <3>4. g[k] = Execute(s, ixs, k)
      BY <1>3, <3>1, <3>2 DEF StepAll
    <3>5. ixs[k].op = "create_buffers"
      BY <3>1 DEF IsSetup
    <3>6. g[k] = [s EXCEPT !.accounts = Joined(@, BuffersOf(ixs[k]))]
      BY <3>4, <3>5, ExecuteGoes
    <3> HIDE DEF s
    <3>7. g[k].result = s.result
      BY <3>3, <3>6 DEF IsState
    <3> QED BY <3>2, <3>7 DEF Succeeds
  <2> QED BY <2>1, <2>2
<1> HIDE DEF N
<1>5. Nat \subseteq N
  BY <1>4, NumbersInduction
<1>6. Succeeds(g[n])
  BY <1>1, <1>5 DEF N
<1> QED BY <1>6 DEF g

(* The settlement of different orders by a solver passes its first checks. *)
LEMMA BeginGoes ==
    ASSUME NEW payer \in Solvers, NEW setup, IsSeq(setup), IsSetup(setup),
           NEW resolved, IsResolved(resolved),
           \A j, k \in 1..Len(resolved) : resolved[j].intent = resolved[k].intent => j = k,
           NEW ixs, ixs = SettlementIxs(payer, setup, resolved)
    PROVE  LET n == Len(setup) IN
           /\ CanBegin(ixs, n + 1)
           /\ ixs[n + 1].op = "begin" /\ ixs[n + 2].op = "finalize"
           /\ ixs[n + 1].pulls = ComputePulls(resolved)
           /\ ixs[ixs[n + 1].finalize_ix_index + 1].pushes = ComputePushes(resolved)
           /\ ixs[n + 2].pushes = ComputePushes(resolved)
<1> DEFINE n == Len(setup)
           P == ComputePulls(resolved)
           Q == ComputePushes(resolved)
           a == ixs[n + 1]
           b == ixs[n + 2]
<1>1. n \in Nat
  BY DEF IsSetup
<1>2. /\ Len(ixs) = n + 2
      /\ ixs[n + 1] = [op |-> "begin", solver |-> payer, finalize_ix_index |-> n + 1, pulls |-> P]
      /\ ixs[n + 2] = [op |-> "finalize", begin_ix_index |-> n, pushes |-> Q]
  BY SettlementAt
<1>3. DOMAIN P = 1..Len(resolved) /\ \A k \in 1..Len(resolved) : P[k].intent = resolved[k].intent
  BY DEF IsResolved, ComputePulls
<1> HIDE DEF P, Q, n
<1>4. /\ a.op = "begin" /\ a.solver = payer /\ a.finalize_ix_index = n + 1 /\ a.pulls = P
      /\ b.op = "finalize" /\ b.begin_ix_index = n /\ b.pushes = Q
  BY <1>2
<1>5. a.finalize_ix_index + 1 = n + 2 /\ n + 2 \in (n + 1) + 1..Len(ixs) /\ (n + 1) - 1 = n
  BY <1>1, <1>2, <1>4
<1>6. ixs[a.finalize_ix_index + 1] = b
  BY <1>5
<1>7. \A j, k \in DOMAIN a.pulls : a.pulls[j].intent = a.pulls[k].intent => j = k
  BY <1>3, <1>4
<1> HIDE DEF b
<1>8. CanBegin(ixs, n + 1)
  <2>1. /\ a.solver \in Solvers
        /\ a.finalize_ix_index + 1 \in (n + 1) + 1..Len(ixs)
        /\ ixs[a.finalize_ix_index + 1].op = "finalize"
        /\ ixs[a.finalize_ix_index + 1].begin_ix_index = (n + 1) - 1
    BY <1>4, <1>5, <1>6
  <2> QED BY <1>7, <2>1, Zenon DEF CanBegin
<1> QED BY <1>4, <1>6, <1>8 DEF n, P, Q, b

(* A settlement goes through if it can be settled where it begins. *)
LEMMA SettlementGoes ==
    ASSUME AccountsOK(accounts), BuffersOK(accounts), OrdersOK(orders),
           NEW payer \in Solvers, NEW setup, IsSeq(setup), IsSetup(setup),
           NEW resolved, IsResolved(resolved), EnsureCowBalance(resolved),
           NEW ixs, ixs = SettlementIxs(payer, setup, resolved),
           \A s : /\ s.orders = orders
                  /\ Opened(accounts, s.accounts, MintsOf(setup, Len(setup)))
                  => CanSettle(s, resolved)
    PROVE  Succeeds(ExecuteAll(ixs))
<1> DEFINE g == Ran(ixs)
           n == Len(setup)
           s == g[n]
           u == g[n + 1]
           P == ComputePulls(resolved)
           Q == ComputePushes(resolved)
<1>1. n \in Nat
  BY DEF IsSetup
<1>2. Len(ixs) = n + 2 /\ \A k \in 1..n : ixs[k] = setup[k]
  <2>1. /\ Len(SettlementIxs(payer, setup, resolved)) = Len(setup) + 2
        /\ \A k \in 1..Len(setup) : SettlementIxs(payer, setup, resolved)[k] = setup[k]
    BY ONLY IsSeq(setup), IsSetup(setup), SettlementFront
  <2> QED BY <2>1, Zenon
<1>3. /\ Len(ixs) \in Nat /\ n <= Len(ixs) /\ n \in 0..n
      /\ n + 1 \in 1..Len(ixs) /\ n + 2 \in 1..Len(ixs)
      /\ (n + 2) - 1 = n + 1 /\ (n + 1) - 1 = n
  BY <1>1, <1>2
<1>4. Succeeds(s)
  BY <1>2, <1>3, SetupGoes
<1>5. /\ IsChain(s)
      /\ s.orders = orders
      /\ Opened(accounts, s.accounts, MintsOf(setup, n))
  BY <1>2, <1>3, <1>4, SetupRun
<1>6. CanSettle(s, resolved)
  BY <1>5
<1>7. BuffersOK(s.accounts)
  <2>1. MintsOf(setup, n) \in SUBSET Mints
    BY DEF MintsOf, IsSetup
  <2> QED BY <1>5, <2>1, BuffersOpened
<1>8. /\ CanBegin(ixs, n + 1)
      /\ ixs[n + 1].op = "begin" /\ ixs[n + 2].op = "finalize"
      /\ ixs[n + 1].pulls = P
      /\ ixs[ixs[n + 1].finalize_ix_index + 1].pushes = Q
      /\ ixs[n + 2].pushes = Q
  <2>1. \A j, k \in 1..Len(resolved) : resolved[j].intent = resolved[k].intent => j = k
    BY <1>6 DEF CanSettle
  <2> QED BY <2>1, BeginGoes
<1>9. /\ u = StepAll(s, ixs, n + 1)
      /\ g[n + 2] = StepAll(u, ixs, n + 2)
  BY <1>3, RunStep
<1>10. ExecuteAll(ixs) = g[n + 2]
  BY <1>2, ExecuteAllIsRun
<1> HIDE DEF g, n, s, u, P, Q
<1>11. u = ProcessAll(s, P, Q)
  <2>1. u = Execute(s, ixs, n + 1)
    BY <1>4, <1>9 DEF StepAll
  <2>2. u = ExecuteBegin(s, ixs, n + 1)
    BY <1>8, <2>1, ExecuteGoes
  <2>3. u = ProcessAll(s, ixs[n + 1].pulls, ixs[ixs[n + 1].finalize_ix_index + 1].pushes)
    BY <1>8, <2>2, Zenon DEF ExecuteBegin
  <2> QED BY <1>8, <2>3
<1>12. Succeeds(u)
  BY <1>4, <1>5, <1>6, <1>7, <1>11, PullsGo DEF P, Q
<1>13. PullsAt(s, u, resolved, Len(resolved))
  BY <1>5, <1>11, <1>12, PullsDone DEF P, Q
<1>14. CanPay(u.accounts, resolved)
  BY <1>5, <1>6, <1>7, <1>13, PulledPays
<1>15. g[n + 2] = PushFunds(u, Q)
  <2>1. g[n + 2] = Execute(u, ixs, n + 2)
    BY <1>9, <1>12 DEF StepAll
  <2> QED BY <1>8, <2>1, ExecuteGoes
<1>16. IsChain(u)
  BY <1>13 DEF PullsAt
<1>17. Succeeds(PushFunds(u, Q))
  BY <1>12, <1>14, <1>16, PushesGo DEF Q
<1> QED BY <1>10, <1>15, <1>17
-----------------------------------------------------------------------------
(* The settlement that the tool has just built is one that goes through.   *)
LEMMA OrderFields ==
    ASSUME NEW i, NEW o, IsOrder(i, o), NEW x, NEW no, o = [o EXCEPT !.fill = x, !.cancelled = no]
    PROVE  o.fill = x /\ o.cancelled = no
<1> DEFINE u == o.fill
           v == o.cancelled
           w == o.created_by
           e == [o EXCEPT !.fill = x]
<1>1. o = [fill |-> u, cancelled |-> v, created_by |-> w]
  BY DEF IsOrder
<1> HIDE DEF u, v, w
<1>2. e = [fill |-> x, cancelled |-> v, created_by |-> w]
  BY ONLY <1>1
<1>3. o = [e EXCEPT !.cancelled = no]
  BY Zenon
<1> HIDE DEF e
<1>4. o = [fill |-> x, cancelled |-> no, created_by |-> w]
  BY ONLY <1>2, <1>3
<1> QED BY ONLY <1>4

LEMMA OrderIsOpen ==
    ASSUME NEW i, NEW o, IsOrder(i, o), o = [o EXCEPT !.fill = NoFill, !.cancelled = FALSE]
    PROVE  o.fill = NoFill /\ ~o.cancelled
<1>1. o.fill = NoFill /\ o.cancelled = FALSE
  BY OrderFields, Zenon
<1> QED BY <1>1, Zenon

(* What Settleable says of command c, with the sums as those of the pulls. *)
LEMMA SettleableIs ==
    ASSUME NEW c, Settleable(c), IsResolved(commands[c].resolved), SawChain(commands[c]),
           OrdersOK(orders)
    PROVE  LET resolved == commands[c].resolved IN
           /\ commands[c].request.payer \in Solvers
           /\ \A j, k \in 1..Len(resolved) : resolved[j].intent = resolved[k].intent => j = k
           /\ \A k \in 1..Len(resolved) :
                  LET i == resolved[k].intent
                      sell == accounts[i.sell_token_account]
                      buy == accounts[i.buy_token_account]
                      sold == Sold(resolved, i.sell_token_account, Len(resolved))
                  IN  /\ i \in DOMAIN orders /\ orders[i].fill = NoFill /\ ~orders[i].cancelled
                      /\ i.sell_token_account \in DOMAIN accounts
                      /\ i.buy_token_account \in DOMAIN accounts
                      /\ resolved[k].sell = sell.mint /\ resolved[k].buy = buy.mint
                      /\ ~Expired(i, now)
                      /\ sell.owner = i.owner /\ sell.mint = i.sell_mint /\ buy.mint = i.buy_mint
                      /\ i.buy_token_account # Buffer[i.buy_mint]
                      /\ sold <= sell.amount
                      /\ i.owner # StatePda => sold <= sell.delegated
<1> DEFINE d == commands[c]
           resolved == d.resolved
           list == d.request.orders
           n == Len(resolved)
           sells(a) == SumFunctionOnSet([i \in Range(list) |-> i.sell_amount],
                                        {i \in Range(list) : i.sell_token_account = a})
<1>1. /\ d.request.payer \in Solvers
      /\ IsInjective(list)
      /\ \A i \in Range(list) :
           /\ orders[i] = [orders[i] EXCEPT !.fill = NoFill, !.cancelled = FALSE]
           /\ ~Expired(i, now)
           /\ accounts[i.sell_token_account].owner = i.owner
           /\ accounts[i.sell_token_account].mint = i.sell_mint
           /\ accounts[i.buy_token_account].mint = i.buy_mint
           /\ i.buy_token_account # Buffer[i.buy_mint]
           /\ sells(i.sell_token_account) <= accounts[i.sell_token_account].amount
           /\ i.owner # StatePda => sells(i.sell_token_account) <= accounts[i.sell_token_account].delegated
  BY Zenon DEF Settleable
<1>2. IsInjective(list)
  BY <1>1, Zenon
<1>3. /\ resolved = ResolveIntents(list)
      /\ \A i \in Range(list) : /\ i \in DOMAIN orders
                                /\ i.sell_token_account \in DOMAIN accounts
                                /\ i.buy_token_account \in DOMAIN accounts
  BY Zenon DEF SawChain
<1>4. DOMAIN resolved = 1..n
  BY DEF IsResolved
<1>5. /\ DOMAIN list = DOMAIN resolved
      /\ \A k \in DOMAIN list : /\ resolved[k].intent = list[k]
                                /\ resolved[k].sell = accounts[list[k].sell_token_account].mint
                                /\ resolved[k].buy = accounts[list[k].buy_token_account].mint
  <2> HIDE DEF resolved, list
  <2> QED BY <1>3 DEF ResolveIntents
<1>6. \A k \in 1..n : list[k] \in Range(list)
  BY <1>4, <1>5 DEF Range
<1> HIDE DEF d, list
<1>7. \A a : sells(a) = Sold(resolved, a, n)
  <2> HIDE DEF resolved
  <2>1. IsResolved(resolved)
    BY DEF resolved, d
  <2>2. \A k \in 1..n : resolved[k].intent = list[k]
    BY <1>4, <1>5
  <2>3. DOMAIN list = 1..n
    BY <1>4, <1>5
  <2> QED BY ONLY <1>2, <2>1, <2>2, <2>3, SalesAre
<1>8. \A j, k \in 1..n : resolved[j].intent = resolved[k].intent => j = k
  <2> HIDE DEF resolved
  <2> QED BY <1>2, <1>4, <1>5 DEF IsInjective
<1> HIDE DEF sells
<1>9. ASSUME NEW k \in 1..n
      PROVE  LET i == resolved[k].intent
                 sell == accounts[i.sell_token_account]
                 buy == accounts[i.buy_token_account]
                 sold == Sold(resolved, i.sell_token_account, n)
             IN  /\ i \in DOMAIN orders /\ orders[i].fill = NoFill /\ ~orders[i].cancelled
                 /\ i.sell_token_account \in DOMAIN accounts
                 /\ i.buy_token_account \in DOMAIN accounts
                 /\ resolved[k].sell = sell.mint /\ resolved[k].buy = buy.mint
                 /\ ~Expired(i, now)
                 /\ sell.owner = i.owner /\ sell.mint = i.sell_mint /\ buy.mint = i.buy_mint
                 /\ i.buy_token_account # Buffer[i.buy_mint]
                 /\ sold <= sell.amount
                 /\ i.owner # StatePda => sold <= sell.delegated
  <2> DEFINE i == resolved[k].intent
             o == orders[i]
  <2>1. i \in Range(list) /\ list[k] = i
    BY <1>4, <1>5, <1>6
  <2>2. IsOrder(i, o)
    BY <1>3, <2>1 DEF OrdersOK
  <2>3. o = [o EXCEPT !.fill = NoFill, !.cancelled = FALSE]
    BY <1>1, <2>1, Zenon
  <2>4. o.fill = NoFill /\ ~o.cancelled
    BY <2>2, <2>3, OrderIsOpen, Zenon
  <2>5. /\ ~Expired(i, now)
        /\ accounts[i.sell_token_account].owner = i.owner
        /\ accounts[i.sell_token_account].mint = i.sell_mint
        /\ accounts[i.buy_token_account].mint = i.buy_mint
        /\ i.buy_token_account # Buffer[i.buy_mint]
        /\ Sold(resolved, i.sell_token_account, n) <= accounts[i.sell_token_account].amount
        /\ i.owner # StatePda => Sold(resolved, i.sell_token_account, n) <= accounts[i.sell_token_account].delegated
    BY <1>1, <1>7, <2>1, Zenon
  <2>6. /\ i \in DOMAIN orders
        /\ i.sell_token_account \in DOMAIN accounts
        /\ i.buy_token_account \in DOMAIN accounts
    BY <1>3, <2>1, Zenon
  <2>7. /\ resolved[k].sell = accounts[i.sell_token_account].mint
        /\ resolved[k].buy = accounts[i.buy_token_account].mint
    BY <1>4, <1>5, <2>1
  <2> QED BY <2>4, <2>5, <2>6, <2>7, Zenon
<1> QED BY <1>1, <1>8, <1>9, Zenon DEF d
LEMMA FreshCanSettle ==
    ASSUME IInv, NEW c \in 1..Len(commands), commands[c].request.command = "settle",
           commands[c].step # "prepare", SawChain(commands[c]), Settleable(c),
           NEW setup, IsSeq(setup), IsSetup(setup),
           commands[c].ixs = SettlementIxs(commands[c].request.payer, setup, commands[c].resolved),
           NEW s, s.orders = orders, Opened(accounts, s.accounts, MintsOf(setup, Len(setup)))
    PROVE  CanSettle(s, commands[c].resolved)
<1> DEFINE d == commands[c]
           resolved == d.resolved
           payer == d.request.payer
           f == s.accounts
           n == Len(resolved)
<1>1. IsResolved(resolved) /\ OrdersOK(orders)
  BY DEF IInv, CommandsOK, IsCommand
<1>2. \A k \in 1..n : HasBuffer(d, resolved[k].sell) /\ HasBuffer(d, resolved[k].buy)
  BY Zenon DEF SawChain
<1>3. /\ \A j, k \in 1..n : resolved[j].intent = resolved[k].intent => j = k
      /\ \A k \in 1..n :
             LET i == resolved[k].intent
                 sell == accounts[i.sell_token_account]
                 buy == accounts[i.buy_token_account]
                 sold == Sold(resolved, i.sell_token_account, n)
             IN  /\ i \in DOMAIN orders /\ orders[i].fill = NoFill /\ ~orders[i].cancelled
                 /\ i.sell_token_account \in DOMAIN accounts
                 /\ i.buy_token_account \in DOMAIN accounts
                 /\ resolved[k].sell = sell.mint /\ resolved[k].buy = buy.mint
                 /\ ~Expired(i, now)
                 /\ sell.owner = i.owner /\ sell.mint = i.sell_mint /\ buy.mint = i.buy_mint
                 /\ i.buy_token_account # Buffer[i.buy_mint]
                 /\ sold <= sell.amount
                 /\ i.owner # StatePda => sold <= sell.delegated
  BY <1>1, SettleableIs, Zenon
<1>4. /\ Len(d.ixs) = Len(setup) + 2
      /\ \A j \in 1..Len(setup) : d.ixs[j] = setup[j]
      /\ Len(setup) \in Nat
  <2>1. /\ Len(SettlementIxs(payer, setup, resolved)) = Len(setup) + 2
        /\ \A k \in 1..Len(setup) : SettlementIxs(payer, setup, resolved)[k] = setup[k]
    BY ONLY IsSeq(setup), IsSetup(setup), SettlementFront
  <2>2. Len(setup) \in Nat
    BY DEF IsSetup
  <2> QED BY <2>1, <2>2, Zenon
<1>5. /\ \A a \in DOMAIN accounts : a \in DOMAIN f /\ f[a] = accounts[a]
      /\ \A m \in MintsOf(setup, Len(setup)) : Buffer[m] \in DOMAIN f
  BY DEF Opened
<1> HIDE DEF d, f
<1>6. ASSUME NEW m, HasBuffer(d, m) PROVE Buffer[m] \in DOMAIN f
  <2>1. CASE Buffer[m] \in DOMAIN accounts
    BY <1>5, <2>1
  <2>2. CASE \E j \in 1..(Len(d.ixs) - 2) : m \in d.ixs[j].mints
    <3>1. Len(d.ixs) - 2 = Len(setup)
      BY <1>4
    <3>2. PICK j \in 1..Len(setup) : m \in setup[j].mints
      BY <1>4, <2>2, <3>1
    <3>3. m \in MintsOf(setup, Len(setup))
      BY <3>2 DEF MintsOf
    <3> QED BY <1>5, <3>3
  <2> QED BY <1>6, <2>1, <2>2 DEF HasBuffer
<1>7. ASSUME NEW k \in 1..n
      PROVE  /\ IsOpen(s, resolved[k].intent)
             /\ HasAccounts(f, resolved, k)
             /\ HasTokens(f, resolved, resolved[k].intent.sell_token_account)
  <2> DEFINE i == resolved[k].intent
             a == i.sell_token_account
             b == i.buy_token_account
             sold == Sold(resolved, a, n)
  <2>1. /\ i \in DOMAIN orders /\ orders[i].fill = NoFill /\ ~orders[i].cancelled
        /\ ~Expired(i, now)
    BY <1>3, Zenon
  <2>2. /\ a \in DOMAIN accounts /\ b \in DOMAIN accounts
        /\ resolved[k].sell = accounts[a].mint /\ resolved[k].buy = accounts[b].mint
        /\ accounts[a].owner = i.owner /\ accounts[a].mint = i.sell_mint /\ accounts[b].mint = i.buy_mint
        /\ b # Buffer[i.buy_mint]
        /\ sold <= accounts[a].amount
        /\ i.owner # StatePda => sold <= accounts[a].delegated
    BY <1>3, Zenon
  <2>3. IsOpen(s, i)
    BY <2>1, Zenon DEF IsOpen
  <2>4. resolved[k].buy \in Mints
    BY <1>1 DEF IsResolved
  <2>5. Buffer[resolved[k].sell] \in DOMAIN f /\ Buffer[resolved[k].buy] \in DOMAIN f
    BY <1>2, <1>6
  <2>6. HasAccounts(f, resolved, k)
    BY <1>5, <2>2, <2>4, <2>5 DEF HasAccounts
  <2>7. HasTokens(f, resolved, a)
    BY <1>5, <2>2 DEF HasTokens
  <2> QED BY <2>3, <2>6, <2>7
<1> QED BY <1>3, <1>7, Zenon DEF CanSettle, f, d

LEMMA FreshSettlementSucceeds ==
    ASSUME IInv, NEW c \in DOMAIN commands, commands[c].request.command = "settle",
           c \in flight \/ commands[c].step = "simulate", commands[c].fresh, Settleable(c)
    PROVE  Succeeds(ExecuteAll(commands[c].ixs))
<1> DEFINE d == commands[c]
           resolved == d.resolved
           payer == d.request.payer
           ixs == d.ixs
<1>1. c \in 1..Len(commands)
  BY SeqFields DEF IInv, CommandsOK
<1>2. d.step # "prepare"
  BY DEF IInv, CommandsOK
<1>3. /\ AccountsOK(accounts) /\ BuffersOK(accounts) /\ OrdersOK(orders)
      /\ IsCommand(d)
  BY <1>1 DEF IInv, CommandsOK
<1>4. SawChain(d)
  <2>1. IsFresh(d)
    BY <1>1, Zenon DEF IInv, CommandsOK
  <2> QED BY <2>1, Zenon DEF IsFresh
<1>5. IsResolved(resolved) /\ IsPrepared(d)
  BY <1>2, <1>3 DEF IsCommand
<1>6. PICK setup : IsSeq(setup) /\ IsSetup(setup) /\ ixs = SettlementIxs(payer, setup, resolved)
  BY <1>5 DEF IsPrepared
<1>7. EnsureCowBalance(resolved)
  BY <1>5 DEF IsPrepared
<1>8. payer \in Solvers
  BY Zenon DEF Settleable
<1>9. \A s : /\ s.orders = orders
             /\ Opened(accounts, s.accounts, MintsOf(setup, Len(setup)))
             => CanSettle(s, resolved)
  BY <1>1, <1>2, <1>4, <1>6, FreshCanSettle
<1> HIDE DEF resolved, payer, ixs
<1>10. Succeeds(ExecuteAll(ixs))
  BY <1>3, <1>5, <1>6, <1>7, <1>8, <1>9, SettlementGoes
<1> QED BY <1>10 DEF ixs

(* A settlement that the tool sent or is to simulate succeeds if its       *)
(* orders can be settled and nothing happened since it looked, whatever    *)
(* the orders, the mints and the buffers that were there: the buffers it   *)
(* needs are there or opened first, no pull fails after those before it,   *)
(* and the pulls leave in every buffer what is pushed out of it.           *)
THEOREM SettlementsSucceed == Spec => []FreshSettlementsSucceed
<1>1. IInv => FreshSettlementsSucceed
  BY FreshSettlementSucceeds, Zenon DEF FreshSettlementsSucceed
<1> QED BY <1>1, InvariantHolds, PTL
===============================================================================
