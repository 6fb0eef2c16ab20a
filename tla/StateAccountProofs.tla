-------------------------- MODULE StateAccountProofs --------------------------
(***************************************************************************)
(* Proofs about StateAccount: the binary search is exact on every list in  *)
(* order, so the list stays in order and answers like a set; the account   *)
(* stays rent exempt, and roles do not leak.                               *)
(***************************************************************************)
EXTENDS StateAccount, SharedLemmas

(* The rent-exempt minimum is a number of lamports. *)
LEMMA MinimumIsNat ==
    ASSUME NEW slots \in Nat
    PROVE  MinimumBalance(slots) \in Nat
<1>1. HeaderRent \in Nat /\ SlotRent \in Nat
    BY StateAccountAssumption
<1>2. SlotRent * slots \in Nat
    BY <1>1, SMT
<1> QED BY <1>1, <1>2 DEF MinimumBalance

-----------------------------------------------------------------------------
(* The binary search, as the recursive function it is defined by. *)
Halves(list, seek, g, p) ==
    LET half == p[2] \div 2
    IN  IF p[2] = 1 THEN p[1]
        ELSE g[<<IF list[p[1] + half + 1] > seek THEN p[1] ELSE p[1] + half, p[2] - half>>]

IsBase(g, list, seek, W) == g = [p \in W |-> Halves(list, seek, g, p)]
Base(list, seek) == CHOOSE g : IsBase(g, list, seek, Ranges(Len(list)))
LastBase(list, seek) == Base(list, seek)[<<0, Len(list)>>]

LEMMA SearchUsesBase ==
    ASSUME NEW list, NEW seek
    PROVE  BinarySearch(list, seek) =
             IF Len(list) = 0 THEN [found |-> FALSE, index |-> 0]
             ELSE [found |-> list[LastBase(list, seek) + 1] = seek,
                   index |-> IF list[LastBase(list, seek) + 1] < seek THEN LastBase(list, seek) + 1
                             ELSE LastBase(list, seek)]
BY Zenon DEF BinarySearch, LastBase, Base, IsBase, Halves

(* The range that is searched next. *)
Half(list, seek, p) ==
    <<IF list[p[1] + p[2] \div 2 + 1] > seek THEN p[1] ELSE p[1] + p[2] \div 2,
      p[2] - p[2] \div 2>>

LEMMA HalfIsSmaller ==
    ASSUME NEW n \in Nat, NEW list, NEW seek, NEW p \in Ranges(n), p[2] # 1
    PROVE  /\ Half(list, seek, p) \in Ranges(n)
           /\ Half(list, seek, p)[2] < p[2]
           /\ p[2] \div 2 \in 1..(p[2] - 1)
<1>1. p[1] \in 0..n /\ p[2] \in 2..n /\ p[1] + p[2] <= n
    BY DEF Ranges
<1> DEFINE h == p[2] \div 2
<1>2. h \in 1..(p[2] - 1)
    BY <1>1
<1>3. ASSUME NEW b \in {p[1], p[1] + h} PROVE <<b, p[2] - h>> \in Ranges(n)
    BY <1>1, <1>2 DEF Ranges
<1> HIDE DEF h
<1>4. Half(list, seek, p) = <<IF list[p[1] + h + 1] > seek THEN p[1] ELSE p[1] + h, p[2] - h>>
    BY DEF Half, h
<1>5. Half(list, seek, p) \in Ranges(n) /\ Half(list, seek, p)[2] = p[2] - h
    BY <1>3, <1>4
<1>6. p[2] - h < p[2]
    BY <1>1, <1>2
<1> QED BY <1>2, <1>5, <1>6 DEF h

LEMMA HalvesByHalf ==
    ASSUME NEW list, NEW seek, NEW g, NEW p
    PROVE  Halves(list, seek, g, p) = IF p[2] = 1 THEN p[1] ELSE g[Half(list, seek, p)]
BY Zenon DEF Halves, Half

(* The recursion ends, so the function exists. *)
LEMMA BaseExists ==
    ASSUME NEW list, NEW seek, Len(list) \in Nat
    PROVE  IsBase(Base(list, seek), list, seek, Ranges(Len(list)))
<1> DEFINE n == Len(list)
           W(k) == {p \in Ranges(n) : p[2] <= k}
           N == {k \in Nat : \E g : IsBase(g, list, seek, W(k))}
<1>1. ASSUME NEW k \in Nat, \A j \in 0..(k - 1) : j \in N
      PROVE  k \in N
  <2>1. CASE k = 0
    <3>1. W(k) = {}
        BY <2>1 DEF Ranges
    <3> DEFINE g == [p \in {} |-> 0]
    <3>2. g = [p \in {} |-> Halves(list, seek, g, p)]
        OBVIOUS
    <3>3. IsBase(g, list, seek, W(k))
        BY <3>1, <3>2 DEF IsBase
    <3> QED BY <3>3
  <2>2. CASE k # 0
    <3>1. k - 1 \in N
      <4> HIDE DEF N
      <4>1. k - 1 \in 0..(k - 1)
          BY <2>2
      <4> QED BY <1>1, <4>1
    <3>2. PICK f : IsBase(f, list, seek, W(k - 1))
        BY <3>1
    <3> DEFINE g == [p \in W(k) |-> IF p \in W(k - 1) THEN f[p] ELSE Halves(list, seek, f, p)]
    <3>3. ASSUME NEW p \in W(k) PROVE g[p] = Halves(list, seek, f, p)
      <4>1. p \in W(k - 1) => f[p] = Halves(list, seek, f, p)
          BY <3>2, Zenon DEF IsBase
      <4> QED BY <4>1
    <3>4. ASSUME NEW p \in W(k) PROVE Halves(list, seek, g, p) = Halves(list, seek, f, p)
      <4>1. CASE p[2] = 1
          BY <4>1, HalvesByHalf
      <4>2. CASE p[2] # 1
        <5> DEFINE h == Half(list, seek, p)
        <5>1. h \in Ranges(n) /\ h[2] < p[2] /\ p[2] \in Nat /\ h[2] \in Nat
          <6>1. h \in Ranges(n) /\ h[2] < p[2]
              BY <4>2, HalfIsSmaller
          <6>2. \A q \in Ranges(n) : q[2] \in Nat
              BY DEF Ranges
          <6> QED BY <6>1, <6>2
        <5>2. h \in W(k - 1) /\ h \in W(k)
            BY <5>1
        <5>3. g[h] = f[h]
            BY <5>2
        <5> QED BY <4>2, <5>3, HalvesByHalf
      <4> QED BY <4>1, <4>2
    <3>5. g = [p \in W(k) |-> Halves(list, seek, g, p)]
      <4>1. \A p \in W(k) : g[p] = Halves(list, seek, g, p)
          BY <3>3, <3>4
      <4>2. g = [p \in W(k) |-> g[p]]
          OBVIOUS
      <4> HIDE DEF g, W
      <4> QED BY <4>1, <4>2, Zenon
    <3> HIDE DEF g
    <3> QED BY <3>5 DEF IsBase
  <2> QED BY <2>1, <2>2
<1> HIDE DEF N
<1>2. Nat \subseteq N
    BY <1>1, NumbersInduction
<1>3. \E g : IsBase(g, list, seek, W(n))
    BY <1>2 DEF N
<1>4. W(n) = Ranges(n)
    BY DEF Ranges
<1>5. \E g : IsBase(g, list, seek, Ranges(n))
    BY <1>3, <1>4
<1> QED BY <1>5, Zenon DEF Base

(* Where the search ends: the entry at its end is not beyond the one that  *)
(* is sought unless it is the first, and the entry after it is.            *)
Ends(list, seek, p, r) ==
    /\ r \in p[1]..(p[1] + p[2] - 1)
    /\ r = p[1] \/ ~(list[r + 1] > seek)
    /\ r = p[1] + p[2] - 1 \/ list[r + 2] > seek

LEMMA SearchEnds ==
    ASSUME NEW list, NEW seek, Len(list) \in Nat
    PROVE  \A p \in Ranges(Len(list)) : Ends(list, seek, p, Base(list, seek)[p])
<1> DEFINE n == Len(list)
           g == Base(list, seek)
           N == {k \in Nat : \A p \in Ranges(n) : p[2] = k => Ends(list, seek, p, g[p])}
<1>1. \A p \in Ranges(n) : g[p] = Halves(list, seek, g, p)
  <2>1. IsBase(g, list, seek, Ranges(n))
      BY BaseExists
  <2> HIDE DEF g, n
  <2> QED BY <2>1, Zenon DEF IsBase
<1> HIDE DEF g
<1>2. ASSUME NEW k \in Nat, \A j \in 0..(k - 1) : j \in N
      PROVE  k \in N
  <2> SUFFICES ASSUME NEW p \in Ranges(n), p[2] = k PROVE Ends(list, seek, p, g[p])
      OBVIOUS
  <2>1. p[1] \in Nat /\ p[2] \in Nat \ {0}
      BY DEF Ranges
  <2>2. CASE p[2] = 1
      BY <1>1, <2>1, <2>2, HalvesByHalf DEF Ends
  <2>3. CASE p[2] # 1
    <3> DEFINE h == p[2] \div 2
               q == Half(list, seek, p)
               r == g[q]
    <3>1. g[p] = r
        BY <1>1, <2>3, HalvesByHalf
    <3>2. q \in Ranges(n) /\ q[2] < p[2] /\ h \in 1..(p[2] - 1)
        BY <2>3, HalfIsSmaller
    <3>3. q[2] \in Nat /\ Ends(list, seek, q, r)
      <4>1. q[2] \in Nat
          BY <3>2 DEF Ranges
      <4>2. q[2] \in 0..(k - 1)
          BY <3>2, <4>1
      <4>3. q[2] \in N
          BY <1>2, <4>2
      <4> QED BY <3>2, <4>1, <4>3
    <3>4. q = <<IF list[p[1] + h + 1] > seek THEN p[1] ELSE p[1] + h, p[2] - h>>
        BY DEF Half
    <3>5. p[2] = 2 * h \/ p[2] = 2 * h + 1
        BY <2>1
    <3> HIDE DEF q, r, h
    <3>6. CASE list[p[1] + h + 1] > seek
      <4>1. q[1] = p[1] /\ q[2] = p[2] - h
          BY <3>4, <3>6
      <4>2. r \in p[1]..(p[1] + p[2] - h - 1) /\ (r = p[1] \/ ~(list[r + 1] > seek))
          BY <3>3, <4>1 DEF Ends
      <4>3. r # p[1] + h
          BY <2>1, <3>2, <3>6, <4>2
      <4>4. r = p[1] + p[2] - h - 1 => r + 2 = p[1] + h + 1
        <5>1. \A first, size, x, y \in Int :
                  /\ size = 2 * x \/ size = 2 * x + 1
                  /\ y # first + x
                  /\ y = first + size - x - 1
                  => y + 2 = first + x + 1
            OBVIOUS
        <5>2. p[1] \in Int /\ p[2] \in Int /\ h \in Int /\ r \in Int
            BY <2>1, <3>2, <4>2
        <5> QED BY <3>5, <4>3, <5>1, <5>2
      <4>5. list[r + 2] > seek
          BY <3>3, <3>6, <4>1, <4>4 DEF Ends
      <4>6. r \in p[1]..(p[1] + p[2] - 1)
          BY <2>1, <3>2, <4>2
      <4> QED BY <3>1, <4>2, <4>5, <4>6 DEF Ends
    <3>7. CASE ~(list[p[1] + h + 1] > seek)
      <4>1. q[1] = p[1] + h /\ q[2] = p[2] - h
          BY <3>4, <3>7
      <4>2. r \in (p[1] + h)..(p[1] + h + (p[2] - h) - 1)
          BY <3>3, <4>1 DEF Ends
      <4>3. ~(list[r + 1] > seek)
          BY <3>3, <3>7, <4>1 DEF Ends
      <4>4. r \in p[1]..(p[1] + p[2] - 1)
          BY <2>1, <3>2, <4>2
      <4>5. r = p[1] + p[2] - 1 \/ list[r + 2] > seek
          BY <2>1, <3>2, <3>3, <4>1 DEF Ends
      <4> QED BY <3>1, <4>3, <4>4, <4>5 DEF Ends
    <3> QED BY <3>6, <3>7
  <2> QED BY <2>2, <2>3
<1> HIDE DEF N
<1>3. Nat \subseteq N
    BY <1>2, NumbersInduction
<1>4. \A p \in Ranges(n) : p[2] \in Nat
    BY DEF Ranges
<1>5. \A p \in Ranges(n) : Ends(list, seek, p, g[p])
    BY <1>3, <1>4 DEF N
<1> QED BY <1>5 DEF g

(* The list is in order, without repetitions. *)
Sorted(list) == \A j, k \in 1..Len(list) : j < k => list[j] < list[k]

(* What slice::binary_search promises and is_solver, insert_solver and     *)
(* remove_solver rely on, for a list of any length: it finds the entry     *)
(* where it is, and otherwise the slot that keeps the list in order.       *)
THEOREM SearchIsExact ==
    ASSUME NEW list \in Seq(Nat), Sorted(list), NEW seek \in Nat,
           NEW at, at = BinarySearch(list, seek)
    PROVE  /\ at.found \in BOOLEAN
           /\ at.index \in 0..Len(list)
           /\ at.found <=> \E k \in 1..Len(list) : list[k] = seek
           /\ at.found => at.index < Len(list) /\ list[at.index + 1] = seek
           /\ ~at.found => /\ \A k \in 1..at.index : list[k] < seek
                           /\ \A k \in (at.index + 1)..Len(list) : list[k] > seek
<1> DEFINE n == Len(list)
           r == LastBase(list, seek)
<1>1. n \in Nat /\ \A k \in 1..n : list[k] \in Nat
    OBVIOUS
<1>2. CASE n = 0
  <2>1. at = [found |-> FALSE, index |-> 0]
      BY <1>2, SearchUsesBase
  <2> QED BY <1>2, <2>1
<1>3. CASE n # 0
  <2>1. at = [found |-> list[r + 1] = seek, index |-> IF list[r + 1] < seek THEN r + 1 ELSE r]
      BY <1>3, SearchUsesBase
  <2> DEFINE all == <<0, n>>
  <2>2. all \in Ranges(n)
      BY <1>1, <1>3 DEF Ranges
  <2>3. Ends(list, seek, all, r)
      BY <1>1, <2>2, SearchEnds DEF LastBase
  <2> HIDE DEF r
  <2>4. /\ r \in 0..(n - 1)
        /\ r = 0 \/ ~(list[r + 1] > seek)
        /\ r = n - 1 \/ list[r + 2] > seek
      BY <1>1, <2>3 DEF Ends
  <2>5. list[r + 1] \in Nat /\ r + 1 \in 1..n
      BY <1>1, <2>4
  <2>6. \A k \in 1..r : list[k] < list[r + 1]
      BY <1>1, <2>4, <2>5 DEF Sorted
  <2>7. \A k \in (r + 2)..n : list[k] > list[r + 1]
      BY <1>1, <2>4, <2>5 DEF Sorted
  <2>8. \A k \in (r + 2)..n : list[k] > seek
    <3>1. SUFFICES ASSUME NEW k \in (r + 2)..n PROVE list[k] > seek
        OBVIOUS
    <3>2. list[r + 2] > seek /\ r + 2 \in 1..n /\ k \in 1..n
        BY <1>1, <2>4, <3>1
    <3>3. list[r + 2] \in Nat /\ list[k] \in Nat /\ (r + 2 < k => list[r + 2] < list[k])
        BY <1>1, <3>2 DEF Sorted
    <3> QED BY <2>4, <3>1, <3>2, <3>3
  <2>9. /\ at.found \in BOOLEAN
        /\ at.found <=> list[r + 1] = seek
        /\ at.index = IF list[r + 1] < seek THEN r + 1 ELSE r
    <3> DEFINE f == list[r + 1] = seek
               i == IF list[r + 1] < seek THEN r + 1 ELSE r
    <3>1. at = [found |-> f, index |-> i] /\ f \in BOOLEAN
        BY <2>1, Zenon
    <3> HIDE DEF f, i
    <3>2. at.found = f /\ at.index = i
        BY <3>1
    <3>3. at.found \in BOOLEAN /\ (at.found <=> f) /\ at.index = i
        BY <3>1, <3>2, Zenon
    <3> QED BY <3>3, Zenon DEF f, i
  <2>10. CASE list[r + 1] = seek
    <3>1. at.index = r
        BY <2>5, <2>9, <2>10
    <3> QED BY <1>1, <2>4, <2>5, <2>9, <2>10, <3>1
  <2>11. CASE list[r + 1] < seek
    <3>1. ~at.found /\ at.index = r + 1
        BY <2>5, <2>9, <2>11
    <3>2. \A k \in 1..(r + 1) : list[k] < seek
        BY <1>1, <2>4, <2>5, <2>6, <2>11
    <3>3. \A k \in 1..n : list[k] # seek
        BY <1>1, <2>4, <2>8, <3>2
    <3> QED BY <1>1, <2>4, <2>8, <2>9, <3>1, <3>2, <3>3
  <2>12. CASE list[r + 1] > seek
    <3>1. ~at.found /\ at.index = r /\ r = 0
        BY <2>4, <2>5, <2>9, <2>12
    <3>2. \A k \in 1..n : list[k] > seek
        BY <1>1, <2>4, <2>8, <2>12, <3>1
    <3>3. \A k \in 1..n : list[k] # seek
        BY <1>1, <3>2
    <3> QED BY <1>1, <2>9, <3>1, <3>2, <3>3
  <2> QED BY <2>5, <2>10, <2>11, <2>12
<1> QED BY <1>2, <1>3

-----------------------------------------------------------------------------
SolversOf(list) == {list[k] : k \in 1..Len(list)}

LEMMA AddressesAreNumbers == Addresses \in SUBSET Nat /\ Holders \subseteq Addresses
BY StateAccountAssumption

(* The slots.  insert_solver moves the entries after the gap, which is     *)
(* where the search found that the solver belongs.                         *)
LEMMA Inserted ==
    ASSUME NEW list \in Seq(Addresses), Sorted(list), NEW a \in Addresses,
           NEW i \in 0..Len(list),
           \A k \in 1..i : list[k] < a,
           \A k \in (i + 1)..Len(list) : list[k] > a,
           NEW new, new = Shifted(Append(list, 0), i, a)
    PROVE  /\ new \in Seq(Addresses) /\ Len(new) = Len(list) + 1 /\ Sorted(new)
           /\ SolversOf(new) = SolversOf(list) \cup {a}
<1> USE AddressesAreNumbers
<1> DEFINE n == Len(list)
           grown == Append(list, 0)
           entry(k) == CASE k <= i     -> grown[k]
                         [] k = i + 1  -> a
                         [] OTHER      -> grown[k - 1]
<1>1. n \in Nat /\ Len(grown) = n + 1 /\ \A k \in 1..n : grown[k] = list[k] /\ list[k] \in Addresses
    OBVIOUS
<1>2. new = [k \in 1..Len(grown) |-> entry(k)]
    BY Zenon DEF Shifted
<1>3. /\ \A k \in 1..i : entry(k) = list[k]
      /\ entry(i + 1) = a
      /\ \A k \in (i + 2)..(n + 1) : entry(k) = list[k - 1]
  <2>1. ASSUME NEW k \in 1..i PROVE entry(k) = list[k]
      BY <1>1, <2>1
  <2>2. entry(i + 1) = a
      BY <1>1
  <2>3. ASSUME NEW k \in (i + 2)..(n + 1) PROVE entry(k) = list[k - 1]
    <3> HIDE DEF grown
    <3>1. k \in Int /\ ~(k <= i) /\ k # i + 1 /\ k - 1 \in 1..n
        BY <1>1, <2>3
    <3>2. entry(k) = grown[k - 1]
        BY <3>1
    <3> QED BY <1>1, <3>1, <3>2
  <2> HIDE DEF entry, grown
  <2> QED BY <2>1, <2>2, <2>3
<1> HIDE DEF entry, grown
<1>4. \A k \in 1..(n + 1) : entry(k) \in Addresses
    BY <1>1, <1>3
<1>5. new \in [1..(n + 1) -> Addresses] /\ \A k \in 1..(n + 1) : new[k] = entry(k)
    BY <1>1, <1>2, <1>4
<1>6. new \in Seq(Addresses) /\ Len(new) = n + 1
    BY <1>1, <1>5
<1>7. ASSUME NEW j \in 1..(n + 1), NEW k \in 1..(n + 1), j < k PROVE new[j] < new[k]
  <2>1. \A x, y \in 1..n : x < y => list[x] < list[y]
      BY DEF Sorted
  <2>2. CASE k <= i
    <3>1. j \in 1..i /\ k \in 1..i /\ j \in 1..n /\ k \in 1..n
        BY <1>1, <1>7, <2>2
    <3>2. new[j] = list[j] /\ new[k] = list[k]
        BY <1>3, <1>5, <3>1
    <3> QED BY <1>7, <2>1, <3>1, <3>2
  <2>3. CASE k = i + 1
    <3>1. j \in 1..i /\ new[j] = list[j] /\ new[k] = a
        BY <1>1, <1>3, <1>5, <1>7, <2>3
    <3> QED BY <3>1
  <2>4. CASE k > i + 1
    <3>1. new[k] = list[k - 1] /\ k - 1 \in (i + 1)..n
        BY <1>1, <1>3, <1>5, <2>4
    <3>2. CASE j <= i
      <4>1. new[j] = list[j] /\ j \in 1..n /\ k - 1 \in 1..n /\ j < k - 1
          BY <1>1, <1>3, <1>5, <3>1, <3>2
      <4> QED BY <2>1, <3>1, <4>1
    <3>3. CASE j = i + 1
        BY <1>1, <1>3, <1>5, <3>1, <3>3
    <3>4. CASE j > i + 1
      <4>1. new[j] = list[j - 1] /\ j - 1 \in 1..n /\ k - 1 \in 1..n /\ j - 1 < k - 1
          BY <1>1, <1>3, <1>5, <1>7, <3>1, <3>4
      <4> QED BY <2>1, <3>1, <4>1
    <3> QED BY <3>2, <3>3, <3>4
  <2> QED BY <2>2, <2>3, <2>4
<1>8. {new[k] : k \in 1..(n + 1)} = {list[k] : k \in 1..n} \cup {a}
  <2>1. ASSUME NEW k \in 1..(n + 1) PROVE new[k] \in {list[j] : j \in 1..n} \cup {a}
    <3>1. CASE k <= i
        BY <1>1, <1>3, <1>5, <3>1
    <3>2. CASE k = i + 1
        BY <1>1, <1>3, <1>5, <3>2
    <3>3. CASE k > i + 1
      <4>1. new[k] = list[k - 1] /\ k - 1 \in 1..n
          BY <1>1, <1>3, <1>5, <3>3
      <4> QED BY <4>1
    <3> QED BY <3>1, <3>2, <3>3
  <2>2. ASSUME NEW j \in 1..n PROVE list[j] \in {new[k] : k \in 1..(n + 1)}
    <3>1. CASE j <= i
        BY <1>1, <1>3, <1>5, <3>1
    <3>2. CASE j > i
      <4>1. j + 1 \in (i + 2)..(n + 1) /\ j + 1 \in 1..(n + 1) /\ (j + 1) - 1 = j
          BY <1>1, <3>2
      <4>2. new[j + 1] = list[(j + 1) - 1]
          BY <1>3, <1>5, <4>1
      <4> QED BY <4>1, <4>2
    <3> QED BY <3>1, <3>2
  <2>3. a \in {new[k] : k \in 1..(n + 1)}
    <3>1. new[i + 1] = a /\ i + 1 \in 1..(n + 1)
        BY <1>1, <1>3, <1>5
    <3> QED BY <3>1
  <2> QED BY <2>1, <2>2, <2>3
<1> QED BY <1>6, <1>7, <1>8 DEF Sorted, SolversOf

(* remove_solver closes the gap at the slot where it found the solver. *)
LEMMA Removed ==
    ASSUME NEW list \in Seq(Addresses), Sorted(list),
           NEW i \in 0..(Len(list) - 1),
           NEW new, new = [k \in 1..(Len(list) - 1) |-> IF k <= i THEN list[k] ELSE list[k + 1]]
    PROVE  /\ new \in Seq(Addresses) /\ Len(new) = Len(list) - 1 /\ Sorted(new)
           /\ SolversOf(new) = SolversOf(list) \ {list[i + 1]}
<1> USE AddressesAreNumbers
<1> DEFINE n == Len(list)
<1>1. n \in Nat \ {0} /\ \A k \in 1..n : list[k] \in Addresses
    OBVIOUS
<1>2. \A x, y \in 1..n : (x < y => list[x] < list[y]) /\ list[x] \in Nat
    BY <1>1 DEF Sorted
<1>3. new \in [1..(n - 1) -> Addresses]
    BY <1>1
<1>4. new \in Seq(Addresses) /\ Len(new) = n - 1
    BY <1>1, <1>3
<1> DEFINE old(k) == IF k <= i THEN k ELSE k + 1
<1>5. \A k \in 1..(n - 1) : old(k) \in 1..n /\ old(k) # i + 1 /\ new[k] = list[old(k)]
    BY <1>1
<1>6. \A j, k \in 1..(n - 1) : j < k => old(j) < old(k)
    BY <1>1
<1>7. \A j \in 1..n : j # i + 1 => \E k \in 1..(n - 1) : old(k) = j
  <2>1. SUFFICES ASSUME NEW j \in 1..n, j # i + 1 PROVE \E k \in 1..(n - 1) : old(k) = j
      OBVIOUS
  <2>2. CASE j <= i
    <3>1. j \in 1..(n - 1) /\ old(j) = j
        BY <1>1, <2>2
    <3> QED BY <3>1
  <2>3. CASE j > i + 1
    <3>1. j - 1 \in 1..(n - 1) /\ old(j - 1) = j
        BY <1>1, <2>3
    <3> QED BY <3>1
  <2> QED BY <2>1, <2>2, <2>3
<1> HIDE DEF old
<1>8. \A j, k \in 1..(n - 1) : j < k => new[j] < new[k]
    BY <1>2, <1>5, <1>6
<1>9. i + 1 \in 1..n /\ \A j \in 1..n : j # i + 1 => list[j] # list[i + 1]
  <2>1. i + 1 \in 1..n
      BY <1>1
  <2>2. ASSUME NEW j \in 1..n, j # i + 1 PROVE list[j] # list[i + 1]
    <3>1. j < i + 1 \/ i + 1 < j
        BY <2>2
    <3> QED BY <1>2, <2>1, <3>1
  <2> QED BY <2>1, <2>2
<1>10. {new[k] : k \in 1..(n - 1)} = {list[k] : k \in 1..n} \ {list[i + 1]}
  <2>1. ASSUME NEW k \in 1..(n - 1) PROVE new[k] \in {list[j] : j \in 1..n} \ {list[i + 1]}
      BY <1>5, <1>9
  <2>2. ASSUME NEW j \in 1..n, list[j] # list[i + 1] PROVE list[j] \in {new[k] : k \in 1..(n - 1)}
    <3>1. PICK k \in 1..(n - 1) : old(k) = j
        BY <1>7, <2>2
    <3>2. new[k] = list[j]
        BY <1>5, <3>1
    <3> QED BY <3>2, Zenon
  <2> DEFINE A == {new[k] : k \in 1..(n - 1)}
             B == {list[k] : k \in 1..n}
  <2>3. \A v \in A : v \in B \ {list[i + 1]}
      BY <2>1, Zenon
  <2>4. \A v \in B \ {list[i + 1]} : v \in A
      BY <2>2, Zenon
  <2> HIDE DEF A, B
  <2>5. A = B \ {list[i + 1]}
      BY <2>3, <2>4
  <2> QED BY <2>5, Zenon DEF A, B
<1> QED BY <1>4, <1>8, <1>10 DEF Sorted, SolversOf

-----------------------------------------------------------------------------
(* The inductive invariant: the list is in order, and empty before         *)
(* Initialize; the account is rent exempt; roles and approvals are with    *)
(* the trusted.                                                            *)
IInv ==
    /\ TypeOK
    /\ Sorted(region)
    /\ ~live => region = <<>>
    /\ StaysRentExempt
    /\ NoEscalation

(* In order, the search of the region is exact. *)
LEMMA RegionSearch ==
    ASSUME IInv, NEW s \in Addresses, NEW at, at = BinarySearch(region, s)
    PROVE  /\ at.found \in BOOLEAN
           /\ at.index \in 0..Len(region)
           /\ at.found <=> s \in SolversOf(region)
           /\ at.found => at.index < Len(region) /\ region[at.index + 1] = s
           /\ ~at.found => /\ \A k \in 1..at.index : region[k] < s
                           /\ \A k \in (at.index + 1)..Len(region) : region[k] > s
<1>1. region \in Seq(Nat) /\ s \in Nat
  <2>1. region \in Seq(Addresses) /\ Addresses \subseteq Nat /\ s \in Nat
      BY AddressesAreNumbers DEF IInv, TypeOK
  <2>2. Len(region) \in Nat /\ region \in [1..Len(region) -> Addresses]
      BY <2>1, LenProperties
  <2>3. region \in [1..Len(region) -> Nat]
      BY <2>1, <2>2
  <2> QED BY <2>1, <2>2, <2>3
<1>2. Sorted(region)
    BY DEF IInv
<1>3. /\ at.found \in BOOLEAN
      /\ at.index \in 0..Len(region)
      /\ at.found <=> \E k \in 1..Len(region) : region[k] = s
      /\ at.found => at.index < Len(region) /\ region[at.index + 1] = s
      /\ ~at.found => /\ \A k \in 1..at.index : region[k] < s
                      /\ \A k \in (at.index + 1)..Len(region) : region[k] > s
    BY <1>1, <1>2, SearchIsExact
<1>4. s \in SolversOf(region) <=> \E k \in 1..Len(region) : region[k] = s
    BY DEF SolversOf
<1> QED BY <1>3, <1>4, Zenon

LEMMA IsSolverIsMember ==
    ASSUME IInv, NEW s \in Addresses
    PROVE  IsSolver(s) <=> s \in SolversOf(region)
BY RegionSearch DEF IsSolver

LEMMA InitIsGood == Init => IInv
<1> SUFFICES ASSUME Init PROVE IInv
    OBVIOUS
<1>1. region = <<>> /\ Len(region) = 0 /\ region \in Seq(Addresses)
    BY DEF Init
<1>2. TypeOK
  <2>1. holder \in [Roles -> Holders] /\ donated \in 0..MaxDonation /\ lamports \in Nat
      BY StateAccountAssumption DEF Init
  <2>2. live = FALSE /\ buffer = live /\ request \in {<<>>}
      BY DEF Init
  <2> QED BY <1>1, <2>1, <2>2 DEF TypeOK
<1>3. NoEscalation /\ Sorted(region)
    BY <1>1, StateAccountAssumption
       DEF Init, NoEscalation, RolesStayTrusted, SolversAreTrusted, Sorted
<1> QED BY <1>1, <1>2, <1>3 DEF Init, IInv, StaysRentExempt

(* Initialize: the roles go where the initializer, who is trusted, puts    *)
(* them, and the payer makes up for what the address lacks.                *)
LEMMA InitializeStep ==
    ASSUME IInv, NEW s \in Holders, NEW h \in [Roles -> Holders], Initialize(s, h)
    PROVE  IInv'
<1>1. RolesStayTrusted'
    BY StateAccountAssumption DEF Initialize, Entrusts, RolesStayTrusted
<1>2. region = <<>> /\ region' = region /\ Len(region) = 0
    BY DEF IInv, Initialize
<1>3. MinimumBalance(0) \in Nat
    BY MinimumIsNat
<1>4. (lamports \in Nat /\ StaysRentExempt)'
    BY <1>2, <1>3 DEF IInv, TypeOK, Initialize, StaysRentExempt
<1>5. TypeOK'
    BY <1>4 DEF IInv, TypeOK, Initialize
<1> QED BY <1>1, <1>2, <1>4, <1>5
        DEF IInv, Initialize, NoEscalation, SolversAreTrusted, Sorted

(* AddSolver puts the solver in its place: the list stays in order and     *)
(* holds one more.                                                         *)
LEMMA AddSolverInserts ==
    ASSUME IInv, NEW s \in Holders, NEW a \in Addresses, AddSolver(s, a)
    PROVE  /\ region' \in Seq(Addresses) /\ Len(region') = Len(region) + 1 /\ Sorted(region')
           /\ a \notin SolversOf(region)
           /\ SolversOf(region') = SolversOf(region) \cup {a}
<1> DEFINE n == Len(region)
           grown == Append(region, 0)
           at == BinarySearch(SubSeq(grown, 1, Len(grown) - 1), a)
<1>1. region \in Seq(Addresses) /\ n \in Nat
    BY DEF IInv, TypeOK
<1>2. SubSeq(grown, 1, Len(grown) - 1) = region
  <2>1. Len(grown) = n + 1 /\ \A k \in 1..n : grown[k] = region[k] /\ region[k] \in Addresses
      BY <1>1
  <2> HIDE DEF grown
  <2> DEFINE part == SubSeq(grown, 1, n)
  <2>2. part \in Seq(Addresses) /\ Len(part) = n /\ \A k \in 1..n : part[k] = grown[k]
    <3>1. \A k \in 1..n : grown[k] \in Addresses
        BY <2>1
    <3>2. /\ part \in Seq(Addresses)
          /\ Len(part) = IF 1 <= n THEN n - 1 + 1 ELSE 0
          /\ \A k \in 1..(n - 1 + 1) : part[k] = grown[1 + k - 1]
        BY <1>1, <3>1, SubSeqProperties
    <3> HIDE DEF part
    <3>3. Len(part) = n /\ n - 1 + 1 = n /\ \A k \in 1..n : 1 + k - 1 = k
        BY <1>1, <3>2
    <3> QED BY <3>2, <3>3
  <2> HIDE DEF part
  <2>3. part = region
      BY <1>1, <2>1, <2>2, SeqEqual
  <2>4. Len(grown) - 1 = n
      BY <1>1, <2>1
  <2> QED BY <2>3, <2>4 DEF part
<1>3. at = BinarySearch(region, a)
    BY <1>2, Zenon
<1>4. ~at.found /\ region' = Shifted(grown, at.index, a)
    BY Zenon DEF AddSolver, InsertSolver
<1> HIDE DEF at
<1>5. /\ at.index \in 0..n
      /\ a \notin SolversOf(region)
      /\ \A k \in 1..at.index : region[k] < a
      /\ \A k \in (at.index + 1)..n : region[k] > a
    BY <1>3, <1>4, RegionSearch
<1>6. Sorted(region)
    BY DEF IInv
<1>7. /\ region' \in Seq(Addresses) /\ Len(region') = Len(region) + 1 /\ Sorted(region')
      /\ SolversOf(region') = SolversOf(region) \cup {a}
  <2> DEFINE i == at.index
  <2>1. region' = Shifted(Append(region, 0), i, a)
      BY <1>4
  <2> HIDE DEF i
  <2>2. /\ region \in Seq(Addresses) /\ i \in 0..Len(region)
        /\ \A k \in 1..i : region[k] < a
        /\ \A k \in (i + 1)..Len(region) : region[k] > a
      BY <1>1, <1>5 DEF i
  <2>3. ASSUME NEW new, new = Shifted(Append(region, 0), i, a)
        PROVE  /\ new \in Seq(Addresses) /\ Len(new) = Len(region) + 1 /\ Sorted(new)
               /\ SolversOf(new) = SolversOf(region) \cup {a}
      BY <1>6, <2>2, <2>3, Inserted, Zenon
  <2> QED BY <2>1, <2>3, Zenon
<1> QED BY <1>5, <1>7

LEMMA AddSolverStep ==
    ASSUME IInv, NEW s \in Holders, NEW a \in Addresses, AddSolver(s, a)
    PROVE  IInv'
<1> DEFINE n == Len(region)
<1>1. /\ region' \in Seq(Addresses) /\ Len(region') = n + 1 /\ Sorted(region')
      /\ SolversOf(region') = SolversOf(region) \cup {a}
    BY AddSolverInserts
<1>2. n \in Nat /\ n + 1 \in Nat
    BY DEF IInv, TypeOK
<1>3. MinimumBalance(n + 1) \in Nat
    BY <1>2, MinimumIsNat
<1>4. (lamports \in Nat /\ StaysRentExempt)'
    BY <1>1, <1>3 DEF IInv, TypeOK, AddSolver, TopUp, StaysRentExempt
<1>5. TypeOK'
    BY <1>1, <1>4 DEF IInv, TypeOK, AddSolver
<1>6. SolversAreTrusted'
  <2>1. a \in Trusted
      BY StateAccountAssumption
         DEF IInv, NoEscalation, RolesStayTrusted, AddSolver, Entrusts
  <2>2. SolversOf(region) \subseteq Trusted
      BY DEF IInv, NoEscalation, SolversAreTrusted, SolversOf
  <2>3. SolversOf(region') \subseteq Trusted
      BY <1>1, <2>1, <2>2
  <2> QED BY <2>3 DEF SolversAreTrusted, SolversOf
<1> QED BY <1>1, <1>4, <1>5, <1>6 DEF IInv, AddSolver, NoEscalation, RolesStayTrusted

(* RemoveSolver takes out that solver and nobody else. *)
LEMMA RemoveSolverRemoves ==
    ASSUME IInv, NEW s \in Holders, NEW a \in Addresses,
           NEW c \in Holders \cup {StatePda}, RemoveSolver(s, a, c)
    PROVE  /\ region' \in Seq(Addresses) /\ Len(region') = Len(region) - 1 /\ Sorted(region')
           /\ a \in SolversOf(region)
           /\ SolversOf(region') = SolversOf(region) \ {a}
<1> DEFINE n == Len(region)
           at == BinarySearch(region, a)
<1>1. region \in Seq(Addresses) /\ n \in Nat /\ Sorted(region)
    BY DEF IInv, TypeOK
<1>2. /\ at.found
      /\ region' = [k \in 1..(n - 1) |-> IF k <= at.index THEN region[k] ELSE region[k + 1]]
    BY Zenon DEF RemoveSolver, RemoveSlot
<1> HIDE DEF at
<1>3. at.index \in 0..n /\ at.index < n /\ region[at.index + 1] = a /\ a \in SolversOf(region)
    BY <1>2, RegionSearch DEF at
<1>4. at.index \in 0..(n - 1)
    BY <1>1, <1>3
<1>5. /\ region' \in Seq(Addresses) /\ Len(region') = n - 1 /\ Sorted(region')
      /\ SolversOf(region') = SolversOf(region) \ {region[at.index + 1]}
    BY <1>1, <1>2, <1>4, Removed
<1> QED BY <1>3, <1>5

LEMMA RemoveSolverStep ==
    ASSUME IInv, NEW s \in Holders, NEW a \in Addresses,
           NEW c \in Holders \cup {StatePda}, RemoveSolver(s, a, c)
    PROVE  IInv'
<1> DEFINE n == Len(region)
<1>1. /\ region' \in Seq(Addresses) /\ Len(region') = n - 1 /\ Sorted(region')
      /\ SolversOf(region') = SolversOf(region) \ {a}
    BY RemoveSolverRemoves
<1>2. n - 1 \in Nat
    BY <1>1
<1>3. MinimumBalance(n - 1) \in Nat
    BY <1>2, MinimumIsNat
<1>4. (lamports \in Nat /\ StaysRentExempt)'
    BY <1>1, <1>3 DEF IInv, TypeOK, RemoveSolver, StaysRentExempt
<1>5. TypeOK'
    BY <1>1, <1>4 DEF IInv, TypeOK, RemoveSolver
<1>6. SolversAreTrusted'
  <2>1. SolversOf(region) \subseteq Trusted
      BY DEF IInv, NoEscalation, SolversAreTrusted, SolversOf
  <2>2. SolversOf(region') \subseteq Trusted
      BY <1>1, <2>1
  <2> QED BY <2>2 DEF SolversAreTrusted, SolversOf
<1> QED BY <1>1, <1>4, <1>5, <1>6 DEF IInv, RemoveSolver, NoEscalation, RolesStayTrusted

(* TransferAuthority: whoever may transfer a guarded role holds one, as    *)
(* the manager's role is guarded itself, and so is trusted.                *)
LEMMA TransferAuthorityStep ==
    ASSUME IInv, NEW s \in Holders, NEW a \in Holders, NEW r \in Roles,
           TransferAuthority(s, r, a)
    PROVE  IInv'
<1>1. holder \in [Roles -> Holders] /\ RolesStayTrusted
    BY DEF IInv, TypeOK, NoEscalation
<1>2. ASSUME NEW g \in Guarded PROVE holder'[g] \in Trusted
  <2>1. CASE g # r
      BY <1>1, <2>1, StateAccountAssumption DEF RolesStayTrusted, TransferAuthority
  <2>2. CASE g = r
    <3>1. s \in Trusted
        BY <1>1, <2>2, StateAccountAssumption DEF RolesStayTrusted, TransferAuthority, MayTransfer
    <3> QED BY <1>1, <2>2, <3>1 DEF TransferAuthority, Entrusts
  <2> QED BY <2>1, <2>2
<1>3. TypeOK'
    BY <1>1 DEF IInv, TypeOK, TransferAuthority
<1> QED BY <1>2, <1>3
        DEF IInv, TransferAuthority, NoEscalation, RolesStayTrusted, SolversAreTrusted,
            StaysRentExempt, Sorted

LEMMA DonateStep ==
    ASSUME IInv, Donate
    PROVE  IInv'
<1>1. Len(region) \in Nat
    BY DEF IInv, TypeOK
<1>2. MinimumBalance(Len(region)) \in Nat
    BY <1>1, MinimumIsNat
<1>3. (lamports \in Nat /\ StaysRentExempt)'
    BY <1>2 DEF IInv, TypeOK, Donate, StaysRentExempt
<1>4. TypeOK'
    BY <1>3, StateAccountAssumption DEF IInv, TypeOK, Donate
<1> QED BY <1>3, <1>4
        DEF IInv, Donate, NoEscalation, RolesStayTrusted, SolversAreTrusted, Sorted

LEMMA NextKeepsIInv == IInv /\ [Next]_vars => IInv'
<1> SUFFICES ASSUME IInv, [Next]_vars PROVE IInv'
    OBVIOUS
<1>1. CASE UNCHANGED vars
    BY <1>1 DEF vars, IInv, TypeOK, NoEscalation, RolesStayTrusted, SolversAreTrusted,
                StaysRentExempt, Sorted
<1>2. CASE Next
    BY <1>2, InitializeStep, AddSolverStep, RemoveSolverStep, TransferAuthorityStep,
       DonateStep DEF Next
<1> QED BY <1>1, <1>2

(* The slots stay a list of addresses, no request is lost track of and no  *)
(* balance becomes negative, for any number of addresses and donations.    *)
THEOREM TypesAreKept == Spec => []TypeOK
<1>1. IInv => TypeOK
    BY DEF IInv
<1> QED BY <1>1, InitIsGood, NextKeepsIInv, PTL DEF Spec

(* The state account is rent exempt at every size, for any rent, any       *)
(* donations and any sequence of additions and removals: the checked_sub   *)
(* of RemoveSolver never fails and the runtime accepts every resize.       *)
THEOREM RentIsKept == Spec => []StaysRentExempt
<1>1. IInv => StaysRentExempt
    BY DEF IInv
<1> QED BY <1>1, InitIsGood, NextKeepsIInv, PTL DEF Spec

(* The guarded roles and the list of solvers stay with the trusted (G9,    *)
(* G12), whoever holds the other roles and whatever anybody submits.       *)
THEOREM RolesDoNotLeak == Spec => []NoEscalation
<1>1. IInv => NoEscalation
    BY DEF IInv
<1> QED BY <1>1, InitIsGood, NextKeepsIInv, PTL DEF Spec

(* However long the list and whatever the order of additions and removals, *)
(* its slots are in order and the binary search finds each of them.        *)
THEOREM SlotsAreFound == Spec => []SlotsAreSolvers
<1>1. IInv => SlotsAreSolvers
  <2> SUFFICES ASSUME IInv PROVE SlotsAreSolvers
      OBVIOUS
  <2>1. ASSUME NEW k \in 1..Len(region) PROVE IsSolver(region[k])
    <3>1. region[k] \in Addresses /\ region[k] \in SolversOf(region)
        BY DEF IInv, TypeOK, SolversOf
    <3> QED BY <3>1, IsSolverIsMember
  <2> QED BY <2>1 DEF IInv, Sorted, SlotsAreSolvers
<1> QED BY <1>1, InitIsGood, NextKeepsIInv, PTL DEF Spec
-----------------------------------------------------------------------------
(* The solvers that SolverRegistry speaks of are those in the slots. *)
Abstract == {s \in Addresses : IsSolver(s)}

LEMMA AbstractIsSlots ==
    ASSUME IInv
    PROVE  Abstract = SolversOf(region)
<1>1. SolversOf(region) \subseteq Addresses
    BY DEF IInv, TypeOK, SolversOf
<1> QED BY <1>1, IsSolverIsMember DEF Abstract

LEMMA InitRefines == Init => Registry!Init
<1> SUFFICES ASSUME Init PROVE Registry!Init
    OBVIOUS
<1>1. IInv /\ region = <<>> /\ Len(region) = 0
    BY InitIsGood DEF Init
<1>2. Abstract = {}
    BY <1>1, AbstractIsSlots DEF SolversOf
<1>3. holder \in [Roles -> Addresses]
    BY StateAccountAssumption DEF Init
<1> QED BY <1>2, <1>3 DEF Init, Registry!Init, Abstract

(* Each instruction is the one of the same name, or changes nothing that   *)
(* the registry speaks of.                                                 *)
LEMMA StepRefines ==
    IInv /\ IInv' /\ [Next]_vars => [Registry!Next]_<<live, holder, Abstract, request>>
<1> SUFFICES ASSUME IInv, IInv', [Next]_vars
             PROVE  Registry!Next \/ UNCHANGED <<live, holder, Abstract, request>>
    OBVIOUS
<1>1. Abstract = SolversOf(region) /\ Abstract' = SolversOf(region')
  <2>1. Abstract = SolversOf(region)
      BY AbstractIsSlots
  <2>2. (Abstract = SolversOf(region))'
      BY AbstractIsSlots, PTL
  <2> QED BY <2>1, <2>2 DEF SolversOf
<1>2. CASE UNCHANGED vars
    BY <1>1, <1>2 DEF vars
<1>3. ASSUME NEW s \in Holders, NEW h \in [Roles -> Holders], Initialize(s, h)
      PROVE  Registry!Initialize
  <2>1. holder' \in [Roles -> Addresses]
      BY <1>3, AddressesAreNumbers DEF Initialize
  <2> QED BY <1>1, <1>3, <2>1 DEF Initialize, Registry!Initialize, Abstract
<1>4. ASSUME NEW s \in Holders, NEW a \in Addresses, AddSolver(s, a)
      PROVE  Registry!Add(a)
  <2>1. a \notin Abstract /\ Abstract' = Abstract \cup {a}
      BY <1>1, <1>4, AddSolverInserts
  <2> QED BY <1>4, <2>1 DEF AddSolver, Registry!Add, Abstract
<1>5. ASSUME NEW s \in Holders, NEW a \in Addresses, NEW c \in Holders \cup {StatePda},
             RemoveSolver(s, a, c)
      PROVE  Registry!Remove(a)
  <2>1. a \in Abstract /\ Abstract' = Abstract \ {a}
      BY <1>1, <1>5, RemoveSolverRemoves
  <2> QED BY <1>5, <2>1 DEF RemoveSolver, Registry!Remove, Abstract
<1>6. ASSUME NEW s \in Holders, NEW a \in Holders, NEW r \in Roles, TransferAuthority(s, r, a)
      PROVE  Registry!Transfer(r, a)
    BY <1>1, <1>6 DEF TransferAuthority, Registry!Transfer, Abstract
<1>7. CASE Donate
    BY <1>1, <1>7 DEF Donate
<1>8. Holders \subseteq Addresses
    BY AddressesAreNumbers
<1> QED BY <1>2, <1>3, <1>4, <1>5, <1>6, <1>7, <1>8 DEF Next, Registry!Next

(* The sorted slots and the binary search implement a plain set, for any   *)
(* number of addresses: whatever the order of additions and removals,      *)
(* is_solver answers as if the account kept the set itself.                *)
THEOREM Refinement == Spec => ImplementsRegistry
<1>1. Init /\ [][Next]_vars => []IInv
    BY InitIsGood, NextKeepsIInv, PTL
<1> QED BY <1>1, InitRefines, StepRefines, PTL
        DEF Spec, ImplementsRegistry, Registry!Spec, Abstract
===============================================================================
