------------------------------ MODULE CallProofs ------------------------------
(***************************************************************************)
(* Proofs about the instructions of the program one by one: what their     *)
(* bytes mean, and what batches of them do to buffers.                     *)
(*                                                                         *)
(* InstructionCodec, for any calls and widths and for any number of        *)
(* changes to what is sent: what a client calls for is what arrives, with  *)
(* the privileges it takes and no more, no byte is overlooked, an intent   *)
(* has one address, and order accounts hold what they are meant to.        *)
(*                                                                         *)
(* Buffers, for any mints, parties, limits, batches and any number of      *)
(* commands: the types, that no more is burnt than was granted, that the   *)
(* buffers stay funded and no lamport is lost, and that the report of the  *)
(* reclaim command is true.                                                *)
(***************************************************************************)
EXTENDS InstructionCodec, Buffers, SharedLemmas

-----------------------------------------------------------------------------
(* Numbers as bytes. *)
LEMMA PowerIsPowerOf ==
    ASSUME NEW k
    PROVE  Power(k) = PowerOf(Byte, k)
BY Zenon DEF Power, PowerOf

LEMMA ByteIsBase == Byte \in Nat \ {0}
BY BytesAssumption

LEMMA ToBytesDigits ==
    ASSUME NEW v, NEW width
    PROVE  ToBytes(v, width) = [k \in 1..width |-> Digit(Byte, v, k)]
BY PowerIsPowerOf DEF ToBytes, Digit

LEMMA BytesBack ==
    ASSUME NEW v \in Nat, NEW width \in Nat
    PROVE  FromBytes(ToBytes(v, width)) = v % Power(width)
<1> DEFINE bytes == ToBytes(v, width)
           f == [k \in DOMAIN bytes |-> bytes[k] * Power(k - 1)]
<1>1. FromBytes(bytes) = SumFunctionOnSet(f, DOMAIN bytes)
  BY Zenon DEF FromBytes
<1>2. DOMAIN bytes = 1..width /\ \A k \in 1..width : bytes[k] = Digit(Byte, v, k)
  BY ToBytesDigits
<1> HIDE DEF bytes
<1>3. \A k \in 1..width : f[k] = Digit(Byte, v, k) * PowerOf(Byte, k - 1)
  BY <1>2, PowerIsPowerOf
<1> HIDE DEF f
<1>4. SumFunctionOnSet(f, 1..width) = v % PowerOf(Byte, width)
  BY <1>3, ByteIsBase, DigitsBack
<1> QED BY <1>1, <1>2, <1>4, PowerIsPowerOf DEF bytes

(* from_le_bytes gives back what to_le_bytes was given, if that fits into  *)
(* the width, for any base and any width.                                  *)
LEMMA RoundTrip ==
    ASSUME NEW v \in Nat, NEW width \in Nat, v < Power(width)
    PROVE  FromBytes(ToBytes(v, width)) = v
<1>1. Power(width) \in Nat \ {0}
  BY ByteIsBase, PowerType, PowerIsPowerOf
<1>2. v \in 0..(Power(width) - 1)
  BY <1>1
<1>3. v % Power(width) = v
  BY <1>1, <1>2, SmallRemainder
<1> QED BY <1>3, BytesBack

-----------------------------------------------------------------------------
(* The bytes of an instruction. *)
Bytes == 0..(Byte - 1)

LEMMA WireConstants ==
    /\ Byte \in Nat /\ Byte > 12
    /\ KeyWidth \in Nat /\ KeyWidth > 0
    /\ Word \in Nat /\ Word > 0
    /\ TimeWidth \in Nat /\ TimeWidth > 0
BY BytesAssumption

LEMMA KeyIsSeq ==
    ASSUME NEW k \in Key
    PROVE  k \in Seq(Bytes) /\ Len(k) = KeyWidth
<1>1. KeyWidth \in Nat
  BY WireConstants
<1>2. k \in [1..KeyWidth -> Bytes]
  BY DEF Key, Bytes
<1> HIDE DEF Bytes
<1>3. Len(k) = KeyWidth
  BY ONLY <1>1, <1>2, LenIs
<1> QED BY <1>1, <1>2, <1>3

(* Numbers and the bytes they are written as. *)
LEMMA ToBytesBytes ==
    ASSUME NEW v \in Nat, NEW width \in Nat
    PROVE  ToBytes(v, width) \in Seq(Bytes) /\ Len(ToBytes(v, width)) = width
<1>1. Byte \in Nat \ {0}
  BY ByteIsBase
<1>2. ToBytes(v, width) = [k \in 1..width |-> Digit(Byte, v, k)]
  BY ToBytesDigits
<1>3. \A k \in 1..width : Digit(Byte, v, k) \in Bytes
  BY <1>1, DigitType DEF Bytes
<1>4. ToBytes(v, width) \in [1..width -> Bytes]
  BY <1>2, <1>3
<1> HIDE DEF Bytes
<1>5. Len(ToBytes(v, width)) = width
  BY ONLY <1>4, width \in Nat, LenIs
<1> QED BY <1>4, <1>5

LEMMA FromBytesBack ==
    ASSUME NEW s \in Seq(Bytes)
    PROVE  /\ FromBytes(s) \in 0..(Power(Len(s)) - 1)
           /\ ToBytes(FromBytes(s), Len(s)) = s
<1>1. Byte \in Nat \ {0}
  BY ByteIsBase
<1> DEFINE w == Len(s)
           f == [k \in DOMAIN s |-> s[k] * Power(k - 1)]
<1>2. w \in Nat /\ DOMAIN s = 1..w /\ \A k \in 1..w : s[k] \in 0..(Byte - 1)
  <2>1. Len(s) \in Nat /\ DOMAIN s = 1..Len(s) /\ \A k \in 1..Len(s) : s[k] \in Bytes
    OBVIOUS
  <2> QED BY <2>1 DEF Bytes
<1>3. FromBytes(s) = SumFunctionOnSet(f, 1..w)
  BY <1>2 DEF FromBytes
<1>4. \A k \in 1..w : f[k] = s[k] * PowerOf(Byte, k - 1)
  BY <1>2, PowerIsPowerOf
<1>5. AreDigits(Byte, w, s, f)
  BY <1>2, <1>4 DEF AreDigits
<1> HIDE DEF f, w
<1>6. /\ SumFunctionOnSet(f, 1..w) \in Nat
      /\ SumFunctionOnSet(f, 1..w) < PowerOf(Byte, w)
      /\ \A k \in 1..w : Digit(Byte, SumFunctionOnSet(f, 1..w), k) = s[k]
  BY ONLY <1>1, <1>2, <1>5, DigitsUnique
<1>7. /\ FromBytes(s) \in Nat
      /\ FromBytes(s) < Power(w)
      /\ \A k \in 1..w : Digit(Byte, FromBytes(s), k) = s[k]
  BY <1>3, <1>6, PowerIsPowerOf
<1>8. ToBytes(FromBytes(s), w) = [k \in 1..w |-> Digit(Byte, FromBytes(s), k)]
  BY ToBytesDigits
<1>9. ToBytes(FromBytes(s), w) = s
  BY <1>2, <1>7, <1>8
<1>10. Power(w) \in Nat
  BY <1>1, <1>2, PowerIsPowerOf, PowerType
<1> QED BY <1>7, <1>9, <1>10 DEF w
-----------------------------------------------------------------------------
(* Byte strings that are cut into slots of the widths w[1] to w[n]. *)
AreWidths(w, n) == n \in Nat /\ \A x \in 1..n : w[x] \in Nat

LEMMA Befores ==
    ASSUME NEW w, NEW n, AreWidths(w, n)
    PROVE  /\ Before(w, 1) = 0
           /\ \A k \in 1..n : /\ Before(w, k) \in Nat /\ Before(w, k + 1) \in Nat /\ w[k] \in Nat
                              /\ Before(w, k + 1) = Before(w, k) + w[k]
                              /\ Before(w, k + 1) <= Before(w, n + 1)
           /\ Before(w, n + 1) \in Nat
<1>1. n \in Nat /\ \A x \in 1..n : w[x] \in Nat
  BY DEF AreWidths
<1>2. /\ SumFunctionOnSet(w, 1..0) = 0
      /\ \A m \in 0..n : SumFunctionOnSet(w, 1..m) \in Nat
      /\ \A m \in 1..n : SumFunctionOnSet(w, 1..m) = SumFunctionOnSet(w, 1..(m - 1)) + w[m]
      /\ \A m \in 0..n, k \in 0..n : k <= m => SumFunctionOnSet(w, 1..k) <= SumFunctionOnSet(w, 1..m)
  BY <1>1, SumGrows
<1>3. ASSUME NEW k \in 0..n
      PROVE  Before(w, k + 1) = SumFunctionOnSet(w, 1..k)
  <2>1. (k + 1) - 1 = k
    OBVIOUS
  <2> QED BY <2>1, Zenon DEF Before
<1>4. Before(w, 1) = 0
  <2>1. 0 \in 0..n /\ 0 + 1 = 1
    BY <1>1
  <2>2. Before(w, 0 + 1) = SumFunctionOnSet(w, 1..0)
    BY <1>3, <2>1
  <2> QED BY <1>2, <2>1, <2>2
<1>5. ASSUME NEW k \in 1..n
      PROVE  /\ Before(w, k) \in Nat /\ Before(w, k + 1) \in Nat /\ w[k] \in Nat
             /\ Before(w, k + 1) = Before(w, k) + w[k]
             /\ Before(w, k + 1) <= Before(w, n + 1)
  <2>1. k \in 0..n /\ k - 1 \in 0..n /\ (k - 1) + 1 = k /\ n \in 0..n /\ k <= n
    BY <1>1
  <2>2. /\ Before(w, k + 1) = SumFunctionOnSet(w, 1..k)
        /\ Before(w, n + 1) = SumFunctionOnSet(w, 1..n)
        /\ Before(w, (k - 1) + 1) = SumFunctionOnSet(w, 1..(k - 1))
    BY <1>3, <2>1
  <2> QED BY <1>1, <1>2, <2>1, <2>2
<1>6. Before(w, n + 1) \in Nat
  <2>1. n \in 0..n
    BY <1>1
  <2> QED BY <1>2, <1>3, <2>1
<1> QED BY <1>4, <1>5, <1>6

LEMMA SlotIs ==
    ASSUME NEW S, NEW b \in Seq(S), NEW w, NEW n, AreWidths(w, n), Len(b) = Before(w, n + 1),
           NEW k \in 1..n
    PROVE  /\ Slot(b, w, k) \in Seq(S) /\ Len(Slot(b, w, k)) = w[k]
           /\ Holds(b, Before(w, k) + 1, Slot(b, w, k))
           /\ \A j \in 1..w[k] : Slot(b, w, k)[j] = b[Before(w, k) + j]
<1> DEFINE p == Before(w, k)
<1>1. p \in Nat /\ w[k] \in Nat /\ p + w[k] <= Len(b) /\ Len(b) \in Nat
  BY Befores
<1>2. Slot(b, w, k) = SubSeq(b, p + 1, p + w[k])
  BY DEF Slot
<1> HIDE DEF p
<1>3. p + 1 \in Nat \ {0} /\ p + w[k] \in Nat /\ p + 1 <= (p + w[k]) + 1
  BY <1>1
<1>4. Holds(b, p + 1, SubSeq(b, p + 1, p + w[k]))
  BY ONLY <1>1, <1>3, b \in Seq(S), HoldsCut
<1> DEFINE t == SubSeq(b, p + 1, p + w[k])
<1>5. /\ t \in Seq(S) /\ Len(t) = (p + w[k]) - (p + 1) + 1
      /\ \A j \in 1..((p + w[k]) - (p + 1) + 1) : t[j] = b[(p + 1) + j - 1] /\ b[(p + 1) + j - 1] \in S
  BY ONLY <1>1, <1>3, b \in Seq(S), Cut
<1> HIDE DEF t
<1>6. (p + w[k]) - (p + 1) + 1 = w[k]
  BY <1>1
<1>7. ASSUME NEW j \in 1..w[k] PROVE t[j] = b[p + j]
  <2>1. j \in 1..((p + w[k]) - (p + 1) + 1) /\ (p + 1) + j - 1 = p + j
    BY <1>1, <1>6
  <2> QED BY <1>5, <2>1
<1>8. t \in Seq(S) /\ Len(t) = w[k]
  BY <1>5, <1>6
<1> QED BY <1>2, <1>4, <1>7, <1>8 DEF p, t

(* Two strings with the same slots are the same. *)
LEMMA SameSlots ==
    ASSUME NEW S, NEW b \in Seq(S), NEW c \in Seq(S), NEW w, NEW n, AreWidths(w, n),
           Len(b) = Before(w, n + 1), Len(c) = Before(w, n + 1),
           \A k \in 1..n : Slot(b, w, k) = Slot(c, w, k)
    PROVE  b = c
<1> DEFINE same(k) == \A i \in 1..Before(w, k + 1) : b[i] = c[i]
           N == {k \in Nat : k \in 0..n => same(k)}
<1>0. n \in Nat
  BY DEF AreWidths
<1>1. ASSUME NEW k \in Nat, \A j \in 0..(k - 1) : j \in N
      PROVE  k \in N
  <2> SUFFICES ASSUME k \in 0..n PROVE same(k)
    OBVIOUS
  <2>1. CASE k = 0
    <3>1. Before(w, 0 + 1) = 0
      BY Befores
    <3> QED BY <2>1, <3>1
  <2>2. CASE k # 0
    <3>1. k \in 1..n /\ k - 1 \in 0..(k - 1) /\ k - 1 \in 0..n /\ (k - 1) + 1 = k
      BY <1>0, <2>2
    <3>2. same(k - 1)
      BY <1>1, <3>1
    <3>3. \A i \in 1..Before(w, k) : b[i] = c[i]
      BY <3>1, <3>2
    <3>4. /\ Before(w, k) \in Nat /\ w[k] \in Nat /\ Before(w, k + 1) = Before(w, k) + w[k]
      BY <3>1, Befores
    <3>5. /\ \A j \in 1..w[k] : Slot(b, w, k)[j] = b[Before(w, k) + j]
          /\ \A j \in 1..w[k] : Slot(c, w, k)[j] = c[Before(w, k) + j]
      BY <3>1, SlotIs
    <3>6. \A j \in 1..w[k] : b[Before(w, k) + j] = c[Before(w, k) + j]
      BY <3>1, <3>5
    <3>7. ASSUME NEW i \in 1..Before(w, k + 1) PROVE b[i] = c[i]
      <4>1. CASE i <= Before(w, k)
        BY <3>3, <3>4, <4>1
      <4>2. CASE i > Before(w, k)
        <5>1. i - Before(w, k) \in 1..w[k] /\ Before(w, k) + (i - Before(w, k)) = i
          BY <3>4, <4>2
        <5> QED BY <3>6, <5>1
      <4> QED BY <3>4, <4>1, <4>2
    <3> QED BY <3>7
  <2> QED BY <2>1, <2>2
<1> HIDE DEF N
<1>2. n \in N
  BY <1>0, <1>1, NumbersInduction
<1>3. same(n)
  BY <1>0, <1>2 DEF N
<1>4. \A i \in 1..Len(b) : b[i] = c[i]
  BY <1>3
<1> QED BY <1>4

(* A slot is written, and the others are left alone. *)
LEMMA WithSlotIs ==
    ASSUME NEW S, NEW b \in Seq(S), NEW w, NEW n, AreWidths(w, n), Len(b) = Before(w, n + 1),
           NEW k \in 1..n, NEW v \in Seq(S), Len(v) = w[k],
           NEW t, t = WithSlot(b, w, k, v)
    PROVE  /\ t \in Seq(S) /\ Len(t) = Len(b)
           /\ Slot(t, w, k) = v
           /\ \A i \in 1..n : i # k => Slot(t, w, i) = Slot(b, w, i)
<1> DEFINE p == Before(w, k)
           r == Before(w, k + 1)
           a == SubSeq(b, 1, p)
           c == SubSeq(b, r + 1, Len(b))
<1>1. /\ p \in Nat /\ r \in Nat /\ w[k] \in Nat /\ r = p + w[k] /\ r <= Len(b) /\ Len(b) \in Nat
  BY Befores
<1>2. t = (a \o v) \o c
  BY DEF WithSlot
<1> HIDE DEF p, r
<1>3. /\ a \in Seq(S) /\ Len(a) = p - 1 + 1
      /\ \A j \in 1..(p - 1 + 1) : a[j] = b[1 + j - 1] /\ b[1 + j - 1] \in S
  <2>1. 1 \in Nat \ {0} /\ 1 <= p + 1 /\ p <= Len(b)
    BY <1>1
  <2> QED BY ONLY <1>1, <2>1, b \in Seq(S), Cut
<1>4. /\ c \in Seq(S) /\ Len(c) = Len(b) - (r + 1) + 1
      /\ \A j \in 1..(Len(b) - (r + 1) + 1) : c[j] = b[(r + 1) + j - 1] /\ b[(r + 1) + j - 1] \in S
  <2>1. r + 1 \in Nat \ {0} /\ r + 1 <= Len(b) + 1 /\ Len(b) <= Len(b)
    BY <1>1
  <2> QED BY ONLY <1>1, <2>1, b \in Seq(S), Cut
<1> HIDE DEF a, c
<1>5. Len(a) = p /\ \A j \in 1..p : a[j] = b[j]
  <2>1. p - 1 + 1 = p /\ \A j \in 1..p : 1 + j - 1 = j
    BY <1>1
  <2> QED BY <1>3, <2>1
<1>6. Len(c) = Len(b) - r /\ \A j \in 1..(Len(b) - r) : c[j] = b[r + j]
  <2>1. Len(b) - (r + 1) + 1 = Len(b) - r /\ \A j \in 1..(Len(b) - r) : (r + 1) + j - 1 = r + j
    BY <1>1
  <2> QED BY <1>4, <2>1
<1>7. /\ a \o v \in Seq(S) /\ Len(a \o v) = r
      /\ \A j \in 1..p : (a \o v)[j] = a[j]
      /\ \A j \in 1..w[k] : (a \o v)[p + j] = v[j]
  <2>1. /\ a \o v \in Seq(S) /\ Len(a \o v) = Len(a) + Len(v)
        /\ \A j \in 1..Len(a) : (a \o v)[j] = a[j]
        /\ \A j \in 1..Len(v) : (a \o v)[Len(a) + j] = v[j]
    <3>1. a \in Seq(S) /\ v \in Seq(S)
      BY <1>3
    <3> QED BY ONLY <3>1, JoinedParts
  <2> QED BY <1>1, <1>5, <2>1
<1>8. /\ t \in Seq(S) /\ Len(t) = Len(b)
      /\ \A j \in 1..r : t[j] = (a \o v)[j]
      /\ \A j \in 1..(Len(b) - r) : t[r + j] = c[j]
  <2> DEFINE av == a \o v
  <2>1. av \in Seq(S) /\ Len(av) = r
    BY <1>7
  <2> HIDE DEF av
  <2>2. /\ av \o c \in Seq(S) /\ Len(av \o c) = Len(av) + Len(c)
        /\ \A j \in 1..Len(av) : (av \o c)[j] = av[j]
        /\ \A j \in 1..Len(c) : (av \o c)[Len(av) + j] = c[j]
    <3>1. av \in Seq(S) /\ c \in Seq(S)
      BY <1>4, <2>1
    <3> QED BY ONLY <3>1, JoinedParts
  <2>3. t = av \o c
    BY <1>2 DEF av
  <2>4. Len(av) + Len(c) = Len(b) /\ Len(av) = r /\ Len(c) = Len(b) - r
    BY <1>1, <1>6, <2>1
  <2>5. /\ t \in Seq(S) /\ Len(t) = Len(b)
        /\ \A j \in 1..r : t[j] = av[j]
        /\ \A j \in 1..(Len(b) - r) : t[r + j] = c[j]
    BY <2>2, <2>3, <2>4
  <2> QED BY <2>5 DEF av
<1>9. /\ \A j \in 1..p : t[j] = b[j]
      /\ \A j \in 1..w[k] : t[p + j] = v[j]
      /\ \A j \in 1..(Len(b) - r) : t[r + j] = b[r + j]
  <2>1. \A j \in 1..p : j \in 1..r
    BY <1>1
  <2>2. \A j \in 1..w[k] : p + j \in 1..r
    BY <1>1
  <2> QED BY <1>5, <1>6, <1>7, <1>8, <2>1, <2>2
<1>10. Slot(t, w, k) = v
  <2>1. /\ Slot(t, w, k) \in Seq(S) /\ Len(Slot(t, w, k)) = w[k]
        /\ \A j \in 1..w[k] : Slot(t, w, k)[j] = t[p + j]
    BY <1>8, SlotIs DEF p
  <2> QED BY <1>9, <2>1
<1>11. ASSUME NEW i \in 1..n, i # k PROVE Slot(t, w, i) = Slot(b, w, i)
  <2> DEFINE q == Before(w, i)
  <2>1. q \in Nat /\ w[i] \in Nat /\ q + w[i] <= Len(b)
    BY Befores
  <2>2. /\ Slot(t, w, i) \in Seq(S) /\ Len(Slot(t, w, i)) = w[i]
        /\ \A j \in 1..w[i] : Slot(t, w, i)[j] = t[q + j]
    BY <1>8, SlotIs
  <2>3. /\ Slot(b, w, i) \in Seq(S) /\ Len(Slot(b, w, i)) = w[i]
        /\ \A j \in 1..w[i] : Slot(b, w, i)[j] = b[q + j]
    BY SlotIs
  <2>4. q + w[i] <= p \/ q >= r
    <3>1. n \in Nat /\ \A x \in 1..n : w[x] \in Nat
      BY DEF AreWidths
    <3>2. \A m \in 0..n, j \in 0..n : j <= m => SumFunctionOnSet(w, 1..j) <= SumFunctionOnSet(w, 1..m)
      BY <3>1, SumGrows
    <3>3. q + w[i] = Before(w, i + 1)
      BY Befores
    <3>4. CASE i < k
      <4>1. i \in 0..n /\ k - 1 \in 0..n /\ i <= k - 1 /\ (i + 1) - 1 = i
        BY <3>1, <3>4
      <4>2. SumFunctionOnSet(w, 1..i) <= SumFunctionOnSet(w, 1..(k - 1))
        BY <3>2, <4>1
      <4>3. Before(w, i + 1) = SumFunctionOnSet(w, 1..i)
        BY <4>1, Zenon DEF Before
      <4>4. Before(w, k) = SumFunctionOnSet(w, 1..(k - 1))
        BY Zenon DEF Before
      <4> QED BY <3>3, <4>2, <4>3, <4>4 DEF p
    <3>5. CASE i > k
      <4>1. k \in 0..n /\ i - 1 \in 0..n /\ k <= i - 1 /\ (k + 1) - 1 = k
        BY <3>1, <3>5
      <4>2. SumFunctionOnSet(w, 1..k) <= SumFunctionOnSet(w, 1..(i - 1))
        BY <3>2, <4>1
      <4>3. Before(w, k + 1) = SumFunctionOnSet(w, 1..k)
        BY <4>1, Zenon DEF Before
      <4>4. Before(w, i) = SumFunctionOnSet(w, 1..(i - 1))
        BY Zenon DEF Before
      <4>5. r <= q
        BY <4>2, <4>3, <4>4 DEF r
      <4> HIDE DEF q
      <4> QED BY <1>1, <2>1, <4>5
    <3> QED BY <1>11, <3>4, <3>5
  <2> HIDE DEF q
  <2>5. ASSUME NEW j \in 1..w[i] PROVE t[q + j] = b[q + j]
    <3>1. CASE q + w[i] <= p
      <4>1. q + j \in 1..p
        BY <1>1, <2>1, <3>1
      <4> QED BY <1>9, <4>1
    <3>2. CASE q >= r
      <4>1. (q + j) - r \in 1..(Len(b) - r) /\ r + ((q + j) - r) = q + j
        <5>1. q \in Nat /\ r \in Nat /\ w[i] \in Nat /\ Len(b) \in Nat /\ j \in 1..w[i]
              /\ q + w[i] <= Len(b) /\ q >= r
          BY <1>1, <2>1, <3>2
        <5> QED BY ONLY <5>1
      <4> QED BY <1>9, <4>1
    <3> QED BY <2>4, <3>1, <3>2
  <2>6. \A j \in 1..w[i] : Slot(t, w, i)[j] = Slot(b, w, i)[j]
    BY <2>2, <2>3, <2>5
  <2>7. ASSUME NEW x \in Seq(S), NEW y \in Seq(S), Len(x) = Len(y), \A j \in 1..Len(x) : x[j] = y[j]
        PROVE  x = y
    BY <2>7
  <2> QED BY <2>2, <2>3, <2>6, <2>7
<1> QED BY <1>8, <1>10, <1>11

(* The last of the parts that a string starts with. *)
Ends(S, e, p, a, b, w, k) ==
    Joins(S, p, a, b) /\ e \in Seq(S) /\ Holds(e, 1, p) /\ Len(a) = Before(w, k) /\ Len(b) = w[k]

LEMMA LastPart ==
    ASSUME NEW S, NEW e, NEW p, NEW a, NEW b, NEW w, NEW k, Ends(S, e, p, a, b, w, k)
    PROVE  Holds(e, 1, a) /\ Slot(e, w, k) = b
<1>e. /\ e \in Seq(S) /\ a \in Seq(S) /\ b \in Seq(S) /\ Holds(e, 1, a \o b)
      /\ Len(a) = Before(w, k) /\ Len(b) = w[k]
  BY Zenon DEF Ends, Joins, IsJoin
<1>0. 1 \in Nat \ {0}
  OBVIOUS
<1>1. Holds(e, 1, a) /\ Holds(e, 1 + Len(a), b)
  BY ONLY <1>0, <1>e, HoldsParts
<1>2. 1 + Len(a) \in Nat \ {0} /\ Len(a) \in Nat /\ Len(b) \in Nat
  BY <1>e
<1>3. SubSeq(e, 1 + Len(a), (1 + Len(a)) + Len(b) - 1) = b
  BY ONLY <1>1, <1>2, <1>e, CutOut
<1>4. 1 + Len(a) = Len(a) + 1 /\ (1 + Len(a)) + Len(b) - 1 = Len(a) + Len(b)
  BY <1>2
<1>5. Slot(e, w, k) = SubSeq(e, Len(a) + 1, Len(a) + Len(b))
  BY <1>e, Zenon DEF Slot
<1> QED BY <1>1, <1>3, <1>4, <1>5
-----------------------------------------------------------------------------
(* The slots of an intent. *)
LEMMA IntentWidthsAre ==
    /\ AreWidths(IntentWidths, 10)
    /\ IntentWidths[1] = KeyWidth /\ IntentWidths[2] = KeyWidth /\ IntentWidths[3] = KeyWidth
    /\ IntentWidths[4] = KeyWidth /\ IntentWidths[5] = KeyWidth /\ IntentWidths[6] = Word
    /\ IntentWidths[7] = Word /\ IntentWidths[8] = TimeWidth /\ IntentWidths[9] = 1
    /\ IntentWidths[10] = KeyWidth
    /\ IntentSize = Before(IntentWidths, 10 + 1)
<1>1. /\ IntentWidths[1] = KeyWidth /\ IntentWidths[2] = KeyWidth /\ IntentWidths[3] = KeyWidth
      /\ IntentWidths[4] = KeyWidth /\ IntentWidths[5] = KeyWidth /\ IntentWidths[6] = Word
      /\ IntentWidths[7] = Word /\ IntentWidths[8] = TimeWidth /\ IntentWidths[9] = 1
      /\ IntentWidths[10] = KeyWidth /\ Len(IntentWidths) = 10
  BY DEF IntentWidths
<1>2. KeyWidth \in Nat /\ Word \in Nat /\ TimeWidth \in Nat /\ 1 \in Nat
  BY WireConstants
<1>3. AreWidths(IntentWidths, 10)
  <2>1. ASSUME NEW x \in 1..10 PROVE IntentWidths[x] \in Nat
    <3>1. \/ x = 1 \/ x = 2 \/ x = 3 \/ x = 4 \/ x = 5 \/ x = 6 \/ x = 7 \/ x = 8 \/ x = 9 \/ x = 10
      OBVIOUS
    <3> QED BY <1>1, <1>2, <3>1
  <2> QED BY <2>1 DEF AreWidths
<1>4. IntentSize = Before(IntentWidths, 10 + 1)
  BY <1>1 DEF IntentSize
<1> QED BY <1>1, <1>3, <1>4

LEMMA IntentBefores ==
    /\ Before(IntentWidths, 1) = 0
    /\ Before(IntentWidths, 2) = KeyWidth
    /\ Before(IntentWidths, 3) = 2 * KeyWidth
    /\ Before(IntentWidths, 4) = 3 * KeyWidth
    /\ Before(IntentWidths, 5) = 4 * KeyWidth
    /\ Before(IntentWidths, 6) = 5 * KeyWidth
    /\ Before(IntentWidths, 7) = 5 * KeyWidth + Word
    /\ Before(IntentWidths, 8) = 5 * KeyWidth + 2 * Word
    /\ Before(IntentWidths, 9) = 5 * KeyWidth + 2 * Word + TimeWidth
    /\ Before(IntentWidths, 10) = 5 * KeyWidth + 2 * Word + TimeWidth + 1
    /\ IntentSize = 6 * KeyWidth + 2 * Word + TimeWidth + 1
<1> DEFINE w == IntentWidths
<1>1. /\ w[1] = KeyWidth /\ w[2] = KeyWidth /\ w[3] = KeyWidth /\ w[4] = KeyWidth /\ w[5] = KeyWidth
      /\ w[6] = Word /\ w[7] = Word /\ w[8] = TimeWidth /\ w[9] = 1 /\ w[10] = KeyWidth
      /\ AreWidths(w, 10) /\ IntentSize = Before(w, 10 + 1)
  BY IntentWidthsAre
<1>2. KeyWidth \in Nat /\ Word \in Nat /\ TimeWidth \in Nat
  BY WireConstants
<1> HIDE DEF w
<1>3. /\ Before(w, 1) = 0
      /\ \A k \in 1..10 : Before(w, k + 1) = Before(w, k) + w[k]
  BY <1>1, Befores
<1>4. /\ Before(w, 2) = Before(w, 1) + w[1] /\ Before(w, 3) = Before(w, 2) + w[2]
      /\ Before(w, 4) = Before(w, 3) + w[3] /\ Before(w, 5) = Before(w, 4) + w[4]
      /\ Before(w, 6) = Before(w, 5) + w[5] /\ Before(w, 7) = Before(w, 6) + w[6]
      /\ Before(w, 8) = Before(w, 7) + w[7] /\ Before(w, 9) = Before(w, 8) + w[8]
      /\ Before(w, 10) = Before(w, 9) + w[9] /\ Before(w, 10 + 1) = Before(w, 10) + w[10]
  <2>1. 2 = 1 + 1 /\ 3 = 2 + 1 /\ 4 = 3 + 1 /\ 5 = 4 + 1 /\ 6 = 5 + 1 /\ 7 = 6 + 1 /\ 8 = 7 + 1
        /\ 9 = 8 + 1 /\ 10 = 9 + 1
    OBVIOUS
  <2> QED BY <1>3, <2>1
<1> QED BY <1>1, <1>2, <1>3, <1>4 DEF w

AreIntentParts(e, a1, a2, a3, a4, a5, a6, a7, a8, a9, a10) ==
    /\ a1 \in Seq(Bytes) /\ a2 \in Seq(Bytes) /\ a3 \in Seq(Bytes) /\ a4 \in Seq(Bytes)
    /\ a5 \in Seq(Bytes) /\ a6 \in Seq(Bytes) /\ a7 \in Seq(Bytes) /\ a8 \in Seq(Bytes)
    /\ a9 \in Seq(Bytes) /\ a10 \in Seq(Bytes)
    /\ Len(a1) = KeyWidth /\ Len(a2) = KeyWidth /\ Len(a3) = KeyWidth /\ Len(a4) = KeyWidth
    /\ Len(a5) = KeyWidth /\ Len(a6) = Word /\ Len(a7) = Word /\ Len(a8) = TimeWidth
    /\ Len(a9) = 1 /\ Len(a10) = KeyWidth
    /\ e = a1 \o a2 \o a3 \o a4 \o a5 \o a6 \o a7 \o a8 \o a9 \o a10

LEMMA PartsOfIntent ==
    ASSUME NEW e, NEW a1, NEW a2, NEW a3, NEW a4, NEW a5, NEW a6, NEW a7, NEW a8, NEW a9, NEW a10,
           AreIntentParts(e, a1, a2, a3, a4, a5, a6, a7, a8, a9, a10)
    PROVE  /\ e \in Seq(Bytes) /\ Len(e) = IntentSize
           /\ IntentSlot(e, 1) = a1 /\ IntentSlot(e, 2) = a2 /\ IntentSlot(e, 3) = a3
           /\ IntentSlot(e, 4) = a4 /\ IntentSlot(e, 5) = a5 /\ IntentSlot(e, 6) = a6
           /\ IntentSlot(e, 7) = a7 /\ IntentSlot(e, 8) = a8 /\ IntentSlot(e, 9) = a9
           /\ IntentSlot(e, 10) = a10
<1> DEFINE w == IntentWidths
           S == Bytes
           K == KeyWidth
           p1 == a1
           p2 == p1 \o a2
           p3 == p2 \o a3
           p4 == p3 \o a4
           p5 == p4 \o a5
           p6 == p5 \o a6
           p7 == p6 \o a7
           p8 == p7 \o a8
           p9 == p8 \o a9
           p10 == p9 \o a10
<1>p. /\ a1 \in Seq(Bytes) /\ a2 \in Seq(Bytes) /\ a3 \in Seq(Bytes) /\ a4 \in Seq(Bytes)
      /\ a5 \in Seq(Bytes) /\ a6 \in Seq(Bytes) /\ a7 \in Seq(Bytes) /\ a8 \in Seq(Bytes)
      /\ a9 \in Seq(Bytes) /\ a10 \in Seq(Bytes)
      /\ Len(a1) = KeyWidth /\ Len(a2) = KeyWidth /\ Len(a3) = KeyWidth /\ Len(a4) = KeyWidth
      /\ Len(a5) = KeyWidth /\ Len(a6) = Word /\ Len(a7) = Word /\ Len(a8) = TimeWidth
      /\ Len(a9) = 1 /\ Len(a10) = KeyWidth
      /\ e = a1 \o a2 \o a3 \o a4 \o a5 \o a6 \o a7 \o a8 \o a9 \o a10
  BY Zenon DEF AreIntentParts
<1>1. K \in Nat /\ Word \in Nat /\ TimeWidth \in Nat
  BY WireConstants
<1> HIDE DEF S, w
<1>2. p1 \in Seq(S) /\ Len(p1) = K
  BY <1>p DEF S
<1>a. /\ a2 \in Seq(S) /\ a3 \in Seq(S) /\ a4 \in Seq(S) /\ a5 \in Seq(S) /\ a6 \in Seq(S) /\ a7 \in Seq(S)
      /\ a8 \in Seq(S) /\ a9 \in Seq(S) /\ a10 \in Seq(S)
  BY <1>p DEF S
<1>b. /\ Len(a2) = K /\ Len(a3) = K /\ Len(a4) = K /\ Len(a5) = K /\ Len(a6) = Word /\ Len(a7) = Word
      /\ Len(a8) = TimeWidth /\ Len(a9) = 1 /\ Len(a10) = K
  BY <1>p
<1> HIDE DEF p1
<1>3. p2 \in Seq(S) /\ Len(p2) = 2 * K
  <2>1. Joins(S, p2, p1, a2)
    BY <1>2, <1>a, Zenon DEF p2, Joins, IsJoin
  <2> HIDE DEF p2
  <2>2. p2 \in Seq(S) /\ Len(p2) = Len(p1) + Len(a2)
    BY ONLY <2>1, PartsAt
  <2> QED BY ONLY <1>1, <1>b, <1>2, <2>2
<1> HIDE DEF p2
<1>4. p3 \in Seq(S) /\ Len(p3) = 3 * K
  <2>1. Joins(S, p3, p2, a3)
    BY <1>3, <1>a, Zenon DEF p3, Joins, IsJoin
  <2> HIDE DEF p3
  <2>2. p3 \in Seq(S) /\ Len(p3) = Len(p2) + Len(a3)
    BY ONLY <2>1, PartsAt
  <2> QED BY ONLY <1>1, <1>b, <1>3, <2>2
<1> HIDE DEF p3
<1>5. p4 \in Seq(S) /\ Len(p4) = 4 * K
  <2>1. Joins(S, p4, p3, a4)
    BY <1>4, <1>a, Zenon DEF p4, Joins, IsJoin
  <2> HIDE DEF p4
  <2>2. p4 \in Seq(S) /\ Len(p4) = Len(p3) + Len(a4)
    BY ONLY <2>1, PartsAt
  <2> QED BY ONLY <1>1, <1>b, <1>4, <2>2
<1> HIDE DEF p4
<1>6. p5 \in Seq(S) /\ Len(p5) = 5 * K
  <2>1. Joins(S, p5, p4, a5)
    BY <1>5, <1>a, Zenon DEF p5, Joins, IsJoin
  <2> HIDE DEF p5
  <2>2. p5 \in Seq(S) /\ Len(p5) = Len(p4) + Len(a5)
    BY ONLY <2>1, PartsAt
  <2> QED BY ONLY <1>1, <1>b, <1>5, <2>2
<1> HIDE DEF p5
<1>7. p6 \in Seq(S) /\ Len(p6) = 5 * K + Word
  <2>1. Joins(S, p6, p5, a6)
    BY <1>6, <1>a, Zenon DEF p6, Joins, IsJoin
  <2> HIDE DEF p6
  <2>2. p6 \in Seq(S) /\ Len(p6) = Len(p5) + Len(a6)
    BY ONLY <2>1, PartsAt
  <2> QED BY ONLY <1>1, <1>b, <1>6, <2>2
<1> HIDE DEF p6
<1>8. p7 \in Seq(S) /\ Len(p7) = 5 * K + 2 * Word
  <2>1. Joins(S, p7, p6, a7)
    BY <1>7, <1>a, Zenon DEF p7, Joins, IsJoin
  <2> HIDE DEF p7
  <2>2. p7 \in Seq(S) /\ Len(p7) = Len(p6) + Len(a7)
    BY ONLY <2>1, PartsAt
  <2> QED BY ONLY <1>1, <1>b, <1>7, <2>2
<1> HIDE DEF p7
<1>9. p8 \in Seq(S) /\ Len(p8) = 5 * K + 2 * Word + TimeWidth
  <2>1. Joins(S, p8, p7, a8)
    BY <1>8, <1>a, Zenon DEF p8, Joins, IsJoin
  <2> HIDE DEF p8
  <2>2. p8 \in Seq(S) /\ Len(p8) = Len(p7) + Len(a8)
    BY ONLY <2>1, PartsAt
  <2> QED BY ONLY <1>1, <1>b, <1>8, <2>2
<1> HIDE DEF p8
<1>10. p9 \in Seq(S) /\ Len(p9) = 5 * K + 2 * Word + TimeWidth + 1
  <2>1. Joins(S, p9, p8, a9)
    BY <1>9, <1>a, Zenon DEF p9, Joins, IsJoin
  <2> HIDE DEF p9
  <2>2. p9 \in Seq(S) /\ Len(p9) = Len(p8) + Len(a9)
    BY ONLY <2>1, PartsAt
  <2> QED BY ONLY <1>1, <1>b, <1>9, <2>2
<1> HIDE DEF p9
<1>11. p10 \in Seq(S) /\ Len(p10) = 6 * K + 2 * Word + TimeWidth + 1
  <2>1. Joins(S, p10, p9, a10)
    BY <1>10, <1>a, Zenon DEF p10, Joins, IsJoin
  <2> HIDE DEF p10
  <2>2. p10 \in Seq(S) /\ Len(p10) = Len(p9) + Len(a10)
    BY ONLY <2>1, PartsAt
  <2> QED BY ONLY <1>1, <1>b, <1>10, <2>2
<1> HIDE DEF p10
<1>12. e = p10
  BY <1>p, Zenon DEF p1, p2, p3, p4, p5, p6, p7, p8, p9, p10
<1>13. e \in Seq(S) /\ Len(e) = IntentSize /\ Holds(e, 1, p10)
  BY <1>11, <1>12, IntentBefores, HoldsItself
<1>w. /\ w[1] = K /\ w[2] = K /\ w[3] = K /\ w[4] = K /\ w[5] = K
      /\ w[6] = Word /\ w[7] = Word /\ w[8] = TimeWidth /\ w[9] = 1 /\ w[10] = K
      /\ Before(w, 2) = K /\ Before(w, 3) = 2 * K /\ Before(w, 4) = 3 * K /\ Before(w, 5) = 4 * K
      /\ Before(w, 6) = 5 * K /\ Before(w, 7) = 5 * K + Word /\ Before(w, 8) = 5 * K + 2 * Word
      /\ Before(w, 9) = 5 * K + 2 * Word + TimeWidth
      /\ Before(w, 10) = 5 * K + 2 * Word + TimeWidth + 1
      /\ Before(w, 1) = 0
  BY IntentWidthsAre, IntentBefores DEF w
<1>15. Holds(e, 1, p9) /\ IntentSlot(e, 10) = a10
  <2>1. Joins(S, p10, p9, a10)
    BY <1>10, <1>a, Zenon DEF p10, Joins, IsJoin
  <2>2. Len(p9) = Before(w, 10) /\ Len(a10) = w[10]
    BY ONLY <1>10, <1>b, <1>w
  <2>3. Ends(S, e, p10, p9, a10, w, 10)
    BY ONLY <1>13, <1>13, <2>1, <2>2, Zenon DEF Ends
  <2>4. Holds(e, 1, p9) /\ Slot(e, w, 10) = a10
    BY ONLY <2>3, LastPart
  <2> QED BY <2>4 DEF IntentSlot, w
<1>16. Holds(e, 1, p8) /\ IntentSlot(e, 9) = a9
  <2>1. Joins(S, p9, p8, a9)
    BY <1>9, <1>a, Zenon DEF p9, Joins, IsJoin
  <2>2. Len(p8) = Before(w, 9) /\ Len(a9) = w[9]
    BY ONLY <1>9, <1>b, <1>w
  <2>3. Ends(S, e, p9, p8, a9, w, 9)
    BY ONLY <1>13, <1>15, <2>1, <2>2, Zenon DEF Ends
  <2>4. Holds(e, 1, p8) /\ Slot(e, w, 9) = a9
    BY ONLY <2>3, LastPart
  <2> QED BY <2>4 DEF IntentSlot, w
<1>17. Holds(e, 1, p7) /\ IntentSlot(e, 8) = a8
  <2>1. Joins(S, p8, p7, a8)
    BY <1>8, <1>a, Zenon DEF p8, Joins, IsJoin
  <2>2. Len(p7) = Before(w, 8) /\ Len(a8) = w[8]
    BY ONLY <1>8, <1>b, <1>w
  <2>3. Ends(S, e, p8, p7, a8, w, 8)
    BY ONLY <1>13, <1>16, <2>1, <2>2, Zenon DEF Ends
  <2>4. Holds(e, 1, p7) /\ Slot(e, w, 8) = a8
    BY ONLY <2>3, LastPart
  <2> QED BY <2>4 DEF IntentSlot, w
<1>18. Holds(e, 1, p6) /\ IntentSlot(e, 7) = a7
  <2>1. Joins(S, p7, p6, a7)
    BY <1>7, <1>a, Zenon DEF p7, Joins, IsJoin
  <2>2. Len(p6) = Before(w, 7) /\ Len(a7) = w[7]
    BY ONLY <1>7, <1>b, <1>w
  <2>3. Ends(S, e, p7, p6, a7, w, 7)
    BY ONLY <1>13, <1>17, <2>1, <2>2, Zenon DEF Ends
  <2>4. Holds(e, 1, p6) /\ Slot(e, w, 7) = a7
    BY ONLY <2>3, LastPart
  <2> QED BY <2>4 DEF IntentSlot, w
<1>19. Holds(e, 1, p5) /\ IntentSlot(e, 6) = a6
  <2>1. Joins(S, p6, p5, a6)
    BY <1>6, <1>a, Zenon DEF p6, Joins, IsJoin
  <2>2. Len(p5) = Before(w, 6) /\ Len(a6) = w[6]
    BY ONLY <1>6, <1>b, <1>w
  <2>3. Ends(S, e, p6, p5, a6, w, 6)
    BY ONLY <1>13, <1>18, <2>1, <2>2, Zenon DEF Ends
  <2>4. Holds(e, 1, p5) /\ Slot(e, w, 6) = a6
    BY ONLY <2>3, LastPart
  <2> QED BY <2>4 DEF IntentSlot, w
<1>20. Holds(e, 1, p4) /\ IntentSlot(e, 5) = a5
  <2>1. Joins(S, p5, p4, a5)
    BY <1>5, <1>a, Zenon DEF p5, Joins, IsJoin
  <2>2. Len(p4) = Before(w, 5) /\ Len(a5) = w[5]
    BY ONLY <1>5, <1>b, <1>w
  <2>3. Ends(S, e, p5, p4, a5, w, 5)
    BY ONLY <1>13, <1>19, <2>1, <2>2, Zenon DEF Ends
  <2>4. Holds(e, 1, p4) /\ Slot(e, w, 5) = a5
    BY ONLY <2>3, LastPart
  <2> QED BY <2>4 DEF IntentSlot, w
<1>21. Holds(e, 1, p3) /\ IntentSlot(e, 4) = a4
  <2>1. Joins(S, p4, p3, a4)
    BY <1>4, <1>a, Zenon DEF p4, Joins, IsJoin
  <2>2. Len(p3) = Before(w, 4) /\ Len(a4) = w[4]
    BY ONLY <1>4, <1>b, <1>w
  <2>3. Ends(S, e, p4, p3, a4, w, 4)
    BY ONLY <1>13, <1>20, <2>1, <2>2, Zenon DEF Ends
  <2>4. Holds(e, 1, p3) /\ Slot(e, w, 4) = a4
    BY ONLY <2>3, LastPart
  <2> QED BY <2>4 DEF IntentSlot, w
<1>22. Holds(e, 1, p2) /\ IntentSlot(e, 3) = a3
  <2>1. Joins(S, p3, p2, a3)
    BY <1>3, <1>a, Zenon DEF p3, Joins, IsJoin
  <2>2. Len(p2) = Before(w, 3) /\ Len(a3) = w[3]
    BY ONLY <1>3, <1>b, <1>w
  <2>3. Ends(S, e, p3, p2, a3, w, 3)
    BY ONLY <1>13, <1>21, <2>1, <2>2, Zenon DEF Ends
  <2>4. Holds(e, 1, p2) /\ Slot(e, w, 3) = a3
    BY ONLY <2>3, LastPart
  <2> QED BY <2>4 DEF IntentSlot, w
<1>23. Holds(e, 1, p1) /\ IntentSlot(e, 2) = a2
  <2>1. Joins(S, p2, p1, a2)
    BY <1>2, <1>a, Zenon DEF p2, Joins, IsJoin
  <2>2. Len(p1) = Before(w, 2) /\ Len(a2) = w[2]
    BY ONLY <1>2, <1>b, <1>w
  <2>3. Ends(S, e, p2, p1, a2, w, 2)
    BY ONLY <1>13, <1>22, <2>1, <2>2, Zenon DEF Ends
  <2>4. Holds(e, 1, p1) /\ Slot(e, w, 2) = a2
    BY ONLY <2>3, LastPart
  <2> QED BY <2>4 DEF IntentSlot, w
<1>24. IntentSlot(e, 1) = a1
  <2>1. 1 \in Nat \ {0} /\ p1 = a1
    BY DEF p1
  <2>2. SubSeq(e, 1, 1 + Len(p1) - 1) = p1
    BY ONLY <1>2, <1>13, <1>23, <2>1, CutOut
  <2>3. 1 + Len(p1) - 1 = 0 + w[1]
    BY <1>1, <1>2, <1>w
  <2>4. Slot(e, w, 1) = SubSeq(e, 0 + 1, 0 + w[1])
    BY <1>w, Zenon DEF Slot
  <2>5. 0 + 1 = 1
    OBVIOUS
  <2>6. Slot(e, w, 1) = a1
    BY <2>1, <2>2, <2>3, <2>4, <2>5
  <2> QED BY <2>6 DEF IntentSlot, w
<1> QED BY <1>13, <1>15, <1>16, <1>17, <1>18, <1>19, <1>20, <1>21, <1>22, <1>23, <1>24 DEF S

(* Flags and assets are read as they were written. *)
FlagSet == [kind: {"Sell", "Buy"}, partially_fillable: BOOLEAN]

LEMMA FlagsByte ==
    ASSUME NEW byte \in Bytes, FlagsDecode(byte)
    PROVE  byte \in {0, 2, 4, 6}
BY WireConstants DEF FlagsDecode, Bytes

LEMMA FlagsWritten ==
    ASSUME NEW flags
    PROVE  /\ flags.kind = "Buy" /\ flags.partially_fillable => EncodeFlags(flags) = <<2 + 4>>
           /\ flags.kind = "Buy" /\ ~flags.partially_fillable => EncodeFlags(flags) = <<2 + 0>>
           /\ flags.kind # "Buy" /\ flags.partially_fillable => EncodeFlags(flags) = <<0 + 4>>
           /\ flags.kind # "Buy" /\ ~flags.partially_fillable => EncodeFlags(flags) = <<0 + 0>>
BY Zenon DEF EncodeFlags

LEMMA FlagsRead ==
    /\ DecodeFlags(0) = [kind |-> "Sell", partially_fillable |-> FALSE]
    /\ DecodeFlags(2) = [kind |-> "Buy", partially_fillable |-> FALSE]
    /\ DecodeFlags(4) = [kind |-> "Sell", partially_fillable |-> TRUE]
    /\ DecodeFlags(6) = [kind |-> "Buy", partially_fillable |-> TRUE]
<1>1. /\ (0 \div 2) % 2 # 1 /\ (2 \div 2) % 2 = 1 /\ (4 \div 2) % 2 # 1 /\ (6 \div 2) % 2 = 1
      /\ (0 \div 4) % 2 # 1 /\ (2 \div 4) % 2 # 1 /\ (4 \div 4) % 2 = 1 /\ (6 \div 4) % 2 = 1
  OBVIOUS
<1>3. ASSUME NEW byte, (byte \div 2) % 2 = 1, (byte \div 4) % 2 = 1
      PROVE  DecodeFlags(byte) = [kind |-> "Buy", partially_fillable |-> TRUE]
  BY <1>3, Zenon DEF DecodeFlags
<1>4. ASSUME NEW byte, (byte \div 2) % 2 = 1, (byte \div 4) % 2 # 1
      PROVE  DecodeFlags(byte) = [kind |-> "Buy", partially_fillable |-> FALSE]
  BY <1>4, Zenon DEF DecodeFlags
<1>5. ASSUME NEW byte, (byte \div 2) % 2 # 1, (byte \div 4) % 2 = 1
      PROVE  DecodeFlags(byte) = [kind |-> "Sell", partially_fillable |-> TRUE]
  BY <1>5, Zenon DEF DecodeFlags
<1>6. ASSUME NEW byte, (byte \div 2) % 2 # 1, (byte \div 4) % 2 # 1
      PROVE  DecodeFlags(byte) = [kind |-> "Sell", partially_fillable |-> FALSE]
  BY <1>6, Zenon DEF DecodeFlags
<1>7. DecodeFlags(0) = [kind |-> "Sell", partially_fillable |-> FALSE]
  BY <1>1, <1>6, Zenon
<1>8. DecodeFlags(2) = [kind |-> "Buy", partially_fillable |-> FALSE]
  BY <1>1, <1>4, Zenon
<1>9. DecodeFlags(4) = [kind |-> "Sell", partially_fillable |-> TRUE]
  BY <1>1, <1>5, Zenon
<1>10. DecodeFlags(6) = [kind |-> "Buy", partially_fillable |-> TRUE]
  BY <1>1, <1>3, Zenon
<1> QED BY <1>7, <1>8, <1>9, <1>10, Zenon

LEMMA FlagsFields ==
    ASSUME NEW flags, NEW kind, NEW partial, flags = [kind |-> kind, partially_fillable |-> partial]
    PROVE  flags.kind = kind /\ flags.partially_fillable = partial
BY Zenon

LEMMA FlagsBack ==
    ASSUME NEW byte \in Bytes, FlagsDecode(byte)
    PROVE  EncodeFlags(DecodeFlags(byte)) = <<byte>>
<1>1. byte \in {0, 2, 4, 6}
  BY FlagsByte
<1>2. 2 + 4 = 6 /\ 2 + 0 = 2 /\ 0 + 4 = 4 /\ 0 + 0 = 0 /\ "Sell" # "Buy"
  OBVIOUS
<1>3. EncodeFlags(DecodeFlags(0)) = <<0 + 0>>
  <2> DEFINE flags == DecodeFlags(0)
  <2>1. flags = [kind |-> "Sell", partially_fillable |-> FALSE]
    BY FlagsRead
  <2> HIDE DEF flags
  <2>2. flags.kind = "Sell" /\ flags.partially_fillable = FALSE
    BY <2>1, FlagsFields, Zenon
  <2>3. flags.kind # "Buy" /\ ~flags.partially_fillable
    BY <1>2, <2>2, Zenon
  <2>4. EncodeFlags(flags) = <<0 + 0>>
    BY <2>3, FlagsWritten, Zenon
  <2> QED BY <2>4, Zenon DEF flags
<1>4. EncodeFlags(DecodeFlags(2)) = <<2 + 0>>
  <2> DEFINE flags == DecodeFlags(2)
  <2>1. flags = [kind |-> "Buy", partially_fillable |-> FALSE]
    BY FlagsRead
  <2> HIDE DEF flags
  <2>2. flags.kind = "Buy" /\ flags.partially_fillable = FALSE
    BY <2>1, FlagsFields, Zenon
  <2>3. flags.kind = "Buy" /\ ~flags.partially_fillable
    BY <1>2, <2>2, Zenon
  <2>4. EncodeFlags(flags) = <<2 + 0>>
    BY <2>3, FlagsWritten, Zenon
  <2> QED BY <2>4, Zenon DEF flags
<1>5. EncodeFlags(DecodeFlags(4)) = <<0 + 4>>
  <2> DEFINE flags == DecodeFlags(4)
  <2>1. flags = [kind |-> "Sell", partially_fillable |-> TRUE]
    BY FlagsRead
  <2> HIDE DEF flags
  <2>2. flags.kind = "Sell" /\ flags.partially_fillable = TRUE
    BY <2>1, FlagsFields, Zenon
  <2>3. flags.kind # "Buy" /\ flags.partially_fillable
    BY <1>2, <2>2, Zenon
  <2>4. EncodeFlags(flags) = <<0 + 4>>
    BY <2>3, FlagsWritten, Zenon
  <2> QED BY <2>4, Zenon DEF flags
<1>6. EncodeFlags(DecodeFlags(6)) = <<2 + 4>>
  <2> DEFINE flags == DecodeFlags(6)
  <2>1. flags = [kind |-> "Buy", partially_fillable |-> TRUE]
    BY FlagsRead
  <2> HIDE DEF flags
  <2>2. flags.kind = "Buy" /\ flags.partially_fillable = TRUE
    BY <2>1, FlagsFields, Zenon
  <2>3. flags.kind = "Buy" /\ flags.partially_fillable
    BY <1>2, <2>2, Zenon
  <2>4. EncodeFlags(flags) = <<2 + 4>>
    BY <2>3, FlagsWritten, Zenon
  <2> QED BY <2>4, Zenon DEF flags
<1> QED BY <1>1, <1>2, <1>3, <1>4, <1>5, <1>6

LEMMA FlagsForth ==
    ASSUME NEW flags \in FlagSet
    PROVE  /\ EncodeFlags(flags) \in Seq(Bytes) /\ Len(EncodeFlags(flags)) = 1
           /\ FlagsDecode(EncodeFlags(flags)[1])
           /\ DecodeFlags(EncodeFlags(flags)[1]) = flags
<1>1. /\ flags.kind \in {"Sell", "Buy"} /\ flags.partially_fillable \in BOOLEAN
      /\ flags = [kind |-> flags.kind, partially_fillable |-> flags.partially_fillable]
  BY Zenon DEF FlagSet
<1>2. 2 + 4 = 6 /\ 2 + 0 = 2 /\ 0 + 4 = 4 /\ 0 + 0 = 0 /\ "Sell" # "Buy"
  OBVIOUS
<1>3. \E byte \in {0, 2, 4, 6} : EncodeFlags(flags) = <<byte>> /\ DecodeFlags(byte) = flags
  <2>1. CASE flags.kind = "Buy" /\ flags.partially_fillable
    <3>1. EncodeFlags(flags) = <<6>>
      BY <1>2, <2>1, FlagsWritten, Zenon
    <3>2. flags.partially_fillable = TRUE
      BY <1>1, <2>1, Zenon
    <3>3. DecodeFlags(6) = flags
      BY <1>1, <2>1, <3>2, FlagsRead, Zenon
    <3> QED BY <3>1, <3>3, Zenon
  <2>2. CASE flags.kind = "Buy" /\ ~flags.partially_fillable
    <3>1. EncodeFlags(flags) = <<2>>
      BY <1>2, <2>2, FlagsWritten, Zenon
    <3>2. flags.partially_fillable = FALSE
      BY <1>1, <2>2, Zenon
    <3>3. DecodeFlags(2) = flags
      BY <1>1, <2>2, <3>2, FlagsRead, Zenon
    <3> QED BY <3>1, <3>3, Zenon
  <2>3. CASE flags.kind = "Sell" /\ flags.partially_fillable
    <3>1. EncodeFlags(flags) = <<4>>
      BY <1>2, <2>3, FlagsWritten, Zenon
    <3>2. flags.partially_fillable = TRUE
      BY <1>1, <2>3, Zenon
    <3>3. DecodeFlags(4) = flags
      BY <1>1, <2>3, <3>2, FlagsRead, Zenon
    <3> QED BY <3>1, <3>3, Zenon
  <2>4. CASE flags.kind = "Sell" /\ ~flags.partially_fillable
    <3>1. EncodeFlags(flags) = <<0>>
      BY <1>2, <2>4, FlagsWritten, Zenon
    <3>2. flags.partially_fillable = FALSE
      BY <1>1, <2>4, Zenon
    <3>3. DecodeFlags(0) = flags
      BY <1>1, <2>4, <3>2, FlagsRead, Zenon
    <3> QED BY <3>1, <3>3, Zenon
  <2> QED BY <1>1, <2>1, <2>2, <2>3, <2>4, Zenon
<1>4. PICK byte \in {0, 2, 4, 6} : EncodeFlags(flags) = <<byte>> /\ DecodeFlags(byte) = flags
  BY <1>3
<1>5. byte \in Bytes /\ FlagsDecode(byte)
  BY WireConstants DEF Bytes, FlagsDecode
<1>6. <<byte>> \in Seq(Bytes) /\ Len(<<byte>>) = 1 /\ <<byte>>[1] = byte
  BY <1>5
<1> QED BY <1>4, <1>5, <1>6, Zenon

LEMMA AssetForth ==
    ASSUME NEW asset \in Assets
    PROVE  /\ EncodeMint(asset) \in Key /\ asset.account \in Key
           /\ DecodeAsset(EncodeMint(asset), asset.account) = asset
<1>1. NativeSol \in Key
  BY BytesAssumption
<1>2. CASE asset \in [tag: {"Native"}, account: Key]
  BY <1>1, <1>2 DEF EncodeMint, DecodeAsset
<1>3. CASE asset \in [tag: {"TokenProgram"}, mint: Key \ {NativeSol}, account: Key]
  <2>1. /\ asset.mint \in Key /\ asset.mint # NativeSol /\ asset.tag # "Native"
        /\ asset.account \in Key
        /\ asset = [tag |-> "TokenProgram", mint |-> asset.mint, account |-> asset.account]
    BY <1>3
  <2> QED BY <2>1 DEF EncodeMint, DecodeAsset
<1> QED BY <1>2, <1>3 DEF Assets

LEMMA AssetBack ==
    ASSUME NEW mint, NEW account
    PROVE  /\ EncodeMint(DecodeAsset(mint, account)) = mint
           /\ DecodeAsset(mint, account).account = account
BY DEF EncodeMint, DecodeAsset
-----------------------------------------------------------------------------
(* Intents are read as they were written, and the other way round. *)
LEMMA IntentFields ==
    ASSUME NEW i \in Intents
    PROVE  /\ i.owner \in Key /\ i.sell.token_account \in Key /\ i.sell.mint \in Key
           /\ i.sell = [mint |-> i.sell.mint, token_account |-> i.sell.token_account]
           /\ i.buy \in Assets /\ i.sell_amount \in Amount /\ i.buy_amount \in Amount
           /\ i.valid_to \in 0..(Power(TimeWidth) - 1) /\ i.flags \in FlagSet /\ i.app_data \in Key
           /\ i = [owner |-> i.owner, sell |-> i.sell, buy |-> i.buy, sell_amount |-> i.sell_amount,
                   buy_amount |-> i.buy_amount, valid_to |-> i.valid_to, flags |-> i.flags,
                   app_data |-> i.app_data]
<1> DEFINE T == 0..(Power(TimeWidth) - 1)
<1>1. i \in [owner: Key, sell: [mint: Key, token_account: Key], buy: Assets,
             sell_amount: Amount, buy_amount: Amount, valid_to: T, flags: FlagSet, app_data: Key]
  BY Zenon DEF Intents, FlagSet
<1> HIDE DEF T
<1>2. /\ i.owner \in Key /\ i.sell \in [mint: Key, token_account: Key]
      /\ i.buy \in Assets /\ i.sell_amount \in Amount /\ i.buy_amount \in Amount
      /\ i.valid_to \in T /\ i.flags \in FlagSet /\ i.app_data \in Key
      /\ i = [owner |-> i.owner, sell |-> i.sell, buy |-> i.buy, sell_amount |-> i.sell_amount,
              buy_amount |-> i.buy_amount, valid_to |-> i.valid_to, flags |-> i.flags,
              app_data |-> i.app_data]
  BY <1>1
<1>3. /\ i.sell.token_account \in Key /\ i.sell.mint \in Key
      /\ i.sell = [mint |-> i.sell.mint, token_account |-> i.sell.token_account]
  BY <1>2
<1> QED BY <1>2, <1>3 DEF T

LEMMA AmountsFit ==
    ASSUME NEW v \in Amount
    PROVE  v \in Nat /\ v < Power(Word)
<1>1. Power(Word) \in Nat
  BY WireConstants, PowerIsPowerOf, PowerType, ByteIsBase
<1> QED BY <1>1 DEF Amount

LEMMA TimesFit ==
    ASSUME NEW v \in 0..(Power(TimeWidth) - 1)
    PROVE  v \in Nat /\ v < Power(TimeWidth)
<1>1. Power(TimeWidth) \in Nat
  BY WireConstants, PowerIsPowerOf, PowerType, ByteIsBase
<1> QED BY <1>1

LEMMA EncodedIntent ==
    ASSUME NEW i \in Intents
    PROVE  LET e == EncodeIntent(i) IN
           /\ e \in Seq(Bytes) /\ Len(e) = IntentSize
           /\ IntentSlot(e, 1) = i.owner /\ IntentSlot(e, 2) = i.sell.token_account
           /\ IntentSlot(e, 3) = i.sell.mint /\ IntentSlot(e, 4) = i.buy.account
           /\ IntentSlot(e, 5) = EncodeMint(i.buy) /\ IntentSlot(e, 6) = ToBytes(i.sell_amount, Word)
           /\ IntentSlot(e, 7) = ToBytes(i.buy_amount, Word)
           /\ IntentSlot(e, 8) = ToBytes(i.valid_to, TimeWidth)
           /\ IntentSlot(e, 9) = EncodeFlags(i.flags) /\ IntentSlot(e, 10) = i.app_data
<1> DEFINE a1 == i.owner
           a2 == i.sell.token_account
           a3 == i.sell.mint
           a4 == i.buy.account
           a5 == EncodeMint(i.buy)
           a6 == ToBytes(i.sell_amount, Word)
           a7 == ToBytes(i.buy_amount, Word)
           a8 == ToBytes(i.valid_to, TimeWidth)
           a9 == EncodeFlags(i.flags)
           a10 == i.app_data
           e == EncodeIntent(i)
<1>1. /\ a1 \in Key /\ a2 \in Key /\ a3 \in Key /\ a4 \in Key /\ a5 \in Key /\ a10 \in Key
  BY IntentFields, AssetForth
<1>2. /\ a1 \in Seq(Bytes) /\ a2 \in Seq(Bytes) /\ a3 \in Seq(Bytes) /\ a4 \in Seq(Bytes)
      /\ a5 \in Seq(Bytes) /\ a10 \in Seq(Bytes)
      /\ Len(a1) = KeyWidth /\ Len(a2) = KeyWidth /\ Len(a3) = KeyWidth /\ Len(a4) = KeyWidth
      /\ Len(a5) = KeyWidth /\ Len(a10) = KeyWidth
  BY <1>1, KeyIsSeq
<1>3. i.sell_amount \in Nat /\ i.buy_amount \in Nat /\ i.valid_to \in Nat
  BY IntentFields, AmountsFit, TimesFit
<1>4. /\ a6 \in Seq(Bytes) /\ a7 \in Seq(Bytes) /\ a8 \in Seq(Bytes)
      /\ Len(a6) = Word /\ Len(a7) = Word /\ Len(a8) = TimeWidth
  BY <1>3, WireConstants, ToBytesBytes
<1>5. a9 \in Seq(Bytes) /\ Len(a9) = 1
  BY IntentFields, FlagsForth, Zenon
<1>6. e = a1 \o a2 \o a3 \o a4 \o a5 \o a6 \o a7 \o a8 \o a9 \o a10
  BY Zenon DEF EncodeIntent
<1> HIDE DEF a1, a2, a3, a4, a5, a6, a7, a8, a9, a10, e
<1>p. AreIntentParts(e, a1, a2, a3, a4, a5, a6, a7, a8, a9, a10)
  BY <1>2, <1>4, <1>5, <1>6, Zenon DEF AreIntentParts
<1>7. /\ e \in Seq(Bytes) /\ Len(e) = IntentSize
      /\ IntentSlot(e, 1) = a1 /\ IntentSlot(e, 2) = a2 /\ IntentSlot(e, 3) = a3
      /\ IntentSlot(e, 4) = a4 /\ IntentSlot(e, 5) = a5 /\ IntentSlot(e, 6) = a6
      /\ IntentSlot(e, 7) = a7 /\ IntentSlot(e, 8) = a8 /\ IntentSlot(e, 9) = a9
      /\ IntentSlot(e, 10) = a10
  BY ONLY <1>p, PartsOfIntent
<1> QED BY <1>7, Zenon DEF a1, a2, a3, a4, a5, a6, a7, a8, a9, a10, e

LEMMA IntentForth ==
    ASSUME NEW i \in Intents
    PROVE  DecodeIntent(EncodeIntent(i)) = i
<1> DEFINE e == EncodeIntent(i)
<1>1. /\ IntentSlot(e, 1) = i.owner /\ IntentSlot(e, 2) = i.sell.token_account
      /\ IntentSlot(e, 3) = i.sell.mint /\ IntentSlot(e, 4) = i.buy.account
      /\ IntentSlot(e, 5) = EncodeMint(i.buy) /\ IntentSlot(e, 6) = ToBytes(i.sell_amount, Word)
      /\ IntentSlot(e, 7) = ToBytes(i.buy_amount, Word)
      /\ IntentSlot(e, 8) = ToBytes(i.valid_to, TimeWidth)
      /\ IntentSlot(e, 9) = EncodeFlags(i.flags) /\ IntentSlot(e, 10) = i.app_data
  BY EncodedIntent, Zenon
<1> HIDE DEF e
<1>2. FromBytes(ToBytes(i.sell_amount, Word)) = i.sell_amount
  BY IntentFields, AmountsFit, RoundTrip, WireConstants, ZenonT(60)
<1>3. FromBytes(ToBytes(i.buy_amount, Word)) = i.buy_amount
  BY IntentFields, AmountsFit, RoundTrip, WireConstants, ZenonT(60)
<1>4. FromBytes(ToBytes(i.valid_to, TimeWidth)) = i.valid_to
  BY IntentFields, TimesFit, RoundTrip, WireConstants
<1>5. DecodeFlags(EncodeFlags(i.flags)[1]) = i.flags
  BY IntentFields, FlagsForth, Zenon
<1>6. DecodeAsset(EncodeMint(i.buy), i.buy.account) = i.buy
  BY IntentFields, AssetForth, Zenon
<1>7. i.sell = [mint |-> i.sell.mint, token_account |-> i.sell.token_account]
  BY IntentFields, Zenon
<1>8. DecodeIntent(e) = [owner |-> i.owner, sell |-> i.sell, buy |-> i.buy,
                         sell_amount |-> i.sell_amount, buy_amount |-> i.buy_amount,
                         valid_to |-> i.valid_to, flags |-> i.flags, app_data |-> i.app_data]
  BY <1>1, <1>2, <1>3, <1>4, <1>5, <1>6, <1>7, Zenon DEF DecodeIntent
<1> QED BY <1>8, IntentFields, Zenon DEF e

LEMMA DecodedIntent ==
    ASSUME NEW b
    PROVE  LET d == DecodeIntent(b) IN
           /\ d.owner = IntentSlot(b, 1) /\ d.sell.token_account = IntentSlot(b, 2)
           /\ d.sell.mint = IntentSlot(b, 3) /\ d.buy = DecodeAsset(IntentSlot(b, 5), IntentSlot(b, 4))
           /\ d.sell_amount = FromBytes(IntentSlot(b, 6)) /\ d.buy_amount = FromBytes(IntentSlot(b, 7))
           /\ d.valid_to = FromBytes(IntentSlot(b, 8)) /\ d.flags = DecodeFlags(IntentSlot(b, 9)[1])
           /\ d.app_data = IntentSlot(b, 10)
BY DEF DecodeIntent

LEMMA IntentSlots ==
    ASSUME NEW b \in Seq(Bytes), Len(b) = IntentSize, NEW k \in 1..10
    PROVE  IntentSlot(b, k) \in Seq(Bytes) /\ Len(IntentSlot(b, k)) = IntentWidths[k]
<1>1. AreWidths(IntentWidths, 10) /\ Len(b) = Before(IntentWidths, 10 + 1)
  BY IntentWidthsAre
<1>2. /\ Slot(b, IntentWidths, k) \in Seq(Bytes) /\ Len(Slot(b, IntentWidths, k)) = IntentWidths[k]
  BY <1>1, SlotIs
<1> QED BY <1>2 DEF IntentSlot

LEMMA IntentBack ==
    ASSUME NEW b \in Seq(Bytes), Len(b) = IntentSize, FlagsDecode(IntentSlot(b, 9)[1])
    PROVE  EncodeIntent(DecodeIntent(b)) = b
<1> DEFINE s(k) == IntentSlot(b, k)
           d == DecodeIntent(b)
           e == EncodeIntent(d)
<1>1. \A k \in 1..10 : s(k) \in Seq(Bytes) /\ Len(s(k)) = IntentWidths[k]
  BY IntentSlots
<1>2. /\ s(1) \in Seq(Bytes) /\ s(2) \in Seq(Bytes) /\ s(3) \in Seq(Bytes) /\ s(4) \in Seq(Bytes)
      /\ s(5) \in Seq(Bytes) /\ s(6) \in Seq(Bytes) /\ s(7) \in Seq(Bytes) /\ s(8) \in Seq(Bytes)
      /\ s(9) \in Seq(Bytes) /\ s(10) \in Seq(Bytes)
      /\ Len(s(1)) = KeyWidth /\ Len(s(2)) = KeyWidth /\ Len(s(3)) = KeyWidth /\ Len(s(4)) = KeyWidth
      /\ Len(s(5)) = KeyWidth /\ Len(s(6)) = Word /\ Len(s(7)) = Word /\ Len(s(8)) = TimeWidth
      /\ Len(s(9)) = 1 /\ Len(s(10)) = KeyWidth
  <2> HIDE DEF s
  <2>1. 1 \in 1..10 /\ 2 \in 1..10 /\ 3 \in 1..10 /\ 4 \in 1..10 /\ 5 \in 1..10 /\ 6 \in 1..10
        /\ 7 \in 1..10 /\ 8 \in 1..10 /\ 9 \in 1..10 /\ 10 \in 1..10
    OBVIOUS
  <2> QED BY <1>1, <2>1, IntentWidthsAre
<1>3. /\ ToBytes(FromBytes(s(6)), Word) = s(6) /\ ToBytes(FromBytes(s(7)), Word) = s(7)
      /\ ToBytes(FromBytes(s(8)), TimeWidth) = s(8)
  <2> HIDE DEF s
  <2> QED BY <1>2, FromBytesBack
<1>4. EncodeFlags(DecodeFlags(s(9)[1])) = s(9)
  <2>1. FlagsDecode(s(9)[1])
    OBVIOUS
  <2> HIDE DEF s
  <2>2. s(9) = <<s(9)[1]>> /\ s(9)[1] \in Bytes
    BY <1>2, SMTT(30)
  <2> QED BY <2>1, <2>2, FlagsBack
<1>5. /\ d.owner = s(1) /\ d.sell.token_account = s(2) /\ d.sell.mint = s(3)
      /\ d.buy = DecodeAsset(s(5), s(4))
      /\ d.sell_amount = FromBytes(s(6)) /\ d.buy_amount = FromBytes(s(7))
      /\ d.valid_to = FromBytes(s(8)) /\ d.flags = DecodeFlags(s(9)[1]) /\ d.app_data = s(10)
  BY DecodedIntent, Zenon
<1> HIDE DEF s, d
<1>6. d.buy.account = s(4) /\ EncodeMint(d.buy) = s(5)
  BY <1>5, AssetBack
<1>7. e = s(1) \o s(2) \o s(3) \o s(4) \o s(5) \o s(6) \o s(7) \o s(8) \o s(9) \o s(10)
  BY <1>3, <1>4, <1>5, <1>6, Zenon DEF EncodeIntent
<1> HIDE DEF e
<1>8. AreIntentParts(e, s(1), s(2), s(3), s(4), s(5), s(6), s(7), s(8), s(9), s(10))
  BY <1>2, <1>7, Zenon DEF AreIntentParts
<1>9. /\ e \in Seq(Bytes) /\ Len(e) = IntentSize
      /\ IntentSlot(e, 1) = s(1) /\ IntentSlot(e, 2) = s(2) /\ IntentSlot(e, 3) = s(3)
      /\ IntentSlot(e, 4) = s(4) /\ IntentSlot(e, 5) = s(5) /\ IntentSlot(e, 6) = s(6)
      /\ IntentSlot(e, 7) = s(7) /\ IntentSlot(e, 8) = s(8) /\ IntentSlot(e, 9) = s(9)
      /\ IntentSlot(e, 10) = s(10)
  BY ONLY <1>8, PartsOfIntent
<1>10. ASSUME NEW k \in 1..10 PROVE Slot(e, IntentWidths, k) = Slot(b, IntentWidths, k)
  <2>1. \/ k = 1 \/ k = 2 \/ k = 3 \/ k = 4 \/ k = 5 \/ k = 6 \/ k = 7 \/ k = 8 \/ k = 9 \/ k = 10
    OBVIOUS
  <2>2. IntentSlot(e, k) = s(k)
    BY <1>9, <2>1
  <2> QED BY <2>2, Zenon DEF IntentSlot, s
<1>11. e = b
  <2>1. AreWidths(IntentWidths, 10) /\ IntentSize = Before(IntentWidths, 10 + 1)
    BY IntentWidthsAre
  <2>2. Len(e) = Before(IntentWidths, 10 + 1) /\ Len(b) = Before(IntentWidths, 10 + 1)
    BY <1>9, <2>1
  <2> QED BY <1>9, <1>10, <2>1, <2>2, SameSlots
<1> QED BY <1>11 DEF e, d
-----------------------------------------------------------------------------
(* The slots of an order account. *)
LEMMA OrderWidthsAre ==
    /\ AreWidths(OrderWidths, 7)
    /\ OrderWidths[1] = 1 /\ OrderWidths[2] = 1 /\ OrderWidths[3] = 1 /\ OrderWidths[4] = Word
    /\ OrderWidths[5] = Word /\ OrderWidths[6] = KeyWidth /\ OrderWidths[7] = IntentSize
    /\ OrderSize = Before(OrderWidths, 7 + 1)
    /\ IntentSize \in Nat /\ IntentSize > KeyWidth
<1>1. /\ OrderWidths[1] = 1 /\ OrderWidths[2] = 1 /\ OrderWidths[3] = 1 /\ OrderWidths[4] = Word
      /\ OrderWidths[5] = Word /\ OrderWidths[6] = KeyWidth /\ OrderWidths[7] = IntentSize
      /\ Len(OrderWidths) = 7
  BY DEF OrderWidths
<1>2. IntentSize \in Nat /\ IntentSize > KeyWidth
  BY IntentBefores, WireConstants
<1>3. AreWidths(OrderWidths, 7)
  <2>1. ASSUME NEW x \in 1..7 PROVE OrderWidths[x] \in Nat
    <3>1. \/ x = 1 \/ x = 2 \/ x = 3 \/ x = 4 \/ x = 5 \/ x = 6 \/ x = 7
      OBVIOUS
    <3> QED BY <1>1, <1>2, <3>1, WireConstants
  <2> QED BY <2>1 DEF AreWidths
<1>4. OrderSize = Before(OrderWidths, 7 + 1)
  BY <1>1 DEF OrderSize
<1> QED BY <1>1, <1>2, <1>3, <1>4

LEMMA OrderBefores ==
    /\ Before(OrderWidths, 1) = 0 /\ Before(OrderWidths, 2) = 1 /\ Before(OrderWidths, 3) = 2
    /\ Before(OrderWidths, 4) = 3 /\ Before(OrderWidths, 5) = 3 + Word
    /\ Before(OrderWidths, 6) = 3 + 2 * Word /\ Before(OrderWidths, 7) = 3 + 2 * Word + KeyWidth
    /\ OrderSize = 3 + 2 * Word + KeyWidth + IntentSize
<1> DEFINE w == OrderWidths
<1>1. /\ w[1] = 1 /\ w[2] = 1 /\ w[3] = 1 /\ w[4] = Word /\ w[5] = Word /\ w[6] = KeyWidth
      /\ w[7] = IntentSize /\ AreWidths(w, 7) /\ OrderSize = Before(w, 7 + 1) /\ IntentSize \in Nat
  BY OrderWidthsAre
<1>2. KeyWidth \in Nat /\ Word \in Nat
  BY WireConstants
<1> HIDE DEF w
<1>3. /\ Before(w, 1) = 0
      /\ \A k \in 1..7 : Before(w, k + 1) = Before(w, k) + w[k]
  BY <1>1, Befores
<1>4. /\ Before(w, 2) = Before(w, 1) + w[1] /\ Before(w, 3) = Before(w, 2) + w[2]
      /\ Before(w, 4) = Before(w, 3) + w[3] /\ Before(w, 5) = Before(w, 4) + w[4]
      /\ Before(w, 6) = Before(w, 5) + w[5] /\ Before(w, 7) = Before(w, 6) + w[6]
      /\ Before(w, 7 + 1) = Before(w, 7) + w[7]
  <2>1. 2 = 1 + 1 /\ 3 = 2 + 1 /\ 4 = 3 + 1 /\ 5 = 4 + 1 /\ 6 = 5 + 1 /\ 7 = 6 + 1
    OBVIOUS
  <2> QED BY <1>3, <2>1
<1> QED BY <1>1, <1>2, <1>3, <1>4 DEF w

(* The body b has these parts. *)
HasParts(b, bump, cancelled, withdrawn, received, created_by, intent_bytes) ==
    /\ b \in Seq(Bytes) /\ Len(b) = OrderSize
    /\ OrderSlot(b, 1) = <<OrderDiscriminator>> /\ OrderSlot(b, 2) = <<bump>>
    /\ OrderSlot(b, 3) = <<cancelled>> /\ OrderSlot(b, 4) = withdrawn /\ OrderSlot(b, 5) = received
    /\ OrderSlot(b, 6) = created_by /\ OrderSlot(b, 7) = intent_bytes

LEMMA SameParts ==
    ASSUME NEW b, NEW c, NEW a2, NEW a3, NEW a4, NEW a5, NEW a6, NEW a7,
           HasParts(b, a2, a3, a4, a5, a6, a7), HasParts(c, a2, a3, a4, a5, a6, a7)
    PROVE  b = c
<1>1. ASSUME NEW k \in 1..7 PROVE Slot(b, OrderWidths, k) = Slot(c, OrderWidths, k)
  <2>1. \/ k = 1 \/ k = 2 \/ k = 3 \/ k = 4 \/ k = 5 \/ k = 6 \/ k = 7
    OBVIOUS
  <2>2. OrderSlot(b, k) = OrderSlot(c, k)
    BY <2>1, Zenon DEF HasParts
  <2> QED BY <2>2, Zenon DEF OrderSlot
<1>2. AreWidths(OrderWidths, 7) /\ OrderSize = Before(OrderWidths, 7 + 1)
  BY OrderWidthsAre
<1>3. /\ b \in Seq(Bytes) /\ c \in Seq(Bytes)
      /\ Len(b) = Before(OrderWidths, 7 + 1) /\ Len(c) = Before(OrderWidths, 7 + 1)
  BY <1>2, Zenon DEF HasParts
<1> QED BY <1>1, <1>2, <1>3, SameSlots

AreOrderParts(a2, a3, a4, a5, a6, a7) ==
    /\ a2 \in Bytes /\ a3 \in {0, 1}
    /\ a4 \in Seq(Bytes) /\ a5 \in Seq(Bytes) /\ a6 \in Seq(Bytes) /\ a7 \in Seq(Bytes)
    /\ Len(a4) = Word /\ Len(a5) = Word /\ Len(a6) = KeyWidth /\ Len(a7) = IntentSize

LEMMA PartsOfOrder ==
    ASSUME NEW e, NEW a2, NEW a3, NEW a4, NEW a5, NEW a6, NEW a7,
           AreOrderParts(a2, a3, a4, a5, a6, a7),
           e = <<OrderDiscriminator, a2, a3>> \o a4 \o a5 \o a6 \o a7
    PROVE  HasParts(e, a2, a3, a4, a5, a6, a7)
<1> DEFINE w == OrderWidths
           S == Bytes
           K == KeyWidth
           I == IntentSize
           p3 == <<OrderDiscriminator, a2, a3>>
           p4 == p3 \o a4
           p5 == p4 \o a5
           p6 == p5 \o a6
           p7 == p6 \o a7
<1>1. K \in Nat /\ Word \in Nat /\ I \in Nat
  BY WireConstants, OrderWidthsAre
<1>p. /\ a2 \in Bytes /\ a3 \in Bytes /\ OrderDiscriminator \in Bytes
  BY WireConstants, BytesAssumption, SMTT(30) DEF AreOrderParts, Bytes
<1>a. /\ a4 \in Seq(S) /\ a5 \in Seq(S) /\ a6 \in Seq(S) /\ a7 \in Seq(S)
  BY Zenon DEF AreOrderParts
<1>b. Len(a4) = Word /\ Len(a5) = Word /\ Len(a6) = K /\ Len(a7) = I
  BY Zenon DEF AreOrderParts
<1>3. /\ p3 \in Seq(S) /\ Len(p3) = 3
      /\ p3[1] = OrderDiscriminator /\ p3[2] = a2 /\ p3[3] = a3
  BY <1>p
<1> HIDE DEF S, w, I, p3
<1>4. p4 \in Seq(S) /\ Len(p4) = 3 + Word
  <2>1. Joins(S, p4, p3, a4)
    BY <1>3, <1>a, Zenon DEF p4, Joins, IsJoin
  <2> HIDE DEF p4
  <2>2. p4 \in Seq(S) /\ Len(p4) = Len(p3) + Len(a4)
    BY ONLY <2>1, PartsAt
  <2> QED BY ONLY <1>1, <1>b, <1>3, <2>2
<1> HIDE DEF p4
<1>5. p5 \in Seq(S) /\ Len(p5) = 3 + 2 * Word
  <2>1. Joins(S, p5, p4, a5)
    BY <1>4, <1>a, Zenon DEF p5, Joins, IsJoin
  <2> HIDE DEF p5
  <2>2. p5 \in Seq(S) /\ Len(p5) = Len(p4) + Len(a5)
    BY ONLY <2>1, PartsAt
  <2> QED BY ONLY <1>1, <1>b, <1>4, <2>2
<1> HIDE DEF p5
<1>6. p6 \in Seq(S) /\ Len(p6) = 3 + 2 * Word + K
  <2>1. Joins(S, p6, p5, a6)
    BY <1>5, <1>a, Zenon DEF p6, Joins, IsJoin
  <2> HIDE DEF p6
  <2>2. p6 \in Seq(S) /\ Len(p6) = Len(p5) + Len(a6)
    BY ONLY <2>1, PartsAt
  <2> QED BY ONLY <1>1, <1>b, <1>5, <2>2
<1> HIDE DEF p6
<1>7. p7 \in Seq(S) /\ Len(p7) = 3 + 2 * Word + K + I
  <2>1. Joins(S, p7, p6, a7)
    BY <1>6, <1>a, Zenon DEF p7, Joins, IsJoin
  <2> HIDE DEF p7
  <2>2. p7 \in Seq(S) /\ Len(p7) = Len(p6) + Len(a7)
    BY ONLY <2>1, PartsAt
  <2> QED BY ONLY <1>1, <1>b, <1>6, <2>2
<1> HIDE DEF p7
<1>8. e = p7
  BY Zenon DEF p3, p4, p5, p6, p7
<1>9. e \in Seq(S) /\ Len(e) = OrderSize /\ Holds(e, 1, p7)
  BY <1>7, <1>8, OrderBefores, HoldsItself DEF I
<1>w. /\ w[1] = 1 /\ w[2] = 1 /\ w[3] = 1 /\ w[4] = Word /\ w[5] = Word /\ w[6] = K /\ w[7] = I
      /\ Before(w, 1) = 0 /\ Before(w, 2) = 1 /\ Before(w, 3) = 2
      /\ Before(w, 4) = 3 /\ Before(w, 5) = 3 + Word /\ Before(w, 6) = 3 + 2 * Word
      /\ Before(w, 7) = 3 + 2 * Word + K
      /\ AreWidths(w, 7) /\ OrderSize = Before(w, 7 + 1)
  BY OrderWidthsAre, OrderBefores DEF w, I
<1>10. Holds(e, 1, p6) /\ Slot(e, w, 7) = a7
  <2>1. Joins(S, p7, p6, a7)
    BY <1>6, <1>a, Zenon DEF p7, Joins, IsJoin
  <2>2. Len(p6) = Before(w, 7) /\ Len(a7) = w[7]
    BY ONLY <1>6, <1>b, <1>w
  <2>3. Ends(S, e, p7, p6, a7, w, 7)
    BY ONLY <1>9, <2>1, <2>2, Zenon DEF Ends
  <2> QED BY ONLY <2>3, LastPart
<1>11. Holds(e, 1, p5) /\ Slot(e, w, 6) = a6
  <2>1. Joins(S, p6, p5, a6)
    BY <1>5, <1>a, Zenon DEF p6, Joins, IsJoin
  <2>2. Len(p5) = Before(w, 6) /\ Len(a6) = w[6]
    BY ONLY <1>5, <1>b, <1>w
  <2>3. Ends(S, e, p6, p5, a6, w, 6)
    BY ONLY <1>9, <1>10, <2>1, <2>2, Zenon DEF Ends
  <2> QED BY ONLY <2>3, LastPart
<1>12. Holds(e, 1, p4) /\ Slot(e, w, 5) = a5
  <2>1. Joins(S, p5, p4, a5)
    BY <1>4, <1>a, Zenon DEF p5, Joins, IsJoin
  <2>2. Len(p4) = Before(w, 5) /\ Len(a5) = w[5]
    BY ONLY <1>4, <1>b, <1>w
  <2>3. Ends(S, e, p5, p4, a5, w, 5)
    BY ONLY <1>9, <1>11, <2>1, <2>2, Zenon DEF Ends
  <2> QED BY ONLY <2>3, LastPart
<1>13. Holds(e, 1, p3) /\ Slot(e, w, 4) = a4
  <2>1. Joins(S, p4, p3, a4)
    BY <1>3, <1>a, Zenon DEF p4, Joins, IsJoin
  <2>2. Len(p3) = Before(w, 4) /\ Len(a4) = w[4]
    BY ONLY <1>3, <1>b, <1>w
  <2>3. Ends(S, e, p4, p3, a4, w, 4)
    BY ONLY <1>9, <1>12, <2>1, <2>2, Zenon DEF Ends
  <2> QED BY ONLY <2>3, LastPart
<1>14. ASSUME NEW k \in 1..3 PROVE Slot(e, w, k) = <<p3[k]>>
  <2>1. k \in 1..7 /\ w[k] = 1 /\ Before(w, k) = k - 1
    <3>1. k = 1 \/ k = 2 \/ k = 3
      OBVIOUS
    <3> QED BY <1>w, <3>1
  <2>2. Len(e) = Before(w, 7 + 1)
    BY <1>9, <1>w
  <2>3. /\ Slot(e, w, k) \in Seq(S) /\ Len(Slot(e, w, k)) = w[k]
        /\ \A j \in 1..w[k] : Slot(e, w, k)[j] = e[Before(w, k) + j]
    <3> DEFINE n == 7
    <3>1. e \in Seq(S) /\ AreWidths(w, n) /\ Len(e) = Before(w, n + 1) /\ k \in 1..n
      BY <1>9, <1>w, <2>1, <2>2
    <3> HIDE DEF n
    <3>2. /\ Slot(e, w, k) \in Seq(S) /\ Len(Slot(e, w, k)) = w[k]
          /\ Holds(e, Before(w, k) + 1, Slot(e, w, k))
          /\ \A j \in 1..w[k] : Slot(e, w, k)[j] = e[Before(w, k) + j]
      BY ONLY <3>1, SlotIs
    <3> QED BY <3>2
  <2>4. e[1 + k - 1] = p3[k]
    BY <1>3, <1>13 DEF Holds
  <2>5. (k - 1) + 1 = 1 + k - 1
    OBVIOUS
  <2>6. Slot(e, w, k)[1] = p3[k]
    <3>1. 1 \in 1..w[k] /\ Before(w, k) + 1 = 1 + k - 1
      BY <2>1, <2>5
    <3> QED BY <2>3, <2>4, <3>1
  <2> QED BY <2>1, <2>3, <2>6
<1>15. Slot(e, w, 1) = <<OrderDiscriminator>> /\ Slot(e, w, 2) = <<a2>> /\ Slot(e, w, 3) = <<a3>>
  <2>1. 1 \in 1..3 /\ 2 \in 1..3 /\ 3 \in 1..3
    OBVIOUS
  <2> QED BY <1>3, <1>14, <2>1
<1> QED BY <1>9, <1>10, <1>11, <1>12, <1>13, <1>15, Zenon DEF HasParts, OrderSlot, w, S
-----------------------------------------------------------------------------
(* What order accounts are meant to hold, and the bodies that hold it. *)
MeantOrders ==
    [bump: Bytes, cancelled: BOOLEAN, amount_withdrawn: Amount, amount_received: Amount,
     created_by: Key, intent: Intents]

MarkOf(m) == IF m.cancelled THEN 1 ELSE 0

IsStored(b, m) ==
    /\ m \in MeantOrders
    /\ HasParts(b, m.bump, MarkOf(m), ToBytes(m.amount_withdrawn, Word),
                ToBytes(m.amount_received, Word), m.created_by, EncodeIntent(m.intent))
    /\ CheckBytes(EncodeIntent(m.intent))

LEMMA MeantFields ==
    ASSUME NEW m \in MeantOrders
    PROVE  /\ m.bump \in Bytes /\ m.cancelled \in BOOLEAN /\ m.amount_withdrawn \in Amount
           /\ m.amount_received \in Amount /\ m.created_by \in Key /\ m.intent \in Intents
           /\ m = [bump |-> m.bump, cancelled |-> m.cancelled, amount_withdrawn |-> m.amount_withdrawn,
                   amount_received |-> m.amount_received, created_by |-> m.created_by,
                   intent |-> m.intent]
BY Zenon DEF MeantOrders

LEMMA MeantParts ==
    ASSUME NEW m \in MeantOrders
    PROVE  AreOrderParts(m.bump, MarkOf(m), ToBytes(m.amount_withdrawn, Word),
                         ToBytes(m.amount_received, Word), m.created_by, EncodeIntent(m.intent))
<1>1. m.bump \in Bytes /\ m.created_by \in Seq(Bytes) /\ Len(m.created_by) = KeyWidth
  BY MeantFields, KeyIsSeq, Zenon
<1>2. MarkOf(m) \in {0, 1}
  BY Zenon DEF MarkOf
<1>3. m.amount_withdrawn \in Nat /\ m.amount_received \in Nat
  <2>1. m.amount_withdrawn \in Amount /\ m.amount_received \in Amount
    BY MeantFields, Zenon
  <2> QED BY <2>1, AmountsFit
<1>4. /\ ToBytes(m.amount_withdrawn, Word) \in Seq(Bytes) /\ Len(ToBytes(m.amount_withdrawn, Word)) = Word
      /\ ToBytes(m.amount_received, Word) \in Seq(Bytes) /\ Len(ToBytes(m.amount_received, Word)) = Word
  BY <1>3, WireConstants, ToBytesBytes
<1>5. EncodeIntent(m.intent) \in Seq(Bytes) /\ Len(EncodeIntent(m.intent)) = IntentSize
  BY MeantFields, EncodedIntent, Zenon
<1> QED BY <1>1, <1>2, <1>4, <1>5, Zenon DEF AreOrderParts

LEMMA StoredInit ==
    ASSUME NEW m \in MeantOrders, CheckBytes(EncodeIntent(m.intent))
    PROVE  IsStored(EncodeOrder(m), m)
<1> DEFINE a3 == MarkOf(m)
           a4 == ToBytes(m.amount_withdrawn, Word)
           a5 == ToBytes(m.amount_received, Word)
           a7 == EncodeIntent(m.intent)
           e == EncodeOrder(m)
<1>1. e = <<OrderDiscriminator, m.bump, a3>> \o a4 \o a5 \o m.created_by \o a7
  BY Zenon DEF EncodeOrder, InitializeOrder, MarkOf
<1>2. AreOrderParts(m.bump, a3, a4, a5, m.created_by, a7)
  BY MeantParts, Zenon
<1>3. HasParts(e, m.bump, a3, a4, a5, m.created_by, a7)
  <2> HIDE DEF a3, a4, a5, a7, e
  <2> QED BY ONLY <1>1, <1>2, PartsOfOrder
<1> QED BY <1>3, Zenon DEF IsStored

LEMMA StoredIs ==
    ASSUME NEW b, NEW m, IsStored(b, m)
    PROVE  b = EncodeOrder(m)
<1>1. IsStored(EncodeOrder(m), m)
  BY StoredInit, Zenon DEF IsStored
<1> DEFINE a3 == MarkOf(m)
           a4 == ToBytes(m.amount_withdrawn, Word)
           a5 == ToBytes(m.amount_received, Word)
           a7 == EncodeIntent(m.intent)
           e == EncodeOrder(m)
<1>2. /\ HasParts(b, m.bump, a3, a4, a5, m.created_by, a7)
      /\ HasParts(e, m.bump, a3, a4, a5, m.created_by, a7)
  BY <1>1, Zenon DEF IsStored
<1>3. b = e
  <2> HIDE DEF a3, a4, a5, a7, e
  <2> QED BY ONLY <1>2, SameParts
<1> QED BY <1>3

LEMMA MarkTells ==
    ASSUME NEW m \in MeantOrders
    PROVE  (<<MarkOf(m)>> = <<1>>) = m.cancelled
<1>1. m.cancelled \in BOOLEAN
  BY MeantFields, Zenon
<1>2. CASE m.cancelled
  <2>1. MarkOf(m) = 1
    BY <1>2, Zenon DEF MarkOf
  <2>2. m.cancelled = TRUE
    BY <1>1, <1>2, Zenon
  <2> QED BY <2>1, <2>2, Zenon
<1>3. CASE ~m.cancelled
  <2>1. MarkOf(m) = 0
    BY <1>3, Zenon DEF MarkOf
  <2>2. m.cancelled = FALSE
    BY <1>1, <1>3, Zenon
  <2>3. <<0>> # <<1>>
    OBVIOUS
  <2>4. <<MarkOf(m)>> # <<1>>
    BY <2>1, <2>3, Zenon
  <2> QED BY <2>2, <2>4, Zenon
<1> QED BY <1>2, <1>3, Zenon

LEMMA StoredDecodes ==
    ASSUME NEW b, NEW m, IsStored(b, m)
    PROVE  /\ OrderDecodes(b)
           /\ DecodeOrder(b) = m
           /\ LoadsFromPda(b, OrderPda(EncodeIntent(m.intent)))
           /\ IntentBytes(b) = EncodeIntent(m.intent)
           /\ Cancelled(b) = m.cancelled
<1> DEFINE i == EncodeIntent(m.intent)
<1>0. m \in MeantOrders
  BY Zenon DEF IsStored
<1>1. /\ Len(b) = OrderSize
      /\ OrderSlot(b, 1) = <<OrderDiscriminator>> /\ OrderSlot(b, 2) = <<m.bump>>
      /\ OrderSlot(b, 3) = <<MarkOf(m)>> /\ OrderSlot(b, 4) = ToBytes(m.amount_withdrawn, Word)
      /\ OrderSlot(b, 5) = ToBytes(m.amount_received, Word)
      /\ OrderSlot(b, 6) = m.created_by /\ OrderSlot(b, 7) = i /\ CheckBytes(i)
  BY Zenon DEF IsStored, HasParts
<1>2. IntentDecodes(i)
  BY <1>1, Zenon DEF CheckBytes, IntentDecodes
<1>3. OrderSlot(b, 3) \in {<<0>>, <<1>>}
  BY <1>1, Zenon DEF MarkOf
<1>4. OrderDecodes(b)
  BY <1>1, <1>2, <1>3, Zenon DEF OrderDecodes, IntentBytes
<1>5. LoadsFromPda(b, OrderPda(i)) /\ IntentBytes(b) = i
  BY <1>1, Zenon DEF LoadsFromPda, IntentBytes
<1>6. Cancelled(b) = m.cancelled
  BY <1>0, <1>1, MarkTells, Zenon DEF Cancelled
<1>7. Bump(b) = m.bump
  BY <1>1 DEF Bump
<1>8. AmountWithdrawn(b) = m.amount_withdrawn /\ AmountReceived(b) = m.amount_received
  <2>1. m.amount_withdrawn \in Amount /\ m.amount_received \in Amount
    BY <1>0, MeantFields, Zenon
  <2>2. /\ FromBytes(ToBytes(m.amount_withdrawn, Word)) = m.amount_withdrawn
        /\ FromBytes(ToBytes(m.amount_received, Word)) = m.amount_received
    BY <2>1, AmountsFit, RoundTrip, WireConstants
  <2> QED BY <1>1, <2>2, Zenon DEF AmountWithdrawn, AmountReceived
<1>9. DecodeIntent(i) = m.intent
  BY <1>0, MeantFields, IntentForth, Zenon
<1>10. DecodeOrder(b) = m
  <2>1. DecodeOrder(b) = [bump |-> m.bump, cancelled |-> m.cancelled,
                          amount_withdrawn |-> m.amount_withdrawn, amount_received |-> m.amount_received,
                          created_by |-> m.created_by, intent |-> m.intent]
    BY <1>1, <1>5, <1>6, <1>7, <1>8, <1>9, Zenon DEF DecodeOrder, CreatedBy
  <2> QED BY <1>0, <2>1, MeantFields, Zenon
<1> QED BY <1>4, <1>5, <1>6, <1>10

(* Writing a slot of a body. *)
LEMMA OrderSlotWritten ==
    ASSUME NEW b \in Seq(Bytes), Len(b) = OrderSize, NEW k \in 1..7, NEW v \in Seq(Bytes),
           Len(v) = OrderWidths[k], NEW t, t = WithSlot(b, OrderWidths, k, v)
    PROVE  /\ t \in Seq(Bytes) /\ Len(t) = OrderSize
           /\ OrderSlot(t, k) = v
           /\ \A i \in 1..7 : i # k => OrderSlot(t, i) = OrderSlot(b, i)
<1> DEFINE n == 7
           w == OrderWidths
<1>1. AreWidths(w, n) /\ Len(b) = Before(w, n + 1) /\ k \in 1..n /\ Len(v) = w[k]
  BY OrderWidthsAre
<1>2. t = WithSlot(b, w, k, v)
  OBVIOUS
<1> HIDE DEF n, w
<1>3. /\ t \in Seq(Bytes) /\ Len(t) = Len(b)
      /\ Slot(t, w, k) = v
      /\ \A i \in 1..n : i # k => Slot(t, w, i) = Slot(b, w, i)
  BY ONLY <1>1, <1>2, b \in Seq(Bytes), v \in Seq(Bytes), WithSlotIs
<1> QED BY <1>3, Zenon DEF OrderSlot, n, w

LEMMA CancelledParts ==
    ASSUME NEW b, NEW a2, NEW a3, NEW a4, NEW a5, NEW a6, NEW a7, HasParts(b, a2, a3, a4, a5, a6, a7)
    PROVE  HasParts(SetCancelled(b), a2, 1, a4, a5, a6, a7)
<1> DEFINE t == SetCancelled(b)
           v == <<1>>
           k == 3
<1>1. b \in Seq(Bytes) /\ Len(b) = OrderSize
  BY Zenon DEF HasParts
<1>2. t = WithSlot(b, OrderWidths, k, v)
  BY Zenon DEF SetCancelled
<1>3. v \in Seq(Bytes) /\ Len(v) = OrderWidths[k] /\ k \in 1..7
  BY WireConstants, OrderWidthsAre DEF Bytes
<1> HIDE DEF t, v, k
<1>4. /\ t \in Seq(Bytes) /\ Len(t) = OrderSize
      /\ OrderSlot(t, k) = v
      /\ \A i \in 1..7 : i # k => OrderSlot(t, i) = OrderSlot(b, i)
  BY ONLY <1>1, <1>2, <1>3, OrderSlotWritten
<1>5. /\ 1 \in 1..7 /\ 2 \in 1..7 /\ 4 \in 1..7 /\ 5 \in 1..7 /\ 6 \in 1..7 /\ 7 \in 1..7
      /\ 1 # k /\ 2 # k /\ 4 # k /\ 5 # k /\ 6 # k /\ 7 # k
  BY DEF k
<1>6. /\ OrderSlot(t, 1) = OrderSlot(b, 1) /\ OrderSlot(t, 2) = OrderSlot(b, 2)
      /\ OrderSlot(t, 4) = OrderSlot(b, 4) /\ OrderSlot(t, 5) = OrderSlot(b, 5)
      /\ OrderSlot(t, 6) = OrderSlot(b, 6) /\ OrderSlot(t, 7) = OrderSlot(b, 7)
  BY <1>4, <1>5, Zenon
<1>7. OrderSlot(t, 3) = <<1>>
  BY <1>4, Zenon DEF k, v
<1>8. HasParts(t, a2, 1, a4, a5, a6, a7)
  BY <1>4, <1>6, <1>7, Zenon DEF HasParts
<1> QED BY <1>8 DEF t

LEMMA AmountsParts ==
    ASSUME NEW b, NEW a2, NEW a3, NEW a4, NEW a5, NEW a6, NEW a7, HasParts(b, a2, a3, a4, a5, a6, a7),
           NEW withdrawn \in Nat, NEW received \in Nat
    PROVE  HasParts(SetAmounts(b, withdrawn, received), a2, a3,
                    ToBytes(withdrawn, Word), ToBytes(received, Word), a6, a7)
<1> DEFINE v == ToBytes(withdrawn, Word)
           x == ToBytes(received, Word)
           k == 4
           l == 5
           c == WithSlot(b, OrderWidths, k, v)
           t == WithSlot(c, OrderWidths, l, x)
<1>1. b \in Seq(Bytes) /\ Len(b) = OrderSize
  BY Zenon DEF HasParts
<1>2. SetAmounts(b, withdrawn, received) = t
  BY Zenon DEF SetAmounts
<1>3. /\ v \in Seq(Bytes) /\ Len(v) = OrderWidths[k] /\ k \in 1..7
      /\ x \in Seq(Bytes) /\ Len(x) = OrderWidths[l] /\ l \in 1..7
  <2>1. Word \in Nat /\ OrderWidths[4] = Word /\ OrderWidths[5] = Word
    BY WireConstants, OrderWidthsAre
  <2>2. v \in Seq(Bytes) /\ Len(v) = Word /\ x \in Seq(Bytes) /\ Len(x) = Word
    BY <2>1, ToBytesBytes
  <2> QED BY <2>1, <2>2
<1> HIDE DEF v, x, k, l
<1>4. /\ c \in Seq(Bytes) /\ Len(c) = OrderSize
      /\ OrderSlot(c, k) = v
      /\ \A i \in 1..7 : i # k => OrderSlot(c, i) = OrderSlot(b, i)
  BY ONLY <1>1, <1>3, OrderSlotWritten
<1> HIDE DEF c
<1>5. /\ t \in Seq(Bytes) /\ Len(t) = OrderSize
      /\ OrderSlot(t, l) = x
      /\ \A i \in 1..7 : i # l => OrderSlot(t, i) = OrderSlot(c, i)
  BY ONLY <1>3, <1>4, OrderSlotWritten
<1> HIDE DEF t
<1>6. /\ 1 \in 1..7 /\ 2 \in 1..7 /\ 3 \in 1..7 /\ 6 \in 1..7 /\ 7 \in 1..7
      /\ 1 # k /\ 2 # k /\ 3 # k /\ 6 # k /\ 7 # k
      /\ 1 # l /\ 2 # l /\ 3 # l /\ 6 # l /\ 7 # l /\ k # l
  BY DEF k, l
<1>7. /\ OrderSlot(t, 1) = OrderSlot(b, 1) /\ OrderSlot(t, 2) = OrderSlot(b, 2)
      /\ OrderSlot(t, 3) = OrderSlot(b, 3)
      /\ OrderSlot(t, 6) = OrderSlot(b, 6) /\ OrderSlot(t, 7) = OrderSlot(b, 7)
      /\ OrderSlot(t, k) = v
  BY <1>3, <1>4, <1>5, <1>6, Zenon
<1>8. OrderSlot(t, 4) = ToBytes(withdrawn, Word) /\ OrderSlot(t, 5) = ToBytes(received, Word)
  BY <1>5, <1>7, Zenon DEF k, l, v, x
<1>9. HasParts(t, a2, a3, ToBytes(withdrawn, Word), ToBytes(received, Word), a6, a7)
  BY <1>5, <1>7, <1>8, Zenon DEF HasParts
<1> QED BY <1>2, <1>9

LEMMA CancelledFields ==
    ASSUME NEW m, m = [bump |-> m.bump, cancelled |-> m.cancelled,
                       amount_withdrawn |-> m.amount_withdrawn, amount_received |-> m.amount_received,
                       created_by |-> m.created_by, intent |-> m.intent],
           NEW v, NEW n, n = [m EXCEPT !.cancelled = v]
    PROVE  /\ n = [bump |-> m.bump, cancelled |-> v,
                   amount_withdrawn |-> m.amount_withdrawn, amount_received |-> m.amount_received,
                   created_by |-> m.created_by, intent |-> m.intent]
           /\ n.bump = m.bump /\ n.cancelled = v /\ n.amount_withdrawn = m.amount_withdrawn
           /\ n.amount_received = m.amount_received /\ n.created_by = m.created_by
           /\ n.intent = m.intent
OBVIOUS

LEMMA AmountsFields ==
    ASSUME NEW m, m = [bump |-> m.bump, cancelled |-> m.cancelled,
                       amount_withdrawn |-> m.amount_withdrawn, amount_received |-> m.amount_received,
                       created_by |-> m.created_by, intent |-> m.intent],
           NEW v, NEW x, NEW n, n = [m EXCEPT !.amount_withdrawn = v, !.amount_received = x]
    PROVE  /\ n = [bump |-> m.bump, cancelled |-> m.cancelled, amount_withdrawn |-> v,
                   amount_received |-> x, created_by |-> m.created_by, intent |-> m.intent]
           /\ n.bump = m.bump /\ n.cancelled = m.cancelled /\ n.amount_withdrawn = v
           /\ n.amount_received = x /\ n.created_by = m.created_by /\ n.intent = m.intent
OBVIOUS

LEMMA MeantIs ==
    ASSUME NEW n, n.bump \in Bytes, n.cancelled \in BOOLEAN, n.amount_withdrawn \in Amount,
           n.amount_received \in Amount, n.created_by \in Key, n.intent \in Intents,
           n = [bump |-> n.bump, cancelled |-> n.cancelled, amount_withdrawn |-> n.amount_withdrawn,
                amount_received |-> n.amount_received, created_by |-> n.created_by,
                intent |-> n.intent]
    PROVE  n \in MeantOrders
BY Zenon DEF MeantOrders

LEMMA StoredCancelled ==
    ASSUME NEW b, NEW m, IsStored(b, m), NEW n, n = [m EXCEPT !.cancelled = TRUE]
    PROVE  IsStored(SetCancelled(b), n) /\ n.intent = m.intent
<1>1. m \in MeantOrders /\ CheckBytes(EncodeIntent(m.intent))
  BY Zenon DEF IsStored
<1>2. /\ m.bump \in Bytes /\ m.cancelled \in BOOLEAN /\ m.amount_withdrawn \in Amount
      /\ m.amount_received \in Amount /\ m.created_by \in Key /\ m.intent \in Intents
      /\ m = [bump |-> m.bump, cancelled |-> m.cancelled, amount_withdrawn |-> m.amount_withdrawn,
              amount_received |-> m.amount_received, created_by |-> m.created_by,
              intent |-> m.intent]
  BY <1>1, MeantFields, Zenon
<1>3. /\ n = [bump |-> m.bump, cancelled |-> TRUE,
              amount_withdrawn |-> m.amount_withdrawn, amount_received |-> m.amount_received,
              created_by |-> m.created_by, intent |-> m.intent]
      /\ n.bump = m.bump /\ n.cancelled = TRUE /\ n.amount_withdrawn = m.amount_withdrawn
      /\ n.amount_received = m.amount_received /\ n.created_by = m.created_by
      /\ n.intent = m.intent
  BY <1>2, CancelledFields, Zenon
<1>4. n \in MeantOrders
  <2>1. /\ n.bump \in Bytes /\ n.cancelled \in BOOLEAN /\ n.amount_withdrawn \in Amount
        /\ n.amount_received \in Amount /\ n.created_by \in Key /\ n.intent \in Intents
    BY <1>2, <1>3, Zenon
  <2>2. n = [bump |-> n.bump, cancelled |-> n.cancelled, amount_withdrawn |-> n.amount_withdrawn,
             amount_received |-> n.amount_received, created_by |-> n.created_by,
             intent |-> n.intent]
    BY ONLY <1>3, Zenon
  <2> QED BY ONLY <2>1, <2>2, MeantIs, Zenon
<1>5. MarkOf(n) = 1
  BY <1>3, Zenon DEF MarkOf
<1>6. HasParts(SetCancelled(b), m.bump, 1, ToBytes(m.amount_withdrawn, Word),
               ToBytes(m.amount_received, Word), m.created_by, EncodeIntent(m.intent))
  BY CancelledParts, Zenon DEF IsStored
<1> QED BY <1>1, <1>3, <1>4, <1>5, <1>6, Zenon DEF IsStored

WithAmounts(m, v, x) == [m EXCEPT !.amount_withdrawn = v, !.amount_received = x]

LEMMA StoredAmounts ==
    ASSUME NEW b, NEW m, IsStored(b, m), NEW v, v \in Amount, NEW x, x \in Amount,
           NEW n, n = WithAmounts(m, v, x)
    PROVE  IsStored(SetAmounts(b, v, x), n) /\ n.intent = m.intent
<1>0. v \in Nat /\ x \in Nat
  BY AmountsFit
<1>1. m \in MeantOrders /\ CheckBytes(EncodeIntent(m.intent))
  BY Zenon DEF IsStored
<1>2. /\ m.bump \in Bytes /\ m.cancelled \in BOOLEAN /\ m.amount_withdrawn \in Amount
      /\ m.amount_received \in Amount /\ m.created_by \in Key /\ m.intent \in Intents
      /\ m = [bump |-> m.bump, cancelled |-> m.cancelled, amount_withdrawn |-> m.amount_withdrawn,
              amount_received |-> m.amount_received, created_by |-> m.created_by,
              intent |-> m.intent]
  BY <1>1, MeantFields, Zenon
<1>3. /\ n = [bump |-> m.bump, cancelled |-> m.cancelled, amount_withdrawn |-> v,
              amount_received |-> x, created_by |-> m.created_by, intent |-> m.intent]
      /\ n.bump = m.bump /\ n.cancelled = m.cancelled /\ n.amount_withdrawn = v
      /\ n.amount_received = x /\ n.created_by = m.created_by /\ n.intent = m.intent
  BY <1>2, AmountsFields, Zenon DEF WithAmounts
<1>4. n \in MeantOrders
  <2>1. /\ n.bump \in Bytes /\ n.cancelled \in BOOLEAN /\ n.amount_withdrawn \in Amount
        /\ n.amount_received \in Amount /\ n.created_by \in Key /\ n.intent \in Intents
    BY <1>2, <1>3, Zenon
  <2>2. n = [bump |-> n.bump, cancelled |-> n.cancelled, amount_withdrawn |-> n.amount_withdrawn,
             amount_received |-> n.amount_received, created_by |-> n.created_by,
             intent |-> n.intent]
    BY ONLY <1>3, Zenon
  <2> QED BY ONLY <2>1, <2>2, MeantIs, Zenon
<1>5. MarkOf(n) = MarkOf(m)
  BY <1>3, Zenon DEF MarkOf
<1>6. HasParts(SetAmounts(b, v, x), m.bump, MarkOf(m), ToBytes(v, Word), ToBytes(x, Word),
               m.created_by, EncodeIntent(m.intent))
  BY <1>0, AmountsParts, Zenon DEF IsStored
<1> QED BY <1>1, <1>3, <1>4, <1>5, <1>6, Zenon DEF IsStored
-----------------------------------------------------------------------------
(* What the parsers make of bytes and accounts. *)
LEMMA ParseCases ==
    ASSUME NEW d \in Seq(Bytes), NEW a
    PROVE  LET p == ParseInstruction(d, a)
               t == Tail(d)
           IN  \/ p \in {Refused, OfSettlement}
               \/ /\ d # <<>>
                  /\ \/ d[1] = 2 /\ p = ParseCreateOrder(t, a)
                     \/ d[1] = 3 /\ p = ParseInitialize(t, a)
                     \/ d[1] = 4 /\ p = ParseCreateBuffer(t, a)
                     \/ d[1] = 5 /\ p = ParseReclaimOrder(t, a)
                     \/ d[1] = 6 /\ p = ParseReclaimBuffer(t, a)
                     \/ d[1] = 7 /\ p = ParseTransferAuthority(t, a)
                     \/ d[1] = 8 /\ p = ParseAddSolver(t, a)
                     \/ d[1] = 9 /\ p = ParseRemoveSolver(t, a)
                     \/ d[1] = 10 /\ p = ParseCreateSettlementOwnedOrder(t, a)
                     \/ d[1] = 11 /\ p = ParseCancelOrder(t, a)
                     \/ d[1] = 12 /\ p = ParseWithdrawNativeSol(t, a)
<1>1. CASE d = <<>> \/ d[1] > 12
  BY <1>1 DEF ParseInstruction
<1>2. CASE ~(d = <<>> \/ d[1] > 12)
  <2>1. d # <<>> /\ d[1] \in 0..12
    <3>1. Len(d) \in Nat /\ Len(d) # 0
      BY <1>2
    <3>2. d[1] \in Bytes
      BY <3>1
    <3> QED BY <1>2, <3>2 DEF Bytes
  <2>2. \/ d[1] = 0 \/ d[1] = 1 \/ d[1] = 2 \/ d[1] = 3 \/ d[1] = 4 \/ d[1] = 5 \/ d[1] = 6
        \/ d[1] = 7 \/ d[1] = 8 \/ d[1] = 9 \/ d[1] = 10 \/ d[1] = 11 \/ d[1] = 12
    BY <2>1
  <2> QED BY <1>2, <2>1, <2>2 DEF ParseInstruction
<1> QED BY <1>1, <1>2

LEMMA NoIntent ==
    /\ DOMAIN Refused = {"instruction"} /\ DOMAIN OfSettlement = {"instruction"}
    /\ Refused.instruction = "refused" /\ OfSettlement.instruction = "settlement"
BY DEF Refused, OfSettlement

(* The bytes of an intent are all that follows the first byte. *)
LEMMA ParsedIntent ==
    ASSUME NEW d \in Seq(Bytes), NEW a, NEW p, p = ParseInstruction(d, a),
           "intent_bytes" \in DOMAIN p
    PROVE  /\ p.intent_bytes = Tail(d) /\ d # <<>>
           /\ Len(Tail(d)) = IntentSize \/ (p.instruction = "CancelOrder" /\ Len(Tail(d)) = 0)
<1> DEFINE t == Tail(d)
<1>0. p \notin {Refused, OfSettlement}
  BY NoIntent
<1>1. /\ d # <<>>
      /\ \/ d[1] = 2 /\ p = ParseCreateOrder(t, a)
         \/ d[1] = 3 /\ p = ParseInitialize(t, a)
         \/ d[1] = 4 /\ p = ParseCreateBuffer(t, a)
         \/ d[1] = 5 /\ p = ParseReclaimOrder(t, a)
         \/ d[1] = 6 /\ p = ParseReclaimBuffer(t, a)
         \/ d[1] = 7 /\ p = ParseTransferAuthority(t, a)
         \/ d[1] = 8 /\ p = ParseAddSolver(t, a)
         \/ d[1] = 9 /\ p = ParseRemoveSolver(t, a)
         \/ d[1] = 10 /\ p = ParseCreateSettlementOwnedOrder(t, a)
         \/ d[1] = 11 /\ p = ParseCancelOrder(t, a)
         \/ d[1] = 12 /\ p = ParseWithdrawNativeSol(t, a)
  BY <1>0, ParseCases
<1>t. t = Tail(d)
  OBVIOUS
<1> HIDE DEF t
<1>2. CASE p = ParseCreateOrder(t, a)
  <2>1. p.intent_bytes = t /\ Len(t) = IntentSize
    BY <1>0, <1>2 DEF ParseCreateOrder
  <2> QED BY <1>1, <1>t, <2>1
<1>3. CASE p = ParseCreateSettlementOwnedOrder(t, a)
  <2>1. p.intent_bytes = t /\ Len(t) = IntentSize
    BY <1>0, <1>3 DEF ParseCreateSettlementOwnedOrder
  <2> QED BY <1>1, <1>t, <2>1
<1>4. CASE p = ParseCancelOrder(t, a)
  <2>1. p.intent_bytes = t /\ Len(t) \in {0, IntentSize} /\ p.instruction = "CancelOrder"
    BY <1>0, <1>4 DEF ParseCancelOrder
  <2> QED BY <1>1, <1>t, <2>1
<1>5. CASE p = ParseInitialize(t, a)
  BY <1>0, <1>5 DEF ParseInitialize
<1>6. CASE p = ParseCreateBuffer(t, a)
  BY <1>0, <1>6 DEF ParseCreateBuffer
<1>7. CASE p = ParseReclaimOrder(t, a)
  BY <1>0, <1>7 DEF ParseReclaimOrder
<1>8. CASE p = ParseReclaimBuffer(t, a)
  BY <1>0, <1>8 DEF ParseReclaimBuffer
<1>9. CASE p = ParseTransferAuthority(t, a)
  BY <1>0, <1>9 DEF ParseTransferAuthority
<1>10. CASE p = ParseAddSolver(t, a)
  BY <1>0, <1>10 DEF ParseAddSolver
<1>11. CASE p = ParseRemoveSolver(t, a)
  BY <1>0, <1>11 DEF ParseRemoveSolver
<1>12. CASE p = ParseWithdrawNativeSol(t, a)
  BY <1>0, <1>12 DEF ParseWithdrawNativeSol
<1> QED BY <1>1, <1>2, <1>3, <1>4, <1>5, <1>6, <1>7, <1>8, <1>9, <1>10, <1>11, <1>12, Zenon

LEMMA AddressOfBytes ==
    ASSUME NEW d \in Seq(Bytes), NEW a, NEW p, p = ParseInstruction(d, a),
           "intent_bytes" \in DOMAIN p, p.intent_bytes # <<>>
    PROVE  /\ CheckBytes(p.intent_bytes) <=> IntentDecodes(p.intent_bytes)
           /\ CheckBytes(p.intent_bytes) => EncodeIntent(DecodeIntent(p.intent_bytes)) = p.intent_bytes
           /\ p.intent_bytes \in Seq(Bytes) /\ Len(p.intent_bytes) = IntentSize
<1> DEFINE b == p.intent_bytes
<1>1. /\ b = Tail(d) /\ d # <<>>
      /\ Len(Tail(d)) = IntentSize \/ (p.instruction = "CancelOrder" /\ Len(Tail(d)) = 0)
  BY ParsedIntent, Zenon
<1> HIDE DEF b
<1>2. b \in Seq(Bytes)
  BY <1>1
<1>3. Len(b) = IntentSize
  <2>1. Len(b) # 0
    BY <1>2 DEF b
  <2> QED BY <1>1, <2>1
<1>4. CheckBytes(b) <=> IntentDecodes(b)
  BY Zenon DEF CheckBytes, IntentDecodes
<1>5. ASSUME CheckBytes(b) PROVE EncodeIntent(DecodeIntent(b)) = b
  <2>1. FlagsDecode(IntentSlot(b, 9)[1])
    BY <1>5, Zenon DEF CheckBytes
  <2> QED BY ONLY <1>2, <1>3, <2>1, IntentBack
<1> QED BY <1>2, <1>3, <1>4, <1>5, Zenon DEF b
-----------------------------------------------------------------------------
(* What is cut into chunks is the chunks one after the other. *)
LEMMA ChunkIs ==
    ASSUME NEW S, NEW s \in Seq(S), NEW w \in Nat, NEW n \in Nat, n * w <= Len(s), NEW k \in 1..n
    PROVE  /\ Chunk(s, w, k) \in Seq(S) /\ Len(Chunk(s, w, k)) = w
           /\ Holds(s, 1 + (k - 1) * w, Chunk(s, w, k))
<1> DEFINE a == (k - 1) * w
           b == k * w
           m == a + 1
<1>1. a \in Nat /\ b \in Nat /\ b = a + w
  OBVIOUS
<1>2. k * w <= n * w
  <2>1. n - k \in Nat
    OBVIOUS
  <2>2. (n - k) * w \in Nat
    BY <2>1
  <2>3. (n - k) * w = n * w - k * w
    OBVIOUS
  <2>4. n * w \in Nat /\ k * w \in Nat
    OBVIOUS
  <2> QED BY <2>2, <2>3, <2>4
<1>3. Len(s) \in Nat /\ n * w \in Nat
  OBVIOUS
<1>4. b <= Len(s)
  BY <1>1, <1>2, <1>3
<1> HIDE DEF a, b
<1>5. m \in Nat \ {0} /\ m <= b + 1 /\ b - m + 1 = w /\ m = 1 + a
  BY <1>1
<1>6. Chunk(s, w, k) = SubSeq(s, m, b)
  BY Zenon DEF Chunk, a, b
<1> HIDE DEF m
<1>7. SubSeq(s, m, b) \in Seq(S) /\ Len(SubSeq(s, m, b)) = b - m + 1
  BY <1>1, <1>4, <1>5, Cut
<1>8. Holds(s, m, SubSeq(s, m, b))
  BY <1>1, <1>4, <1>5, HoldsCut
<1>9. Holds(s, 1 + a, Chunk(s, w, k)) /\ Len(Chunk(s, w, k)) = w /\ Chunk(s, w, k) \in Seq(S)
  BY <1>5, <1>6, <1>7, <1>8
<1> QED BY <1>9 DEF a

LEMMA ChunksFlatten ==
    ASSUME NEW S, NEW s \in Seq(S), NEW w \in Nat, NEW n \in Nat, Len(s) = n * w,
           NEW q, q = [k \in 1..n |-> Chunk(s, w, k)]
    PROVE  FlattenSeq(q) = s
<1> DEFINE h == [k \in 1..n |-> w]
<1>1. n * w <= Len(s)
  OBVIOUS
<1>2. ASSUME NEW k \in 1..n
      PROVE  q[k] \in Seq(S) /\ Len(q[k]) = w /\ Holds(s, 1 + (k - 1) * w, q[k]) /\ q[k] = Chunk(s, w, k)
  <2>1. q[k] = Chunk(s, w, k)
    OBVIOUS
  <2>2. /\ Chunk(s, w, k) \in Seq(S) /\ Len(Chunk(s, w, k)) = w
        /\ Holds(s, 1 + (k - 1) * w, Chunk(s, w, k))
    BY <1>1, ChunkIs
  <2> QED BY <2>1, <2>2
<1>3. q \in [1..n -> Seq(S)]
  BY <1>2
<1>4. AreLengths(h, q, n) /\ AreAll(h, w, n)
  BY <1>2 DEF AreLengths, AreAll
<1> HIDE DEF h
<1>5. \A k \in 0..n : SumFunctionOnSet(h, 1..k) = w * k
  BY <1>4, SumConstant
<1>6. HoldsEach(s, 1, q, n, h)
  <2>1. ASSUME NEW k \in 1..n PROVE Holds(s, 1 + SumFunctionOnSet(h, 1..(k - 1)), q[k])
    <3>1. k - 1 \in 0..n /\ w * (k - 1) = (k - 1) * w
      OBVIOUS
    <3>2. SumFunctionOnSet(h, 1..(k - 1)) = (k - 1) * w
      BY <1>5, <3>1
    <3> QED BY <1>2, <3>2
  <2> QED BY <2>1 DEF HoldsEach
<1>7. Holds(s, 1, FlattenSeq(q)) /\ FlattenSeq(q) \in Seq(S)
  <2>1. 1 - 1 <= Len(s) /\ 1 \in Nat \ {0}
    OBVIOUS
  <2> QED BY <1>3, <1>4, <1>6, <2>1, HoldsFlatten
<1>8. Len(FlattenSeq(q)) = SumFunctionOnSet(h, 1..n)
  BY <1>3, <1>4, FlattenLen
<1>9. Len(FlattenSeq(q)) = Len(s)
  <2>1. n \in 0..n /\ w * n = n * w
    OBVIOUS
  <2> QED BY <1>5, <1>8, <2>1
<1> QED BY <1>7, <1>9, HoldsWhole

LEMMA Rejoined ==
    ASSUME NEW S, NEW s \in Seq(S), NEW i \in Nat, NEW j \in Nat, i <= j, j <= Len(s)
    PROVE  SubSeq(s, 1, i) \o SubSeq(s, i + 1, j) = SubSeq(s, 1, j)
OBVIOUS

LEMMA FourChunks ==
    ASSUME NEW S, NEW s \in Seq(S), NEW w \in Nat, Len(s) = 4 * w
    PROVE  Chunk(s, w, 1) \o Chunk(s, w, 2) \o Chunk(s, w, 3) \o Chunk(s, w, 4) = s
<1>1. /\ (1 - 1) * w + 1 = 1 /\ 1 * w = w /\ (2 - 1) * w + 1 = w + 1 /\ 2 * w = w + w
      /\ (3 - 1) * w + 1 = (w + w) + 1 /\ 3 * w = w + w + w
      /\ (4 - 1) * w + 1 = (w + w + w) + 1 /\ 4 * w = w + w + w + w
  OBVIOUS
<1> DEFINE w2 == w + w
           w3 == w + w + w
           w4 == w + w + w + w
<1>2. /\ Chunk(s, w, 1) = SubSeq(s, 1, w) /\ Chunk(s, w, 2) = SubSeq(s, w + 1, w2)
      /\ Chunk(s, w, 3) = SubSeq(s, w2 + 1, w3) /\ Chunk(s, w, 4) = SubSeq(s, w3 + 1, w4)
  BY <1>1, Zenon DEF Chunk
<1>3. w2 \in Nat /\ w3 \in Nat /\ w4 \in Nat /\ w <= w2 /\ w2 <= w3 /\ w3 <= w4 /\ Len(s) = w4
  BY <1>1
<1> HIDE DEF w2, w3, w4
<1>4. w2 <= Len(s) /\ w3 <= Len(s) /\ w4 <= Len(s)
  BY <1>3
<1>5. /\ SubSeq(s, 1, w) \o SubSeq(s, w + 1, w2) = SubSeq(s, 1, w2)
      /\ SubSeq(s, 1, w2) \o SubSeq(s, w2 + 1, w3) = SubSeq(s, 1, w3)
      /\ SubSeq(s, 1, w3) \o SubSeq(s, w3 + 1, w4) = SubSeq(s, 1, w4)
  BY <1>3, <1>4, Rejoined
<1>6. SubSeq(s, 1, w4) = s
  BY <1>3
<1> QED BY <1>2, <1>5, <1>6

(* The payload of what is read is all that follows the first byte. *)
LEMMA PayloadOfLimits ==
    ASSUME NEW t \in Seq(Bytes), NEW a, NEW p, p = ParseReclaimBuffer(t, a), p # Refused, Len(a) \in Nat
    PROVE  /\ p.instruction = "ReclaimBuffer" /\ "intent_bytes" \notin DOMAIN p
           /\ FlattenSeq([k \in 1..Len(p.buffers) |-> ToBytes(p.buffers[k].burn_limit, Word)]) = t
<1> DEFINE n == PairCount(a, 4)
           limit(k) == FromBytes(Chunk(t, Word, k))
           b == [k \in 1..n |-> [buffer_pda |-> a[2 * k + 3], mint |-> a[2 * k + 4],
                                 burn_limit |-> limit(k)]]
<1>1. InPairs(a, 4) /\ LimitsMatch(t, n)
  BY DEF ParseReclaimBuffer
<1>2. p.instruction = "ReclaimBuffer" /\ "intent_bytes" \notin DOMAIN p /\ p.buffers = b
  BY <1>1 DEF ParseReclaimBuffer
<1>3. n \in Nat
  <2>1. Len(a) - 4 \in Nat
    BY <1>1 DEF InPairs
  <2> QED BY <2>1 DEF PairCount
<1>4. Len(t) = n * Word
  <2>1. Len(t) \in Nat /\ Word \in Nat /\ Word > 0
    BY WireConstants
  <2>2. Len(t) % Word = 0 /\ Len(t) \div Word = n
    BY <1>1 DEF LimitsMatch
  <2> HIDE DEF n
  <2> DEFINE l == Len(t)
  <2> HIDE DEF l
  <2>3. l \in Nat /\ Word \in Nat \ {0} /\ l % Word = 0 /\ l \div Word = n
    BY <2>1, <2>2 DEF l
  <2>4. l \div Word \in Nat /\ l % Word \in 0..(Word - 1) /\ l = Word * (l \div Word) + (l % Word)
    BY ONLY <2>3, Division
  <2> QED BY <1>3, <2>3, <2>4 DEF l
<1> HIDE DEF n
<1> DEFINE q == [k \in 1..n |-> Chunk(t, Word, k)]
           f == [k \in 1..Len(p.buffers) |-> ToBytes(p.buffers[k].burn_limit, Word)]
<1>5. FlattenSeq(q) = t
  <2>1. Word \in Nat
    BY WireConstants
  <2> HIDE DEF q
  <2>2. q = [k \in 1..n |-> Chunk(t, Word, k)]
    BY DEF q
  <2> QED BY <1>3, <1>4, <2>1, <2>2, ChunksFlatten
<1>6. ASSUME NEW k \in 1..n PROVE ToBytes(limit(k), Word) = Chunk(t, Word, k)
  <2>1. Word \in Nat /\ n * Word <= Len(t)
    BY <1>4, WireConstants
  <2>2. /\ Chunk(t, Word, k) \in Seq(Bytes) /\ Len(Chunk(t, Word, k)) = Word
        /\ Holds(t, 1 + (k - 1) * Word, Chunk(t, Word, k))
    BY ONLY <1>3, <2>1, t \in Seq(Bytes), k \in 1..n, ChunkIs
  <2> DEFINE c == Chunk(t, Word, k)
  <2> HIDE DEF c
  <2>3. c \in Seq(Bytes) /\ Len(c) = Word
    BY <2>2 DEF c
  <2>4. FromBytes(c) \in 0..(Power(Len(c)) - 1) /\ ToBytes(FromBytes(c), Len(c)) = c
    BY ONLY <2>3, FromBytesBack
  <2> QED BY <2>3, <2>4 DEF c
<1>7. Len(b) = n /\ \A k \in 1..n : b[k].burn_limit = limit(k)
  <2> HIDE DEF limit
  <2> QED BY <1>3
<1>8. f = q
  <2> HIDE DEF b, limit
  <2> QED BY <1>2, <1>6, <1>7
<1> QED BY <1>2, <1>5, <1>8 DEF f

LEMMA PayloadIsAll ==
    ASSUME NEW d \in Seq(Bytes), NEW a, Len(a) \in Nat, NEW p, p = ParseInstruction(d, a),
           p \notin {Refused, OfSettlement}
    PROVE  Payload(p) = Tail(d)
<1> DEFINE t == Tail(d)
<1>1. /\ d # <<>>
      /\ \/ d[1] = 2 /\ p = ParseCreateOrder(t, a)
         \/ d[1] = 3 /\ p = ParseInitialize(t, a)
         \/ d[1] = 4 /\ p = ParseCreateBuffer(t, a)
         \/ d[1] = 5 /\ p = ParseReclaimOrder(t, a)
         \/ d[1] = 6 /\ p = ParseReclaimBuffer(t, a)
         \/ d[1] = 7 /\ p = ParseTransferAuthority(t, a)
         \/ d[1] = 8 /\ p = ParseAddSolver(t, a)
         \/ d[1] = 9 /\ p = ParseRemoveSolver(t, a)
         \/ d[1] = 10 /\ p = ParseCreateSettlementOwnedOrder(t, a)
         \/ d[1] = 11 /\ p = ParseCancelOrder(t, a)
         \/ d[1] = 12 /\ p = ParseWithdrawNativeSol(t, a)
  BY ParseCases
<1>2. t \in Seq(Bytes)
  BY <1>1
<1>3. p # Refused
  OBVIOUS
<1> HIDE DEF t
<1>4. ASSUME "intent_bytes" \in DOMAIN p PROVE Payload(p) = t
  <2>1. p.intent_bytes = t
    BY <1>4, ParsedIntent DEF t
  <2>2. p.instruction \in {"CreateOrder", "CreateSettlementOwnedOrder", "CancelOrder"}
    <3>1. CASE p = ParseCreateOrder(t, a)
      BY <1>3, <3>1 DEF ParseCreateOrder
    <3>2. CASE p = ParseCreateSettlementOwnedOrder(t, a)
      BY <1>3, <3>2 DEF ParseCreateSettlementOwnedOrder
    <3>3. CASE p = ParseCancelOrder(t, a)
      BY <1>3, <3>3 DEF ParseCancelOrder
    <3>4. CASE p = ParseInitialize(t, a)
      BY <1>3, <1>4, <3>4 DEF ParseInitialize
    <3>5. CASE p = ParseCreateBuffer(t, a)
      BY <1>3, <1>4, <3>5 DEF ParseCreateBuffer
    <3>6. CASE p = ParseReclaimOrder(t, a)
      BY <1>3, <1>4, <3>6 DEF ParseReclaimOrder
    <3>7. CASE p = ParseReclaimBuffer(t, a)
      BY <1>3, <1>4, <3>7 DEF ParseReclaimBuffer
    <3>8. CASE p = ParseTransferAuthority(t, a)
      BY <1>3, <1>4, <3>8 DEF ParseTransferAuthority
    <3>9. CASE p = ParseAddSolver(t, a)
      BY <1>3, <1>4, <3>9 DEF ParseAddSolver
    <3>10. CASE p = ParseRemoveSolver(t, a)
      BY <1>3, <1>4, <3>10 DEF ParseRemoveSolver
    <3>11. CASE p = ParseWithdrawNativeSol(t, a)
      BY <1>3, <1>4, <3>11 DEF ParseWithdrawNativeSol
    <3> QED BY <1>1, <3>1, <3>2, <3>3, <3>4, <3>5, <3>6, <3>7, <3>8, <3>9, <3>10, <3>11, Zenon
  <2> QED BY <1>4, <2>1, <2>2 DEF Payload
<1>5. CASE p = ParseCreateOrder(t, a)
  <2>1. "intent_bytes" \in DOMAIN p
    BY <1>3, <1>5 DEF ParseCreateOrder
  <2> QED BY <1>4, <2>1 DEF t
<1>6. CASE p = ParseCreateSettlementOwnedOrder(t, a)
  <2>1. "intent_bytes" \in DOMAIN p
    BY <1>3, <1>6 DEF ParseCreateSettlementOwnedOrder
  <2> QED BY <1>4, <2>1 DEF t
<1>7. CASE p = ParseCancelOrder(t, a)
  <2>1. "intent_bytes" \in DOMAIN p
    BY <1>3, <1>7 DEF ParseCancelOrder
  <2> QED BY <1>4, <2>1 DEF t
<1>8. CASE p = ParseInitialize(t, a)
  <2>1. /\ p.instruction = "Initialize" /\ "intent_bytes" \notin DOMAIN p /\ Len(t) = 4 * KeyWidth
        /\ p.manager = Chunk(t, KeyWidth, 1) /\ p.solver_authority = Chunk(t, KeyWidth, 2)
        /\ p.reclaim_authority = Chunk(t, KeyWidth, 3)
        /\ p.settlement_owned_order_authority = Chunk(t, KeyWidth, 4)
    BY <1>3, <1>8 DEF ParseInitialize
  <2>2. KeyWidth \in Nat
    BY WireConstants
  <2>3. Chunk(t, KeyWidth, 1) \o Chunk(t, KeyWidth, 2) \o Chunk(t, KeyWidth, 3) \o Chunk(t, KeyWidth, 4) = t
    BY <1>2, <2>1, <2>2, FourChunks
  <2>4. Payload(p) = p.manager \o p.solver_authority \o p.reclaim_authority
                     \o p.settlement_owned_order_authority
    BY <2>1 DEF Payload
  <2> QED BY <2>1, <2>3, <2>4, Zenon DEF t
<1>9. CASE p = ParseCreateBuffer(t, a)
  <2>1. p.instruction = "CreateBuffer" /\ "intent_bytes" \notin DOMAIN p /\ t = <<>>
    BY <1>3, <1>9 DEF ParseCreateBuffer
  <2> QED BY <2>1 DEF Payload, t
<1>10. CASE p = ParseReclaimOrder(t, a)
  <2>1. p.instruction = "ReclaimOrder" /\ "intent_bytes" \notin DOMAIN p /\ t = <<>>
    BY <1>3, <1>10 DEF ParseReclaimOrder
  <2> QED BY <2>1 DEF Payload, t
<1>11. CASE p = ParseReclaimBuffer(t, a)
  <2> DEFINE f == FlattenSeq([k \in 1..Len(p.buffers) |-> ToBytes(p.buffers[k].burn_limit, Word)])
  <2>1. p.instruction = "ReclaimBuffer" /\ "intent_bytes" \notin DOMAIN p /\ f = t
    BY <1>2, <1>3, <1>11, PayloadOfLimits
  <2>2. Payload(p) = f
    BY <2>1, Zenon DEF Payload
  <2> QED BY <2>1, <2>2, Zenon DEF t
<1>12. CASE p = ParseTransferAuthority(t, a)
  <2>1. /\ p.instruction = "TransferAuthority" /\ "intent_bytes" \notin DOMAIN p
        /\ Len(t) = 1 + KeyWidth /\ p.role = t[1] /\ p.new_authority = Tail(t)
    BY <1>3, <1>12 DEF ParseTransferAuthority
  <2>2. Payload(p) = <<t[1]>> \o Tail(t)
    BY <2>1 DEF Payload
  <2>3. <<t[1]>> \o Tail(t) = t
    <3>1. Len(t) # 0
      BY <2>1, WireConstants
    <3> QED BY <1>2, <3>1
  <2> QED BY <2>2, <2>3 DEF t
<1>13. CASE p = ParseAddSolver(t, a)
  <2>1. p.instruction = "AddSolver" /\ "intent_bytes" \notin DOMAIN p /\ p.solver = t
    BY <1>3, <1>13 DEF ParseAddSolver
  <2> QED BY <2>1 DEF Payload, t
<1>14. CASE p = ParseRemoveSolver(t, a)
  <2>1. p.instruction = "RemoveSolver" /\ "intent_bytes" \notin DOMAIN p /\ p.solver = t
    BY <1>3, <1>14 DEF ParseRemoveSolver
  <2> QED BY <2>1 DEF Payload, t
<1>15. CASE p = ParseWithdrawNativeSol(t, a)
  <2>1. /\ p.instruction = "WithdrawNativeSol" /\ "intent_bytes" \notin DOMAIN p
        /\ Len(t) = Word /\ p.amount = FromBytes(t)
    BY <1>3, <1>15 DEF ParseWithdrawNativeSol
  <2>2. FromBytes(t) \in 0..(Power(Len(t)) - 1) /\ ToBytes(FromBytes(t), Len(t)) = t
    BY ONLY <1>2, FromBytesBack
  <2>3. Payload(p) = ToBytes(p.amount, Word)
    BY <2>1 DEF Payload
  <2> QED BY <2>1, <2>2, <2>3 DEF t
<1> QED BY <1>1, <1>5, <1>6, <1>7, <1>8, <1>9, <1>10, <1>11, <1>12, <1>13, <1>14, <1>15, Zenon
-----------------------------------------------------------------------------
(* Bytes and accounts that are edited stay bytes and accounts. *)
LEMMA EditedType ==
    ASSUME NEW S, NEW s \in Seq(S), NEW V \in SUBSET S
    PROVE  Edited(s, V) \subseteq Seq(S)
<1>1. /\ \A i \in 1..Len(s) : RemoveAt(s, i) \in Seq(S)
      /\ \A i \in 1..(Len(s) + 1), v \in S : InsertAt(s, i, v) \in Seq(S)
      /\ \A i \in 1..Len(s), v \in S : ReplaceAt(s, i, v) \in Seq(S)
  BY EditTypes
<1> QED BY <1>1 DEF Edited
-----------------------------------------------------------------------------
(* What a client makes of each call. *)
LEMMA OneMore ==
    ASSUME NEW S, NEW a \in Seq(S), NEW v \in S, NEW s, s \in [1..1 -> {v}], NEW u \in Seq(S),
           Len(u) = Len(a) + 1, \A j \in 1..Len(a) : u[j] = a[j], u[Len(u)] = v
    PROVE  a \o s = u
<1> DEFINE t == a \o s
<1>1. s \in Seq(S) /\ Len(s) = 1 /\ s[1] = v
  <2> DEFINE n == 1
  <2>1. n \in Nat /\ s \in [1..n -> S]
    OBVIOUS
  <2> HIDE DEF n
  <2>2. Len(s) = n /\ s \in Seq(S)
    BY <2>1
  <2> QED BY <2>2 DEF n
<1>2. Joins(S, t, a, s)
  BY <1>1, Zenon DEF Joins, IsJoin
<1> HIDE DEF t
<1>3. /\ t \in Seq(S) /\ Len(t) = Len(a) + Len(s) /\ Len(a) \in Nat
      /\ \A j \in 1..Len(a) : t[j] = a[j]
      /\ \A j \in 1..Len(s) : t[Len(a) + j] = s[j]
  BY <1>2, PartsAt
<1>4. t[Len(a) + 1] = v
  BY <1>1, <1>3
<1>5. ASSUME NEW j \in 1..Len(u) PROVE t[j] = u[j]
  <2>1. j \in 1..Len(a) \/ j = Len(a) + 1
    BY <1>3
  <2> QED BY <1>3, <1>4, <2>1
<1>6. t = u
  BY <1>1, <1>3, <1>5
<1> QED BY <1>6 DEF t

LEMMA TwoAndOne ==
    ASSUME NEW x1, NEW x2, NEW v, NEW s, s \in [1..1 -> {v}]
    PROVE <<x1, x2>> \o s = <<x1, x2, v>>
<1> DEFINE S == {x1, x2, v}
           a == <<x1, x2>>
           u == <<x1, x2, v>>
<1>1. a \in Seq(S) /\ v \in S /\ u \in Seq(S) /\ Len(u) = 3 /\ Len(a) = 2
  OBVIOUS
<1>2. \A j \in 1..Len(a) : u[j] = a[j]
  OBVIOUS
<1>3. u[3] = v
  OBVIOUS
<1> HIDE DEF S, a, u
<1>4. Len(u) = Len(a) + 1 /\ u[Len(u)] = v
  BY <1>1, <1>3
<1> QED BY <1>1, <1>2, <1>4, OneMore, ZenonT(60) DEF a, u

LEMMA FourAndOne ==
    ASSUME NEW x1, NEW x2, NEW x3, NEW x4, NEW v, NEW s, s \in [1..1 -> {v}]
    PROVE <<x1, x2, x3, x4>> \o s = <<x1, x2, x3, x4, v>>
<1> DEFINE S == {x1, x2, x3, x4, v}
           a == <<x1, x2, x3, x4>>
           u == <<x1, x2, x3, x4, v>>
<1>1. a \in Seq(S) /\ v \in S /\ u \in Seq(S) /\ Len(u) = 5 /\ Len(a) = 4
  OBVIOUS
<1>2. \A j \in 1..Len(a) : u[j] = a[j]
  OBVIOUS
<1>3. u[5] = v
  OBVIOUS
<1> HIDE DEF S, a, u
<1>4. Len(u) = Len(a) + 1 /\ u[Len(u)] = v
  BY <1>1, <1>3
<1> QED BY <1>1, <1>2, <1>4, OneMore, ZenonT(60) DEF a, u

LEMMA InitializeIs ==
    ASSUME NEW c, IsCall(c), c.name = "Initialize"
    PROVE  /\ DOMAIN c = {"name", "payer", "manager", "solver_authority", "reclaim_authority",
                          "settlement_owned_order_authority"}
           /\ c.payer \in Key /\ c.manager \in Key /\ c.solver_authority \in Key
           /\ c.reclaim_authority \in Key /\ c.settlement_owned_order_authority \in Key
           /\ Client(c) =
                [data |-> <<3>> \o c.manager \o c.solver_authority \o c.reclaim_authority
                          \o c.settlement_owned_order_authority,
                 accounts |-> <<New(c.payer, TRUE), New(StatePda, FALSE),
                                New(NativeBuffer, FALSE), NewReadonly(SystemProgram, FALSE)>>]
<1>1. c \in [name: {c.name}, payer: Key, manager: Key, solver_authority: Key,
             reclaim_authority: Key, settlement_owned_order_authority: Key]
  BY DEF IsCall
<1> DEFINE b == WithNativeBuffer(c)
<1>2. /\ b.payer = c.payer /\ b.manager = c.manager /\ b.solver_authority = c.solver_authority
      /\ b.reclaim_authority = c.reclaim_authority
      /\ b.settlement_owned_order_authority = c.settlement_owned_order_authority
      /\ b.state_pda = StatePda /\ b.native_sol_buffer = NativeBuffer
  BY <1>1 DEF WithNativeBuffer, WithState, Joined
<1>3. Client(c) = BuildInitialize(b)
  BY DEF Client, ClientInitialize
<1> HIDE DEF b
<1> QED BY <1>1, <1>2, <1>3 DEF BuildInitialize

LEMMA OrderOf ==
    ASSUME NEW c, NEW e, e = EncodeIntent(c.intent), {"order_pda", "intent_bytes"} \cap DOMAIN c = {}
    PROVE  LET b == WithOrder(c) IN
           /\ DOMAIN b = DOMAIN c \cup {"order_pda", "intent_bytes"}
           /\ b.order_pda = OrderPda(e) /\ b.intent_bytes = e
           /\ \A f \in DOMAIN c : b[f] = c[f]
BY DEF WithOrder, Joined

LEMMA OrderCall ==
    ASSUME NEW c, IsCall(c), c.name \in {"CreateOrder", "CancelOrder", "CancelOutstandingOrder"}
    PROVE  /\ c \in [name: {c.name}, owner: Key, created_by: Key, intent: Intents]
           /\ DOMAIN c = {"name", "owner", "created_by", "intent"}
           /\ c.owner \in Key /\ c.created_by \in Key /\ c.intent \in Intents
<1>1. c \in [name: {c.name}, owner: Key, created_by: Key, intent: Intents]
  BY DEF IsCall
<1> QED BY <1>1

LEMMA CreateOrderIs ==
    ASSUME NEW c, IsCall(c), c.name = "CreateOrder", NEW e, e = EncodeIntent(c.intent)
    PROVE  Client(c) =
                [data |-> <<2>> \o e,
                 accounts |-> <<NewReadonly(c.owner, TRUE), New(c.created_by, TRUE),
                                New(OrderPda(e), FALSE), NewReadonly(SystemProgram, FALSE)>>]
<1> DEFINE b == WithOrder(c)
<1>1. DOMAIN c = {"name", "owner", "created_by", "intent"}
  BY OrderCall
<1>2. /\ b.order_pda = OrderPda(e) /\ b.intent_bytes = e /\ b.owner = c.owner
      /\ b.created_by = c.created_by
  BY <1>1, OrderOf
<1>3. Client(c) = BuildCreateOrder(b)
  BY DEF Client, ClientCreateOrder
<1> HIDE DEF b
<1> QED BY <1>2, <1>3, Zenon DEF BuildCreateOrder

LEMMA CancelOrderIs ==
    ASSUME NEW c, IsCall(c), c.name = "CancelOrder", NEW e, e = EncodeIntent(c.intent), e # <<>>
    PROVE  Client(c) =
                [data |-> <<11>> \o e,
                 accounts |-> <<NewReadonly(c.owner, TRUE), New(c.created_by, TRUE),
                                New(OrderPda(e), FALSE), NewReadonly(SystemProgram, FALSE)>>]
<1> DEFINE w == WithOrder(c)
           b == Joined(w, [state_pda |-> <<>>])
           s == [k \in 1..Len(b.state_pda) |-> NewReadonly(b.state_pda[k], FALSE)]
           a == <<NewReadonly(c.owner, TRUE), New(c.created_by, TRUE),
                  New(OrderPda(e), FALSE), NewReadonly(SystemProgram, FALSE)>>
<1>1. DOMAIN c = {"name", "owner", "created_by", "intent"}
  BY OrderCall
<1>2. /\ DOMAIN w = DOMAIN c \cup {"order_pda", "intent_bytes"}
      /\ w.order_pda = OrderPda(e) /\ w.intent_bytes = e /\ w.owner = c.owner /\ w.created_by = c.created_by
  BY <1>1, OrderOf
<1> HIDE DEF w
<1>3. /\ b.order_pda = OrderPda(e) /\ b.intent_bytes = e /\ b.owner = c.owner
      /\ b.created_by = c.created_by /\ b.state_pda = <<>>
  BY <1>1, <1>2 DEF Joined
<1>4. Client(c) = BuildCancelOrder(b)
  BY DEF Client, ClientCancelOrder, w
<1> HIDE DEF b
<1>5. s = <<>>
  BY <1>3
<1>6. BuildCancelOrder(b) = [data |-> <<11>> \o e, accounts |-> a \o s]
  BY <1>3, Zenon DEF BuildCancelOrder
<1> HIDE DEF s
<1>7. a \o s = a
  BY <1>5
<1> QED BY <1>4, <1>6, <1>7

LEMMA CancelOutstandingOrderIs ==
    ASSUME NEW c, IsCall(c), c.name = "CancelOutstandingOrder", NEW e, e = EncodeIntent(c.intent)
    PROVE  Client(c) =
                [data |-> <<11>>,
                 accounts |-> <<NewReadonly(c.owner, TRUE), NewReadonly(c.created_by, FALSE),
                                New(OrderPda(e), FALSE), NewReadonly(SystemProgram, FALSE)>>]
<1> DEFINE w == WithOrder(c)
           v == [w EXCEPT !.intent_bytes = <<>>]
           b == Joined(v, [state_pda |-> <<>>])
           s == [k \in 1..Len(b.state_pda) |-> NewReadonly(b.state_pda[k], FALSE)]
           a == <<NewReadonly(c.owner, TRUE), NewReadonly(c.created_by, FALSE),
                  New(OrderPda(e), FALSE), NewReadonly(SystemProgram, FALSE)>>
<1>1. DOMAIN c = {"name", "owner", "created_by", "intent"}
  BY OrderCall
<1>2. /\ DOMAIN w = DOMAIN c \cup {"order_pda", "intent_bytes"}
      /\ w.order_pda = OrderPda(e) /\ w.owner = c.owner /\ w.created_by = c.created_by
  BY <1>1, OrderOf
<1>4. Client(c) = BuildCancelOrder(b)
  BY DEF Client, ClientCancelOutstandingOrder
<1> HIDE DEF w
<1>3. /\ DOMAIN v = DOMAIN w
      /\ v.order_pda = OrderPda(e) /\ v.intent_bytes = <<>> /\ v.owner = c.owner /\ v.created_by = c.created_by
  BY <1>1, <1>2
<1> HIDE DEF v
<1>5. /\ b.order_pda = OrderPda(e) /\ b.intent_bytes = <<>> /\ b.owner = c.owner
      /\ b.created_by = c.created_by /\ b.state_pda = <<>>
  BY <1>1, <1>2, <1>3 DEF Joined
<1> HIDE DEF b
<1>6. s = <<>>
  BY <1>5
<1>7. BuildCancelOrder(b) = [data |-> <<11>> \o <<>>, accounts |-> a \o s]
  BY <1>5, Zenon DEF BuildCancelOrder
<1> HIDE DEF s
<1>8. a \o s = a /\ <<11>> \o <<>> = <<11>>
  BY <1>6
<1> QED BY <1>4, <1>7, <1>8

LEMMA OwnOrderCall ==
    ASSUME NEW c, IsCall(c), c.name \in {"CreateSettlementOwnedOrder", "CancelSettlementOwnedOrder"}
    PROVE  /\ DOMAIN c = {"name", "authority", "created_by", "intent"}
           /\ c.authority \in Key /\ c.created_by \in Key /\ c.intent \in Intents
<1>1. c \in [name: {c.name}, authority: Key, created_by: Key, intent: Intents]
  BY DEF IsCall
<1> QED BY <1>1

LEMMA CreateSettlementOwnedOrderIs ==
    ASSUME NEW c, IsCall(c), c.name = "CreateSettlementOwnedOrder", NEW e, e = EncodeIntent(c.intent)
    PROVE  Client(c) =
                [data |-> <<10>> \o e,
                 accounts |-> <<NewReadonly(c.authority, TRUE), New(c.created_by, TRUE),
                                NewReadonly(StatePda, FALSE), New(OrderPda(e), FALSE),
                                NewReadonly(SystemProgram, FALSE)>>]
<1> DEFINE w == WithOrder(c)
           b == WithState(w)
<1>1. DOMAIN c = {"name", "authority", "created_by", "intent"}
  BY OwnOrderCall
<1>2. /\ DOMAIN w = DOMAIN c \cup {"order_pda", "intent_bytes"}
      /\ w.order_pda = OrderPda(e) /\ w.intent_bytes = e
      /\ w.authority = c.authority /\ w.created_by = c.created_by
  BY <1>1, OrderOf
<1>3. Client(c) = BuildCreateSettlementOwnedOrder(b)
  BY DEF Client, ClientCreateSettlementOwnedOrder
<1> HIDE DEF w
<1>4. /\ b.order_pda = OrderPda(e) /\ b.intent_bytes = e /\ b.authority = c.authority
      /\ b.created_by = c.created_by /\ b.state_pda = StatePda
  BY <1>1, <1>2 DEF WithState, Joined
<1> HIDE DEF b
<1> QED BY <1>3, <1>4, Zenon DEF BuildCreateSettlementOwnedOrder

LEMMA CancelSettlementOwnedOrderIs ==
    ASSUME NEW c, IsCall(c), c.name = "CancelSettlementOwnedOrder", NEW e, e = EncodeIntent(c.intent), e # <<>>
    PROVE  Client(c) =
                [data |-> <<11>> \o e,
                 accounts |-> <<NewReadonly(c.authority, TRUE), New(c.created_by, TRUE),
                                New(OrderPda(e), FALSE), NewReadonly(SystemProgram, FALSE),
                                NewReadonly(StatePda, FALSE)>>]
<1> DEFINE w == WithOrder(c)
           b == Joined(w, [owner |-> c.authority, state_pda |-> <<StatePda>>])
           s == [k \in 1..Len(b.state_pda) |-> NewReadonly(b.state_pda[k], FALSE)]
           x1 == NewReadonly(c.authority, TRUE)
           x2 == New(c.created_by, TRUE)
           x3 == New(OrderPda(e), FALSE)
           x4 == NewReadonly(SystemProgram, FALSE)
           a == <<x1, x2, x3, x4>>
           l == NewReadonly(StatePda, FALSE)
<1>1. DOMAIN c = {"name", "authority", "created_by", "intent"}
  BY OwnOrderCall
<1>2. /\ DOMAIN w = DOMAIN c \cup {"order_pda", "intent_bytes"}
      /\ w.order_pda = OrderPda(e) /\ w.intent_bytes = e /\ w.created_by = c.created_by
  BY <1>1, OrderOf
<1>3. Client(c) = BuildCancelOrder(b)
  BY DEF Client, ClientCancelSettlementOwnedOrder
<1> HIDE DEF w
<1>4. /\ b.order_pda = OrderPda(e) /\ b.intent_bytes = e /\ b.owner = c.authority
      /\ b.created_by = c.created_by /\ b.state_pda = <<StatePda>>
  BY <1>1, <1>2 DEF Joined
<1> HIDE DEF b
<1>5. s \in [1..1 -> {l}]
  <2>1. Len(b.state_pda) = 1 /\ b.state_pda[1] = StatePda
    BY <1>4
  <2>2. ASSUME NEW k \in 1..1 PROVE NewReadonly(b.state_pda[k], FALSE) = l
    <3>1. k = 1
      OBVIOUS
    <3> QED BY <2>1, <3>1, Zenon
  <2> QED BY <2>1, <2>2, Zenon
<1>6. BuildCancelOrder(b) = [data |-> <<11>> \o e, accounts |-> a \o s]
  BY <1>4, Zenon DEF BuildCancelOrder
<1> HIDE DEF s
<1>7. a \o s = <<x1, x2, x3, x4, l>>
  <2> HIDE DEF x1, x2, x3, x4, l
  <2> QED BY ONLY <1>5, FourAndOne
<1> QED BY <1>3, <1>6, <1>7, Zenon

LEMMA ReclaimOrderIs ==
    ASSUME NEW c, IsCall(c), c.name = "ReclaimOrder", NEW e, e = EncodeIntent(c.intent)
    PROVE  /\ DOMAIN c = {"name", "reclaim_recipient", "owner", "intent"}
           /\ c.reclaim_recipient \in Key /\ c.owner \in Seq(Key) /\ Len(c.owner) <= 1
           /\ c.intent \in Intents
           /\ Client(c) =
                [data |-> <<5>>,
                 accounts |-> <<New(OrderPda(e), FALSE), New(c.reclaim_recipient, FALSE)>>
                              \o [k \in 1..Len(c.owner) |-> NewReadonly(c.owner[k], TRUE)]]
<1> DEFINE b == WithOrder(c)
<1>1. c \in [name: {c.name}, reclaim_recipient: Key,
             owner: {o \in Seq(Key) : Len(o) <= 1}, intent: Intents]
  BY DEF IsCall
<1>2. DOMAIN c = {"name", "reclaim_recipient", "owner", "intent"}
  BY <1>1
<1>3. /\ b.order_pda = OrderPda(e) /\ b.reclaim_recipient = c.reclaim_recipient /\ b.owner = c.owner
  BY <1>2, OrderOf
<1>4. Client(c) = BuildReclaimOrder(b)
  BY DEF Client
<1> HIDE DEF b
<1>5. Client(c) =
        [data |-> <<5>>,
         accounts |-> <<New(OrderPda(e), FALSE), New(c.reclaim_recipient, FALSE)>>
                      \o [k \in 1..Len(c.owner) |-> NewReadonly(c.owner[k], TRUE)]]
  BY <1>3, <1>4, Zenon DEF BuildReclaimOrder
<1> QED BY <1>1, <1>2, <1>5

LEMMA TransferAuthorityIs ==
    ASSUME NEW c, IsCall(c), c.name = "TransferAuthority"
    PROVE  /\ DOMAIN c = {"name", "signer", "role", "new_authority"}
           /\ c.signer \in Key /\ c.role \in 0..3 /\ c.new_authority \in Key
           /\ Client(c) =
                [data |-> <<7, c.role>> \o c.new_authority,
                 accounts |-> <<NewReadonly(c.signer, TRUE), New(StatePda, FALSE)>>]
<1> DEFINE b == WithState(c)
<1>1. c \in [name: {c.name}, signer: Key, role: 0..3, new_authority: Key]
  BY DEF IsCall
<1>2. DOMAIN c = {"name", "signer", "role", "new_authority"}
  BY <1>1
<1>3. /\ b.signer = c.signer /\ b.role = c.role /\ b.new_authority = c.new_authority
      /\ b.state_pda = StatePda
  BY <1>2 DEF WithState, Joined
<1>4. Client(c) = BuildTransferAuthority(b)
  BY DEF Client, ClientTransferAuthority
<1> HIDE DEF b
<1> QED BY <1>1, <1>2, <1>3, <1>4 DEF BuildTransferAuthority

LEMMA AddSolverIs ==
    ASSUME NEW c, IsCall(c), c.name = "AddSolver"
    PROVE  /\ DOMAIN c = {"name", "authority", "payer", "solver"}
           /\ c.authority \in Key /\ c.payer \in Key /\ c.solver \in Key
           /\ Client(c) =
                [data |-> <<8>> \o c.solver,
                 accounts |-> <<NewReadonly(c.authority, TRUE), New(c.payer, TRUE),
                                New(StatePda, FALSE), NewReadonly(SystemProgram, FALSE)>>]
<1> DEFINE b == WithState(c)
<1>1. c \in [name: {c.name}, authority: Key, payer: Key, solver: Key]
  BY DEF IsCall
<1>2. DOMAIN c = {"name", "authority", "payer", "solver"}
  BY <1>1
<1>3. /\ b.authority = c.authority /\ b.payer = c.payer /\ b.solver = c.solver
      /\ b.state_pda = StatePda
  BY <1>2 DEF WithState, Joined
<1>4. Client(c) = BuildAddSolver(b)
  BY DEF Client, ClientAddSolver
<1> HIDE DEF b
<1> QED BY <1>1, <1>2, <1>3, <1>4 DEF BuildAddSolver

LEMMA RemoveSolverIs ==
    ASSUME NEW c, IsCall(c), c.name = "RemoveSolver"
    PROVE  /\ DOMAIN c = {"name", "authority", "rent_recipient", "solver"}
           /\ c.authority \in Key /\ c.rent_recipient \in Key /\ c.solver \in Key
           /\ Client(c) =
                [data |-> <<9>> \o c.solver,
                 accounts |-> <<NewReadonly(c.authority, TRUE), New(c.rent_recipient, FALSE),
                                New(StatePda, FALSE)>>]
<1> DEFINE b == WithState(c)
<1>1. c \in [name: {c.name}, authority: Key, rent_recipient: Key, solver: Key]
  BY DEF IsCall
<1>2. DOMAIN c = {"name", "authority", "rent_recipient", "solver"}
  BY <1>1
<1>3. /\ b.authority = c.authority /\ b.rent_recipient = c.rent_recipient /\ b.solver = c.solver
      /\ b.state_pda = StatePda
  BY <1>2 DEF WithState, Joined
<1>4. Client(c) = BuildRemoveSolver(b)
  BY DEF Client, ClientRemoveSolver
<1> HIDE DEF b
<1> QED BY <1>1, <1>2, <1>3, <1>4 DEF BuildRemoveSolver

LEMMA WithdrawNativeSolIs ==
    ASSUME NEW c, IsCall(c), c.name = "WithdrawNativeSol"
    PROVE  /\ DOMAIN c = {"name", "authority", "recipient", "amount"}
           /\ c.authority \in Key /\ c.recipient \in Key /\ c.amount \in Amount
           /\ Client(c) =
                [data |-> <<12>> \o ToBytes(c.amount, Word),
                 accounts |-> <<NewReadonly(StatePda, FALSE), NewReadonly(c.authority, TRUE),
                                New(NativeBuffer, FALSE), New(c.recipient, FALSE)>>]
<1> DEFINE b == WithNativeBuffer(c)
<1>1. c \in [name: {c.name}, authority: Key, recipient: Key, amount: Amount]
  BY DEF IsCall
<1>2. DOMAIN c = {"name", "authority", "recipient", "amount"}
  BY <1>1
<1>3. /\ b.authority = c.authority /\ b.recipient = c.recipient /\ b.amount = c.amount
      /\ b.state_pda = StatePda /\ b.native_sol_buffer = NativeBuffer
  BY <1>2 DEF WithNativeBuffer, WithState, Joined
<1>4. Client(c) = BuildWithdrawNativeSol(b)
  BY DEF Client, ClientWithdrawNativeSol
<1> HIDE DEF b
<1> QED BY <1>1, <1>2, <1>3, <1>4 DEF BuildWithdrawNativeSol

BareMints(c, n) ==
    \A k \in 1..n : "buffer_pda" \notin DOMAIN c.mints[k] /\ "mint" \in DOMAIN c.mints[k]
OfMints(b, c, n) ==
    \A k \in 1..n : /\ b.buffers[k].buffer_pda = Buffer[c.mints[k].mint]
                    /\ b.buffers[k].mint = c.mints[k].mint
                    /\ "burn_limit" \in DOMAIN c.mints[k] =>
                          b.buffers[k].burn_limit = c.mints[k].burn_limit

LEMMA BuffersOf ==
    ASSUME NEW c, "buffers" \notin DOMAIN c, NEW n \in Nat, Len(c.mints) = n,
           BareMints(c, n), NEW b, b = WithBuffers(c)
    PROVE  /\ DOMAIN b = DOMAIN c \cup {"buffers"} /\ \A f \in DOMAIN c : b[f] = c[f]
           /\ Len(b.buffers) = n
           /\ OfMints(b, c, n)
<1> DEFINE j(k) == Joined(c.mints[k], [buffer_pda |-> Buffer[c.mints[k].mint]])
           q == [k \in 1..n |-> j(k)]
<1>1. b = Joined(c, [buffers |-> q])
  BY Zenon DEF WithBuffers
<1>2. ASSUME NEW k \in 1..n
      PROVE  /\ j(k).buffer_pda = Buffer[c.mints[k].mint] /\ j(k).mint = c.mints[k].mint
             /\ "burn_limit" \in DOMAIN c.mints[k] => j(k).burn_limit = c.mints[k].burn_limit
  BY DEF Joined, BareMints
<1> HIDE DEF j
<1>3. Len(q) = n /\ \A k \in 1..n : q[k] = j(k)
  OBVIOUS
<1> HIDE DEF q
<1>4. /\ DOMAIN b = DOMAIN c \cup {"buffers"} /\ b.buffers = q
      /\ \A f \in DOMAIN c : b[f] = c[f]
  BY <1>1 DEF Joined
<1>5. /\ Len(b.buffers) = n
      /\ OfMints(b, c, n)
  BY <1>2, <1>3, <1>4 DEF OfMints
<1> QED BY <1>4, <1>5

LEMMA ElementIs ==
    ASSUME NEW S, NEW s \in Seq(S), NEW n, n = Len(s), NEW k \in 1..n
    PROVE  s[k] \in S
OBVIOUS

LEMMA CreateBuffersIs ==
    ASSUME NEW c, IsCall(c), c.name = "CreateBuffers"
    PROVE  /\ DOMAIN c = {"name", "payer", "token_program", "mints"}
           /\ c.payer \in Key /\ c.token_program \in Key /\ c.mints \in Seq([mint: DOMAIN Buffer])
           /\ Client(c) =
                [data |-> <<4>>,
                 accounts |-> <<New(c.payer, TRUE), NewReadonly(SystemProgram, FALSE),
                                NewReadonly(c.token_program, FALSE)>>
                              \o FlattenSeq([k \in 1..Len(c.mints) |->
                                     <<New(Buffer[c.mints[k].mint], FALSE),
                                       NewReadonly(c.mints[k].mint, FALSE)>>])]
<1> DEFINE b == WithBuffers(c)
           n == Len(c.mints)
<1>1. c \in [name: {c.name}, payer: Key, token_program: Key, mints: Seq([mint: DOMAIN Buffer])]
  BY DEF IsCall
<1>2. /\ DOMAIN c = {"name", "payer", "token_program", "mints"}
      /\ c.payer \in Key /\ c.token_program \in Key /\ c.mints \in Seq([mint: DOMAIN Buffer])
  BY <1>1
<1>3. /\ n \in Nat /\ "buffers" \notin DOMAIN c
      /\ \A k \in 1..n : "buffer_pda" \notin DOMAIN c.mints[k] /\ "mint" \in DOMAIN c.mints[k]
  <2>1. n \in Nat /\ "buffers" \notin DOMAIN c
    BY <1>2
  <2>2. ASSUME NEW k \in 1..n PROVE "buffer_pda" \notin DOMAIN c.mints[k] /\ "mint" \in DOMAIN c.mints[k]
    <3>1. c.mints[k] \in [mint: DOMAIN Buffer]
      BY ONLY <1>2, n = Len(c.mints), k \in 1..n, ElementIs
    <3> QED BY <3>1
  <2> QED BY <2>1, <2>2
<1>4. Client(c) = BuildCreateBuffers(b)
  BY DEF Client, ClientCreateBuffers
<1>5. /\ DOMAIN b = DOMAIN c \cup {"buffers"} /\ \A f \in DOMAIN c : b[f] = c[f]
      /\ Len(b.buffers) = n
      /\ \A k \in 1..n : /\ b.buffers[k].buffer_pda = Buffer[c.mints[k].mint]
                          /\ b.buffers[k].mint = c.mints[k].mint
  <2>1. Len(c.mints) = n /\ b = WithBuffers(c)
    OBVIOUS
  <2> HIDE DEF b, n
  <2>2. n \in Nat /\ "buffers" \notin DOMAIN c /\ BareMints(c, n)
    BY ONLY <1>3 DEF BareMints
  <2>3. /\ DOMAIN b = DOMAIN c \cup {"buffers"} /\ \A f \in DOMAIN c : b[f] = c[f]
        /\ Len(b.buffers) = n /\ OfMints(b, c, n)
    BY ONLY <2>1, <2>2, BuffersOf
  <2> QED BY ONLY <1>3, <2>3 DEF OfMints
<1> HIDE DEF b, n
<1>6. b.payer = c.payer /\ b.token_program = c.token_program
  BY <1>2, <1>5
<1>7. [k \in 1..Len(b.buffers) |-> <<New(b.buffers[k].buffer_pda, FALSE),
                                     NewReadonly(b.buffers[k].mint, FALSE)>>]
      = [k \in 1..n |-> <<New(Buffer[c.mints[k].mint], FALSE), NewReadonly(c.mints[k].mint, FALSE)>>]
  BY <1>5, Zenon
<1>8. Client(c) =
        [data |-> <<4>>,
         accounts |-> <<New(c.payer, TRUE), NewReadonly(SystemProgram, FALSE),
                        NewReadonly(c.token_program, FALSE)>>
                      \o FlattenSeq([k \in 1..n |->
                             <<New(Buffer[c.mints[k].mint], FALSE), NewReadonly(c.mints[k].mint, FALSE)>>])]
  BY <1>4, <1>6, <1>7, Zenon DEF BuildCreateBuffers
<1> QED BY <1>2, <1>8, Zenon DEF n

LEMMA ReclaimBufferIs ==
    ASSUME NEW c, IsCall(c), c.name = "ReclaimBuffer"
    PROVE  /\ DOMAIN c = {"name", "reclaim_authority", "reclaim_recipient", "token_program", "mints"}
           /\ c.reclaim_authority \in Key /\ c.reclaim_recipient \in Key /\ c.token_program \in Key
           /\ c.mints \in Seq([mint: DOMAIN Buffer, burn_limit: Amount])
           /\ Client(c) =
                [data |-> <<6>> \o FlattenSeq([k \in 1..Len(c.mints) |->
                                                   ToBytes(c.mints[k].burn_limit, Word)]),
                 accounts |-> <<NewReadonly(StatePda, FALSE), NewReadonly(c.reclaim_authority, TRUE),
                                New(c.reclaim_recipient, FALSE), NewReadonly(c.token_program, FALSE)>>
                              \o FlattenSeq([k \in 1..Len(c.mints) |->
                                     <<New(Buffer[c.mints[k].mint], FALSE),
                                       New(c.mints[k].mint, FALSE)>>])]
<1> DEFINE w == WithBuffers(c)
           b == WithState(w)
           n == Len(c.mints)
<1>1. c \in [name: {c.name}, reclaim_authority: Key, reclaim_recipient: Key,
             token_program: Key, mints: Seq([mint: DOMAIN Buffer, burn_limit: Amount])]
  BY DEF IsCall
<1>2. /\ DOMAIN c = {"name", "reclaim_authority", "reclaim_recipient", "token_program", "mints"}
      /\ c.reclaim_authority \in Key /\ c.reclaim_recipient \in Key /\ c.token_program \in Key
      /\ c.mints \in Seq([mint: DOMAIN Buffer, burn_limit: Amount])
  BY <1>1
<1>3. /\ n \in Nat /\ "buffers" \notin DOMAIN c
      /\ \A k \in 1..n : /\ "buffer_pda" \notin DOMAIN c.mints[k] /\ "mint" \in DOMAIN c.mints[k]
                          /\ "burn_limit" \in DOMAIN c.mints[k]
  <2>1. n \in Nat /\ "buffers" \notin DOMAIN c
    BY <1>2
  <2>2. ASSUME NEW k \in 1..n
        PROVE  /\ "buffer_pda" \notin DOMAIN c.mints[k] /\ "mint" \in DOMAIN c.mints[k]
               /\ "burn_limit" \in DOMAIN c.mints[k]
    <3>1. c.mints[k] \in [mint: DOMAIN Buffer, burn_limit: Amount]
      BY ONLY <1>2, n = Len(c.mints), k \in 1..n, ElementIs
    <3> QED BY <3>1
  <2> QED BY <2>1, <2>2
<1>4. Client(c) = BuildReclaimBuffer(b)
  BY DEF Client, ClientReclaimBuffer
<1>5. /\ DOMAIN w = DOMAIN c \cup {"buffers"} /\ \A f \in DOMAIN c : w[f] = c[f]
      /\ Len(w.buffers) = n
      /\ \A k \in 1..n : /\ w.buffers[k].buffer_pda = Buffer[c.mints[k].mint]
                          /\ w.buffers[k].mint = c.mints[k].mint
                          /\ w.buffers[k].burn_limit = c.mints[k].burn_limit
  <2>1. Len(c.mints) = n /\ w = WithBuffers(c)
    OBVIOUS
  <2> HIDE DEF w, n
  <2>2. n \in Nat /\ "buffers" \notin DOMAIN c /\ BareMints(c, n)
    BY ONLY <1>3 DEF BareMints
  <2>3. /\ DOMAIN w = DOMAIN c \cup {"buffers"} /\ \A f \in DOMAIN c : w[f] = c[f]
        /\ Len(w.buffers) = n /\ OfMints(w, c, n)
    BY ONLY <2>1, <2>2, BuffersOf
  <2> QED BY ONLY <1>3, <2>3 DEF OfMints
<1> HIDE DEF w, n
<1>6. /\ b.reclaim_authority = c.reclaim_authority /\ b.reclaim_recipient = c.reclaim_recipient
      /\ b.token_program = c.token_program /\ b.buffers = w.buffers /\ b.state_pda = StatePda
  BY <1>2, <1>5 DEF WithState, Joined
<1> HIDE DEF b
<1>7. [k \in 1..Len(b.buffers) |-> <<New(b.buffers[k].buffer_pda, FALSE),
                                     New(b.buffers[k].mint, FALSE)>>]
      = [k \in 1..n |-> <<New(Buffer[c.mints[k].mint], FALSE), New(c.mints[k].mint, FALSE)>>]
  BY <1>5, <1>6, ZenonT(60)
<1>8. [k \in 1..Len(b.buffers) |-> ToBytes(b.buffers[k].burn_limit, Word)]
      = [k \in 1..n |-> ToBytes(c.mints[k].burn_limit, Word)]
  BY <1>5, <1>6, Zenon
<1>9. Client(c) =
        [data |-> <<6>> \o FlattenSeq([k \in 1..n |-> ToBytes(c.mints[k].burn_limit, Word)]),
         accounts |-> <<NewReadonly(StatePda, FALSE), NewReadonly(c.reclaim_authority, TRUE),
                        New(c.reclaim_recipient, FALSE), NewReadonly(c.token_program, FALSE)>>
                      \o FlattenSeq([k \in 1..n |->
                             <<New(Buffer[c.mints[k].mint], FALSE), New(c.mints[k].mint, FALSE)>>])]
  BY <1>4, <1>6, <1>7, <1>8, Zenon DEF BuildReclaimBuffer
<1> QED BY <1>2, <1>9, Zenon DEF n
-----------------------------------------------------------------------------
(* An instruction of a call is bytes, and accounts that are keys or the      *)
(* order of the call; if there is one, only who creates it signs and pays.   *)
OrderKeys(c) == IF "intent" \in DOMAIN c THEN {OrderPda(EncodeIntent(c.intent))} ELSE {}
AccountsOf(c) ==
    {m \in [key: Key \cup OrderKeys(c), signer: BOOLEAN, writable: BOOLEAN] :
        "intent" \in DOMAIN c /\ m.signer /\ m.writable =>
            "created_by" \in DOMAIN c /\ m.key = c.created_by}

LEMMA AccountFields ==
    ASSUME NEW c, NEW m \in AccountsOf(c)
    PROVE  /\ m.key \in Key \cup OrderKeys(c) /\ m.signer \in BOOLEAN /\ m.writable \in BOOLEAN
           /\ "intent" \in DOMAIN c /\ m.signer /\ m.writable =>
                  "created_by" \in DOMAIN c /\ m.key = c.created_by
<1> DEFINE K == Key \cup OrderKeys(c)
<1>1. m \in [key: K, signer: BOOLEAN, writable: BOOLEAN]
  BY Zenon DEF AccountsOf
<1>2. "intent" \in DOMAIN c /\ m.signer /\ m.writable =>
          "created_by" \in DOMAIN c /\ m.key = c.created_by
  BY Zenon DEF AccountsOf
<1> HIDE DEF K
<1>3. m.key \in K /\ m.signer \in BOOLEAN /\ m.writable \in BOOLEAN
  BY <1>1, Zenon
<1> QED BY <1>2, <1>3, Zenon DEF K

LEMMA AsksFor ==
    ASSUME NEW c, NEW k \in Key \cup OrderKeys(c)
    PROVE  /\ New(k, FALSE) \in AccountsOf(c)
           /\ NewReadonly(k, FALSE) \in AccountsOf(c) /\ NewReadonly(k, TRUE) \in AccountsOf(c)
           /\ ("intent" \in DOMAIN c => "created_by" \in DOMAIN c /\ k = c.created_by) =>
                  New(k, TRUE) \in AccountsOf(c)
<1> DEFINE M == [key: Key \cup OrderKeys(c), signer: BOOLEAN, writable: BOOLEAN]
<1>1. /\ New(k, FALSE) \in M /\ New(k, TRUE) \in M /\ NewReadonly(k, FALSE) \in M
      /\ NewReadonly(k, TRUE) \in M
  BY Zenon DEF New, NewReadonly
<1>2. /\ New(k, FALSE).signer = FALSE /\ NewReadonly(k, FALSE).signer = FALSE
      /\ NewReadonly(k, TRUE).writable = FALSE /\ New(k, TRUE).key = k
  BY Zenon DEF New, NewReadonly
<1> QED BY <1>1, <1>2, Zenon DEF AccountsOf

LEMMA Tuples ==
    ASSUME NEW S, NEW x1 \in S, NEW x2 \in S
    PROVE  /\ <<x1>> \in Seq(S) /\ <<x1, x2>> \in Seq(S)
           /\ \A x3 \in S : <<x1, x2, x3>> \in Seq(S)
           /\ \A x3, x4 \in S : <<x1, x2, x3, x4>> \in Seq(S)
           /\ \A x3, x4, x5 \in S : <<x1, x2, x3, x4, x5>> \in Seq(S)
OBVIOUS

IsTagged(d, x, s) == x \in 0..12 /\ s \in Seq(Bytes) /\ d = <<x>> \o s

LEMMA Tagged ==
    ASSUME NEW d, NEW x, NEW s, IsTagged(d, x, s)
    PROVE  d \in Seq(Bytes) /\ d # <<>> /\ d[1] = x /\ Tail(d) = s /\ Len(d) = 1 + Len(s)
<1>0. x \in 0..12 /\ s \in Seq(Bytes) /\ d = <<x>> \o s
  BY Zenon DEF IsTagged
<1>1. x \in Bytes
  BY <1>0, WireConstants DEF Bytes
<1> HIDE DEF Bytes
<1>2. <<x>> \in Seq(Bytes) /\ Len(<<x>>) = 1 /\ <<x>>[1] = x
  BY <1>1
<1>3. d \in Seq(Bytes) /\ Len(d) = 1 + Len(s) /\ Len(s) \in Nat
  BY <1>0, <1>2, TwoParts
<1>4. d[1] = x
  BY <1>0, <1>2
<1>5. d # <<>>
  BY <1>3
<1>6. Tail(d) = s
  BY <1>0, <1>2
<1> QED BY <1>3, <1>4, <1>5, <1>6

LEMMA JustTag ==
    ASSUME NEW x \in 0..12
    PROVE  /\ <<x>> \in Seq(Bytes) /\ <<x>> # <<>> /\ <<x>>[1] = x /\ Tail(<<x>>) = <<>>
<1>1. x \in Bytes
  BY WireConstants DEF Bytes
<1> HIDE DEF Bytes
<1> QED BY <1>1

LEMMA WireKeys ==
    /\ StatePda \in Key /\ NativeBuffer \in Key /\ SystemProgram \in Key
    /\ \A m \in DOMAIN Buffer : m \in Key /\ Buffer[m] \in Key
BY WireAssumption, BytesAssumption DEF SystemProgram

IsTyped(i, c) ==
    /\ i = [data |-> i.data, accounts |-> i.accounts]
    /\ i.data \in Seq(Bytes)
    /\ i.accounts \in Seq(AccountsOf(c))

LEMMA TypedIs ==
    ASSUME NEW c, NEW i, NEW d \in Seq(Bytes), NEW a \in Seq(AccountsOf(c)),
           i = [data |-> d, accounts |-> a]
    PROVE  IsTyped(i, c)
<1>1. i.data = d /\ i.accounts = a
  BY Zenon
<1> QED BY <1>1, Zenon DEF IsTyped

LEMMA OrderKeyIs ==
    ASSUME NEW c, "intent" \in DOMAIN c
    PROVE  OrderPda(EncodeIntent(c.intent)) \in Key \cup OrderKeys(c)
BY Zenon DEF OrderKeys

LEMMA InitializeTyped ==
    ASSUME NEW c, IsCall(c), c.name = "Initialize"
    PROVE  IsTyped(Client(c), c)
<1> DEFINE a == <<New(c.payer, TRUE), New(StatePda, FALSE), New(NativeBuffer, FALSE),
                  NewReadonly(SystemProgram, FALSE)>>
           k1 == c.manager
           k2 == c.solver_authority
           k3 == c.reclaim_authority
           k4 == c.settlement_owned_order_authority
           t == k1 \o k2 \o k3 \o k4
           d == <<3>> \o k1 \o k2 \o k3 \o k4
<1>1. /\ "intent" \notin DOMAIN c
      /\ c.payer \in Key /\ k1 \in Key /\ k2 \in Key /\ k3 \in Key /\ k4 \in Key
      /\ Client(c) = [data |-> d, accounts |-> a]
  <2>1. DOMAIN c = {"name", "payer", "manager", "solver_authority", "reclaim_authority",
                    "settlement_owned_order_authority"}
    BY InitializeIs, Zenon
  <2>2. "intent" \notin DOMAIN c
    BY <2>1
  <2> QED BY <2>2, InitializeIs, Zenon
<1>2. k1 \in Seq(Bytes) /\ k2 \in Seq(Bytes) /\ k3 \in Seq(Bytes) /\ k4 \in Seq(Bytes)
  BY <1>1, KeyIsSeq, Zenon
<1>3. d \in Seq(Bytes)
  <2>1. <<3>> \in Seq(Bytes)
    BY JustTag
  <2> HIDE DEF k1, k2, k3, k4, Bytes
  <2> QED BY <1>2, <2>1
<1>4. a \in Seq(AccountsOf(c))
  <2> DEFINE M == AccountsOf(c)
  <2>1. /\ New(c.payer, TRUE) \in M /\ New(StatePda, FALSE) \in M /\ New(NativeBuffer, FALSE) \in M
        /\ NewReadonly(SystemProgram, FALSE) \in M
    BY <1>1, WireKeys, AsksFor, Zenon
  <2> HIDE DEF M
  <2> QED BY <2>1, Tuples, Zenon DEF M
<1> HIDE DEF d, a
<1> QED BY <1>1, <1>3, <1>4, TypedIs, Zenon

LEMMA NewOrderMetas ==
    ASSUME NEW c, IsCall(c), c.name \in {"CreateOrder", "CancelOrder", "CancelOutstandingOrder"},
           NEW e, e = EncodeIntent(c.intent)
    PROVE  /\ e \in Seq(Bytes) /\ Len(e) = IntentSize /\ e # <<>>
           /\ NewReadonly(c.owner, TRUE) \in AccountsOf(c)
           /\ New(c.created_by, TRUE) \in AccountsOf(c) /\ NewReadonly(c.created_by, FALSE) \in AccountsOf(c)
           /\ New(OrderPda(e), FALSE) \in AccountsOf(c) /\ NewReadonly(SystemProgram, FALSE) \in AccountsOf(c)
<1>1. /\ DOMAIN c = {"name", "owner", "created_by", "intent"}
      /\ c.owner \in Key /\ c.created_by \in Key /\ c.intent \in Intents
  BY OrderCall
<1>2. e \in Seq(Bytes) /\ Len(e) = IntentSize
  BY <1>1, EncodedIntent, Zenon
<1>3. e # <<>>
  BY <1>2, OrderWidthsAre, WireConstants
<1>4. "intent" \in DOMAIN c /\ "created_by" \in DOMAIN c
  BY <1>1
<1>5. OrderPda(e) \in Key \cup OrderKeys(c)
  BY <1>4, OrderKeyIs, Zenon
<1> QED BY <1>1, <1>2, <1>3, <1>4, <1>5, WireKeys, AsksFor, Zenon

LEMMA OwnOrderMetas ==
    ASSUME NEW c, IsCall(c), c.name \in {"CreateSettlementOwnedOrder", "CancelSettlementOwnedOrder"},
           NEW e, e = EncodeIntent(c.intent)
    PROVE  /\ e \in Seq(Bytes) /\ Len(e) = IntentSize /\ e # <<>>
           /\ NewReadonly(c.authority, TRUE) \in AccountsOf(c) /\ NewReadonly(StatePda, FALSE) \in AccountsOf(c)
           /\ New(c.created_by, TRUE) \in AccountsOf(c)
           /\ New(OrderPda(e), FALSE) \in AccountsOf(c) /\ NewReadonly(SystemProgram, FALSE) \in AccountsOf(c)
<1>1. /\ DOMAIN c = {"name", "authority", "created_by", "intent"}
      /\ c.authority \in Key /\ c.created_by \in Key /\ c.intent \in Intents
  BY OwnOrderCall
<1>2. e \in Seq(Bytes) /\ Len(e) = IntentSize
  BY <1>1, EncodedIntent, Zenon
<1>3. e # <<>>
  BY <1>2, OrderWidthsAre, WireConstants
<1>4. "intent" \in DOMAIN c /\ "created_by" \in DOMAIN c
  BY <1>1
<1>5. OrderPda(e) \in Key \cup OrderKeys(c)
  BY <1>4, OrderKeyIs, Zenon
<1> QED BY <1>1, <1>2, <1>3, <1>4, <1>5, WireKeys, AsksFor, Zenon

LEMMA NewOrderTyped ==
    ASSUME NEW c, IsCall(c), c.name \in {"CreateOrder", "CancelOrder", "CancelOutstandingOrder"}
    PROVE  IsTyped(Client(c), c)
<1> DEFINE e == EncodeIntent(c.intent)
           x1 == NewReadonly(c.owner, TRUE)
           x2 == New(c.created_by, TRUE)
           y2 == NewReadonly(c.created_by, FALSE)
           x3 == New(OrderPda(e), FALSE)
           x4 == NewReadonly(SystemProgram, FALSE)
           M == AccountsOf(c)
<1>1. /\ e \in Seq(Bytes) /\ e # <<>> /\ x1 \in M /\ x2 \in M /\ y2 \in M /\ x3 \in M /\ x4 \in M
  BY NewOrderMetas, Zenon
<1>2. /\ c.name = "CreateOrder" => Client(c) = [data |-> <<2>> \o e, accounts |-> <<x1, x2, x3, x4>>]
      /\ c.name = "CancelOrder" => Client(c) = [data |-> <<11>> \o e, accounts |-> <<x1, x2, x3, x4>>]
      /\ c.name = "CancelOutstandingOrder" => Client(c) = [data |-> <<11>>, accounts |-> <<x1, y2, x3, x4>>]
  BY <1>1, CreateOrderIs, CancelOrderIs, CancelOutstandingOrderIs, Zenon
<1> HIDE DEF e, x1, x2, x3, x4, y2, M
<1>3. <<2>> \o e \in Seq(Bytes) /\ <<11>> \o e \in Seq(Bytes) /\ <<11>> \in Seq(Bytes)
  <2>1. 2 \in 0..12 /\ 11 \in 0..12
    OBVIOUS
  <2>2. IsTagged(<<2>> \o e, 2, e) /\ IsTagged(<<11>> \o e, 11, e)
    BY <1>1, <2>1, Zenon DEF IsTagged
  <2> QED BY <2>1, <2>2, Tagged, JustTag, Zenon
<1>4. <<x1, x2, x3, x4>> \in Seq(M) /\ <<x1, y2, x3, x4>> \in Seq(M)
  BY <1>1, Tuples, Zenon
<1>5. PICK d \in Seq(Bytes), a \in Seq(M) : Client(c) = [data |-> d, accounts |-> a]
  BY <1>2, <1>3, <1>4, Zenon
<1> QED BY <1>5, TypedIs, Zenon DEF M

LEMMA OwnOrderTyped ==
    ASSUME NEW c, IsCall(c), c.name \in {"CreateSettlementOwnedOrder", "CancelSettlementOwnedOrder"}
    PROVE  IsTyped(Client(c), c)
<1> DEFINE e == EncodeIntent(c.intent)
           x1 == NewReadonly(c.authority, TRUE)
           x2 == New(c.created_by, TRUE)
           x3 == New(OrderPda(e), FALSE)
           x4 == NewReadonly(SystemProgram, FALSE)
           x5 == NewReadonly(StatePda, FALSE)
           M == AccountsOf(c)
<1>1. /\ e \in Seq(Bytes) /\ e # <<>> /\ x1 \in M /\ x2 \in M /\ x3 \in M /\ x4 \in M /\ x5 \in M
  BY OwnOrderMetas, Zenon
<1>2. /\ c.name = "CreateSettlementOwnedOrder" =>
             Client(c) = [data |-> <<10>> \o e, accounts |-> <<x1, x2, x5, x3, x4>>]
      /\ c.name = "CancelSettlementOwnedOrder" =>
             Client(c) = [data |-> <<11>> \o e, accounts |-> <<x1, x2, x3, x4, x5>>]
  BY <1>1, CreateSettlementOwnedOrderIs, CancelSettlementOwnedOrderIs, Zenon
<1> HIDE DEF e, x1, x2, x3, x4, x5, M
<1>3. <<10>> \o e \in Seq(Bytes) /\ <<11>> \o e \in Seq(Bytes)
  <2>1. 10 \in 0..12 /\ 11 \in 0..12
    OBVIOUS
  <2>2. IsTagged(<<10>> \o e, 10, e) /\ IsTagged(<<11>> \o e, 11, e)
    BY <1>1, <2>1, Zenon DEF IsTagged
  <2> QED BY <2>2, Tagged, Zenon
<1>4. <<x1, x2, x5, x3, x4>> \in Seq(M) /\ <<x1, x2, x3, x4, x5>> \in Seq(M)
  BY <1>1, Tuples, Zenon
<1>5. PICK d \in Seq(Bytes), a \in Seq(M) : Client(c) = [data |-> d, accounts |-> a]
  BY <1>2, <1>3, <1>4, Zenon
<1> QED BY <1>5, TypedIs, Zenon DEF M

LEMMA ReclaimOrderTyped ==
    ASSUME NEW c, IsCall(c), c.name = "ReclaimOrder"
    PROVE  IsTyped(Client(c), c)
<1> DEFINE e == EncodeIntent(c.intent)
           x1 == New(OrderPda(e), FALSE)
           x2 == New(c.reclaim_recipient, FALSE)
           o == c.owner
           s == [k \in 1..Len(o) |-> NewReadonly(o[k], TRUE)]
           M == AccountsOf(c)
<1>0. DOMAIN c = {"name", "reclaim_recipient", "owner", "intent"}
  BY ReclaimOrderIs, Zenon
<1>1. /\ "intent" \in DOMAIN c /\ c.reclaim_recipient \in Key /\ o \in Seq(Key)
      /\ Client(c) = [data |-> <<5>>, accounts |-> <<x1, x2>> \o s]
  <2>1. "intent" \in DOMAIN c
    BY <1>0
  <2> QED BY <2>1, ReclaimOrderIs, Zenon
<1>2. OrderPda(e) \in Key \cup OrderKeys(c)
  BY <1>1, OrderKeyIs, Zenon
<1>3. x1 \in M /\ x2 \in M
  BY <1>1, <1>2, AsksFor, Zenon
<1>4. s \in Seq(M)
  <2> DEFINE n == Len(o)
  <2>1. n \in Nat
    BY <1>1
  <2>2. ASSUME NEW k \in 1..n PROVE NewReadonly(o[k], TRUE) \in M
    <3>1. o[k] \in Key
      BY ONLY <1>1, n = Len(o), k \in 1..n, ElementIs
    <3> QED BY <3>1, AsksFor, Zenon
  <2>3. s \in [1..n -> M]
    BY <2>2, Zenon
  <2> HIDE DEF s, n, M
  <2> QED BY <2>1, <2>3
<1> HIDE DEF e, x1, x2, o, s, M
<1>5. <<5>> \in Seq(Bytes)
  BY JustTag
<1>6. <<x1, x2>> \o s \in Seq(M)
  <2>1. <<x1, x2>> \in Seq(M)
    BY <1>3, Tuples, Zenon
  <2> QED BY <1>4, <2>1, TwoParts
<1> QED BY <1>1, <1>5, <1>6, TypedIs, Zenon DEF M

LEMMA AdminKeepsOut ==
    ASSUME NEW c, IsCall(c), c.name \in {"TransferAuthority", "AddSolver", "RemoveSolver", "WithdrawNativeSol"}
    PROVE  "intent" \notin DOMAIN c
<1>1. CASE c.name = "TransferAuthority"
  <2>1. DOMAIN c = {"name", "signer", "role", "new_authority"}
    BY <1>1, TransferAuthorityIs, Zenon
  <2> QED BY <2>1
<1>2. CASE c.name = "AddSolver"
  <2>1. DOMAIN c = {"name", "authority", "payer", "solver"}
    BY <1>2, AddSolverIs, Zenon
  <2> QED BY <2>1
<1>3. CASE c.name = "RemoveSolver"
  <2>1. DOMAIN c = {"name", "authority", "rent_recipient", "solver"}
    BY <1>3, RemoveSolverIs, Zenon
  <2> QED BY <2>1
<1>4. CASE c.name = "WithdrawNativeSol"
  <2>1. DOMAIN c = {"name", "authority", "recipient", "amount"}
    BY <1>4, WithdrawNativeSolIs, Zenon
  <2> QED BY <2>1
<1> QED BY <1>1, <1>2, <1>3, <1>4

LEMMA AdminTyped ==
    ASSUME NEW c, IsCall(c), c.name \in {"TransferAuthority", "AddSolver", "RemoveSolver", "WithdrawNativeSol"}
    PROVE  IsTyped(Client(c), c)
<1>0. "intent" \notin DOMAIN c
  BY AdminKeepsOut, Zenon
<1> DEFINE M == AccountsOf(c)
           s0 == NewReadonly(StatePda, FALSE)
           s1 == New(StatePda, FALSE)
           n == New(NativeBuffer, FALSE)
           y == NewReadonly(SystemProgram, FALSE)
<1>1. s0 \in M /\ s1 \in M /\ n \in M /\ y \in M
  BY WireKeys, AsksFor, Zenon
<1>2. \A k \in Key : /\ NewReadonly(k, TRUE) \in M /\ New(k, TRUE) \in M /\ New(k, FALSE) \in M
  BY <1>0, AsksFor, Zenon
<1> HIDE DEF M, s0, s1, n, y
<1>3. 7 \in 0..12 /\ 8 \in 0..12 /\ 9 \in 0..12 /\ 12 \in 0..12
  OBVIOUS
<1>4. CASE c.name = "TransferAuthority"
  <2> DEFINE d == <<7, c.role>> \o c.new_authority
             a == <<NewReadonly(c.signer, TRUE), s1>>
  <2>1. /\ c.signer \in Key /\ c.role \in 0..3 /\ c.new_authority \in Key
        /\ Client(c) = [data |-> d, accounts |-> a]
    BY <1>4, TransferAuthorityIs, Zenon DEF s1
  <2>2. a \in Seq(M)
    BY <1>1, <1>2, <2>1, Tuples, Zenon
  <2>3. d \in Seq(Bytes)
    <3>1. c.new_authority \in Seq(Bytes)
      BY <2>1, KeyIsSeq, Zenon
    <3>2. 7 \in Bytes /\ c.role \in Bytes
      BY <2>1, WireConstants DEF Bytes
    <3>3. <<7, c.role>> \in Seq(Bytes)
      BY <3>2, Tuples, Zenon
    <3> HIDE DEF Bytes
    <3> QED BY <3>1, <3>3, TwoParts
  <2> HIDE DEF d, a
  <2> QED BY <2>1, <2>2, <2>3, TypedIs, Zenon DEF M
<1>5. CASE c.name = "AddSolver"
  <2> DEFINE d == <<8>> \o c.solver
             a == <<NewReadonly(c.authority, TRUE), New(c.payer, TRUE), s1, y>>
  <2>1. /\ c.authority \in Key /\ c.payer \in Key /\ c.solver \in Key
        /\ Client(c) = [data |-> d, accounts |-> a]
    BY <1>5, AddSolverIs, Zenon DEF s1, y
  <2>2. a \in Seq(M)
    BY <1>1, <1>2, <2>1, Tuples, Zenon
  <2>3. d \in Seq(Bytes)
    <3>1. c.solver \in Seq(Bytes)
      BY <2>1, KeyIsSeq, Zenon
    <3>2. IsTagged(d, 8, c.solver)
      BY <1>3, <3>1, Zenon DEF IsTagged
    <3> QED BY <3>2, Tagged, Zenon
  <2> HIDE DEF d, a
  <2> QED BY <2>1, <2>2, <2>3, TypedIs, Zenon DEF M
<1>6. CASE c.name = "RemoveSolver"
  <2> DEFINE d == <<9>> \o c.solver
             a == <<NewReadonly(c.authority, TRUE), New(c.rent_recipient, FALSE), s1>>
  <2>1. /\ c.authority \in Key /\ c.rent_recipient \in Key /\ c.solver \in Key
        /\ Client(c) = [data |-> d, accounts |-> a]
    BY <1>6, RemoveSolverIs, Zenon DEF s1
  <2>2. a \in Seq(M)
    BY <1>1, <1>2, <2>1, Tuples, Zenon
  <2>3. d \in Seq(Bytes)
    <3>1. c.solver \in Seq(Bytes)
      BY <2>1, KeyIsSeq, Zenon
    <3>2. IsTagged(d, 9, c.solver)
      BY <1>3, <3>1, Zenon DEF IsTagged
    <3> QED BY <3>2, Tagged, Zenon
  <2> HIDE DEF d, a
  <2> QED BY <2>1, <2>2, <2>3, TypedIs, Zenon DEF M
<1>7. CASE c.name = "WithdrawNativeSol"
  <2> DEFINE d == <<12>> \o ToBytes(c.amount, Word)
             a == <<s0, NewReadonly(c.authority, TRUE), n, New(c.recipient, FALSE)>>
  <2>1. /\ c.authority \in Key /\ c.recipient \in Key /\ c.amount \in Amount
        /\ Client(c) = [data |-> d, accounts |-> a]
    BY <1>7, WithdrawNativeSolIs, Zenon DEF s0, n
  <2>2. a \in Seq(M)
    BY <1>1, <1>2, <2>1, Tuples, Zenon
  <2>3. d \in Seq(Bytes)
    <3>1. c.amount \in Nat
      BY <2>1, AmountsFit
    <3>2. ToBytes(c.amount, Word) \in Seq(Bytes)
      BY <3>1, WireConstants, ToBytesBytes
    <3>3. IsTagged(d, 12, ToBytes(c.amount, Word))
      BY <1>3, <3>2, Zenon DEF IsTagged
    <3> QED BY <3>3, Tagged, Zenon
  <2> HIDE DEF d, a
  <2> QED BY <2>1, <2>2, <2>3, TypedIs, Zenon DEF M
<1> QED BY <1>4, <1>5, <1>6, <1>7, Zenon

LEMMA MintKeys ==
    ASSUME NEW c, IsCall(c), c.name \in {"CreateBuffers", "ReclaimBuffer"}
    PROVE  /\ "intent" \notin DOMAIN c /\ Len(c.mints) \in Nat
           /\ \A k \in 1..Len(c.mints) : /\ c.mints[k].mint \in DOMAIN Buffer /\ c.mints[k].mint \in Key
                                          /\ Buffer[c.mints[k].mint] \in Key
<1> DEFINE n == Len(c.mints)
<1>1. "intent" \notin DOMAIN c
  <2>1. CASE c.name = "CreateBuffers"
    <3>1. DOMAIN c = {"name", "payer", "token_program", "mints"}
      BY <2>1, CreateBuffersIs, Zenon
    <3> QED BY <3>1
  <2>2. CASE c.name = "ReclaimBuffer"
    <3>1. DOMAIN c = {"name", "reclaim_authority", "reclaim_recipient", "token_program", "mints"}
      BY <2>2, ReclaimBufferIs, Zenon
    <3> QED BY <3>1
  <2> QED BY <2>1, <2>2
<1>2. \/ c.mints \in Seq([mint: DOMAIN Buffer])
      \/ c.mints \in Seq([mint: DOMAIN Buffer, burn_limit: Amount])
  BY CreateBuffersIs, ReclaimBufferIs, Zenon
<1>3. n \in Nat
  BY <1>2
<1>4. ASSUME NEW k \in 1..n PROVE c.mints[k].mint \in DOMAIN Buffer
  <2>1. c.mints[k] \in [mint: DOMAIN Buffer] \/ c.mints[k] \in [mint: DOMAIN Buffer, burn_limit: Amount]
    BY ONLY <1>2, n = Len(c.mints), k \in 1..n, ElementIs
  <2> QED BY <2>1
<1> QED BY <1>1, <1>3, <1>4, WireKeys, Zenon

LEMMA BuffersTyped ==
    ASSUME NEW c, IsCall(c), c.name \in {"CreateBuffers", "ReclaimBuffer"}
    PROVE  IsTyped(Client(c), c)
<1> DEFINE M == AccountsOf(c)
           n == Len(c.mints)
           b(k) == New(Buffer[c.mints[k].mint], FALSE)
           m(k) == New(c.mints[k].mint, FALSE)
           r(k) == NewReadonly(c.mints[k].mint, FALSE)
           s0 == NewReadonly(StatePda, FALSE)
           y == NewReadonly(SystemProgram, FALSE)
           q == [k \in 1..n |-> <<b(k), r(k)>>]
           w == [k \in 1..n |-> <<b(k), m(k)>>]
<1>1. /\ "intent" \notin DOMAIN c /\ n \in Nat
      /\ \A k \in 1..n : /\ c.mints[k].mint \in DOMAIN Buffer /\ c.mints[k].mint \in Key
                         /\ Buffer[c.mints[k].mint] \in Key
  BY MintKeys, Zenon
<1>2. \A k \in Key : /\ NewReadonly(k, TRUE) \in M /\ NewReadonly(k, FALSE) \in M
                     /\ New(k, TRUE) \in M /\ New(k, FALSE) \in M
  BY <1>1, AsksFor, Zenon
<1>3. s0 \in M /\ y \in M
  BY <1>2, WireKeys, Zenon
<1>4. \A k \in 1..n : b(k) \in M /\ m(k) \in M /\ r(k) \in M
  BY <1>1, <1>2, Zenon
<1> HIDE DEF M, s0, y, b, m, r
<1>5. q \in [1..n -> Seq(M)] /\ w \in [1..n -> Seq(M)]
  <2>1. \A k \in 1..n : <<b(k), r(k)>> \in Seq(M) /\ <<b(k), m(k)>> \in Seq(M)
    BY <1>4, Tuples, Zenon
  <2> QED BY <2>1, Zenon
<1> HIDE DEF q, w, n
<1>6. FlattenSeq(q) \in Seq(M) /\ FlattenSeq(w) \in Seq(M)
  BY <1>1, <1>5, FlattenType
<1>7. CASE c.name = "CreateBuffers"
  <2> DEFINE h == <<New(c.payer, TRUE), y, NewReadonly(c.token_program, FALSE)>>
             a == h \o FlattenSeq(q)
  <2>1. c.payer \in Key /\ c.token_program \in Key /\ Client(c) = [data |-> <<4>>, accounts |-> a]
    BY <1>7, CreateBuffersIs, Zenon DEF y, q, n, b, r
  <2>2. h \in Seq(M)
    BY <1>2, <1>3, <2>1, Tuples, Zenon
  <2> HIDE DEF h
  <2>3. a \in Seq(M)
    BY <1>6, <2>2, TwoParts
  <2> HIDE DEF a
  <2>4. <<4>> \in Seq(Bytes)
    BY JustTag
  <2> QED BY <2>1, <2>3, <2>4, TypedIs, Zenon DEF M
<1>8. CASE c.name = "ReclaimBuffer"
  <2> DEFINE h == <<s0, NewReadonly(c.reclaim_authority, TRUE), New(c.reclaim_recipient, FALSE),
                    NewReadonly(c.token_program, FALSE)>>
             a == h \o FlattenSeq(w)
             l == [k \in 1..n |-> ToBytes(c.mints[k].burn_limit, Word)]
             d == <<6>> \o FlattenSeq(l)
  <2>1. /\ c.reclaim_authority \in Key /\ c.reclaim_recipient \in Key /\ c.token_program \in Key
        /\ c.mints \in Seq([mint: DOMAIN Buffer, burn_limit: Amount])
        /\ Client(c) = [data |-> d, accounts |-> a]
    BY <1>8, ReclaimBufferIs, Zenon DEF s0, w, n, b, m
  <2>2. h \in Seq(M)
    BY <1>2, <1>3, <2>1, Tuples, Zenon
  <2> HIDE DEF h
  <2>3. a \in Seq(M)
    BY <1>6, <2>2, TwoParts
  <2> HIDE DEF a
  <2>4. ASSUME NEW k \in 1..n PROVE ToBytes(c.mints[k].burn_limit, Word) \in Seq(Bytes)
    <3>0. n = Len(c.mints)
      BY DEF n
    <3>1. c.mints[k] \in [mint: DOMAIN Buffer, burn_limit: Amount]
      BY ONLY <2>1, <3>0, k \in 1..n, ElementIs
    <3>2. c.mints[k].burn_limit \in Amount
      BY <3>1
    <3>3. c.mints[k].burn_limit \in Nat
      BY <3>2, AmountsFit
    <3> QED BY <3>3, WireConstants, ToBytesBytes
  <2>5. l \in [1..n -> Seq(Bytes)]
    BY <2>4, Zenon
  <2> HIDE DEF l
  <2>6. FlattenSeq(l) \in Seq(Bytes)
    BY <1>1, <2>5, FlattenType
  <2>7. IsTagged(d, 6, FlattenSeq(l))
    <3>1. 6 \in 0..12
      OBVIOUS
    <3> QED BY <2>6, <3>1, Zenon DEF IsTagged
  <2>8. d \in Seq(Bytes)
    BY <2>7, Tagged, Zenon
  <2> HIDE DEF d
  <2> QED BY <2>1, <2>3, <2>8, TypedIs, Zenon DEF M
<1> QED BY <1>7, <1>8, Zenon

LEMMA CallNames ==
    ASSUME NEW c, IsCall(c)
    PROVE  \/ c.name = "Initialize"
           \/ c.name \in {"CreateOrder", "CancelOrder", "CancelOutstandingOrder"}
           \/ c.name \in {"CreateSettlementOwnedOrder", "CancelSettlementOwnedOrder"}
           \/ c.name = "ReclaimOrder"
           \/ c.name \in {"CreateBuffers", "ReclaimBuffer"}
           \/ c.name \in {"TransferAuthority", "AddSolver", "RemoveSolver", "WithdrawNativeSol"}
BY Zenon DEF IsCall

LEMMA ClientTyped ==
    ASSUME NEW c, IsCall(c)
    PROVE  IsTyped(Client(c), c)
BY CallNames, InitializeTyped, NewOrderTyped, OwnOrderTyped, ReclaimOrderTyped, BuffersTyped,
   AdminTyped, Zenon
-----------------------------------------------------------------------------
(* The order accounts, each where its intent belongs, hold what is meant. *)
Books(o, m) ==
    /\ DOMAIN o = DOMAIN m
    /\ \A a \in DOMAIN o : IsStored(o[a], m[a]) /\ a = OrderPda(EncodeIntent(m[a].intent))

LEMMA MeantCancelled ==
    ASSUME NEW m, NEW x \in DOMAIN m, NEW v, NEW g, g = [m EXCEPT ![x].cancelled = v]
    PROVE  /\ DOMAIN g = DOMAIN m /\ g[x] = [m[x] EXCEPT !.cancelled = v]
           /\ \A y \in DOMAIN m : y # x => g[y] = m[y]
OBVIOUS

LEMMA MeantAmounts ==
    ASSUME NEW m, NEW x \in DOMAIN m, NEW v, NEW w, NEW g,
           g = [m EXCEPT ![x].amount_withdrawn = v, ![x].amount_received = w]
    PROVE  /\ DOMAIN g = DOMAIN m
           /\ g[x] = [m[x] EXCEPT !.amount_withdrawn = v, !.amount_received = w]
           /\ \A y \in DOMAIN m : y # x => g[y] = m[y]
OBVIOUS

LEMMA BooksIncluding ==
    ASSUME NEW o, NEW m, Books(o, m), NEW x, NEW b, NEW v, IsStored(b, v),
           x = OrderPda(EncodeIntent(v.intent)),
           NEW o2, NEW m2, o2 = Including(o, x, b), m2 = Including(m, x, v)
    PROVE  Books(o2, m2)
<1>1. /\ DOMAIN o2 = DOMAIN o \cup {x} /\ o2[x] = b
      /\ \A y \in DOMAIN o : y # x => o2[y] = o[y]
  BY ONLY o2 = Including(o, x, b) DEF Including
<1>2. /\ DOMAIN m2 = DOMAIN m \cup {x} /\ m2[x] = v
      /\ \A y \in DOMAIN m : y # x => m2[y] = m[y]
  BY ONLY m2 = Including(m, x, v) DEF Including
<1>3. DOMAIN o = DOMAIN m
  BY Zenon DEF Books
<1>4. ASSUME NEW a \in DOMAIN o2
      PROVE  IsStored(o2[a], m2[a]) /\ a = OrderPda(EncodeIntent(m2[a].intent))
  <2>1. CASE a = x
    BY <1>1, <1>2, <2>1, Zenon
  <2>2. CASE a # x
    <3>1. a \in DOMAIN o /\ o2[a] = o[a] /\ m2[a] = m[a]
      BY <1>1, <1>2, <1>3, <2>2, Zenon
    <3> QED BY <3>1, Zenon DEF Books
  <2> QED BY <2>1, <2>2
<1> QED BY <1>1, <1>2, <1>3, <1>4, Zenon DEF Books

LEMMA BooksWithout ==
    ASSUME NEW o, NEW m, Books(o, m), NEW x, NEW o2, NEW m2, o2 = Without(o, x), m2 = Without(m, x)
    PROVE  Books(o2, m2)
<1>1. DOMAIN o2 = DOMAIN o \ {x} /\ \A y \in DOMAIN o2 : o2[y] = o[y]
  BY ONLY o2 = Without(o, x) DEF Without, Restrict
<1>2. DOMAIN m2 = DOMAIN m \ {x} /\ \A y \in DOMAIN m2 : m2[y] = m[y]
  BY ONLY m2 = Without(m, x) DEF Without, Restrict
<1> QED BY <1>1, <1>2, Zenon DEF Books

IsChange(o2, o, x, b) ==
    DOMAIN o2 = DOMAIN o /\ o2[x] = b /\ \A y \in DOMAIN o : y # x => o2[y] = o[y]

LEMMA BooksChanged ==
    ASSUME NEW o, NEW m, Books(o, m), NEW x \in DOMAIN o, NEW b, NEW v, IsStored(b, v),
           v.intent = m[x].intent, NEW o2, NEW m2, IsChange(o2, o, x, b), IsChange(m2, m, x, v)
    PROVE  Books(o2, m2)
<1>1. DOMAIN o2 = DOMAIN o /\ o2[x] = b /\ \A y \in DOMAIN o : y # x => o2[y] = o[y]
  BY Zenon DEF IsChange
<1>2. DOMAIN m2 = DOMAIN m /\ m2[x] = v /\ \A y \in DOMAIN m : y # x => m2[y] = m[y]
  BY Zenon DEF IsChange
<1>3. DOMAIN o = DOMAIN m
  BY Zenon DEF Books
<1>4. ASSUME NEW a \in DOMAIN o2
      PROVE  IsStored(o2[a], m2[a]) /\ a = OrderPda(EncodeIntent(m2[a].intent))
  <2>1. CASE a = x
    BY <1>1, <1>2, <2>1, Zenon DEF Books
  <2>2. CASE a # x
    <3>1. a \in DOMAIN o /\ o2[a] = o[a] /\ m2[a] = m[a]
      BY <1>1, <1>2, <1>3, <2>2, Zenon
    <3> QED BY <3>1, Zenon DEF Books
  <2> QED BY <2>1, <2>2
<1> QED BY <1>1, <1>2, <1>3, <1>4, Zenon DEF Books
-----------------------------------------------------------------------------
(* An account that can be an order is the order of the call. *)
LEMMA IntentCalls ==
    ASSUME NEW c, IsCall(c), "intent" \in DOMAIN c
    PROVE  c.intent \in Intents /\ ("created_by" \in DOMAIN c => c.created_by \in Key)
<1>1. CASE c.name = "Initialize"
  <2>1. DOMAIN c = {"name", "payer", "manager", "solver_authority", "reclaim_authority",
                    "settlement_owned_order_authority"}
    BY <1>1, InitializeIs, Zenon
  <2> QED BY <2>1
<1>2. CASE c.name \in {"CreateOrder", "CancelOrder", "CancelOutstandingOrder"}
  BY <1>2, OrderCall, Zenon
<1>3. CASE c.name \in {"CreateSettlementOwnedOrder", "CancelSettlementOwnedOrder"}
  BY <1>3, OwnOrderCall, Zenon
<1>4. CASE c.name = "ReclaimOrder"
  <2>1. DOMAIN c = {"name", "reclaim_recipient", "owner", "intent"} /\ c.intent \in Intents
    BY <1>4, ReclaimOrderIs, Zenon
  <2> QED BY <2>1
<1>5. CASE c.name \in {"CreateBuffers", "ReclaimBuffer"}
  BY <1>5, MintKeys, Zenon
<1>6. CASE c.name \in {"TransferAuthority", "AddSolver", "RemoveSolver", "WithdrawNativeSol"}
  BY <1>6, AdminKeepsOut, Zenon
<1> QED BY <1>1, <1>2, <1>3, <1>4, <1>5, <1>6, CallNames, Zenon

LEMMA OrderKey ==
    ASSUME NEW c, IsCall(c), NEW m \in AccountsOf(c), Len(m.key) = IntentSize
    PROVE  /\ "intent" \in DOMAIN c /\ c.intent \in Intents
           /\ m.key = OrderPda(EncodeIntent(c.intent))
<1>1. m.key \in Key \cup OrderKeys(c)
  BY ONLY m \in AccountsOf(c), AccountFields
<1>2. m.key \notin Key
  <2>1. ASSUME m.key \in Key PROVE FALSE
    <3>1. Len(m.key) = KeyWidth
      BY <2>1, KeyIsSeq, Zenon
    <3> QED BY <3>1, OrderWidthsAre, WireConstants
  <2> QED BY <2>1
<1>3. m.key \in OrderKeys(c)
  BY <1>1, <1>2
<1>4. "intent" \in DOMAIN c /\ m.key = OrderPda(EncodeIntent(c.intent))
  BY <1>3, Zenon DEF OrderKeys
<1> QED BY <1>4, IntentCalls, Zenon

(* What the handlers of order accounts are given. *)
LEMMA OrderParsed ==
    ASSUME NEW S, NEW d \in Seq(Bytes), NEW a \in Seq(S), NEW p, p = ParseInstruction(d, a),
           p.instruction \in {"CreateOrder", "CreateSettlementOwnedOrder", "CancelOrder"}
    PROVE  "intent_bytes" \in DOMAIN p /\ p.created_by \in S /\ p.order_pda \in S
<1> DEFINE t == Tail(d)
<1>0. p \notin {Refused, OfSettlement}
  BY NoIntent
<1>1. \/ p = ParseCreateOrder(t, a)
      \/ p = ParseInitialize(t, a)
      \/ p = ParseCreateBuffer(t, a)
      \/ p = ParseReclaimOrder(t, a)
      \/ p = ParseReclaimBuffer(t, a)
      \/ p = ParseTransferAuthority(t, a)
      \/ p = ParseAddSolver(t, a)
      \/ p = ParseRemoveSolver(t, a)
      \/ p = ParseCreateSettlementOwnedOrder(t, a)
      \/ p = ParseCancelOrder(t, a)
      \/ p = ParseWithdrawNativeSol(t, a)
  BY <1>0, ParseCases
<1>2. p # Refused /\ Len(a) \in Nat /\ \A k \in 1..Len(a) : a[k] \in S
  BY <1>0
<1> HIDE DEF t
<1>3. CASE p = ParseCreateOrder(t, a)
  BY <1>2, <1>3 DEF ParseCreateOrder
<1>4. CASE p = ParseCreateSettlementOwnedOrder(t, a)
  BY <1>2, <1>4 DEF ParseCreateSettlementOwnedOrder
<1>5. CASE p = ParseCancelOrder(t, a)
  BY <1>2, <1>5 DEF ParseCancelOrder
<1>6. CASE p = ParseInitialize(t, a)
  BY <1>2, <1>6 DEF ParseInitialize
<1>7. CASE p = ParseCreateBuffer(t, a)
  BY <1>2, <1>7 DEF ParseCreateBuffer
<1>8. CASE p = ParseReclaimOrder(t, a)
  BY <1>2, <1>8 DEF ParseReclaimOrder
<1>9. CASE p = ParseReclaimBuffer(t, a)
  BY <1>2, <1>9 DEF ParseReclaimBuffer
<1>10. CASE p = ParseTransferAuthority(t, a)
  BY <1>2, <1>10 DEF ParseTransferAuthority
<1>11. CASE p = ParseAddSolver(t, a)
  BY <1>2, <1>11 DEF ParseAddSolver
<1>12. CASE p = ParseRemoveSolver(t, a)
  BY <1>2, <1>12 DEF ParseRemoveSolver
<1>13. CASE p = ParseWithdrawNativeSol(t, a)
  BY <1>2, <1>13 DEF ParseWithdrawNativeSol
<1> QED BY <1>1, <1>3, <1>4, <1>5, <1>6, <1>7, <1>8, <1>9, <1>10, <1>11, <1>12, <1>13, Zenon

LEMMA ReclaimParsed ==
    ASSUME NEW S, NEW d \in Seq(Bytes), NEW a \in Seq(S), NEW p, p = ParseInstruction(d, a),
           p.instruction = "ReclaimOrder"
    PROVE  p.order_pda \in S
<1> DEFINE t == Tail(d)
<1>0. p \notin {Refused, OfSettlement}
  BY NoIntent
<1>1. \/ p = ParseCreateOrder(t, a)
      \/ p = ParseInitialize(t, a)
      \/ p = ParseCreateBuffer(t, a)
      \/ p = ParseReclaimOrder(t, a)
      \/ p = ParseReclaimBuffer(t, a)
      \/ p = ParseTransferAuthority(t, a)
      \/ p = ParseAddSolver(t, a)
      \/ p = ParseRemoveSolver(t, a)
      \/ p = ParseCreateSettlementOwnedOrder(t, a)
      \/ p = ParseCancelOrder(t, a)
      \/ p = ParseWithdrawNativeSol(t, a)
  BY <1>0, ParseCases
<1>2. p # Refused /\ Len(a) \in Nat /\ \A k \in 1..Len(a) : a[k] \in S
  BY <1>0
<1> HIDE DEF t
<1>3. CASE p = ParseCreateOrder(t, a)
  BY <1>2, <1>3 DEF ParseCreateOrder
<1>4. CASE p = ParseCreateSettlementOwnedOrder(t, a)
  BY <1>2, <1>4 DEF ParseCreateSettlementOwnedOrder
<1>5. CASE p = ParseCancelOrder(t, a)
  BY <1>2, <1>5 DEF ParseCancelOrder
<1>6. CASE p = ParseInitialize(t, a)
  BY <1>2, <1>6 DEF ParseInitialize
<1>7. CASE p = ParseCreateBuffer(t, a)
  BY <1>2, <1>7 DEF ParseCreateBuffer
<1>8. CASE p = ParseReclaimOrder(t, a)
  BY <1>2, <1>8 DEF ParseReclaimOrder
<1>9. CASE p = ParseReclaimBuffer(t, a)
  BY <1>2, <1>9 DEF ParseReclaimBuffer
<1>10. CASE p = ParseTransferAuthority(t, a)
  BY <1>2, <1>10 DEF ParseTransferAuthority
<1>11. CASE p = ParseAddSolver(t, a)
  BY <1>2, <1>11 DEF ParseAddSolver
<1>12. CASE p = ParseRemoveSolver(t, a)
  BY <1>2, <1>12 DEF ParseRemoveSolver
<1>13. CASE p = ParseWithdrawNativeSol(t, a)
  BY <1>2, <1>13 DEF ParseWithdrawNativeSol
<1> QED BY <1>1, <1>3, <1>4, <1>5, <1>6, <1>7, <1>8, <1>9, <1>10, <1>11, <1>12, <1>13, Zenon
-----------------------------------------------------------------------------
(* The inductive invariant: what is in flight belongs to the call, and as    *)
(* long as nobody changed it is what the client built; and the books.        *)
WireInv ==
    /\ edits \in Nat
    /\ call = NoCall => ix = NoInstruction
    /\ call # NoCall =>
           /\ IsCall(call)
           /\ IsTyped(ix, call)
           /\ edits = 0 => ix = Client(call)
    /\ Books(orders, meant)

LEMMA CallIsNot ==
    ASSUME NEW c, IsCall(c)
    PROVE  c # NoCall
<1>1. NoCall.name = "none"
  BY DEF NoCall
<1>2. c.name # "none"
  BY CallNames
<1> QED BY <1>1, <1>2

LEMMA WireStarts ==
    ASSUME WireInit
    PROVE  WireInv
<1>1. edits \in Nat /\ call = NoCall /\ ix = NoInstruction /\ orders = <<>> /\ meant = <<>>
  BY DEF WireInit
<1>2. DOMAIN orders = {} /\ DOMAIN meant = {}
  BY <1>1
<1>3. Books(orders, meant)
  BY <1>2, Zenon DEF Books
<1> QED BY <1>1, <1>3, Zenon DEF WireInv

(* A step that ends the call. *)
LEMMA WireEnds ==
    ASSUME Done, Books(orders', meant')
    PROVE  WireInv'
<1>1. call' = NoCall /\ ix' = NoInstruction /\ edits' = 0
  BY Zenon DEF Done
<1>2. edits' \in Nat
  BY <1>1
<1>3. NoCall' = NoCall /\ NoInstruction' = NoInstruction
  BY Zenon DEF NoCall, NoInstruction
<1> QED BY <1>1, <1>2, <1>3, Zenon DEF WireInv

LEMMA ZeroAmount == 0 \in Amount
<1>1. Power(Word) \in Nat \ {0}
  BY WireConstants, PowerIsPowerOf, PowerType, ByteIsBase
<1> QED BY <1>1 DEF Amount

(* A new order is at the place of the call's order, and holds what is meant. *)
LEMMA WireNewOrder ==
    ASSUME WireInv, call # NoCall, NEW cancelled \in BOOLEAN, NEW owner, NEW p, p = Parsed,
           p.instruction \in {"CreateOrder", "CreateSettlementOwnedOrder", "CancelOrder"},
           p.intent_bytes # <<>>,
           ProcessNewOnchainOrder(p, owner, cancelled)
    PROVE  Books(orders', meant')
<1> DEFINE M == AccountsOf(call)
           e == EncodeIntent(call.intent)
           b == p.intent_bytes
<1>1. IsCall(call) /\ ix.data \in Seq(Bytes) /\ ix.accounts \in Seq(M) /\ Books(orders, meant)
  BY Zenon DEF WireInv, IsTyped
<1>2. p = ParseInstruction(ix.data, ix.accounts)
  BY Zenon DEF Parsed
<1> HIDE DEF M
<1>3. "intent_bytes" \in DOMAIN p /\ p.created_by \in M /\ p.order_pda \in M
  BY <1>1, <1>2, OrderParsed, Zenon
<1>4. CheckBytes(b) => EncodeIntent(DecodeIntent(b)) = b
  BY <1>1, <1>2, <1>3, AddressOfBytes, Zenon
<1>5. b \in Seq(Bytes) /\ Len(b) = IntentSize
  BY <1>1, <1>2, <1>3, AddressOfBytes, Zenon
<1>6. /\ CheckBytes(b) /\ p.order_pda.key = OrderPda(b)
      /\ p.created_by.signer /\ p.created_by.writable
  BY Zenon DEF ProcessNewOnchainOrder
<1>7. p.order_pda.key = b
  BY <1>6, Zenon DEF OrderPda
<1>8. /\ "intent" \in DOMAIN call /\ call.intent \in Intents
      /\ p.order_pda.key = OrderPda(EncodeIntent(call.intent))
  <2>1. Len(p.order_pda.key) = IntentSize
    BY <1>5, <1>7, Zenon
  <2> QED BY <1>1, <1>3, <2>1, OrderKey, Zenon DEF M
<1>9. b = e
  BY <1>7, <1>8, Zenon DEF OrderPda
<1>10. "created_by" \in DOMAIN call /\ p.created_by.key = call.created_by
  BY <1>3, <1>6, <1>8, AccountFields, Zenon DEF M
<1>11. call.created_by \in Key
  BY <1>1, <1>8, <1>10, IntentCalls, Zenon
<1> DEFINE m == [bump |-> CanonicalBump, cancelled |-> cancelled,
                 amount_withdrawn |-> 0, amount_received |-> 0,
                 created_by |-> call.created_by, intent |-> call.intent]
           x == OrderPda(e)
           y == EncodeOrder(m)
<1>12. m \in MeantOrders
  <2>1. CanonicalBump \in Bytes /\ 0 \in Amount
    BY WireAssumption, AmountsFit, ZeroAmount DEF Bytes
  <2> QED BY <1>8, <1>11, <2>1, Zenon DEF MeantOrders
<1>13. /\ m.bump = CanonicalBump /\ m.cancelled = cancelled /\ m.amount_withdrawn = 0
       /\ m.amount_received = 0 /\ m.created_by = call.created_by /\ m.intent = call.intent
  BY Zenon
<1>14. y = InitializeOrder(CanonicalBump, cancelled, 0, 0, p.created_by.key, b)
  BY <1>9, <1>10, <1>13, Zenon DEF EncodeOrder
<1>15. orders' = Including(orders, x, y) /\ meant' = Including(meant, x, m)
  BY <1>8, <1>14, Zenon DEF ProcessNewOnchainOrder, CallsOrder
<1>16. IsStored(y, m)
  <2>1. CheckBytes(EncodeIntent(m.intent))
    BY <1>6, <1>9, <1>13, Zenon
  <2> HIDE DEF m
  <2> QED BY <1>12, <2>1, StoredInit, Zenon
<1>17. x = OrderPda(EncodeIntent(m.intent))
  BY <1>13, Zenon
<1> HIDE DEF m, x, y
<1> QED BY ONLY <1>1, <1>15, <1>16, <1>17, BooksIncluding, Zenon

(* Each action keeps the invariant. *)
LEMMA WireBuilds ==
    ASSUME WireInv, NEW k \in DOMAIN Calls, Build(Calls[k])
    PROVE  WireInv'
<1> DEFINE c == Calls[k]
<1>1. /\ call' = c /\ ix' = Client(c) /\ edits' = edits /\ orders' = orders /\ meant' = meant
  BY Zenon DEF Build
<1>2. IsCall(c)
  BY WireAssumption, Zenon
<1>3. IsTyped(Client(c), c)
  BY <1>2, ClientTyped, Zenon
<1>4. edits \in Nat /\ Books(orders, meant)
  BY Zenon DEF WireInv
<1> HIDE DEF c
<1>5. c # NoCall
  BY <1>2, CallIsNot, Zenon
<1> QED BY <1>1, <1>2, <1>3, <1>4, <1>5, Zenon DEF WireInv

LEMMA WireEditsData ==
    ASSUME WireInv, EditData
    PROVE  WireInv'
<1>1. /\ call # NoCall /\ edits' = edits + 1 /\ call' = call /\ orders' = orders /\ meant' = meant
      /\ \E d \in Edited(ix.data, Bytes) : ix' = [ix EXCEPT !.data = d]
  BY Zenon DEF EditData, Bytes
<1>2. /\ IsCall(call) /\ IsTyped(ix, call) /\ edits \in Nat /\ Books(orders, meant)
  BY <1>1, Zenon DEF WireInv
<1>3. PICK d \in Edited(ix.data, Bytes) : ix' = [ix EXCEPT !.data = d]
  BY <1>1, Zenon
<1>4. d \in Seq(Bytes)
  <2>1. ix.data \in Seq(Bytes) /\ Bytes \in SUBSET Bytes
    BY <1>2, Zenon DEF IsTyped
  <2>2. Edited(ix.data, Bytes) \subseteq Seq(Bytes)
    BY ONLY <2>1, EditedType
  <2> QED BY <2>2, Zenon
<1>5. IsTyped(ix', call)
  <2>1. ix = [data |-> ix.data, accounts |-> ix.accounts] /\ ix.accounts \in Seq(AccountsOf(call))
    BY <1>2, Zenon DEF IsTyped
  <2>2. ix' = [data |-> d, accounts |-> ix.accounts]
    BY ONLY <1>3, <2>1
  <2> QED BY <1>4, <2>1, <2>2, TypedIs, Zenon
<1>6. edits' \in Nat /\ edits' # 0
  BY <1>1, <1>2
<1> QED BY <1>1, <1>2, <1>5, <1>6, Zenon DEF WireInv

LEMMA WireEditsAccounts ==
    ASSUME WireInv, EditAccounts
    PROVE  WireInv'
<1> DEFINE V == {New(s, FALSE) : s \in Stray}
           M == AccountsOf(call)
<1>1. /\ call # NoCall /\ edits' = edits + 1 /\ call' = call /\ orders' = orders /\ meant' = meant
      /\ \E a \in Edited(ix.accounts, V) : ix' = [ix EXCEPT !.accounts = a]
  BY Zenon DEF EditAccounts
<1>2. /\ IsCall(call) /\ IsTyped(ix, call) /\ edits \in Nat /\ Books(orders, meant)
  BY <1>1, Zenon DEF WireInv
<1>3. PICK a \in Edited(ix.accounts, V) : ix' = [ix EXCEPT !.accounts = a]
  BY <1>1, Zenon
<1>4. a \in Seq(M)
  <2>1. ix.accounts \in Seq(M)
    BY <1>2, Zenon DEF IsTyped
  <2>2. ASSUME NEW s \in Stray PROVE New(s, FALSE) \in M
    <3>1. s \in Key
      BY WireAssumption
    <3> QED BY <3>1, AsksFor, Zenon
  <2>3. V \in SUBSET M
    BY <2>2, Zenon
  <2> HIDE DEF V, M
  <2>4. Edited(ix.accounts, V) \subseteq Seq(M)
    BY ONLY <2>1, <2>3, EditedType
  <2> QED BY <2>4, Zenon
<1>5. IsTyped(ix', call)
  <2>1. ix = [data |-> ix.data, accounts |-> ix.accounts] /\ ix.data \in Seq(Bytes)
    BY <1>2, Zenon DEF IsTyped
  <2>2. ix' = [data |-> ix.data, accounts |-> a]
    BY ONLY <1>3, <2>1
  <2> QED BY <1>4, <2>1, <2>2, TypedIs, Zenon
<1>6. edits' \in Nat /\ edits' # 0
  BY <1>1, <1>2
<1> QED BY <1>1, <1>2, <1>5, <1>6, Zenon DEF WireInv

(* The handlers read nothing when there is no call. *)
LEMMA NothingParsed ==
    ASSUME WireInv, Parsed.instruction # "refused"
    PROVE  call # NoCall
<1>1. ASSUME call = NoCall PROVE FALSE
  <2>1. ix = NoInstruction
    BY <1>1, Zenon DEF WireInv
  <2>2. ix.data = <<>>
    BY <2>1 DEF NoInstruction
  <2>3. Parsed = Refused
    BY <2>2 DEF Parsed, ParseInstruction
  <2> QED BY <2>3, NoIntent
<1> QED BY <1>1

LEMMA WireDrops ==
    ASSUME WireInv, Drop
    PROVE  WireInv'
<1>1. Done /\ orders' = orders /\ meant' = meant
  BY Zenon DEF Drop
<1>2. Books(orders', meant')
  BY <1>1, Zenon DEF WireInv
<1> QED BY <1>1, <1>2, WireEnds, Zenon

LEMMA IntentIsThere ==
    ASSUME WireInv, call # NoCall,
           Parsed.instruction \in {"CreateOrder", "CreateSettlementOwnedOrder"}
    PROVE  Parsed.intent_bytes # <<>>
<1> DEFINE p == Parsed
           M == AccountsOf(call)
<1>1. ix.data \in Seq(Bytes) /\ ix.accounts \in Seq(M)
  BY Zenon DEF WireInv, IsTyped
<1>2. p = ParseInstruction(ix.data, ix.accounts)
  BY Zenon DEF Parsed
<1>3. p.instruction \in {"CreateOrder", "CreateSettlementOwnedOrder"}
  OBVIOUS
<1> HIDE DEF M, p
<1>4. "intent_bytes" \in DOMAIN p
  BY <1>1, <1>2, <1>3, OrderParsed, Zenon
<1>5. /\ p.intent_bytes = Tail(ix.data) /\ ix.data # <<>>
      /\ Len(Tail(ix.data)) = IntentSize \/ (p.instruction = "CancelOrder" /\ Len(Tail(ix.data)) = 0)
  <2>1. ix.data \in Seq(Bytes)
    BY <1>1
  <2> QED BY ONLY <2>1, <1>2, <1>4, ParsedIntent
<1>6. Len(p.intent_bytes) = IntentSize
  BY <1>3, <1>5
<1>7. p.intent_bytes # <<>>
  BY <1>6, OrderWidthsAre, WireConstants
<1> QED BY <1>7 DEF p

LEMMA WireCreates ==
    ASSUME WireInv, ProcessCreateOrder
    PROVE  WireInv'
<1> DEFINE p == Parsed
<1>1. /\ p.instruction = "CreateOrder" /\ ProcessNewOnchainOrder(p, p.owner.key, FALSE) /\ Done
  BY Zenon DEF ProcessCreateOrder
<1>2. call # NoCall
  <2>1. "CreateOrder" # "refused"
    OBVIOUS
  <2> QED BY <1>1, <2>1, NothingParsed, Zenon
<1>3. p.intent_bytes # <<>>
  BY <1>1, <1>2, IntentIsThere
<1>4. Books(orders', meant')
  <2>1. p = Parsed /\ p.instruction \in {"CreateOrder", "CreateSettlementOwnedOrder", "CancelOrder"}
    BY <1>1, Zenon
  <2> HIDE DEF p
  <2> QED BY <1>1, <1>2, <1>3, <2>1, WireNewOrder, Zenon
<1> QED BY <1>1, <1>4, WireEnds, Zenon

LEMMA WireCreatesOwn ==
    ASSUME WireInv, ProcessCreateSettlementOwnedOrder
    PROVE  WireInv'
<1> DEFINE p == Parsed
<1>1. /\ p.instruction = "CreateSettlementOwnedOrder" /\ Done
      /\ ProcessNewOnchainOrder(p, p.state_pda.key, FALSE)
  BY Zenon DEF ProcessCreateSettlementOwnedOrder
<1>2. call # NoCall
  <2>1. "CreateSettlementOwnedOrder" # "refused"
    OBVIOUS
  <2> QED BY <1>1, <2>1, NothingParsed, Zenon
<1>3. p.intent_bytes # <<>>
  BY <1>1, <1>2, IntentIsThere
<1>4. Books(orders', meant')
  <2>1. p = Parsed /\ p.instruction \in {"CreateOrder", "CreateSettlementOwnedOrder", "CancelOrder"}
    BY <1>1, Zenon
  <2> HIDE DEF p
  <2> QED BY <1>1, <1>2, <1>3, <2>1, WireNewOrder, Zenon
<1> QED BY <1>1, <1>4, WireEnds, Zenon

LEMMA WireCancelsNew ==
    ASSUME WireInv, ProcessCancelNewOrder
    PROVE  WireInv'
<1> DEFINE p == Parsed
<1>1. /\ p.instruction = "CancelOrder" /\ Done /\ p.intent_bytes # <<>>
      /\ \E owner : ProcessNewOnchainOrder(p, owner, TRUE)
  BY Zenon DEF ProcessCancelNewOrder
<1>2. call # NoCall
  <2>1. "CancelOrder" # "refused"
    OBVIOUS
  <2> QED BY <1>1, <2>1, NothingParsed, Zenon
<1>4. Books(orders', meant')
  <2>1. p = Parsed /\ p.instruction \in {"CreateOrder", "CreateSettlementOwnedOrder", "CancelOrder"}
    BY <1>1, Zenon
  <2>2. PICK owner : ProcessNewOnchainOrder(p, owner, TRUE)
    BY <1>1, Zenon
  <2> HIDE DEF p
  <2> QED BY <1>1, <1>2, <2>1, <2>2, WireNewOrder, Zenon
<1> QED BY <1>1, <1>4, WireEnds, Zenon

(* An order that exists is the order of the call. *)
LEMMA FoundOrder ==
    ASSUME WireInv, NEW p, p = Parsed,
           p.instruction \in {"CreateOrder", "CreateSettlementOwnedOrder", "CancelOrder", "ReclaimOrder"},
           NEW x, x = p.order_pda.key, x \in DOMAIN orders
    PROVE  x = CallsOrder /\ Books(orders, meant) /\ x \in DOMAIN meant /\ IsStored(orders[x], meant[x])
<1>1. call # NoCall
  <2>1. "refused" \notin {"CreateOrder", "CreateSettlementOwnedOrder", "CancelOrder", "ReclaimOrder"}
    OBVIOUS
  <2> QED BY <2>1, NothingParsed, Zenon
<1> DEFINE M == AccountsOf(call)
<1>2. IsCall(call) /\ ix.data \in Seq(Bytes) /\ ix.accounts \in Seq(M) /\ Books(orders, meant)
  BY <1>1, Zenon DEF WireInv, IsTyped
<1>3. p = ParseInstruction(ix.data, ix.accounts)
  BY Zenon DEF Parsed
<1> HIDE DEF M
<1>4. p.order_pda \in M
  BY <1>2, <1>3, OrderParsed, ReclaimParsed, Zenon
<1>5. /\ x \in DOMAIN meant /\ IsStored(orders[x], meant[x])
      /\ x = OrderPda(EncodeIntent(meant[x].intent))
  BY <1>2, Zenon DEF Books
<1>6. Len(x) = IntentSize
  <2>1. meant[x].intent \in Intents
    BY <1>5, MeantFields, Zenon DEF IsStored
  <2>2. Len(EncodeIntent(meant[x].intent)) = IntentSize
    BY <2>1, EncodedIntent, Zenon
  <2> QED BY <1>5, <2>2, Zenon DEF OrderPda
<1>7. x = OrderPda(EncodeIntent(call.intent))
  <2>1. Len(p.order_pda.key) = IntentSize
    BY <1>6, Zenon
  <2> QED BY <1>2, <1>4, <2>1, OrderKey, Zenon DEF M
<1> QED BY <1>2, <1>5, <1>7, Zenon DEF CallsOrder

LEMMA WireCancels ==
    ASSUME WireInv, ProcessCancelOrder
    PROVE  WireInv'
<1> DEFINE p == Parsed
           x == p.order_pda.key
           y == SetCancelled(orders[x])
           v == [meant[x] EXCEPT !.cancelled = TRUE]
<1>1. /\ p.instruction = "CancelOrder" /\ Done /\ x \in DOMAIN orders
      /\ orders' = [orders EXCEPT ![x] = y]
      /\ meant' = [meant EXCEPT ![CallsOrder].cancelled = TRUE]
  BY Zenon DEF ProcessCancelOrder
<1>2. x = CallsOrder /\ Books(orders, meant) /\ x \in DOMAIN meant /\ IsStored(orders[x], meant[x])
  BY <1>1, FoundOrder, Zenon
<1>3. IsStored(y, v) /\ v.intent = meant[x].intent
  <2> DEFINE b == orders[x]
             m == meant[x]
  <2>1. IsStored(b, m) /\ v = [m EXCEPT !.cancelled = TRUE] /\ y = SetCancelled(b)
    BY <1>2, Zenon
  <2>2. IsStored(SetCancelled(b), v) /\ v.intent = m.intent
    <3> HIDE DEF b, m, v
    <3> QED BY ONLY <2>1, StoredCancelled
  <2> QED BY <2>1, <2>2, Zenon
<1> HIDE DEF x, y
<1>4. IsChange(orders', orders, x, y)
  <2>1. orders' = [orders EXCEPT ![x] = y] /\ x \in DOMAIN orders
    BY <1>1, Zenon
  <2> QED BY ONLY <2>1 DEF IsChange
<1>5. IsChange(meant', meant, x, v)
  <2> DEFINE t == TRUE
  <2>1. meant' = [meant EXCEPT ![x].cancelled = t] /\ v = [meant[x] EXCEPT !.cancelled = t]
    BY <1>1, <1>2, Zenon
  <2> HIDE DEF v, t
  <2> QED BY ONLY <1>2, <2>1, MeantCancelled DEF IsChange
<1> HIDE DEF v
<1>6. Books(orders', meant')
  BY ONLY <1>1, <1>2, <1>3, <1>4, <1>5, BooksChanged
<1> QED BY <1>1, <1>6, WireEnds, Zenon

LEMMA WireReclaims ==
    ASSUME WireInv, NEW expired, ProcessReclaimOrder(expired)
    PROVE  WireInv'
<1> DEFINE p == Parsed
           x == p.order_pda.key
<1>1. /\ p.instruction = "ReclaimOrder" /\ Done /\ x \in DOMAIN orders
      /\ orders' = Without(orders, x) /\ meant' = Without(meant, CallsOrder)
  BY Zenon DEF ProcessReclaimOrder
<1>2. x = CallsOrder /\ Books(orders, meant)
  BY <1>1, FoundOrder, Zenon
<1> HIDE DEF x
<1>3. Books(orders', meant')
  BY <1>1, <1>2, BooksWithout, Zenon
<1> QED BY <1>1, <1>3, WireEnds, Zenon

LEMMA WireSettles ==
    ASSUME WireInv, NEW x, NEW t \in Totals, Settle(x, t[1], t[2])
    PROVE  WireInv'
<1> DEFINE y == SetAmounts(orders[x], t[1], t[2])
           v == [meant[x] EXCEPT !.amount_withdrawn = t[1], !.amount_received = t[2]]
<1>1. /\ x \in DOMAIN orders /\ orders' = [orders EXCEPT ![x] = y]
      /\ meant' = [meant EXCEPT ![x].amount_withdrawn = t[1], ![x].amount_received = t[2]]
      /\ call' = call /\ ix' = ix /\ edits' = edits
  BY Zenon DEF Settle
<1>2. t[1] \in Amount /\ t[2] \in Amount
  BY WireAssumption
<1>3. Books(orders, meant) /\ x \in DOMAIN meant /\ IsStored(orders[x], meant[x])
  <2>1. Books(orders, meant)
    BY Zenon DEF WireInv
  <2> QED BY <1>1, <2>1, Zenon DEF Books
<1>4. IsStored(y, v) /\ v.intent = meant[x].intent
  <2> DEFINE b == orders[x]
             m == meant[x]
             t1 == t[1]
             t2 == t[2]
  <2>1. /\ IsStored(b, m) /\ v = [m EXCEPT !.amount_withdrawn = t1, !.amount_received = t2]
        /\ y = SetAmounts(b, t1, t2) /\ t1 \in Amount /\ t2 \in Amount
    BY <1>2, <1>3, Zenon
  <2>2. IsStored(SetAmounts(b, t1, t2), v) /\ v.intent = m.intent
    <3>1. v = WithAmounts(m, t1, t2)
      BY <2>1, Zenon DEF WithAmounts
    <3> HIDE DEF b, m, v, t1, t2
    <3>2. IsStored(b, m) /\ t1 \in Amount /\ t2 \in Amount
      BY <2>1, Zenon
    <3> QED BY ONLY <3>1, <3>2, StoredAmounts
  <2> QED BY <2>1, <2>2, Zenon
<1> HIDE DEF y
<1>5. IsChange(orders', orders, x, y)
  <2>1. orders' = [orders EXCEPT ![x] = y] /\ x \in DOMAIN orders
    BY <1>1, Zenon
  <2> QED BY ONLY <2>1 DEF IsChange
<1>6. IsChange(meant', meant, x, v)
  BY ONLY <1>1, <1>3, MeantAmounts DEF IsChange
<1> HIDE DEF v
<1>7. Books(orders', meant')
  BY ONLY <1>1, <1>3, <1>4, <1>5, <1>6, BooksChanged
<1> QED BY <1>1, <1>7, Zenon DEF WireInv

LEMMA WireStutters ==
    ASSUME WireInv, UNCHANGED wire
    PROVE  WireInv'
<1>1. call' = call /\ ix' = ix /\ edits' = edits /\ orders' = orders /\ meant' = meant
  BY DEF wire
<1>2. NoCall' = NoCall /\ NoInstruction' = NoInstruction
  BY Zenon DEF NoCall, NoInstruction
<1> QED BY <1>1, <1>2, Zenon DEF WireInv

(* Between building an instruction and executing it, whatever is changed   *)
(* in it, its bytes stay bytes and its accounts are among those of the     *)
(* call and the strays; and order accounts stay what they were meant to be.*)
THEOREM WireStays == WireSpec => []WireInv
<1>1. WireInit => WireInv
  BY WireStarts, Zenon
<1>2. WireInv /\ [WireNext]_wire => WireInv'
  <2> SUFFICES ASSUME WireInv, [WireNext]_wire
               PROVE  WireInv'
    OBVIOUS
  <2>1. CASE \E k \in DOMAIN Calls : Build(Calls[k])
    BY <2>1, WireBuilds, Zenon
  <2>2. CASE EditData
    BY <2>2, WireEditsData, Zenon
  <2>3. CASE EditAccounts
    BY <2>3, WireEditsAccounts, Zenon
  <2>4. CASE Drop
    BY <2>4, WireDrops, Zenon
  <2>5. CASE ProcessCreateOrder
    BY <2>5, WireCreates, Zenon
  <2>6. CASE ProcessCreateSettlementOwnedOrder
    BY <2>6, WireCreatesOwn, Zenon
  <2>7. CASE ProcessCancelOrder
    BY <2>7, WireCancels, Zenon
  <2>8. CASE ProcessCancelNewOrder
    BY <2>8, WireCancelsNew, Zenon
  <2>9. CASE \E expired \in BOOLEAN : ProcessReclaimOrder(expired)
    BY <2>9, WireReclaims, Zenon
  <2>10. CASE \E address \in DOMAIN orders, t \in Totals : Settle(address, t[1], t[2])
    BY <2>10, WireSettles, Zenon
  <2>11. CASE UNCHANGED wire
    BY <2>11, WireStutters, Zenon
  <2> QED
    BY <2>1, <2>2, <2>3, <2>4, <2>5, <2>6, <2>7, <2>8, <2>9, <2>10, <2>11, Zenon DEF WireNext
<1> QED BY <1>1, <1>2, PTL DEF WireSpec

(* Whatever an instruction was changed to, the bytes that the program takes *)
(* for an intent are those that clients can decode, and they are the only   *)
(* bytes of that intent, hence there is one address per order.              *)
THEOREM OneAddressPerOrder == WireSpec => []OneAddressPerIntent
<1>1. WireInv => OneAddressPerIntent
  <2> SUFFICES ASSUME WireInv, NEW p, p = Parsed, call # NoCall,
                      "intent_bytes" \in DOMAIN p, p.intent_bytes # <<>>
               PROVE  /\ CheckBytes(p.intent_bytes) <=> IntentDecodes(p.intent_bytes)
                      /\ CheckBytes(p.intent_bytes) =>
                             EncodeIntent(DecodeIntent(p.intent_bytes)) = p.intent_bytes
    BY Zenon DEF OneAddressPerIntent
  <2> DEFINE d == ix.data
             a == ix.accounts
  <2>1. d \in Seq(Bytes)
    BY Zenon DEF WireInv, IsTyped
  <2>2. p = ParseInstruction(d, a)
    BY Zenon DEF Parsed
  <2> HIDE DEF d, a
  <2> QED BY <2>1, <2>2, AddressOfBytes, Zenon
<1> QED BY <1>1, WireStays, PTL

(* The program overlooks no byte of an instruction that it accepts: its    *)
(* fields give back the data behind the tag.                               *)
THEOREM NoByteOverlooked == WireSpec => []OnePayloadPerMeaning
<1>1. WireInv => OnePayloadPerMeaning
  <2> SUFFICES ASSUME WireInv, NEW p, p = Parsed, call # NoCall, p \notin {Refused, OfSettlement}
               PROVE  Payload(p) = Tail(ix.data)
    BY Zenon DEF OnePayloadPerMeaning
  <2> DEFINE d == ix.data
             a == ix.accounts
  <2>1. d \in Seq(Bytes) /\ a \in Seq(AccountsOf(call))
    BY Zenon DEF WireInv, IsTyped
  <2>2. p = ParseInstruction(d, a)
    BY Zenon DEF Parsed
  <2> HIDE DEF d, a
  <2>3. Len(a) \in Nat
    BY <2>1
  <2>4. Payload(p) = Tail(d)
    BY <2>1, <2>2, <2>3, PayloadIsAll, Zenon
  <2> QED BY <2>4, Zenon DEF d
<1> QED BY <1>1, WireStays, PTL

(* Order accounts decode to what their creation, their settlements and     *)
(* their cancellation meant, and encode to the same account again.         *)
THEOREM OrdersStoredAsMeant == WireSpec => []StoredAsMeant
<1>1. WireInv => StoredAsMeant
  <2> SUFFICES ASSUME WireInv
               PROVE  StoredAsMeant
    OBVIOUS
  <2>1. Books(orders, meant)
    BY Zenon DEF WireInv
  <2>2. ASSUME NEW a \in DOMAIN orders
        PROVE  /\ OrderDecodes(orders[a])
               /\ LoadsFromPda(orders[a], a)
               /\ DecodeOrder(orders[a]) = meant[a]
               /\ EncodeOrder(meant[a]) = orders[a]
    <3> DEFINE b == orders[a]
               m == meant[a]
    <3>1. IsStored(b, m) /\ a = OrderPda(EncodeIntent(m.intent))
      BY <2>1, <2>2, Zenon DEF Books
    <3> HIDE DEF b, m
    <3>2. /\ OrderDecodes(b) /\ DecodeOrder(b) = m
          /\ LoadsFromPda(b, OrderPda(EncodeIntent(m.intent)))
      BY <3>1, StoredDecodes, Zenon
    <3>3. b = EncodeOrder(m)
      BY <3>1, StoredIs, Zenon
    <3> QED BY <3>1, <3>2, <3>3, Zenon DEF b, m
  <2> QED BY <2>1, <2>2, Zenon DEF StoredAsMeant, Books
<1> QED BY <1>1, WireStays, PTL

-----------------------------------------------------------------------------
(* What a client calls for arrives, one call after the other. *)
KeysAlone(a) == [k \in DOMAIN a |-> a[k].key]
Index(p) ==
    IF "intent_bytes" \in DOMAIN p /\ p.intent_bytes # <<>>
    THEN Joined(p, [intent |-> DecodeIntent(p.intent_bytes)]) ELSE p
Arrives(p, c) ==
    /\ p = Refused <=> "mints" \in DOMAIN c /\ c.mints = <<>>
    /\ p # Refused => Agree(p, c) /\ RightAddresses(p, c)
IsRead(i, c) == Arrives(Index(ParseInstruction(i.data, KeysAlone(i.accounts))), c)

LEMMA IsReadIf ==
    ASSUME NEW c, NEW i, NEW d, NEW m, i = [data |-> d, accounts |-> m],
           NEW a, KeysAlone(m) = a, NEW p, ParseInstruction(d, a) = p, NEW q, Index(p) = q, Arrives(q, c)
    PROVE  IsRead(i, c)
<1>1. i.data = d /\ i.accounts = m
  BY Zenon
<1> QED BY <1>1, Zenon DEF IsRead

(* The keys of a few accounts. *)
LEMMA KeysOfTwo ==
    ASSUME NEW x1, NEW x2, NEW k1, NEW k2, x1.key = k1, x2.key = k2
    PROVE  KeysAlone(<<x1, x2>>) = <<k1, k2>>
BY DEF KeysAlone

LEMMA KeysOfThree ==
    ASSUME NEW x1, NEW x2, NEW x3, NEW k1, NEW k2, NEW k3, x1.key = k1, x2.key = k2, x3.key = k3
    PROVE  KeysAlone(<<x1, x2, x3>>) = <<k1, k2, k3>>
BY DEF KeysAlone

LEMMA KeysOfFour ==
    ASSUME NEW x1, NEW x2, NEW x3, NEW x4, NEW k1, NEW k2, NEW k3, NEW k4,
           x1.key = k1, x2.key = k2, x3.key = k3, x4.key = k4
    PROVE  KeysAlone(<<x1, x2, x3, x4>>) = <<k1, k2, k3, k4>>
BY DEF KeysAlone

LEMMA KeysOfFive ==
    ASSUME NEW x1, NEW x2, NEW x3, NEW x4, NEW x5, NEW k1, NEW k2, NEW k3, NEW k4, NEW k5,
           x1.key = k1, x2.key = k2, x3.key = k3, x4.key = k4, x5.key = k5
    PROVE  KeysAlone(<<x1, x2, x3, x4, x5>>) = <<k1, k2, k3, k4, k5>>
BY DEF KeysAlone

LEMMA Dispatched ==
    ASSUME NEW d, NEW a, NEW x, NEW s, IsTagged(d, x, s)
    PROVE  LET p == ParseInstruction(d, a) IN
           /\ x = 2 => p = ParseCreateOrder(s, a)
           /\ x = 3 => p = ParseInitialize(s, a)
           /\ x = 4 => p = ParseCreateBuffer(s, a)
           /\ x = 5 => p = ParseReclaimOrder(s, a)
           /\ x = 6 => p = ParseReclaimBuffer(s, a)
           /\ x = 7 => p = ParseTransferAuthority(s, a)
           /\ x = 8 => p = ParseAddSolver(s, a)
           /\ x = 9 => p = ParseRemoveSolver(s, a)
           /\ x = 10 => p = ParseCreateSettlementOwnedOrder(s, a)
           /\ x = 11 => p = ParseCancelOrder(s, a)
           /\ x = 12 => p = ParseWithdrawNativeSol(s, a)
<1>1. d # <<>> /\ d[1] = x /\ Tail(d) = s /\ x \in 0..12
  BY Tagged, Zenon DEF IsTagged
<1> DEFINE y == d[1]
           t == Tail(d)
<1>2. y = x /\ t = s /\ y \in 0..12 /\ ~(d = <<>> \/ y > 12)
  BY <1>1
<1>3. ParseInstruction(d, a) =
        IF d = <<>> \/ y > 12 THEN Refused
        ELSE CASE y \in {0, 1} -> OfSettlement
               [] y = 2 -> ParseCreateOrder(t, a)
               [] y = 3 -> ParseInitialize(t, a)
               [] y = 4 -> ParseCreateBuffer(t, a)
               [] y = 5 -> ParseReclaimOrder(t, a)
               [] y = 6 -> ParseReclaimBuffer(t, a)
               [] y = 7 -> ParseTransferAuthority(t, a)
               [] y = 8 -> ParseAddSolver(t, a)
               [] y = 9 -> ParseRemoveSolver(t, a)
               [] y = 10 -> ParseCreateSettlementOwnedOrder(t, a)
               [] y = 11 -> ParseCancelOrder(t, a)
               [] y = 12 -> ParseWithdrawNativeSol(t, a)
  BY Zenon DEF ParseInstruction
<1> HIDE DEF y, t
<1> QED BY <1>2, <1>3

LEMMA AddSolverRead ==
    ASSUME NEW d, NEW a, NEW s, NEW x1, NEW x2, NEW x3, NEW x4, a = <<x1, x2, x3, x4>>,
           IsTagged(d, 8, s), Len(s) = KeyWidth
    PROVE  ParseInstruction(d, a) =
               [instruction |-> "AddSolver", authority |-> x1, payer |-> x2, state_pda |-> x3,
                solver |-> s]
<1>1. ParseInstruction(d, a) = ParseAddSolver(s, a)
  BY Dispatched, ZenonT(60)
<1>2. Len(a) = 4 /\ a[1] = x1 /\ a[2] = x2 /\ a[3] = x3
  OBVIOUS
<1>3. ~(Len(s) # KeyWidth \/ Len(a) < 4)
  BY <1>2
<1> QED BY <1>1, <1>2, <1>3, Zenon DEF ParseAddSolver

LEMMA SolverAdditionArrives ==
    ASSUME NEW c, IsCall(c), c.name = "AddSolver"
    PROVE  IsRead(Client(c), c)
<1> DEFINE d == <<8>> \o c.solver
           a == <<c.authority, c.payer, StatePda, SystemProgram>>
           x1 == NewReadonly(c.authority, TRUE)
           x2 == New(c.payer, TRUE)
           x3 == New(StatePda, FALSE)
           x4 == NewReadonly(SystemProgram, FALSE)
           m == <<x1, x2, x3, x4>>
           p == [instruction |-> "AddSolver", authority |-> c.authority, payer |-> c.payer,
                 state_pda |-> StatePda, solver |-> c.solver]
           i == Client(c)
<1>1. /\ DOMAIN c = {"name", "authority", "payer", "solver"} /\ c.solver \in Key
      /\ i = [data |-> d, accounts |-> m]
  BY AddSolverIs, Zenon
<1>2. c.solver \in Seq(Bytes) /\ Len(c.solver) = KeyWidth
  BY <1>1, KeyIsSeq, Zenon
<1>3. IsTagged(d, 8, c.solver)
  BY <1>2 DEF IsTagged
<1>4. KeysAlone(m) = a
  <2>1. x1.key = c.authority /\ x2.key = c.payer /\ x3.key = StatePda /\ x4.key = SystemProgram
    BY Zenon DEF New, NewReadonly
  <2> HIDE DEF x1, x2, x3, x4
  <2> QED BY ONLY <2>1, KeysOfFour
<1> HIDE DEF d, m, i
<1>5. ParseInstruction(d, a) = p
  BY ONLY <1>2, <1>3, AddSolverRead
<1>6. Index(p) = p
  BY DEF Index
<1>7. Arrives(p, c)
  <2>1. /\ DOMAIN p = {"instruction", "authority", "payer", "state_pda", "solver"}
        /\ p.instruction = "AddSolver" /\ p.authority = c.authority /\ p.payer = c.payer
        /\ p.state_pda = StatePda /\ p.solver = c.solver
    OBVIOUS
  <2> HIDE DEF p
  <2>2. p # Refused
    BY <2>1 DEF Refused
  <2>3. Agree(p, c)
    BY <1>1, <2>1 DEF Agree
  <2>4. RightAddresses(p, c)
    BY <1>1, <2>1 DEF RightAddresses
  <2> QED BY <1>1, <2>2, <2>3, <2>4 DEF Arrives
<1> HIDE DEF a, p
<1>8. IsRead(i, c)
  BY <1>1, <1>4, <1>5, <1>6, <1>7, IsReadIf, Zenon
<1> QED BY <1>8, Zenon DEF i

LEMMA AmountBack ==
    ASSUME NEW v \in Amount
    PROVE  /\ ToBytes(v, Word) \in Seq(Bytes) /\ Len(ToBytes(v, Word)) = Word
           /\ FromBytes(ToBytes(v, Word)) = v
<1>1. v \in Nat /\ v < Power(Word) /\ Word \in Nat
  BY AmountsFit, WireConstants
<1> QED BY <1>1, ToBytesBytes, RoundTrip

LEMMA RemoveSolverRead ==
    ASSUME NEW d, NEW a, NEW s, NEW x1, NEW x2, NEW x3, a = <<x1, x2, x3>>,
           IsTagged(d, 9, s), Len(s) = KeyWidth
    PROVE  ParseInstruction(d, a) =
               [instruction |-> "RemoveSolver", authority |-> x1, rent_recipient |-> x2,
                state_pda |-> x3, solver |-> s]
<1>1. ParseInstruction(d, a) = ParseRemoveSolver(s, a)
  BY Dispatched, ZenonT(60)
<1>2. Len(a) = 3 /\ a[1] = x1 /\ a[2] = x2 /\ a[3] = x3
  OBVIOUS
<1>3. ~(Len(s) # KeyWidth \/ Len(a) < 3)
  BY <1>2
<1> QED BY <1>1, <1>2, <1>3, Zenon DEF ParseRemoveSolver

LEMMA SolverRemovalArrives ==
    ASSUME NEW c, IsCall(c), c.name = "RemoveSolver"
    PROVE  IsRead(Client(c), c)
<1> DEFINE d == <<9>> \o c.solver
           s == c.solver
           a == <<c.authority, c.rent_recipient, StatePda>>
           x1 == NewReadonly(c.authority, TRUE)
           x2 == New(c.rent_recipient, FALSE)
           x3 == New(StatePda, FALSE)
           m == <<x1, x2, x3>>
           p == [instruction |-> "RemoveSolver",
                 authority |-> c.authority,
                 rent_recipient |-> c.rent_recipient,
                 state_pda |-> StatePda,
                 solver |-> c.solver]
           i == Client(c)
<1>1. /\ DOMAIN c = {"name", "authority", "rent_recipient", "solver"}
      /\ i = [data |-> d, accounts |-> m]
  BY RemoveSolverIs, Zenon
<1>2. s \in Seq(Bytes) /\ Len(s) = KeyWidth
  BY RemoveSolverIs, KeyIsSeq, Zenon
<1>3. IsTagged(d, 9, s)
  BY <1>2 DEF IsTagged
<1>4. KeysAlone(m) = a
  <2>1. x1.key = c.authority /\ x2.key = c.rent_recipient /\ x3.key = StatePda
    BY Zenon DEF New, NewReadonly
  <2> HIDE DEF x1, x2, x3
  <2> QED BY ONLY <2>1, KeysOfThree
<1> HIDE DEF d, m, i
<1>5. ParseInstruction(d, a) = p
  BY ONLY <1>2, <1>3, RemoveSolverRead
<1>6. Index(p) = p
  BY DEF Index
<1>7. Arrives(p, c)
  <2>1. /\ DOMAIN p = {"instruction", "authority", "rent_recipient", "state_pda", "solver"}
        /\ p.instruction = "RemoveSolver"
        /\ p.authority = c.authority
        /\ p.rent_recipient = c.rent_recipient
        /\ p.state_pda = StatePda
        /\ p.solver = c.solver
    OBVIOUS
  <2> HIDE DEF p
  <2>2. p # Refused
    BY <2>1 DEF Refused
  <2>3. Agree(p, c)
    BY <1>1, <2>1 DEF Agree
  <2>4. RightAddresses(p, c)
    BY <1>1, <2>1 DEF RightAddresses
  <2> QED BY <1>1, <2>2, <2>3, <2>4 DEF Arrives
<1> HIDE DEF a, p
<1>8. IsRead(i, c)
  BY <1>1, <1>4, <1>5, <1>6, <1>7, IsReadIf, Zenon
<1> QED BY <1>8, Zenon DEF i

LEMMA WithdrawNativeSolRead ==
    ASSUME NEW d, NEW a, NEW s, NEW x1, NEW x2, NEW x3, NEW x4, a = <<x1, x2, x3, x4>>,
           IsTagged(d, 12, s), Len(s) = Word
    PROVE  ParseInstruction(d, a) =
               [instruction |-> "WithdrawNativeSol", state_pda |-> x1, authority |-> x2,
                native_sol_buffer |-> x3, recipient |-> x4, amount |-> FromBytes(s)]
<1>1. ParseInstruction(d, a) = ParseWithdrawNativeSol(s, a)
  BY Dispatched, ZenonT(60)
<1>2. Len(a) = 4 /\ a[1] = x1 /\ a[2] = x2 /\ a[3] = x3 /\ a[4] = x4
  OBVIOUS
<1>3. ~(Len(s) # Word \/ Len(a) < 4)
  BY <1>2
<1> QED BY <1>1, <1>2, <1>3, Zenon DEF ParseWithdrawNativeSol

LEMMA WithdrawalArrives ==
    ASSUME NEW c, IsCall(c), c.name = "WithdrawNativeSol"
    PROVE  IsRead(Client(c), c)
<1> DEFINE d == <<12>> \o ToBytes(c.amount, Word)
           s == ToBytes(c.amount, Word)
           a == <<StatePda, c.authority, NativeBuffer, c.recipient>>
           x1 == NewReadonly(StatePda, FALSE)
           x2 == NewReadonly(c.authority, TRUE)
           x3 == New(NativeBuffer, FALSE)
           x4 == New(c.recipient, FALSE)
           m == <<x1, x2, x3, x4>>
           p == [instruction |-> "WithdrawNativeSol",
                 state_pda |-> StatePda,
                 authority |-> c.authority,
                 native_sol_buffer |-> NativeBuffer,
                 recipient |-> c.recipient,
                 amount |-> c.amount]
           i == Client(c)
<1>1. DOMAIN c = {"name", "authority", "recipient", "amount"} /\ i = [data |-> d, accounts |-> m]
  BY WithdrawNativeSolIs, Zenon
<1>2. s \in Seq(Bytes) /\ Len(s) = Word /\ FromBytes(s) = c.amount
  <2>1. c.amount \in Amount
    BY WithdrawNativeSolIs, Zenon
  <2> QED BY <2>1, AmountBack, Zenon
<1>3. IsTagged(d, 12, s)
  BY <1>2 DEF IsTagged
<1>4. KeysAlone(m) = a
  <2>1. x1.key = StatePda /\ x2.key = c.authority /\ x3.key = NativeBuffer /\ x4.key = c.recipient
    BY Zenon DEF New, NewReadonly
  <2> HIDE DEF x1, x2, x3, x4
  <2> QED BY ONLY <2>1, KeysOfFour
<1> HIDE DEF d, m, i, s
<1>5. ParseInstruction(d, a) = p
  BY ONLY <1>2, <1>3, WithdrawNativeSolRead
<1>6. Index(p) = p
  BY DEF Index
<1>7. Arrives(p, c)
  <2>1. /\ DOMAIN p = {"instruction", "state_pda", "authority", "native_sol_buffer", "recipient", "amount"}
        /\ p.instruction = "WithdrawNativeSol"
        /\ p.state_pda = StatePda
        /\ p.authority = c.authority
        /\ p.native_sol_buffer = NativeBuffer
        /\ p.recipient = c.recipient
        /\ p.amount = c.amount
    OBVIOUS
  <2> HIDE DEF p
  <2>2. p # Refused
    BY <2>1 DEF Refused
  <2>3. Agree(p, c)
    BY <1>1, <2>1 DEF Agree
  <2>4. RightAddresses(p, c)
    BY <1>1, <2>1 DEF RightAddresses
  <2> QED BY <1>1, <2>2, <2>3, <2>4 DEF Arrives
<1> HIDE DEF a, p
<1>8. IsRead(i, c)
  BY <1>1, <1>4, <1>5, <1>6, <1>7, IsReadIf, Zenon
<1> QED BY <1>8, Zenon DEF i

IsRoleAndKey(s, r, t) == Len(s) = 1 + KeyWidth /\ s[1] \in 0..3 /\ s[1] = r /\ Tail(s) = t

LEMMA TransferAuthorityRead ==
    ASSUME NEW d, NEW a, NEW s, NEW x1, NEW x2, a = <<x1, x2>>,
           IsTagged(d, 7, s), NEW r, NEW t, IsRoleAndKey(s, r, t)
    PROVE  ParseInstruction(d, a) =
               [instruction |-> "TransferAuthority", signer |-> x1, state_pda |-> x2, role |-> r,
                new_authority |-> t]
<1>1. ParseInstruction(d, a) = ParseTransferAuthority(s, a)
  BY Dispatched, ZenonT(60)
<1>2. Len(a) = 2 /\ a[1] = x1 /\ a[2] = x2
  OBVIOUS
<1>3. ~(Len(s) # 1 + KeyWidth \/ s[1] \notin 0..3 \/ Len(a) < 2)
  BY <1>2 DEF IsRoleAndKey
<1> QED BY <1>1, <1>2, <1>3, Zenon DEF ParseTransferAuthority, IsRoleAndKey

LEMMA TransferTagged ==
    ASSUME NEW c, IsCall(c), c.name = "TransferAuthority"
    PROVE  LET s == <<c.role>> \o c.new_authority IN
           IsTagged(<<7, c.role>> \o c.new_authority, 7, s) /\ IsRoleAndKey(s, c.role, c.new_authority)
<1> DEFINE d == <<7, c.role>> \o c.new_authority
           s == <<c.role>> \o c.new_authority
<1>2. /\ s \in Seq(Bytes) /\ Len(s) = 1 + KeyWidth /\ s[1] = c.role /\ Tail(s) = c.new_authority
      /\ c.role \in 0..3 /\ s[1] \in 0..3
  <2>1. c.role \in 0..3 /\ c.new_authority \in Key
    BY TransferAuthorityIs, Zenon
  <2>2. c.new_authority \in Seq(Bytes) /\ Len(c.new_authority) = KeyWidth
    BY <2>1, KeyIsSeq, Zenon
  <2>3. c.role \in 0..12
    BY <2>1
  <2>4. IsTagged(s, c.role, c.new_authority)
    BY <2>2, <2>3, Zenon DEF IsTagged
  <2> HIDE DEF s
  <2>5. /\ s \in Seq(Bytes) /\ s[1] = c.role /\ Tail(s) = c.new_authority
        /\ Len(s) = 1 + Len(c.new_authority)
    BY <2>4, Tagged, Zenon
  <2> QED BY <2>1, <2>2, <2>5, Zenon
<1>3. IsTagged(d, 7, s)
  <2>1. c.new_authority \in Key /\ c.role \in 0..3
    BY TransferAuthorityIs, Zenon
  <2>2. c.new_authority \in Seq(Bytes)
    BY <2>1, KeyIsSeq, Zenon
  <2>3. d = <<7>> \o s
    BY <2>1, <2>2
  <2> QED BY <1>2, <2>3 DEF IsTagged
<1> QED BY <1>2, <1>3, Zenon DEF IsRoleAndKey

LEMMA TransferArrives ==
    ASSUME NEW c, IsCall(c), c.name = "TransferAuthority"
    PROVE  IsRead(Client(c), c)
<1> DEFINE d == <<7, c.role>> \o c.new_authority
           s == <<c.role>> \o c.new_authority
           a == <<c.signer, StatePda>>
           x1 == NewReadonly(c.signer, TRUE)
           x2 == New(StatePda, FALSE)
           m == <<x1, x2>>
           p == [instruction |-> "TransferAuthority",
                 signer |-> c.signer,
                 state_pda |-> StatePda,
                 role |-> c.role,
                 new_authority |-> c.new_authority]
           i == Client(c)
<1>1. DOMAIN c = {"name", "signer", "role", "new_authority"} /\ i = [data |-> d, accounts |-> m]
  BY TransferAuthorityIs, Zenon
<1>3. IsTagged(d, 7, s) /\ IsRoleAndKey(s, c.role, c.new_authority)
  BY TransferTagged, Zenon
<1>4. KeysAlone(m) = a
  <2>1. x1.key = c.signer /\ x2.key = StatePda
    BY Zenon DEF New, NewReadonly
  <2> HIDE DEF x1, x2
  <2> QED BY ONLY <2>1, KeysOfTwo
<1> HIDE DEF d, m, i, s
<1>5. ParseInstruction(d, a) = p
  BY ONLY <1>3, TransferAuthorityRead
<1>6. Index(p) = p
  BY DEF Index
<1>7. Arrives(p, c)
  <2>1. /\ DOMAIN p = {"instruction", "signer", "state_pda", "role", "new_authority"}
        /\ p.instruction = "TransferAuthority"
        /\ p.signer = c.signer
        /\ p.state_pda = StatePda
        /\ p.role = c.role
        /\ p.new_authority = c.new_authority
    OBVIOUS
  <2> HIDE DEF p
  <2>2. p # Refused
    BY <2>1 DEF Refused
  <2>3. Agree(p, c)
    BY <1>1, <2>1 DEF Agree
  <2>4. RightAddresses(p, c)
    BY <1>1, <2>1 DEF RightAddresses
  <2> QED BY <1>1, <2>2, <2>3, <2>4 DEF Arrives
<1> HIDE DEF a, p
<1>8. IsRead(i, c)
  BY <1>1, <1>4, <1>5, <1>6, <1>7, IsReadIf, Zenon
<1> QED BY <1>8, Zenon DEF i

LEMMA IntentEncoded ==
    ASSUME NEW i \in Intents
    PROVE  LET e == EncodeIntent(i) IN
           e \in Seq(Bytes) /\ Len(e) = IntentSize /\ e # <<>> /\ DecodeIntent(e) = i
<1> DEFINE e == EncodeIntent(i)
<1>1. e \in Seq(Bytes) /\ Len(e) = IntentSize
  BY EncodedIntent, Zenon
<1>2. IntentSize # 0
  BY OrderWidthsAre, WireConstants
<1>3. DecodeIntent(e) = i
  BY IntentForth, Zenon
<1> HIDE DEF e
<1>4. e # <<>>
  BY <1>1, <1>2
<1> QED BY <1>1, <1>3, <1>4, Zenon DEF e

LEMMA CreateOrderRead ==
    ASSUME NEW d, NEW a, NEW s, NEW x1, NEW x2, NEW x3, NEW x4, a = <<x1, x2, x3, x4>>,
           IsTagged(d, 2, s), Len(s) = IntentSize
    PROVE  ParseInstruction(d, a) =
               [instruction |-> "CreateOrder", intent_bytes |-> s, owner |-> x1, created_by |-> x2,
                order_pda |-> x3]
<1>1. ParseInstruction(d, a) = ParseCreateOrder(s, a)
  BY Dispatched, Zenon
<1>2. Len(a) = 4 /\ a[1] = x1 /\ a[2] = x2 /\ a[3] = x3 /\ a[4] = x4
  OBVIOUS
<1>3. ~(Len(s) # IntentSize \/ Len(a) < 4)
  BY <1>2
<1> QED BY <1>1, <1>2, <1>3, Zenon DEF ParseCreateOrder

LEMMA CreationArrives ==
    ASSUME NEW c, IsCall(c), c.name = "CreateOrder"
    PROVE  IsRead(Client(c), c)
<1> DEFINE e == EncodeIntent(c.intent)
           d == <<2>> \o e
           a == <<c.owner, c.created_by, OrderPda(e), SystemProgram>>
           x1 == NewReadonly(c.owner, TRUE)
           x2 == New(c.created_by, TRUE)
           x3 == New(OrderPda(e), FALSE)
           x4 == NewReadonly(SystemProgram, FALSE)
           m == <<x1, x2, x3, x4>>
           p == [instruction |-> "CreateOrder",
                 intent_bytes |-> e,
                 owner |-> c.owner,
                 created_by |-> c.created_by,
                 order_pda |-> OrderPda(e)]
           i == Client(c)
           q == Joined(p, [intent |-> c.intent])
<1>0. DOMAIN c = {"name", "owner", "created_by", "intent"} /\ c.intent \in Intents
  BY OrderCall
<1>1. e \in Seq(Bytes) /\ Len(e) = IntentSize /\ e # <<>> /\ DecodeIntent(e) = c.intent
  BY <1>0, IntentEncoded, Zenon
<1>2. i = [data |-> d, accounts |-> m]
  BY <1>1, CreateOrderIs, Zenon
<1>3. IsTagged(d, 2, e)
  BY <1>1 DEF IsTagged
<1>4. KeysAlone(m) = a
  <2>1. x1.key = c.owner /\ x2.key = c.created_by /\ x3.key = OrderPda(e) /\ x4.key = SystemProgram
    BY Zenon DEF New, NewReadonly
  <2> HIDE DEF x1, x2, x3, x4
  <2> QED BY ONLY <2>1, KeysOfFour
<1> HIDE DEF d, m, i, e
<1>5. ParseInstruction(d, a) = p
  BY ONLY <1>1, <1>3, CreateOrderRead
<1>6. /\ DOMAIN p = {"instruction", "intent_bytes", "owner", "created_by", "order_pda"}
      /\ p.instruction = "CreateOrder"
      /\ p.intent_bytes = e
      /\ p.owner = c.owner
      /\ p.created_by = c.created_by
      /\ p.order_pda = OrderPda(e)
  OBVIOUS
<1> HIDE DEF a, p
<1>7. Index(p) = q
  <2>1. "intent_bytes" \in DOMAIN p
    BY <1>6
  <2> QED BY <1>1, <1>6, <2>1, Zenon DEF Index
<1>8. /\ DOMAIN q = DOMAIN p \cup {"intent"} /\ q.intent = c.intent
      /\ \A f \in DOMAIN p : q[f] = p[f]
  BY <1>6 DEF Joined
<1>9. Arrives(q, c)
  <2>0. e = EncodeIntent(c.intent)
    BY Zenon DEF e
  <2> HIDE DEF q
  <2>1. /\ DOMAIN q = {"instruction", "intent", "intent_bytes", "owner", "created_by", "order_pda"}
        /\ q.instruction = "CreateOrder"
        /\ q.intent_bytes = e
        /\ q.owner = c.owner
        /\ q.created_by = c.created_by
        /\ q.order_pda = OrderPda(e)
    BY <1>6, <1>8
  <2>2. q # Refused
    BY <1>6, <2>1 DEF Refused
  <2>3. Agree(q, c)
    BY <1>0, <1>6, <1>8, <2>1 DEF Agree
  <2>4. RightAddresses(q, c)
    BY <1>0, <1>6, <2>0, <2>1 DEF RightAddresses
  <2> QED BY <1>0, <2>2, <2>3, <2>4 DEF Arrives
<1> HIDE DEF q
<1>10. IsRead(i, c)
  BY <1>2, <1>4, <1>5, <1>7, <1>9, IsReadIf, Zenon
<1> QED BY <1>10, Zenon DEF i

LEMMA CreateOwnRead ==
    ASSUME NEW d, NEW a, NEW s, NEW x1, NEW x2, NEW x3, NEW x4, NEW x5, a = <<x1, x2, x3, x4, x5>>,
           IsTagged(d, 10, s), Len(s) = IntentSize
    PROVE  ParseInstruction(d, a) =
               [instruction |-> "CreateSettlementOwnedOrder", intent_bytes |-> s, authority |-> x1,
                created_by |-> x2, state_pda |-> x3, order_pda |-> x4]
<1>1. ParseInstruction(d, a) = ParseCreateSettlementOwnedOrder(s, a)
  BY Dispatched, ZenonT(60)
<1>2. Len(a) = 5 /\ a[1] = x1 /\ a[2] = x2 /\ a[3] = x3 /\ a[4] = x4 /\ a[5] = x5
  OBVIOUS
<1>3. ~(Len(s) # IntentSize \/ Len(a) < 5)
  BY <1>2
<1> QED BY <1>1, <1>2, <1>3, Zenon DEF ParseCreateSettlementOwnedOrder

LEMMA OwnCreationArrives ==
    ASSUME NEW c, IsCall(c), c.name = "CreateSettlementOwnedOrder"
    PROVE  IsRead(Client(c), c)
<1> DEFINE e == EncodeIntent(c.intent)
           d == <<10>> \o e
           a == <<c.authority, c.created_by, StatePda, OrderPda(e), SystemProgram>>
           x1 == NewReadonly(c.authority, TRUE)
           x2 == New(c.created_by, TRUE)
           x3 == NewReadonly(StatePda, FALSE)
           x4 == New(OrderPda(e), FALSE)
           x5 == NewReadonly(SystemProgram, FALSE)
           m == <<x1, x2, x3, x4, x5>>
           p == [instruction |-> "CreateSettlementOwnedOrder",
                 intent_bytes |-> e,
                 authority |-> c.authority,
                 created_by |-> c.created_by,
                 state_pda |-> StatePda,
                 order_pda |-> OrderPda(e)]
           i == Client(c)
           q == Joined(p, [intent |-> c.intent])
<1>0. DOMAIN c = {"name", "authority", "created_by", "intent"} /\ c.intent \in Intents
  BY OwnOrderCall
<1>1. e \in Seq(Bytes) /\ Len(e) = IntentSize /\ e # <<>> /\ DecodeIntent(e) = c.intent
  BY <1>0, IntentEncoded, Zenon
<1>2. i = [data |-> d, accounts |-> m]
  BY <1>1, CreateSettlementOwnedOrderIs, Zenon
<1>3. IsTagged(d, 10, e)
  BY <1>1 DEF IsTagged
<1>4. KeysAlone(m) = a
  <2>1. /\ x1.key = c.authority /\ x2.key = c.created_by /\ x3.key = StatePda
        /\ x4.key = OrderPda(e) /\ x5.key = SystemProgram
    BY Zenon DEF New, NewReadonly
  <2> HIDE DEF x1, x2, x3, x4, x5
  <2> QED BY ONLY <2>1, KeysOfFive
<1> HIDE DEF d, m, i, e
<1>5. ParseInstruction(d, a) = p
  BY ONLY <1>1, <1>3, CreateOwnRead
<1>6. /\ DOMAIN p = {"instruction", "intent_bytes", "authority", "created_by", "state_pda", "order_pda"}
      /\ p.instruction = "CreateSettlementOwnedOrder"
      /\ p.intent_bytes = e
      /\ p.authority = c.authority
      /\ p.created_by = c.created_by
      /\ p.state_pda = StatePda
      /\ p.order_pda = OrderPda(e)
  OBVIOUS
<1> HIDE DEF a, p
<1>7. Index(p) = q
  <2>1. "intent_bytes" \in DOMAIN p
    BY <1>6
  <2> QED BY <1>1, <1>6, <2>1, Zenon DEF Index
<1>8. /\ DOMAIN q = DOMAIN p \cup {"intent"} /\ q.intent = c.intent
      /\ \A f \in DOMAIN p : q[f] = p[f]
  BY <1>6 DEF Joined
<1>9. Arrives(q, c)
  <2>0. e = EncodeIntent(c.intent)
    BY Zenon DEF e
  <2> HIDE DEF q
  <2>1. /\ DOMAIN q = {"instruction", "intent", "intent_bytes", "authority", "created_by", "state_pda", "order_pda"}
        /\ q.instruction = "CreateSettlementOwnedOrder"
        /\ q.intent_bytes = e
        /\ q.authority = c.authority
        /\ q.created_by = c.created_by
        /\ q.state_pda = StatePda
        /\ q.order_pda = OrderPda(e)
    BY <1>6, <1>8
  <2>2. q # Refused
    BY <1>6, <2>1 DEF Refused
  <2>3. Agree(q, c)
    BY <1>0, <1>6, <1>8, <2>1 DEF Agree
  <2>4. RightAddresses(q, c)
    BY <1>0, <1>6, <2>0, <2>1 DEF RightAddresses
  <2> QED BY <1>0, <2>2, <2>3, <2>4 DEF Arrives
<1> HIDE DEF q
<1>10. IsRead(i, c)
  BY <1>2, <1>4, <1>5, <1>7, <1>9, IsReadIf, Zenon
<1> QED BY <1>10, Zenon DEF i

LEMMA LeastOfTwo ==
    ASSUME NEW i \in Nat, NEW j \in Nat, i <= j
    PROVE  Min({i, j}) = i /\ Min({j, i}) = i
<1>1. \A y \in {i, j} : i <= y
  OBVIOUS
<1>2. \A x \in {i, j} : (\A y \in {i, j} : x <= y) => x = i
  OBVIOUS
<1>3. {i, j} = {j, i}
  OBVIOUS
<1> QED BY <1>1, <1>2, <1>3 DEF Min

LEMMA CancelOrderRead ==
    ASSUME NEW d, NEW a, NEW s, NEW x1, NEW x2, NEW x3, NEW x4, a = <<x1, x2, x3, x4>>,
           IsTagged(d, 11, s), Len(s) \in {0, IntentSize}
    PROVE  ParseInstruction(d, a) =
               [instruction |-> "CancelOrder", intent_bytes |-> s, owner |-> x1, created_by |-> x2,
                order_pda |-> x3, state_pda |-> <<>>]
<1>1. ParseInstruction(d, a) = ParseCancelOrder(s, a)
  BY Dispatched, ZenonT(60)
<1>2. Len(a) = 4 /\ a[1] = x1 /\ a[2] = x2 /\ a[3] = x3 /\ a[4] = x4
  OBVIOUS
<1>3. ~(Len(s) \notin {0, IntentSize} \/ Len(a) < 4)
  BY <1>2
<1>4. SubSeq(a, 5, Min({5, Len(a)})) = <<>>
  <2>1. Min({5, 4}) = 4
    BY LeastOfTwo
  <2> QED BY <1>2, <2>1
<1> QED BY <1>1, <1>2, <1>3, <1>4, Zenon DEF ParseCancelOrder

LEMMA CutOne ==
    ASSUME NEW S, NEW s \in Seq(S), NEW k \in 1..Len(s)
    PROVE  SubSeq(s, k, k) = <<s[k]>>
<1> DEFINE t == SubSeq(s, k, k)
<1>1. t \in Seq(S) /\ Len(t) = 1 /\ t[1] = s[k]
  OBVIOUS
<1> HIDE DEF t
<1>2. t = <<s[k]>>
  BY <1>1
<1> QED BY <1>2 DEF t

LEMMA CancelOwnRead ==
    ASSUME NEW d, NEW a, NEW s, NEW x1, NEW x2, NEW x3, NEW x4, NEW x5, a = <<x1, x2, x3, x4, x5>>,
           IsTagged(d, 11, s), Len(s) \in {0, IntentSize}
    PROVE  ParseInstruction(d, a) =
               [instruction |-> "CancelOrder", intent_bytes |-> s, owner |-> x1, created_by |-> x2,
                order_pda |-> x3, state_pda |-> <<x5>>]
<1>1. ParseInstruction(d, a) = ParseCancelOrder(s, a)
  BY Dispatched, ZenonT(60)
<1>2. Len(a) = 5 /\ a[1] = x1 /\ a[2] = x2 /\ a[3] = x3 /\ a[4] = x4 /\ a[5] = x5
  OBVIOUS
<1>3. ~(Len(s) \notin {0, IntentSize} \/ Len(a) < 4)
  BY <1>2
<1>4. SubSeq(a, 5, Min({5, Len(a)})) = <<x5>>
  <2>1. Min({5, 5}) = 5
    BY LeastOfTwo
  <2>2. a \in Seq({x1, x2, x3, x4, x5}) /\ 5 \in 1..Len(a)
    BY <1>2
  <2>3. SubSeq(a, 5, 5) = <<a[5]>>
    BY ONLY <2>2, CutOne
  <2> QED BY <1>2, <2>1, <2>3
<1> QED BY <1>1, <1>2, <1>3, <1>4, Zenon DEF ParseCancelOrder

LEMMA CancellationArrives ==
    ASSUME NEW c, IsCall(c), c.name = "CancelOrder"
    PROVE  IsRead(Client(c), c)
<1> DEFINE e == EncodeIntent(c.intent)
           d == <<11>> \o e
           a == <<c.owner, c.created_by, OrderPda(e), SystemProgram>>
           x1 == NewReadonly(c.owner, TRUE)
           x2 == New(c.created_by, TRUE)
           x3 == New(OrderPda(e), FALSE)
           x4 == NewReadonly(SystemProgram, FALSE)
           m == <<x1, x2, x3, x4>>
           p == [instruction |-> "CancelOrder",
                 intent_bytes |-> e,
                 owner |-> c.owner,
                 created_by |-> c.created_by,
                 order_pda |-> OrderPda(e),
                 state_pda |-> <<>>]
           i == Client(c)
           q == Joined(p, [intent |-> c.intent])
<1>0. DOMAIN c = {"name", "owner", "created_by", "intent"} /\ c.intent \in Intents
  BY OrderCall
<1>1. e \in Seq(Bytes) /\ Len(e) = IntentSize /\ e # <<>> /\ DecodeIntent(e) = c.intent
  BY <1>0, IntentEncoded, Zenon
<1>2. i = [data |-> d, accounts |-> m]
  BY <1>1, CancelOrderIs, Zenon
<1>3. IsTagged(d, 11, e)
  BY <1>1 DEF IsTagged
<1>4. KeysAlone(m) = a
  <2>1. x1.key = c.owner /\ x2.key = c.created_by /\ x3.key = OrderPda(e) /\ x4.key = SystemProgram
    BY Zenon DEF New, NewReadonly
  <2> HIDE DEF x1, x2, x3, x4
  <2> QED BY ONLY <2>1, KeysOfFour
<1> HIDE DEF d, m, i, e
<1>5. ParseInstruction(d, a) = p
  BY ONLY <1>1, <1>3, CancelOrderRead
<1>6. /\ DOMAIN p = {"instruction", "intent_bytes", "owner", "created_by", "order_pda", "state_pda"}
      /\ p.instruction = "CancelOrder"
      /\ p.intent_bytes = e
      /\ p.owner = c.owner
      /\ p.created_by = c.created_by
      /\ p.order_pda = OrderPda(e)
      /\ p.state_pda = <<>>
  OBVIOUS
<1> HIDE DEF a, p
<1>7. Index(p) = q
  <2>1. "intent_bytes" \in DOMAIN p
    BY <1>6
  <2> QED BY <1>1, <1>6, <2>1, Zenon DEF Index
<1>8. /\ DOMAIN q = DOMAIN p \cup {"intent"} /\ q.intent = c.intent
      /\ \A f \in DOMAIN p : q[f] = p[f]
  BY <1>6 DEF Joined
<1>9. Arrives(q, c)
  <2>0. e = EncodeIntent(c.intent)
    BY Zenon DEF e
  <2> HIDE DEF q
  <2>1. /\ DOMAIN q = {"instruction", "intent", "intent_bytes", "owner", "created_by", "order_pda", "state_pda"}
        /\ q.instruction = "CancelOrder"
        /\ q.intent_bytes = e
        /\ q.owner = c.owner
        /\ q.created_by = c.created_by
        /\ q.order_pda = OrderPda(e)
        /\ q.state_pda = <<>>
    BY <1>6, <1>8
  <2>2. q # Refused
    BY <1>6, <2>1 DEF Refused
  <2>3. Agree(q, c)
    BY <1>0, <1>6, <1>8, <2>1 DEF Agree
  <2>4. RightAddresses(q, c)
    BY <1>0, <1>6, <2>0, <2>1 DEF RightAddresses
  <2> QED BY <1>0, <2>2, <2>3, <2>4 DEF Arrives
<1> HIDE DEF q
<1>10. IsRead(i, c)
  BY <1>2, <1>4, <1>5, <1>7, <1>9, IsReadIf, Zenon
<1> QED BY <1>10, Zenon DEF i

LEMMA OwnCancellationArrives ==
    ASSUME NEW c, IsCall(c), c.name = "CancelSettlementOwnedOrder"
    PROVE  IsRead(Client(c), c)
<1> DEFINE e == EncodeIntent(c.intent)
           d == <<11>> \o e
           a == <<c.authority, c.created_by, OrderPda(e), SystemProgram, StatePda>>
           x1 == NewReadonly(c.authority, TRUE)
           x2 == New(c.created_by, TRUE)
           x3 == New(OrderPda(e), FALSE)
           x4 == NewReadonly(SystemProgram, FALSE)
           x5 == NewReadonly(StatePda, FALSE)
           m == <<x1, x2, x3, x4, x5>>
           p == [instruction |-> "CancelOrder",
                 intent_bytes |-> e,
                 owner |-> c.authority,
                 created_by |-> c.created_by,
                 order_pda |-> OrderPda(e),
                 state_pda |-> <<StatePda>>]
           i == Client(c)
           q == Joined(p, [intent |-> c.intent])
<1>0. DOMAIN c = {"name", "authority", "created_by", "intent"} /\ c.intent \in Intents
  BY OwnOrderCall
<1>1. e \in Seq(Bytes) /\ Len(e) = IntentSize /\ e # <<>> /\ DecodeIntent(e) = c.intent
  BY <1>0, IntentEncoded, Zenon
<1>2. i = [data |-> d, accounts |-> m]
  BY <1>1, CancelSettlementOwnedOrderIs, Zenon
<1>3. IsTagged(d, 11, e)
  BY <1>1 DEF IsTagged
<1>4. KeysAlone(m) = a
  <2>1. /\ x1.key = c.authority /\ x2.key = c.created_by /\ x3.key = OrderPda(e)
        /\ x4.key = SystemProgram /\ x5.key = StatePda
    BY Zenon DEF New, NewReadonly
  <2> HIDE DEF x1, x2, x3, x4, x5
  <2> QED BY ONLY <2>1, KeysOfFive
<1> HIDE DEF d, m, i, e
<1>5. ParseInstruction(d, a) = p
  BY ONLY <1>1, <1>3, CancelOwnRead
<1>6. /\ DOMAIN p = {"instruction", "intent_bytes", "owner", "created_by", "order_pda", "state_pda"}
      /\ p.instruction = "CancelOrder"
      /\ p.intent_bytes = e
      /\ p.owner = c.authority
      /\ p.created_by = c.created_by
      /\ p.order_pda = OrderPda(e)
      /\ p.state_pda = <<StatePda>>
  OBVIOUS
<1> HIDE DEF a, p
<1>7. Index(p) = q
  <2>1. "intent_bytes" \in DOMAIN p
    BY <1>6
  <2> QED BY <1>1, <1>6, <2>1, Zenon DEF Index
<1>8. /\ DOMAIN q = DOMAIN p \cup {"intent"} /\ q.intent = c.intent
      /\ \A f \in DOMAIN p : q[f] = p[f]
  BY <1>6 DEF Joined
<1>9. Arrives(q, c)
  <2>0. e = EncodeIntent(c.intent)
    BY Zenon DEF e
  <2> HIDE DEF q
  <2>1. /\ DOMAIN q = {"instruction", "intent", "intent_bytes", "owner", "created_by", "order_pda", "state_pda"}
        /\ q.instruction = "CancelOrder"
        /\ q.intent_bytes = e
        /\ q.owner = c.authority
        /\ q.created_by = c.created_by
        /\ q.order_pda = OrderPda(e)
        /\ q.state_pda = <<StatePda>>
    BY <1>6, <1>8
  <2>2. q # Refused
    BY <1>6, <2>1 DEF Refused
  <2>3. Agree(q, c)
    BY <1>0, <1>6, <1>8, <2>1 DEF Agree
  <2>4. RightAddresses(q, c)
    BY <1>0, <1>6, <2>0, <2>1 DEF RightAddresses
  <2> QED BY <1>0, <2>2, <2>3, <2>4 DEF Arrives
<1> HIDE DEF q
<1>10. IsRead(i, c)
  BY <1>2, <1>4, <1>5, <1>7, <1>9, IsReadIf, Zenon
<1> QED BY <1>10, Zenon DEF i

LEMMA OutstandingArrives ==
    ASSUME NEW c, IsCall(c), c.name = "CancelOutstandingOrder"
    PROVE  IsRead(Client(c), c)
<1> DEFINE e == EncodeIntent(c.intent)
           d == <<11>>
           a == <<c.owner, c.created_by, OrderPda(e), SystemProgram>>
           x1 == NewReadonly(c.owner, TRUE)
           x2 == NewReadonly(c.created_by, FALSE)
           x3 == New(OrderPda(e), FALSE)
           x4 == NewReadonly(SystemProgram, FALSE)
           m == <<x1, x2, x3, x4>>
           p == [instruction |-> "CancelOrder",
                 intent_bytes |-> <<>>,
                 owner |-> c.owner,
                 created_by |-> c.created_by,
                 order_pda |-> OrderPda(e),
                 state_pda |-> <<>>]
           i == Client(c)
<1>0. DOMAIN c = {"name", "owner", "created_by", "intent"} /\ c.intent \in Intents
  BY OrderCall
<1>1. e \in Seq(Bytes) /\ Len(e) = IntentSize /\ e # <<>> /\ DecodeIntent(e) = c.intent
  BY <1>0, IntentEncoded, Zenon
<1>2. i = [data |-> d, accounts |-> m]
  BY <1>1, CancelOutstandingOrderIs, Zenon
<1>3. IsTagged(d, 11, <<>>) /\ Len(<<>>) = 0
  BY DEF IsTagged
<1>4. KeysAlone(m) = a
  <2>1. x1.key = c.owner /\ x2.key = c.created_by /\ x3.key = OrderPda(e) /\ x4.key = SystemProgram
    BY Zenon DEF New, NewReadonly
  <2> HIDE DEF x1, x2, x3, x4
  <2> QED BY ONLY <2>1, KeysOfFour
<1> HIDE DEF d, m, i, e
<1>5. ParseInstruction(d, a) = p
  BY ONLY <1>1, <1>3, CancelOrderRead
<1>6. /\ DOMAIN p = {"instruction", "intent_bytes", "owner", "created_by", "order_pda", "state_pda"}
      /\ p.instruction = "CancelOrder"
      /\ p.intent_bytes = <<>>
      /\ p.owner = c.owner
      /\ p.created_by = c.created_by
      /\ p.order_pda = OrderPda(e)
      /\ p.state_pda = <<>>
  OBVIOUS
<1> HIDE DEF a, p
<1>7. Index(p) = p
  BY <1>6, Zenon DEF Index
<1>8. e = EncodeIntent(c.intent)
  BY Zenon DEF e
<1>9. Arrives(p, c)
  <2>0. e = EncodeIntent(c.intent)
    BY <1>8, Zenon
  <2>1. TRUE
    OBVIOUS
  <2>2. p # Refused
    BY <1>6, <2>1 DEF Refused
  <2>3. Agree(p, c)
    BY <1>0, <1>6, <1>8, <2>1 DEF Agree
  <2>4. RightAddresses(p, c)
    BY <1>0, <1>6, <2>0, <2>1 DEF RightAddresses
  <2> QED BY <1>0, <2>2, <2>3, <2>4 DEF Arrives
<1> HIDE DEF e
<1>10. IsRead(i, c)
  BY <1>2, <1>4, <1>5, <1>7, <1>9, IsReadIf, Zenon
<1> QED BY <1>10, Zenon DEF i

LEMMA ReclaimAloneRead ==
    ASSUME NEW d, NEW a, NEW s, NEW x1, NEW x2, a = <<x1, x2>>,
           IsTagged(d, 5, s), s = <<>>
    PROVE  ParseInstruction(d, a) =
               [instruction |-> "ReclaimOrder", order_pda |-> x1, reclaim_recipient |-> x2,
                owner |-> <<>>]
<1>1. ParseInstruction(d, a) = ParseReclaimOrder(s, a)
  BY Dispatched, ZenonT(60)
<1>2. Len(a) = 2 /\ a[1] = x1 /\ a[2] = x2
  OBVIOUS
<1>3. ~(s # <<>> \/ Len(a) < 2)
  BY <1>2
<1>4. SubSeq(a, 3, Min({3, Len(a)})) = <<>>
  <2>1. Min({3, 2}) = 2
    BY LeastOfTwo
  <2> QED BY <1>2, <2>1
<1> QED BY <1>1, <1>2, <1>3, <1>4, Zenon DEF ParseReclaimOrder

LEMMA ReclaimOwnerRead ==
    ASSUME NEW d, NEW a, NEW s, NEW x1, NEW x2, NEW x3, a = <<x1, x2, x3>>,
           IsTagged(d, 5, s), s = <<>>
    PROVE  ParseInstruction(d, a) =
               [instruction |-> "ReclaimOrder", order_pda |-> x1, reclaim_recipient |-> x2,
                owner |-> <<x3>>]
<1>1. ParseInstruction(d, a) = ParseReclaimOrder(s, a)
  BY Dispatched, ZenonT(60)
<1>2. Len(a) = 3 /\ a[1] = x1 /\ a[2] = x2 /\ a[3] = x3
  OBVIOUS
<1>3. ~(s # <<>> \/ Len(a) < 2)
  BY <1>2
<1>4. SubSeq(a, 3, Min({3, Len(a)})) = <<x3>>
  <2>1. Min({3, 3}) = 3
    BY LeastOfTwo
  <2>2. a \in Seq({x1, x2, x3}) /\ 3 \in 1..Len(a)
    BY <1>2
  <2>3. SubSeq(a, 3, 3) = <<a[3]>>
    BY ONLY <2>2, CutOne
  <2> QED BY <1>2, <2>1, <2>3
<1> QED BY <1>1, <1>2, <1>3, <1>4, Zenon DEF ParseReclaimOrder

LEMMA ReclaimArrives ==
    ASSUME NEW c, IsCall(c), c.name = "ReclaimOrder"
    PROVE  IsRead(Client(c), c)
<1> DEFINE e == EncodeIntent(c.intent)
           x1 == New(OrderPda(e), FALSE)
           x2 == New(c.reclaim_recipient, FALSE)
           o == c.owner
           l == [k \in 1..Len(o) |-> NewReadonly(o[k], TRUE)]
           d == <<5>>
           m == <<x1, x2>> \o l
           p == [instruction |-> "ReclaimOrder", order_pda |-> OrderPda(e),
                 reclaim_recipient |-> c.reclaim_recipient, owner |-> o]
           i == Client(c)
<1>1. /\ DOMAIN c = {"name", "reclaim_recipient", "owner", "intent"}
      /\ o \in Seq(Key) /\ Len(o) <= 1 /\ i = [data |-> d, accounts |-> m]
  BY ReclaimOrderIs, Zenon
<1>2. x1.key = OrderPda(e) /\ x2.key = c.reclaim_recipient
  BY Zenon DEF New, NewReadonly
<1>3. IsTagged(d, 5, <<>>)
  BY DEF IsTagged
<1>4. ParseInstruction(d, KeysAlone(m)) = p
  <2>1. CASE Len(o) = 0
    <3>1. o = <<>>
      BY <1>1, <2>1
    <3>2. l = <<>>
      BY <2>1
    <3> HIDE DEF l, x1, x2, d, o
    <3>3. m = <<x1, x2>>
      BY <3>2
    <3>4. KeysAlone(<<x1, x2>>) = <<OrderPda(e), c.reclaim_recipient>>
      BY ONLY <1>2, KeysOfTwo
    <3> DEFINE a == <<OrderPda(e), c.reclaim_recipient>>
    <3>5. ParseInstruction(d, a) =
            [instruction |-> "ReclaimOrder", order_pda |-> OrderPda(e),
             reclaim_recipient |-> c.reclaim_recipient, owner |-> <<>>]
      <4> HIDE DEF e
      <4> QED BY ONLY <1>3, ReclaimAloneRead
    <3> QED BY <3>1, <3>3, <3>4, <3>5, Zenon
  <2>2. CASE Len(o) = 1
    <3> DEFINE x3 == NewReadonly(o[1], TRUE)
    <3>1. o = <<o[1]>>
      BY <1>1, <2>2
    <3>2. l \in [1..1 -> {x3}]
      <4>1. ASSUME NEW k \in 1..1 PROVE NewReadonly(o[k], TRUE) = x3
        <5>1. k = 1
          OBVIOUS
        <5> QED BY <5>1, Zenon
      <4> QED BY <2>2, <4>1, Zenon
    <3>3. x3.key = o[1]
      BY Zenon DEF NewReadonly
    <3> HIDE DEF l, x1, x2, x3, d, o
    <3>4. m = <<x1, x2, x3>>
      BY ONLY <3>2, TwoAndOne
    <3>5. KeysAlone(<<x1, x2, x3>>) = <<OrderPda(e), c.reclaim_recipient, o[1]>>
      BY ONLY <1>2, <3>3, KeysOfThree
    <3> DEFINE a == <<OrderPda(e), c.reclaim_recipient, o[1]>>
    <3>6. ParseInstruction(d, a) =
            [instruction |-> "ReclaimOrder", order_pda |-> OrderPda(e),
             reclaim_recipient |-> c.reclaim_recipient, owner |-> <<o[1]>>]
      <4> HIDE DEF e
      <4> QED BY ONLY <1>3, ReclaimOwnerRead
    <3> QED BY <3>1, <3>4, <3>5, <3>6, Zenon
  <2> QED
    <3>1. Len(o) \in Nat
      BY <1>1
    <3>2. Len(o) = 0 \/ Len(o) = 1
      BY <1>1, <3>1
    <3> QED BY <2>1, <2>2, <3>2, Zenon
<1>5. /\ DOMAIN p = {"instruction", "order_pda", "reclaim_recipient", "owner"}
      /\ p.instruction = "ReclaimOrder" /\ p.order_pda = OrderPda(e)
      /\ p.reclaim_recipient = c.reclaim_recipient /\ p.owner = c.owner
  OBVIOUS
<1>6. e = EncodeIntent(c.intent)
  OBVIOUS
<1> HIDE DEF e, d, m, i, p
<1>7. Index(p) = p
  BY <1>5 DEF Index
<1>8. Arrives(p, c)
  <2>2. p # Refused
    BY <1>5 DEF Refused
  <2>3. Agree(p, c)
    BY <1>1, <1>5 DEF Agree
  <2>4. RightAddresses(p, c)
    BY <1>1, <1>5, <1>6 DEF RightAddresses
  <2> QED BY <1>1, <2>2, <2>3, <2>4 DEF Arrives
<1>9. IsRead(i, c)
  BY <1>1, <1>4, <1>7, <1>8, IsReadIf, Zenon
<1> QED BY <1>9, Zenon DEF i
FourKeys(s, k1, k2, k3, k4) ==
    k1 \in Key /\ k2 \in Key /\ k3 \in Key /\ k4 \in Key /\ s = k1 \o k2 \o k3 \o k4

LEMMA FourKeysCut ==
    ASSUME NEW k1, NEW k2, NEW k3, NEW k4, NEW s, FourKeys(s, k1, k2, k3, k4)
    PROVE  /\ s \in Seq(Bytes) /\ Len(s) = 4 * KeyWidth
           /\ Chunk(s, KeyWidth, 1) = k1 /\ Chunk(s, KeyWidth, 2) = k2
           /\ Chunk(s, KeyWidth, 3) = k3 /\ Chunk(s, KeyWidth, 4) = k4
<1> DEFINE w == KeyWidth
           a2 == k1 \o k2
           a3 == a2 \o k3
<1>1. /\ k1 \in Seq(Bytes) /\ k2 \in Seq(Bytes) /\ k3 \in Seq(Bytes) /\ k4 \in Seq(Bytes)
      /\ Len(k1) = w /\ Len(k2) = w /\ Len(k3) = w /\ Len(k4) = w
  BY KeyIsSeq, Zenon DEF FourKeys
<1>2. w \in Nat
  BY WireConstants
<1> HIDE DEF w
<1>3. a2 \in Seq(Bytes) /\ Len(a2) = w + w
  BY ONLY <1>1, TwoParts
<1>4. s = a3 \o k4
  BY Zenon DEF FourKeys
<1> HIDE DEF a2
<1>5. a3 \in Seq(Bytes) /\ Len(a3) = (w + w) + w
  BY ONLY <1>1, <1>3, TwoParts
<1>6. a3 = a2 \o k3 /\ a2 = k1 \o k2
  BY DEF a2
<1> HIDE DEF a3
<1>7. s \in Seq(Bytes) /\ Len(s) = ((w + w) + w) + w
  <2>1. a3 \o k4 \in Seq(Bytes) /\ Len(a3 \o k4) = Len(a3) + Len(k4)
    BY ONLY <1>1, <1>5, TwoParts
  <2> QED BY <1>1, <1>4, <1>5, <2>1, Zenon
<1>8. Holds(s, 1, s) /\ 1 \in Nat \ {0}
  <2>1. 1 \in Nat \ {0}
    OBVIOUS
  <2> QED BY <1>7, <2>1, HoldsItself, Zenon
<1>9. Holds(s, 1, a3) /\ Holds(s, 1 + Len(a3), k4)
  <2>1. Holds(s, 1, a3 \o k4)
    BY <1>4, <1>8, Zenon
  <2> QED BY ONLY <1>1, <1>5, <1>7, <1>8, <2>1, HoldsParts
<1>10. Holds(s, 1, a2) /\ Holds(s, 1 + Len(a2), k3)
  <2>1. Holds(s, 1, a2 \o k3)
    BY <1>6, <1>9, Zenon
  <2> QED BY ONLY <1>1, <1>3, <1>7, <1>8, <2>1, HoldsParts
<1>11. Holds(s, 1, k1) /\ Holds(s, 1 + Len(k1), k2)
  <2>1. Holds(s, 1, k1 \o k2)
    BY <1>6, <1>10, Zenon
  <2> QED BY ONLY <1>1, <1>7, <1>8, <2>1, HoldsParts
<1>12. ASSUME NEW p \in Nat, NEW k \in Seq(Bytes), Len(k) = w, Holds(s, 1 + p, k)
       PROVE  SubSeq(s, p + 1, p + w) = k
  <2>1. 1 + p \in Nat \ {0} /\ 1 + p = p + 1 /\ (1 + p) + Len(k) - 1 = p + w
    BY <1>2, <1>12
  <2>2. SubSeq(s, 1 + p, (1 + p) + Len(k) - 1) = k
    BY ONLY <1>7, <1>12, <2>1, CutOut
  <2> QED BY <2>1, <2>2
<1>13. /\ SubSeq(s, 0 + 1, 0 + w) = k1 /\ SubSeq(s, w + 1, w + w) = k2
       /\ SubSeq(s, (w + w) + 1, (w + w) + w) = k3
       /\ SubSeq(s, ((w + w) + w) + 1, ((w + w) + w) + w) = k4
  <2>1. 0 \in Nat /\ w + w \in Nat /\ (w + w) + w \in Nat /\ Holds(s, 1 + 0, k1)
    BY <1>2, <1>11
  <2>2. Holds(s, 1 + w, k2) /\ Holds(s, 1 + (w + w), k3) /\ Holds(s, 1 + ((w + w) + w), k4)
    BY <1>1, <1>3, <1>5, <1>9, <1>10, <1>11, Zenon
  <2> QED BY ONLY <1>1, <1>2, <1>12, <2>1, <2>2
<1>14. /\ Chunk(s, w, 1) = SubSeq(s, 0 + 1, 0 + w) /\ Chunk(s, w, 2) = SubSeq(s, w + 1, w + w)
       /\ Chunk(s, w, 3) = SubSeq(s, (w + w) + 1, (w + w) + w)
       /\ Chunk(s, w, 4) = SubSeq(s, ((w + w) + w) + 1, ((w + w) + w) + w)
  <2>1. /\ (1 - 1) * w + 1 = 0 + 1 /\ 1 * w = 0 + w /\ (2 - 1) * w + 1 = w + 1 /\ 2 * w = w + w
        /\ (3 - 1) * w + 1 = (w + w) + 1 /\ 3 * w = (w + w) + w
        /\ (4 - 1) * w + 1 = ((w + w) + w) + 1 /\ 4 * w = ((w + w) + w) + w
    BY <1>2
  <2> QED BY <2>1, Zenon DEF Chunk
<1>15. Len(s) = 4 * w
  BY <1>2, <1>7
<1> QED BY <1>7, <1>13, <1>14, <1>15, Zenon DEF w

AreCuts(s, k1, k2, k3, k4) ==
    /\ Len(s) = 4 * KeyWidth
    /\ Chunk(s, KeyWidth, 1) = k1 /\ Chunk(s, KeyWidth, 2) = k2
    /\ Chunk(s, KeyWidth, 3) = k3 /\ Chunk(s, KeyWidth, 4) = k4

LEMMA InitializeRead ==
    ASSUME NEW d, NEW a, NEW s, NEW x1, NEW x2, NEW x3, NEW x4, a = <<x1, x2, x3, x4>>,
           IsTagged(d, 3, s), NEW k1, NEW k2, NEW k3, NEW k4, AreCuts(s, k1, k2, k3, k4)
    PROVE  ParseInstruction(d, a) =
               [instruction |-> "Initialize", payer |-> x1, state_pda |-> x2,
                native_sol_buffer |-> x3,
                manager |-> k1, solver_authority |-> k2, reclaim_authority |-> k3,
                settlement_owned_order_authority |-> k4]
<1>1. ParseInstruction(d, a) = ParseInitialize(s, a)
  BY ONLY IsTagged(d, 3, s), Dispatched
<1>2. Len(a) = 4 /\ a[1] = x1 /\ a[2] = x2 /\ a[3] = x3 /\ a[4] = x4
  OBVIOUS
<1>3. ~(Len(s) # 4 * KeyWidth \/ Len(a) < 4)
  BY <1>2 DEF AreCuts
<1> QED BY <1>1, <1>2, <1>3, Zenon DEF ParseInitialize, AreCuts

AreSeqs(S, t, k1, k2, k3, k4) ==
    t \in Seq(S) /\ k1 \in Seq(S) /\ k2 \in Seq(S) /\ k3 \in Seq(S) /\ k4 \in Seq(S)

LEMMA FirstOfFive ==
    ASSUME NEW S, NEW t, NEW k1, NEW k2, NEW k3, NEW k4, AreSeqs(S, t, k1, k2, k3, k4)
    PROVE  t \o k1 \o k2 \o k3 \o k4 = t \o (k1 \o k2 \o k3 \o k4)
<1>1. t \in Seq(S) /\ k1 \in Seq(S) /\ k2 \in Seq(S) /\ k3 \in Seq(S) /\ k4 \in Seq(S)
  BY Zenon DEF AreSeqs
<1>2. (t \o k1) \o k2 = t \o (k1 \o k2) /\ k1 \o k2 \in Seq(S)
  <2>1. t \in Seq(S) /\ k1 \in Seq(S) /\ k2 \in Seq(S)
    BY <1>1, Zenon
  <2> QED BY ONLY <2>1, SMTT(60)
<1> DEFINE a2 == k1 \o k2
<1>3. (t \o k1) \o k2 = t \o a2 /\ a2 \in Seq(S)
  BY <1>2, Zenon
<1> HIDE DEF a2
<1>4. (t \o a2) \o k3 = t \o (a2 \o k3) /\ a2 \o k3 \in Seq(S)
  <2>1. t \in Seq(S) /\ a2 \in Seq(S) /\ k3 \in Seq(S)
    BY <1>1, <1>3, Zenon
  <2> QED BY ONLY <2>1, SMTT(60)
<1> DEFINE a3 == a2 \o k3
<1>5. (t \o a2) \o k3 = t \o a3 /\ a3 \in Seq(S)
  BY <1>4, Zenon
<1> HIDE DEF a3
<1>6. (t \o a3) \o k4 = t \o (a3 \o k4) /\ a3 \o k4 \in Seq(S)
  <2>1. t \in Seq(S) /\ a3 \in Seq(S) /\ k4 \in Seq(S)
    BY <1>1, <1>5, Zenon
  <2> QED BY ONLY <2>1, SMTT(60)
<1> QED BY <1>3, <1>5, <1>6, Zenon DEF a2, a3

LEMMA InitializeTagged ==
    ASSUME NEW k1 \in Key, NEW k2 \in Key, NEW k3 \in Key, NEW k4 \in Key
    PROVE  LET s == k1 \o k2 \o k3 \o k4 IN
           IsTagged(<<3>> \o k1 \o k2 \o k3 \o k4, 3, s) /\ AreCuts(s, k1, k2, k3, k4)
<1> DEFINE s == k1 \o k2 \o k3 \o k4
           d == <<3>> \o k1 \o k2 \o k3 \o k4
<1>1. k1 \in Key /\ k2 \in Key /\ k3 \in Key /\ k4 \in Key
  OBVIOUS
<1>2. s \in Seq(Bytes) /\ AreCuts(s, k1, k2, k3, k4)
  <2>1. s = k1 \o k2 \o k3 \o k4
    OBVIOUS
  <2> HIDE DEF s
  <2>2. /\ s \in Seq(Bytes) /\ Len(s) = 4 * KeyWidth
        /\ Chunk(s, KeyWidth, 1) = k1 /\ Chunk(s, KeyWidth, 2) = k2
        /\ Chunk(s, KeyWidth, 3) = k3 /\ Chunk(s, KeyWidth, 4) = k4
    <3>1. FourKeys(s, k1, k2, k3, k4)
      BY <1>1, <2>1, Zenon DEF FourKeys
    <3> QED BY ONLY <3>1, FourKeysCut
  <2> QED BY <2>2, Zenon DEF AreCuts
<1>3. IsTagged(d, 3, s)
  <2>1. /\ k1 \in Seq(Bytes) /\ k2 \in Seq(Bytes) /\ k3 \in Seq(Bytes) /\ k4 \in Seq(Bytes)
    BY <1>1, KeyIsSeq, Zenon
  <2>2. <<3>> \o k1 \o k2 \o k3 \o k4 = <<3>> \o s
    <3>1. <<3>> \in Seq(Bytes)
      BY JustTag
    <3> DEFINE t == <<3>>
    <3>2. AreSeqs(Bytes, t, k1, k2, k3, k4)
      BY <2>1, <3>1, Zenon DEF AreSeqs
    <3> HIDE DEF t
    <3>3. t \o k1 \o k2 \o k3 \o k4 = t \o (k1 \o k2 \o k3 \o k4)
      BY ONLY <3>2, FirstOfFive
    <3> QED BY <3>3, Zenon DEF t
  <2>3. 3 \in 0..12
    OBVIOUS
  <2> QED BY <1>2, <2>2, <2>3, Zenon DEF IsTagged
<1> QED BY <1>2, <1>3, Zenon

LEMMA InitializationArrives ==
    ASSUME NEW c, IsCall(c), c.name = "Initialize"
    PROVE  IsRead(Client(c), c)
<1> DEFINE k1 == c.manager
           k2 == c.solver_authority
           k3 == c.reclaim_authority
           k4 == c.settlement_owned_order_authority
           s == k1 \o k2 \o k3 \o k4
           d == <<3>> \o k1 \o k2 \o k3 \o k4
           a == <<c.payer, StatePda, NativeBuffer, SystemProgram>>
           x1 == New(c.payer, TRUE)
           x2 == New(StatePda, FALSE)
           x3 == New(NativeBuffer, FALSE)
           x4 == NewReadonly(SystemProgram, FALSE)
           m == <<x1, x2, x3, x4>>
           p == [instruction |-> "Initialize", payer |-> c.payer, state_pda |-> StatePda,
                 native_sol_buffer |-> NativeBuffer, manager |-> k1, solver_authority |-> k2,
                 reclaim_authority |-> k3, settlement_owned_order_authority |-> k4]
           i == Client(c)
<1>1. /\ DOMAIN c = {"name", "payer", "manager", "solver_authority", "reclaim_authority",
                     "settlement_owned_order_authority"}
      /\ k1 \in Key /\ k2 \in Key /\ k3 \in Key /\ k4 \in Key /\ i = [data |-> d, accounts |-> m]
  BY InitializeIs, Zenon
<1>3. IsTagged(d, 3, s) /\ AreCuts(s, k1, k2, k3, k4)
  BY <1>1, InitializeTagged, Zenon
<1>4. KeysAlone(m) = a
  <2>1. x1.key = c.payer /\ x2.key = StatePda /\ x3.key = NativeBuffer /\ x4.key = SystemProgram
    BY Zenon DEF New, NewReadonly
  <2> HIDE DEF x1, x2, x3, x4
  <2> QED BY ONLY <2>1, KeysOfFour
<1> HIDE DEF d, m, i, s
<1>5. ParseInstruction(d, a) = p
  <2> HIDE DEF k1, k2, k3, k4
  <2> QED BY ONLY <1>3, InitializeRead
<1>6. /\ DOMAIN p = {"instruction", "payer", "state_pda", "native_sol_buffer", "manager",
                     "solver_authority", "reclaim_authority", "settlement_owned_order_authority"}
      /\ p.instruction = "Initialize" /\ p.payer = c.payer /\ p.state_pda = StatePda
      /\ p.native_sol_buffer = NativeBuffer /\ p.manager = c.manager
      /\ p.solver_authority = c.solver_authority /\ p.reclaim_authority = c.reclaim_authority
      /\ p.settlement_owned_order_authority = c.settlement_owned_order_authority
  OBVIOUS
<1> HIDE DEF a, p
<1>7. Index(p) = p
  BY <1>6 DEF Index
<1>8. Arrives(p, c)
  <2>2. p # Refused
    BY <1>6 DEF Refused
  <2>3. Agree(p, c)
    BY <1>1, <1>6 DEF Agree
  <2>4. RightAddresses(p, c)
    BY <1>1, <1>6 DEF RightAddresses
  <2> QED BY <1>1, <2>2, <2>3, <2>4 DEF Arrives
<1>9. IsRead(i, c)
  BY <1>1, <1>4, <1>5, <1>7, <1>8, IsReadIf, Zenon
<1> QED BY <1>9, Zenon DEF i

(* Accounts in pairs behind a head. *)
ArePairs(S, q, n) == q \in [1..n -> Seq(S)] /\ \A k \in 1..n : Len(q[k]) = 2
IsLaid(S, a, h, q, n) == h \in Seq(S) /\ ArePairs(S, q, n) /\ a = h \o FlattenSeq(q)

HasPairs(S, a, h, q, n) ==
    /\ a \in Seq(S) /\ Len(a) = Len(h) + 2 * n
    /\ \A j \in 1..Len(h) : a[j] = h[j]
    /\ \A k \in 1..n : a[Len(h) + 2 * k - 1] = q[k][1] /\ a[Len(h) + 2 * k] = q[k][2]

LEMMA PairsLaid ==
    ASSUME NEW S, NEW n \in Nat, NEW a, NEW h, NEW q, IsLaid(S, a, h, q, n)
    PROVE  HasPairs(S, a, h, q, n)
<1> DEFINE t == FlattenSeq(q)
           w == [k \in 1..n |-> 2]
<1>1. h \in Seq(S) /\ q \in [1..n -> Seq(S)] /\ a = h \o t /\ \A k \in 1..n : Len(q[k]) = 2
  BY Zenon DEF IsLaid, ArePairs
<1>2. AreLengths(w, q, n) /\ AreAll(w, 2, n)
  BY <1>1 DEF AreLengths, AreAll
<1> HIDE DEF w
<1>3. \A k \in 0..n : SumFunctionOnSet(w, 1..k) = 2 * k
  BY <1>2, SumConstant
<1>4. t \in Seq(S) /\ Len(t) = SumFunctionOnSet(w, 1..n)
  BY <1>1, <1>2, FlattenLen
<1>5. Len(t) = 2 * n
  BY <1>3, <1>4
<1>6. a \in Seq(S) /\ Len(a) = Len(h) + Len(t) /\ Len(h) \in Nat
  <2> HIDE DEF t
  <2>1. h \o t \in Seq(S) /\ Len(h \o t) = Len(h) + Len(t) /\ Len(h) \in Nat /\ Len(t) \in Nat
    BY ONLY <1>1, <1>4, TwoParts
  <2> QED BY <1>1, <2>1, Zenon
<1>7. Holds(a, 1, a) /\ 1 \in Nat \ {0}
  <2>1. 1 \in Nat \ {0}
    OBVIOUS
  <2> QED BY <1>6, <2>1, HoldsItself, Zenon
<1> HIDE DEF t
<1>8. Holds(a, 1, h) /\ Holds(a, 1 + Len(h), t)
  <2>1. Holds(a, 1, h \o t)
    BY <1>1, <1>7, Zenon
  <2> QED BY ONLY <1>1, <1>4, <1>6, <1>7, <2>1, HoldsParts
<1>9. HoldsEach(a, 1 + Len(h), q, n, w)
  <2>1. 1 + Len(h) \in Nat \ {0} /\ Holds(a, 1 + Len(h), FlattenSeq(q))
    BY <1>6, <1>8 DEF t
  <2> DEFINE p == 1 + Len(h)
  <2>2. p \in Nat \ {0} /\ Holds(a, p, FlattenSeq(q))
    BY <2>1
  <2> HIDE DEF p
  <2>3. HoldsEach(a, p, q, n, w)
    BY <1>1, <1>2, <1>6, <2>2, FlattenAt
  <2> QED BY <2>3 DEF p
<1>10. ASSUME NEW j \in 1..Len(h) PROVE a[j] = h[j]
  <2>1. a[1 + j - 1] = h[j] /\ 1 + j - 1 = j
    BY <1>6, <1>8, <1>10 DEF Holds
  <2> QED BY <2>1
<1>11. ASSUME NEW k \in 1..n PROVE a[Len(h) + 2 * k - 1] = q[k][1] /\ a[Len(h) + 2 * k] = q[k][2]
  <2>1. Holds(a, (1 + Len(h)) + SumFunctionOnSet(w, 1..(k - 1)), q[k])
    BY <1>9, <1>11, Zenon DEF HoldsEach
  <2>2. SumFunctionOnSet(w, 1..(k - 1)) = 2 * (k - 1)
    <3>1. k - 1 \in 0..n
      OBVIOUS
    <3> QED BY <1>3, <3>1
  <2> DEFINE p == (1 + Len(h)) + 2 * (k - 1)
  <2>3. Holds(a, p, q[k])
    BY <2>1, <2>2
  <2>4. /\ p \in Nat /\ p + 1 - 1 = Len(h) + 2 * k - 1 /\ p + 2 - 1 = Len(h) + 2 * k
    BY <1>6
  <2> HIDE DEF p
  <2>5. Len(q[k]) = 2
    BY <1>1
  <2>6. a[p + 1 - 1] = q[k][1] /\ a[p + 2 - 1] = q[k][2]
    BY <2>3, <2>5 DEF Holds
  <2> QED BY <2>4, <2>6
<1>12. Len(a) = Len(h) + 2 * n
  BY <1>5, <1>6
<1> QED BY <1>6, <1>10, <1>11, <1>12, Zenon DEF HasPairs

LEMMA KeyListHas ==
    ASSUME NEW S, NEW a \in Seq(S)
    PROVE  /\ Len(KeysAlone(a)) = Len(a) /\ DOMAIN KeysAlone(a) = 1..Len(a)
           /\ \A k \in 1..Len(a) : KeysAlone(a)[k] = a[k].key
<1>1. DOMAIN a = 1..Len(a) /\ Len(a) \in Nat
  OBVIOUS
<1> DEFINE f(k) == a[k].key
           n == Len(a)
           q == [k \in 1..n |-> f(k)]
<1>2. KeysAlone(a) = q
  BY <1>1, Zenon DEF KeysAlone
<1> HIDE DEF f
<1>3. n \in Nat
  BY <1>1
<1> HIDE DEF n
<1>4. Len(q) = n /\ DOMAIN q = 1..n /\ \A k \in 1..n : q[k] = f(k)
  BY <1>3
<1> HIDE DEF q
<1> QED BY <1>2, <1>4, Zenon DEF f, n

LEMMA CreateBufferRead ==
    ASSUME NEW d, NEW a, IsTagged(d, 4, <<>>), NEW n \in Nat, Len(a) = 3 + 2 * n
    PROVE  /\ n = 0 => ParseInstruction(d, a) = Refused
           /\ n # 0 => ParseInstruction(d, a) =
                  [instruction |-> "CreateBuffer", payer |-> a[1],
                   buffers |-> [k \in 1..n |-> [buffer_pda |-> a[2 * k + 2], mint |-> a[2 * k + 3]]]]
<1>1. ParseInstruction(d, a) = ParseCreateBuffer(<<>>, a)
  BY ONLY IsTagged(d, 4, <<>>), Dispatched
<1>2. InPairs(a, 3) <=> n # 0
  BY DEF InPairs
<1>3. PairCount(a, 3) = n
  BY DEF PairCount
<1> QED BY <1>1, <1>2, <1>3, Zenon DEF ParseCreateBuffer

LEMMA ReclaimBufferRead ==
    ASSUME NEW d, NEW a, NEW s, IsTagged(d, 6, s), NEW n \in Nat, Len(a) = 4 + 2 * n, LimitsMatch(s, n)
    PROVE  /\ n = 0 => ParseInstruction(d, a) = Refused
           /\ n # 0 => ParseInstruction(d, a) =
                  [instruction |-> "ReclaimBuffer", state_pda |-> a[1],
                   reclaim_authority |-> a[2], reclaim_recipient |-> a[3],
                   buffers |-> [k \in 1..n |-> [buffer_pda |-> a[2 * k + 3], mint |-> a[2 * k + 4],
                                                burn_limit |-> FromBytes(Chunk(s, Word, k))]]]
<1>1. ParseInstruction(d, a) = ParseReclaimBuffer(s, a)
  BY ONLY IsTagged(d, 6, s), Dispatched
<1>2. InPairs(a, 4) <=> n # 0
  BY DEF InPairs
<1>3. PairCount(a, 4) = n
  BY DEF PairCount
<1> QED BY <1>1, <1>2, <1>3, Zenon DEF ParseReclaimBuffer

(* What the buffers of an instruction must be. *)
AreBuffers(b, c, n) ==
    \A k \in 1..n : /\ DOMAIN b[k] \cap DOMAIN c.mints[k] \subseteq {"mint", "burn_limit"}
                    /\ b[k].mint = c.mints[k].mint
                    /\ b[k].buffer_pda = Buffer[c.mints[k].mint]
                    /\ "burn_limit" \in DOMAIN c.mints[k] => b[k].burn_limit = c.mints[k].burn_limit

LEMMA BuffersAgree ==
    ASSUME NEW b, NEW c, NEW n, AreBuffers(b, c, n), NEW k \in 1..n
    PROVE  Agree(b[k], c.mints[k]) /\ b[k].buffer_pda = Buffer[b[k].mint]
<1> DEFINE x == b[k]
           y == c.mints[k]
<1>1. /\ DOMAIN x \cap DOMAIN y \subseteq {"mint", "burn_limit"} /\ x.mint = y.mint
      /\ x.buffer_pda = Buffer[y.mint]
      /\ "burn_limit" \in DOMAIN y => x.burn_limit = y.burn_limit
  BY Zenon DEF AreBuffers
<1> HIDE DEF x, y
<1>2. Agree(x, y) /\ x.buffer_pda = Buffer[x.mint]
  BY <1>1 DEF Agree
<1> QED BY <1>2, Zenon DEF x, y

LEMMA BufferCreationArrives ==
    ASSUME NEW c, IsCall(c), c.name = "CreateBuffers"
    PROVE  IsRead(Client(c), c)
<1> DEFINE n == Len(c.mints)
           b(k) == New(Buffer[c.mints[k].mint], FALSE)
           r(k) == NewReadonly(c.mints[k].mint, FALSE)
           x1 == New(c.payer, TRUE)
           x2 == NewReadonly(SystemProgram, FALSE)
           x3 == NewReadonly(c.token_program, FALSE)
           h == <<x1, x2, x3>>
           q == [k \in 1..n |-> <<b(k), r(k)>>]
           m == h \o FlattenSeq(q)
           a == KeysAlone(m)
           d == <<4>>
           i == Client(c)
           S == {x1, x2, x3} \cup {b(k) : k \in 1..n} \cup {r(k) : k \in 1..n}
<1>1. /\ DOMAIN c = {"name", "payer", "token_program", "mints"}
      /\ c.mints \in Seq([mint: DOMAIN Buffer]) /\ i = [data |-> d, accounts |-> m]
  BY CreateBuffersIs, Zenon
<1>2. n \in Nat /\ (c.mints = <<>> <=> n = 0)
  BY <1>1
<1>3. IsTagged(d, 4, <<>>)
  BY DEF IsTagged
<1>4. /\ x1.key = c.payer
      /\ \A k \in 1..n : b(k).key = Buffer[c.mints[k].mint] /\ r(k).key = c.mints[k].mint
  BY Zenon DEF New, NewReadonly
<1>5. \A k \in 1..n : DOMAIN c.mints[k] = {"mint"}
  <2>1. ASSUME NEW k \in 1..n PROVE DOMAIN c.mints[k] = {"mint"}
    <3>1. c.mints[k] \in [mint: DOMAIN Buffer]
      BY ONLY <1>1, n = Len(c.mints), k \in 1..n, ElementIs
    <3> QED BY <3>1
  <2> QED BY <2>1
<1> HIDE DEF b, r, x1, x2, x3, d, i
<1>6. IsLaid(S, m, h, q, n)
  <2>1. \A k \in 1..n : b(k) \in S /\ r(k) \in S
    BY Zenon
  <2>2. x1 \in S /\ x2 \in S /\ x3 \in S
    BY Zenon
  <2> HIDE DEF S, n
  <2>3. h \in Seq(S)
    BY <2>2
  <2>4. \A k \in 1..n : <<b(k), r(k)>> \in Seq(S) /\ Len(<<b(k), r(k)>>) = 2
    BY <2>1
  <2>5. q \in [1..n -> Seq(S)] /\ \A k \in 1..n : Len(q[k]) = 2
    BY <2>4
  <2> QED BY <2>3, <2>5, Zenon DEF IsLaid, ArePairs
<1>7. /\ m \in Seq(S) /\ Len(m) = Len(h) + 2 * n
      /\ \A j \in 1..Len(h) : m[j] = h[j]
      /\ \A k \in 1..n : m[Len(h) + 2 * k - 1] = q[k][1] /\ m[Len(h) + 2 * k] = q[k][2]
  <2> HIDE DEF S, m, h, q, n
  <2>1. n \in Nat
    BY <1>2
  <2>2. HasPairs(S, m, h, q, n)
    BY <1>6, <2>1, PairsLaid, Zenon
  <2> QED BY <2>2, Zenon DEF HasPairs
<1>8. Len(h) = 3 /\ h[1] = x1 /\ \A k \in 1..n : q[k][1] = b(k) /\ q[k][2] = r(k)
  BY <1>2
<1> HIDE DEF S, m, h, q, n
<1>9. /\ Len(a) = Len(m) /\ DOMAIN a = 1..Len(m)
      /\ \A k \in 1..Len(m) : a[k] = m[k].key
  BY <1>7, KeyListHas
<1>10. Len(a) = 3 + 2 * n /\ a[1] = c.payer
  <2>1. n \in Nat /\ Len(a) = Len(m) /\ Len(m) = Len(h) + 2 * n /\ Len(h) = 3
    BY <1>2, <1>7, <1>8, <1>9, Zenon
  <2>2. Len(a) = 3 + 2 * n /\ 1 \in 1..Len(m) /\ 1 \in 1..Len(h)
    BY ONLY <2>1
  <2> QED BY <1>4, <1>7, <1>8, <1>9, <2>2, Zenon
<1>11. ASSUME NEW k \in 1..n
       PROVE  a[2 * k + 2] = Buffer[c.mints[k].mint] /\ a[2 * k + 3] = c.mints[k].mint
  <2>1. /\ 2 * k + 2 \in 1..Len(m) /\ 2 * k + 3 \in 1..Len(m)
        /\ Len(h) + 2 * k - 1 = 2 * k + 2 /\ Len(h) + 2 * k = 2 * k + 3
    BY <1>2, <1>7, <1>8
  <2>2. m[2 * k + 2] = b(k) /\ m[2 * k + 3] = r(k)
    BY <1>7, <1>8, <2>1
  <2> QED BY <1>4, <1>9, <2>1, <2>2, Zenon
<1> HIDE DEF a
<1> DEFINE u == [k \in 1..n |-> [buffer_pda |-> a[2 * k + 2], mint |-> a[2 * k + 3]]]
           p == ParseInstruction(d, a)
<1>12. /\ n = 0 => p = Refused
       /\ n # 0 => p = [instruction |-> "CreateBuffer", payer |-> a[1], buffers |-> u]
  BY <1>2, <1>3, <1>10, CreateBufferRead
<1>13. Len(u) = n /\ AreBuffers(u, c, n)
  <2>1. Len(u) = n
    BY <1>2
  <2>2. ASSUME NEW k \in 1..n
        PROVE  /\ DOMAIN u[k] \cap DOMAIN c.mints[k] \subseteq {"mint", "burn_limit"}
               /\ u[k].mint = c.mints[k].mint
               /\ u[k].buffer_pda = Buffer[c.mints[k].mint]
               /\ "burn_limit" \in DOMAIN c.mints[k] => u[k].burn_limit = c.mints[k].burn_limit
    <3>1. u[k] = [buffer_pda |-> a[2 * k + 2], mint |-> a[2 * k + 3]]
      BY Zenon
    <3> HIDE DEF u
    <3> QED BY <1>5, <1>11, <3>1
  <2> QED BY <2>1, <2>2, Zenon DEF AreBuffers
<1> HIDE DEF u, p
<1>14. CASE n = 0
  <2>1. p = Refused /\ Index(p) = p
    BY <1>12, <1>14, NoIntent DEF Index
  <2>2. Arrives(p, c)
    BY <1>1, <1>2, <1>14, <2>1 DEF Arrives
  <2>3. p = ParseInstruction(d, a) /\ a = KeysAlone(m)
    BY DEF p, a
  <2>4. IsRead(i, c)
    BY <1>1, <2>1, <2>2, <2>3, IsReadIf, Zenon
  <2> QED BY <2>4, Zenon DEF i
<1>15. CASE n # 0
  <2>1. /\ DOMAIN p = {"instruction", "payer", "buffers"} /\ p.instruction = "CreateBuffer"
        /\ p.payer = c.payer /\ p.buffers = u
    BY <1>10, <1>12, <1>15
  <2>2. Index(p) = p
    BY <2>1 DEF Index
  <2>3. p # Refused
    BY <2>1 DEF Refused
  <2>4. Agree(p, c)
    BY <1>1, <2>1 DEF Agree
  <2>5. RightAddresses(p, c)
    <3>1. \A k \in 1..n : Agree(u[k], c.mints[k]) /\ u[k].buffer_pda = Buffer[u[k].mint]
      BY <1>13, BuffersAgree, ZenonT(60)
    <3>2. n = Len(c.mints) /\ Len(u) = n
      BY <1>13 DEF n
    <3>3. /\ Len(p.buffers) = Len(c.mints)
          /\ \A k \in 1..Len(c.mints) : /\ Agree(p.buffers[k], c.mints[k])
                                        /\ p.buffers[k].buffer_pda = Buffer[p.buffers[k].mint]
      BY <2>1, <3>1, <3>2, Zenon
    <3>4. /\ "order_pda" \notin DOMAIN p /\ "native_sol_buffer" \notin DOMAIN p
          /\ "state_pda" \notin DOMAIN p /\ c.name # "CancelSettlementOwnedOrder"
      BY <2>1
    <3> QED BY <3>3, <3>4, Zenon DEF RightAddresses
  <2>6. Arrives(p, c)
    BY <1>1, <1>2, <1>15, <2>3, <2>4, <2>5 DEF Arrives
  <2>7. p = ParseInstruction(d, a) /\ a = KeysAlone(m)
    BY DEF p, a
  <2>8. IsRead(i, c)
    BY <1>1, <2>2, <2>6, <2>7, IsReadIf, Zenon
  <2> QED BY <2>8, Zenon DEF i
<1> QED BY <1>14, <1>15

(* The burn limits in s, one word each. *)
AreLimits(s, l, n) ==
    /\ l \in [1..n -> Seq(Bytes)] /\ \A k \in 1..n : Len(l[k]) = Word
    /\ s = FlattenSeq(l)

(* A sequence of whole words has a match for each, and is cut into them.   *)
LEMMA LimitsCut ==
    ASSUME NEW n \in Nat, NEW s, NEW l, AreLimits(s, l, n)
    PROVE  /\ s \in Seq(Bytes) /\ LimitsMatch(s, n)
           /\ \A k \in 1..n : Chunk(s, Word, k) = l[k]
<1> DEFINE w == Word
           h == [k \in 1..n |-> w]
<1>1. l \in [1..n -> Seq(Bytes)] /\ (\A k \in 1..n : Len(l[k]) = w) /\ s = FlattenSeq(l)
  BY Zenon DEF AreLimits
<1>2. w \in Nat \ {0}
  BY WireConstants
<1> HIDE DEF w
<1>3. AreLengths(h, l, n) /\ AreAll(h, w, n)
  BY <1>1 DEF AreLengths, AreAll
<1> HIDE DEF h
<1>4. \A k \in 0..n : SumFunctionOnSet(h, 1..k) = w * k
  BY <1>2, <1>3, SumConstant
<1>5. s \in Seq(Bytes) /\ Len(s) = SumFunctionOnSet(h, 1..n)
  BY <1>1, <1>3, FlattenLen, Zenon
<1>6. Len(s) = w * n /\ Len(s) \in Nat
  <2>1. n \in 0..n
    OBVIOUS
  <2> QED BY <1>4, <1>5, <2>1
<1>7. LimitsMatch(s, n)
  <2>1. Len(s) = w * n + 0 /\ 0 \in 0..(w - 1)
    BY <1>2, <1>6
  <2>2. Len(s) \div w = n /\ Len(s) % w = 0
    BY ONLY n \in Nat, <1>2, <1>6, <2>1, DivisionIs
  <2> QED BY <2>2 DEF LimitsMatch, w
<1>8. HoldsEach(s, 1, l, n, h)
  <2>1. 1 \in Nat \ {0}
    OBVIOUS
  <2>2. Holds(s, 1, FlattenSeq(l))
    BY <1>1, <1>5, HoldsItself, Zenon
  <2> QED BY ONLY n \in Nat, <1>1, <1>3, <1>5, <2>1, <2>2, FlattenAt
<1>9. ASSUME NEW k \in 1..n PROVE Chunk(s, w, k) = l[k]
  <2>1. Holds(s, 1 + SumFunctionOnSet(h, 1..(k - 1)), l[k])
    BY <1>8, Zenon DEF HoldsEach
  <2> DEFINE p == w * (k - 1) + 1
  <2>2. SumFunctionOnSet(h, 1..(k - 1)) = w * (k - 1)
    <3>1. k - 1 \in 0..n
      OBVIOUS
    <3> QED BY <1>4, <3>1
  <2>3. 1 + w * (k - 1) = p /\ p \in Nat \ {0}
    BY <1>2
  <2>4. p + w - 1 = k * w /\ (k - 1) * w + 1 = p
    <3>1. k \in Nat /\ w \in Nat
      BY <1>2
    <3>2. w * (k - 1) = w * k - w
      BY <3>1
    <3>3. w * k \in Nat /\ w * k = k * w /\ (k - 1) * w = w * (k - 1)
      BY <3>1
    <3> QED BY <3>1, <3>2, <3>3
  <2> HIDE DEF p
  <2>5. Holds(s, p, l[k])
    BY <2>1, <2>2, <2>3, Zenon
  <2>6. l[k] \in Seq(Bytes) /\ Len(l[k]) = w
    BY <1>1
  <2>7. SubSeq(s, p, p + Len(l[k]) - 1) = l[k]
    BY ONLY <1>5, <2>3, <2>5, <2>6, CutOut
  <2> QED BY <2>4, <2>6, <2>7, Zenon DEF Chunk
<1> QED BY <1>5, <1>7, <1>9, Zenon DEF w

LEMMA BufferReclaimArrives ==
    ASSUME NEW c, IsCall(c), c.name = "ReclaimBuffer"
    PROVE  IsRead(Client(c), c)
<1> DEFINE n == Len(c.mints)
           b(k) == New(Buffer[c.mints[k].mint], FALSE)
           r(k) == New(c.mints[k].mint, FALSE)
           v(k) == c.mints[k].burn_limit
           x1 == NewReadonly(StatePda, FALSE)
           x2 == NewReadonly(c.reclaim_authority, TRUE)
           x3 == New(c.reclaim_recipient, FALSE)
           x4 == NewReadonly(c.token_program, FALSE)
           h == <<x1, x2, x3, x4>>
           l == [k \in 1..n |-> ToBytes(v(k), Word)]
           s == FlattenSeq(l)
           q == [k \in 1..n |-> <<b(k), r(k)>>]
           m == h \o FlattenSeq(q)
           a == KeysAlone(m)
           d == <<6>> \o s
           i == Client(c)
           S == {x1, x2, x3, x4} \cup {b(k) : k \in 1..n} \cup {r(k) : k \in 1..n}
<1>1. /\ DOMAIN c = {"name", "reclaim_authority", "reclaim_recipient", "token_program", "mints"}
      /\ c.mints \in Seq([mint: DOMAIN Buffer, burn_limit: Amount])
      /\ i = [data |-> d, accounts |-> m]
  BY ReclaimBufferIs, Zenon
<1>2. n \in Nat /\ (c.mints = <<>> <=> n = 0)
  BY <1>1
<1>3. /\ x1.key = StatePda /\ x2.key = c.reclaim_authority /\ x3.key = c.reclaim_recipient
      /\ \A k \in 1..n : b(k).key = Buffer[c.mints[k].mint] /\ r(k).key = c.mints[k].mint
  BY Zenon DEF New, NewReadonly
<1>4. \A k \in 1..n : DOMAIN c.mints[k] = {"mint", "burn_limit"} /\ c.mints[k].burn_limit \in Amount
  <2>1. ASSUME NEW k \in 1..n
        PROVE  DOMAIN c.mints[k] = {"mint", "burn_limit"} /\ c.mints[k].burn_limit \in Amount
    <3>1. c.mints[k] \in [mint: DOMAIN Buffer, burn_limit: Amount]
      BY ONLY <1>1, n = Len(c.mints), k \in 1..n, ElementIs
    <3> QED BY <3>1
  <2> QED BY <2>1
<1>5. \A k \in 1..n : /\ l[k] = ToBytes(v(k), Word) /\ l[k] \in Seq(Bytes) /\ Len(l[k]) = Word
                         /\ FromBytes(l[k]) = v(k)
  <2>1. ASSUME NEW k \in 1..n
        PROVE  /\ l[k] = ToBytes(v(k), Word) /\ l[k] \in Seq(Bytes) /\ Len(l[k]) = Word
               /\ FromBytes(l[k]) = v(k)
    <3>1. v(k) \in Amount
      BY <1>4, Zenon
    <3>2. l[k] = ToBytes(v(k), Word)
      BY Zenon
    <3> HIDE DEF l, v
    <3> QED BY <3>1, <3>2, AmountBack, Zenon
  <2> HIDE DEF l, v
  <2> QED BY <2>1, Zenon
<1>6. l \in [1..n -> Seq(Bytes)]
  <2>1. \A k \in 1..n : ToBytes(v(k), Word) \in Seq(Bytes)
    BY <1>5, Zenon
  <2> QED BY <2>1, Zenon
<1> HIDE DEF l, v
<1>7. AreLimits(s, l, n)
  BY <1>5, <1>6, Zenon DEF AreLimits
<1> HIDE DEF s
<1>8. s \in Seq(Bytes) /\ LimitsMatch(s, n) /\ \A k \in 1..n : Chunk(s, Word, k) = l[k]
  <2> HIDE DEF n
  <2> QED BY ONLY <1>2, <1>7, LimitsCut
<1>9. IsTagged(d, 6, s)
  BY <1>8 DEF IsTagged
<1> HIDE DEF b, r, x1, x2, x3, x4, d, i
<1>10. IsLaid(S, m, h, q, n)
  <2>1. \A k \in 1..n : b(k) \in S /\ r(k) \in S
    BY Zenon
  <2>2. x1 \in S /\ x2 \in S /\ x3 \in S /\ x4 \in S
    BY Zenon
  <2> HIDE DEF S, n
  <2>3. h \in Seq(S)
    BY <2>2
  <2>4. \A k \in 1..n : <<b(k), r(k)>> \in Seq(S) /\ Len(<<b(k), r(k)>>) = 2
    BY <2>1
  <2>5. q \in [1..n -> Seq(S)] /\ \A k \in 1..n : Len(q[k]) = 2
    BY <2>4
  <2> QED BY <2>3, <2>5, Zenon DEF IsLaid, ArePairs
<1>11. /\ m \in Seq(S) /\ Len(m) = Len(h) + 2 * n
      /\ \A j \in 1..Len(h) : m[j] = h[j]
      /\ \A k \in 1..n : m[Len(h) + 2 * k - 1] = q[k][1] /\ m[Len(h) + 2 * k] = q[k][2]
  <2> HIDE DEF S, m, h, q, n
  <2>1. n \in Nat
    BY <1>2
  <2>2. HasPairs(S, m, h, q, n)
    BY <1>10, <2>1, PairsLaid, Zenon
  <2> QED BY <2>2, Zenon DEF HasPairs
<1>12. Len(h) = 4 /\ h[1] = x1 /\ h[2] = x2 /\ h[3] = x3 /\ \A k \in 1..n : q[k][1] = b(k) /\ q[k][2] = r(k)
  BY <1>2
<1> HIDE DEF S, m, h, q, n
<1>13. /\ Len(a) = Len(m) /\ DOMAIN a = 1..Len(m)
      /\ \A k \in 1..Len(m) : a[k] = m[k].key
  BY <1>11, KeyListHas
<1>14. /\ Len(a) = 4 + 2 * n
       /\ a[1] = StatePda /\ a[2] = c.reclaim_authority /\ a[3] = c.reclaim_recipient
  <2>1. n \in Nat /\ Len(a) = Len(m) /\ Len(m) = Len(h) + 2 * n /\ Len(h) = 4
    BY <1>2, <1>11, <1>12, <1>13, Zenon
  <2>2. /\ Len(a) = 4 + 2 * n /\ 1 \in 1..Len(m) /\ 1 \in 1..Len(h)
        /\ 2 \in 1..Len(m) /\ 2 \in 1..Len(h) /\ 3 \in 1..Len(m) /\ 3 \in 1..Len(h)
    BY ONLY <2>1
  <2> QED BY <1>3, <1>11, <1>12, <1>13, <2>2, Zenon
<1>15. ASSUME NEW k \in 1..n
       PROVE  a[2 * k + 3] = Buffer[c.mints[k].mint] /\ a[2 * k + 4] = c.mints[k].mint
  <2>1. /\ 2 * k + 3 \in 1..Len(m) /\ 2 * k + 4 \in 1..Len(m)
        /\ Len(h) + 2 * k - 1 = 2 * k + 3 /\ Len(h) + 2 * k = 2 * k + 4
    BY <1>2, <1>11, <1>12
  <2>2. m[2 * k + 3] = b(k) /\ m[2 * k + 4] = r(k)
    BY <1>11, <1>12, <2>1
  <2> QED BY <1>3, <1>13, <2>1, <2>2, Zenon
<1> HIDE DEF a
<1> DEFINE u == [k \in 1..n |-> [buffer_pda |-> a[2 * k + 3], mint |-> a[2 * k + 4],
                               burn_limit |-> FromBytes(Chunk(s, Word, k))]]
           p == ParseInstruction(d, a)
<1>16. /\ n = 0 => p = Refused
       /\ n # 0 => p = [instruction |-> "ReclaimBuffer", state_pda |-> a[1],
                         reclaim_authority |-> a[2], reclaim_recipient |-> a[3], buffers |-> u]
  BY <1>2, <1>9, <1>14, <1>8, ReclaimBufferRead
<1>17. Len(u) = n /\ AreBuffers(u, c, n)
  <2>1. Len(u) = n
    BY <1>2
  <2>2. ASSUME NEW k \in 1..n
        PROVE  /\ DOMAIN u[k] \cap DOMAIN c.mints[k] \subseteq {"mint", "burn_limit"}
               /\ u[k].mint = c.mints[k].mint
               /\ u[k].buffer_pda = Buffer[c.mints[k].mint]
               /\ "burn_limit" \in DOMAIN c.mints[k] => u[k].burn_limit = c.mints[k].burn_limit
    <3>1. u[k] = [buffer_pda |-> a[2 * k + 3], mint |-> a[2 * k + 4],
                  burn_limit |-> FromBytes(Chunk(s, Word, k))]
      BY Zenon
    <3>2. FromBytes(Chunk(s, Word, k)) = c.mints[k].burn_limit
      BY <1>5, <1>8, Zenon DEF v
    <3> HIDE DEF u
    <3> QED BY <1>4, <1>15, <3>1, <3>2
  <2> QED BY <2>1, <2>2, Zenon DEF AreBuffers
<1> HIDE DEF u, p
<1>18. CASE n = 0
  <2>1. p = Refused /\ Index(p) = p
    BY <1>16, <1>18, NoIntent DEF Index
  <2>2. Arrives(p, c)
    BY <1>1, <1>2, <1>18, <2>1 DEF Arrives
  <2>3. p = ParseInstruction(d, a) /\ a = KeysAlone(m)
    BY DEF p, a
  <2>4. IsRead(i, c)
    BY <1>1, <2>1, <2>2, <2>3, IsReadIf, Zenon
  <2> QED BY <2>4, Zenon DEF i
<1>19. CASE n # 0
  <2>1. /\ DOMAIN p = {"instruction", "state_pda", "reclaim_authority", "reclaim_recipient", "buffers"}
        /\ p.instruction = "ReclaimBuffer" /\ p.state_pda = StatePda
        /\ p.reclaim_authority = c.reclaim_authority /\ p.reclaim_recipient = c.reclaim_recipient
        /\ p.buffers = u
    BY <1>14, <1>16, <1>19
  <2>2. Index(p) = p
    BY <2>1 DEF Index
  <2>3. p # Refused
    BY <2>1 DEF Refused
  <2>4. Agree(p, c)
    BY <1>1, <2>1 DEF Agree
  <2>5. RightAddresses(p, c)
    <3>1. \A k \in 1..n : Agree(u[k], c.mints[k]) /\ u[k].buffer_pda = Buffer[u[k].mint]
      BY <1>17, BuffersAgree, Zenon
    <3>2. n = Len(c.mints) /\ Len(u) = n
      BY <1>17 DEF n
    <3>3. /\ Len(p.buffers) = Len(c.mints)
          /\ \A k \in 1..Len(c.mints) : /\ Agree(p.buffers[k], c.mints[k])
                                        /\ p.buffers[k].buffer_pda = Buffer[p.buffers[k].mint]
      BY <2>1, <3>1, <3>2, Zenon
    <3>4. /\ "order_pda" \notin DOMAIN p /\ "native_sol_buffer" \notin DOMAIN p
          /\ p.state_pda = StatePda /\ p.instruction # "CancelOrder"
          /\ c.name # "CancelSettlementOwnedOrder"
      BY <2>1
    <3> QED BY <3>3, <3>4, Zenon DEF RightAddresses
  <2>6. Arrives(p, c)
    BY <1>1, <1>2, <1>19, <2>3, <2>4, <2>5 DEF Arrives
  <2>7. p = ParseInstruction(d, a) /\ a = KeysAlone(m)
    BY DEF p, a
  <2>8. IsRead(i, c)
    BY <1>1, <2>2, <2>6, <2>7, IsReadIf, Zenon
  <2> QED BY <2>8, Zenon DEF i
<1> QED BY <1>18, <1>19

LEMMA EveryCallArrives ==
    ASSUME NEW c, IsCall(c)
    PROVE  IsRead(Client(c), c)
<1>1. CASE c.name = "Initialize"
  BY <1>1, InitializationArrives, Zenon
<1>2. CASE c.name \in {"CreateOrder", "CancelOrder", "CancelOutstandingOrder"}
  BY <1>2, CreationArrives, CancellationArrives, OutstandingArrives, Zenon
<1>3. CASE c.name \in {"CreateSettlementOwnedOrder", "CancelSettlementOwnedOrder"}
  BY <1>3, OwnCreationArrives, OwnCancellationArrives, Zenon
<1>4. CASE c.name = "ReclaimOrder"
  BY <1>4, ReclaimArrives, Zenon
<1>5. CASE c.name \in {"CreateBuffers", "ReclaimBuffer"}
  BY <1>5, BufferCreationArrives, BufferReclaimArrives, Zenon
<1>6. CASE c.name \in {"TransferAuthority", "AddSolver", "RemoveSolver", "WithdrawNativeSol"}
  BY <1>6, TransferArrives, SolverAdditionArrives, SolverRemovalArrives, WithdrawalArrives, Zenon
<1> QED BY <1>1, <1>2, <1>3, <1>4, <1>5, <1>6, CallNames, Zenon

(* What a client calls for is what the program and every indexer read of    *)
(* the bytes and accounts that it is sent as, whichever of the calls it is, *)
(* with every address that the client derives; only a batch of no buffers   *)
(* is refused.                                                              *)
THEOREM CallsArriveAsMeant == WireSpec => []ArrivesAsMeant
<1>1. WireInv => ArrivesAsMeant
  <2> SUFFICES ASSUME WireInv, call # NoCall, edits = 0, NEW p, p = Indexed
               PROVE  /\ p = Refused <=> "mints" \in DOMAIN call /\ call.mints = <<>>
                      /\ p # Refused => Agree(p, call) /\ RightAddresses(p, call)
    BY Zenon DEF ArrivesAsMeant
  <2>1. IsCall(call) /\ ix = Client(call)
    BY Zenon DEF WireInv
  <2>2. IsRead(ix, call)
    BY <2>1, EveryCallArrives, Zenon
  <2>3. Indexed = Index(ParseInstruction(ix.data, KeysAlone(ix.accounts)))
    BY Zenon DEF Indexed, AccountKeys, Index, KeysAlone
  <2>4. Arrives(p, call)
    BY <2>2, <2>3, Zenon DEF IsRead
  <2> QED BY <2>4, Zenon DEF Arrives
<1> QED BY <1>1, WireStays, PTL

-----------------------------------------------------------------------------
(* The privileges that are asked for, one call after the other. *)
HasNeeds(p, a) ==
    /\ {m \in Range(a) : m.signer} = NeedsOf(p).signers
    /\ {m \in Range(a) : m.writable} = NeedsOf(p).written
IsAllowed(i) ==
    LET p == ParseInstruction(i.data, i.accounts) IN p # Refused => HasNeeds(p, i.accounts)

LEMMA AllowedIf ==
    ASSUME NEW i, NEW d, NEW m, i = [data |-> d, accounts |-> m],
           NEW p, p = ParseInstruction(d, m), p = Refused \/ HasNeeds(p, m)
    PROVE  IsAllowed(i)
<1>1. i.data = d /\ i.accounts = m
  BY Zenon
<1> QED BY <1>1, Zenon DEF IsAllowed

Asked(R, S, W) == {m \in R : m.signer} = S /\ {m \in R : m.writable} = W

LEMMA NeedsIf ==
    ASSUME NEW p, NEW a, NEW R, NEW S, NEW W, Range(a) = R, Asked(R, S, W), NeedsOf(p) = Needs(S, W)
    PROVE  HasNeeds(p, a)
<1>1. Needs(S, W).signers = S /\ Needs(S, W).written = W
  BY DEF Needs
<1> QED BY <1>1, Zenon DEF HasNeeds, Asked

(* Those of A and B that sign, or that are written, if only those of A do. *)
LEMMA SigningAre ==
    ASSUME NEW A, NEW B, NEW R, R = A \cup B, \A x \in A : x.signer, \A x \in B : ~x.signer
    PROVE  {m \in R : m.signer} = A
BY Zenon

LEMMA WrittenAre ==
    ASSUME NEW A, NEW B, NEW R, R = A \cup B, \A x \in A : x.writable, \A x \in B : ~x.writable
    PROVE  {m \in R : m.writable} = A
BY Zenon

LEMMA RangeOfTwo ==
    ASSUME NEW x1, NEW x2
    PROVE  Range(<<x1, x2>>) = {x1, x2}
BY DEF Range

LEMMA RangeOfThree ==
    ASSUME NEW x1, NEW x2, NEW x3
    PROVE  Range(<<x1, x2, x3>>) = {x1, x2, x3}
BY DEF Range

LEMMA RangeOfFour ==
    ASSUME NEW x1, NEW x2, NEW x3, NEW x4
    PROVE  Range(<<x1, x2, x3, x4>>) = {x1, x2, x3, x4}
BY DEF Range

LEMMA RangeOfFive ==
    ASSUME NEW x1, NEW x2, NEW x3, NEW x4, NEW x5
    PROVE  Range(<<x1, x2, x3, x4, x5>>) = {x1, x2, x3, x4, x5}
BY DEF Range

LEMMA NeedsAre ==
    ASSUME NEW p
    PROVE  /\ p.instruction = "Initialize" => NeedsOf(p) = NeedsOfInitialize(p)
           /\ p.instruction = "CreateOrder" => NeedsOf(p) = NeedsOfCreateOrder(p)
           /\ p.instruction = "CreateSettlementOwnedOrder" =>
                  NeedsOf(p) = NeedsOfCreateSettlementOwnedOrder(p)
           /\ p.instruction = "CancelOrder" => NeedsOf(p) = NeedsOfCancelOrder(p)
           /\ p.instruction = "CreateBuffer" => NeedsOf(p) = NeedsOfCreateBuffer(p)
           /\ p.instruction = "ReclaimBuffer" => NeedsOf(p) = NeedsOfReclaimBuffer(p)
           /\ p.instruction = "ReclaimOrder" => NeedsOf(p) = NeedsOfReclaimOrder(p)
           /\ p.instruction = "TransferAuthority" => NeedsOf(p) = NeedsOfTransferAuthority(p)
           /\ p.instruction = "AddSolver" => NeedsOf(p) = NeedsOfAddSolver(p)
           /\ p.instruction = "RemoveSolver" => NeedsOf(p) = NeedsOfRemoveSolver(p)
           /\ p.instruction = "WithdrawNativeSol" => NeedsOf(p) = NeedsOfWithdrawNativeSol(p)
BY DEF NeedsOf

LEMMA SolverAdditionAllowed ==
    ASSUME NEW c, IsCall(c), c.name = "AddSolver"
    PROVE  IsAllowed(Client(c))
<1> DEFINE d == <<8>> \o c.solver
           x1 == NewReadonly(c.authority, TRUE)
           x2 == New(c.payer, TRUE)
           x3 == New(StatePda, FALSE)
           x4 == NewReadonly(SystemProgram, FALSE)
           m == <<x1, x2, x3, x4>>
           p == [instruction |-> "AddSolver", authority |-> x1, payer |-> x2,
                 state_pda |-> x3, solver |-> c.solver]
           i == Client(c)
<1>1. c.solver \in Key /\ i = [data |-> d, accounts |-> m]
  BY AddSolverIs, Zenon
<1>2. c.solver \in Seq(Bytes) /\ Len(c.solver) = KeyWidth
  BY <1>1, KeyIsSeq, Zenon
<1>3. IsTagged(d, 8, c.solver)
  BY <1>2 DEF IsTagged
<1>4. /\ x1.signer /\ x2.signer /\ ~x3.signer /\ ~x4.signer
      /\ ~x1.writable /\ x2.writable /\ x3.writable /\ ~x4.writable
  BY Zenon DEF New, NewReadonly
<1> HIDE DEF d, i, x1, x2, x3, x4
<1>5. ParseInstruction(d, m) = p
  BY ONLY <1>2, <1>3, AddSolverRead
<1>6. NeedsOf(p) = Needs({x1, x2}, {x2, x3})
  BY NeedsAre DEF NeedsOfAddSolver
<1>7. Asked({x1, x2, x3, x4}, {x1, x2}, {x2, x3})
  <2>1. {x1, x2, x3, x4} = {x1, x2} \cup {x3, x4} /\ {x1, x2, x3, x4} = {x2, x3} \cup {x1, x4}
    OBVIOUS
  <2>2. (\A x \in {x1, x2} : x.signer) /\ (\A x \in {x3, x4} : ~x.signer)
    BY <1>4, Zenon
  <2>3. (\A x \in {x2, x3} : x.writable) /\ (\A x \in {x1, x4} : ~x.writable)
    BY <1>4, Zenon
  <2> QED BY <2>1, <2>2, <2>3, SigningAre, WrittenAre, Zenon DEF Asked
<1>8. HasNeeds(p, m)
  <2>1. Range(m) = {x1, x2, x3, x4}
    BY RangeOfFour, ZenonT(60)
  <2> HIDE DEF m, p
  <2> QED BY <1>6, <1>7, <2>1, NeedsIf, Zenon
<1> HIDE DEF m, p
<1> QED BY <1>1, <1>5, <1>8, AllowedIf, Zenon DEF i

LEMMA SolverRemovalAllowed ==
    ASSUME NEW c, IsCall(c), c.name = "RemoveSolver"
    PROVE  IsAllowed(Client(c))
<1> DEFINE d == <<9>> \o c.solver
           x1 == NewReadonly(c.authority, TRUE)
           x2 == New(c.rent_recipient, FALSE)
           x3 == New(StatePda, FALSE)
           m == <<x1, x2, x3>>
           p == [instruction |-> "RemoveSolver", authority |-> x1, rent_recipient |-> x2,
                 state_pda |-> x3, solver |-> c.solver]
           i == Client(c)
<1>1. c.solver \in Key
  BY RemoveSolverIs, Zenon
<1>2. i = [data |-> d, accounts |-> m]
  BY RemoveSolverIs, Zenon
<1>3. c.solver \in Seq(Bytes) /\ Len(c.solver) = KeyWidth /\ IsTagged(d, 9, c.solver)
  <2>1. c.solver \in Seq(Bytes) /\ Len(c.solver) = KeyWidth
    BY <1>1, KeyIsSeq, Zenon
  <2> QED BY <2>1 DEF IsTagged
<1>4. /\ x1.signer /\ ~x2.signer /\ ~x3.signer
      /\ ~x1.writable /\ x2.writable /\ x3.writable
  BY Zenon DEF New, NewReadonly
<1> HIDE DEF d, i, x1, x2, x3
<1>5. ParseInstruction(d, m) = p
  BY ONLY <1>3, RemoveSolverRead
<1>6. NeedsOf(p) = Needs({x1}, {x2, x3})
  BY NeedsAre DEF NeedsOfRemoveSolver
<1>7. Asked({x1, x2, x3}, {x1}, {x2, x3})
  <2>1. {x1, x2, x3} = {x1} \cup {x2, x3} /\ {x1, x2, x3} = {x2, x3} \cup {x1}
    OBVIOUS
  <2>2. (\A x \in {x1} : x.signer) /\ (\A x \in {x2, x3} : ~x.signer)
    BY <1>4, Zenon
  <2>3. (\A x \in {x2, x3} : x.writable) /\ (\A x \in {x1} : ~x.writable)
    BY <1>4, Zenon
  <2> QED BY <2>1, <2>2, <2>3, SigningAre, WrittenAre, Zenon DEF Asked
<1>8. HasNeeds(p, m)
  <2>1. Range(m) = {x1, x2, x3}
    BY RangeOfThree, Zenon
  <2> HIDE DEF m, p
  <2> QED BY <1>6, <1>7, <2>1, NeedsIf, Zenon
<1> HIDE DEF m, p
<1> QED BY <1>2, <1>5, <1>8, AllowedIf, Zenon DEF i

LEMMA WithdrawalAllowed ==
    ASSUME NEW c, IsCall(c), c.name = "WithdrawNativeSol"
    PROVE  IsAllowed(Client(c))
<1> DEFINE s == ToBytes(c.amount, Word)
           d == <<12>> \o s
           x1 == NewReadonly(StatePda, FALSE)
           x2 == NewReadonly(c.authority, TRUE)
           x3 == New(NativeBuffer, FALSE)
           x4 == New(c.recipient, FALSE)
           m == <<x1, x2, x3, x4>>
           p == [instruction |-> "WithdrawNativeSol", state_pda |-> x1, authority |-> x2,
                 native_sol_buffer |-> x3, recipient |-> x4, amount |-> FromBytes(s)]
           i == Client(c)
<1>1. c.amount \in Amount
  BY WithdrawNativeSolIs, Zenon
<1>2. i = [data |-> d, accounts |-> m]
  BY WithdrawNativeSolIs, Zenon
<1>3. s \in Seq(Bytes) /\ Len(s) = Word /\ IsTagged(d, 12, s)
  <2>1. s \in Seq(Bytes) /\ Len(s) = Word
    BY <1>1, AmountBack, Zenon
  <2> QED BY <2>1 DEF IsTagged
<1>4. /\ ~x1.signer /\ x2.signer /\ ~x3.signer /\ ~x4.signer
      /\ ~x1.writable /\ ~x2.writable /\ x3.writable /\ x4.writable
  BY Zenon DEF New, NewReadonly
<1> HIDE DEF d, i, s, x1, x2, x3, x4
<1>5. ParseInstruction(d, m) = p
  BY ONLY <1>3, WithdrawNativeSolRead
<1>6. NeedsOf(p) = Needs({x2}, {x3, x4})
  BY NeedsAre DEF NeedsOfWithdrawNativeSol
<1>7. Asked({x1, x2, x3, x4}, {x2}, {x3, x4})
  <2>1. {x1, x2, x3, x4} = {x2} \cup {x1, x3, x4} /\ {x1, x2, x3, x4} = {x3, x4} \cup {x1, x2}
    OBVIOUS
  <2>2. (\A x \in {x2} : x.signer) /\ (\A x \in {x1, x3, x4} : ~x.signer)
    BY <1>4, Zenon
  <2>3. (\A x \in {x3, x4} : x.writable) /\ (\A x \in {x1, x2} : ~x.writable)
    BY <1>4, Zenon
  <2> QED BY <2>1, <2>2, <2>3, SigningAre, WrittenAre, Zenon DEF Asked
<1>8. HasNeeds(p, m)
  <2>1. Range(m) = {x1, x2, x3, x4}
    BY RangeOfFour, ZenonT(60)
  <2> HIDE DEF m, p
  <2> QED BY <1>6, <1>7, <2>1, NeedsIf, Zenon
<1> HIDE DEF m, p
<1> QED BY <1>2, <1>5, <1>8, AllowedIf, Zenon DEF i

LEMMA CreationAllowed ==
    ASSUME NEW c, IsCall(c), c.name = "CreateOrder"
    PROVE  IsAllowed(Client(c))
<1> DEFINE e == EncodeIntent(c.intent)
           d == <<2>> \o e
           x1 == NewReadonly(c.owner, TRUE)
           x2 == New(c.created_by, TRUE)
           x3 == New(OrderPda(e), FALSE)
           x4 == NewReadonly(SystemProgram, FALSE)
           m == <<x1, x2, x3, x4>>
           p == [instruction |-> "CreateOrder", intent_bytes |-> e, owner |-> x1,
                 created_by |-> x2, order_pda |-> x3]
           i == Client(c)
<1>0. c.intent \in Intents
  BY OrderCall, Zenon
<1>1. e \in Seq(Bytes) /\ Len(e) = IntentSize /\ e # <<>>
  BY <1>0, IntentEncoded, Zenon
<1>2. i = [data |-> d, accounts |-> m]
  BY <1>1, CreateOrderIs, Zenon
<1>3. IsTagged(d, 2, e)
  BY <1>1 DEF IsTagged
<1>4. /\ x1.signer /\ x2.signer /\ ~x3.signer /\ ~x4.signer
      /\ ~x1.writable /\ x2.writable /\ x3.writable /\ ~x4.writable
  BY Zenon DEF New, NewReadonly
<1> HIDE DEF d, i, e, x1, x2, x3, x4
<1>5. ParseInstruction(d, m) = p
  BY ONLY <1>1, <1>3, CreateOrderRead
<1>6. NeedsOf(p) = Needs({x1, x2}, {x2, x3})
  BY NeedsAre DEF NeedsOfCreateOrder
<1>7. Asked({x1, x2, x3, x4}, {x1, x2}, {x2, x3})
  <2>1. {x1, x2, x3, x4} = {x1, x2} \cup {x3, x4} /\ {x1, x2, x3, x4} = {x2, x3} \cup {x1, x4}
    OBVIOUS
  <2>2. (\A x \in {x1, x2} : x.signer) /\ (\A x \in {x3, x4} : ~x.signer)
    BY <1>4, Zenon
  <2>3. (\A x \in {x2, x3} : x.writable) /\ (\A x \in {x1, x4} : ~x.writable)
    BY <1>4, Zenon
  <2> QED BY <2>1, <2>2, <2>3, SigningAre, WrittenAre, Zenon DEF Asked
<1>8. HasNeeds(p, m)
  <2>1. Range(m) = {x1, x2, x3, x4}
    BY RangeOfFour, ZenonT(60)
  <2> HIDE DEF m, p
  <2> QED BY <1>6, <1>7, <2>1, NeedsIf, Zenon
<1> HIDE DEF m, p
<1> QED BY <1>2, <1>5, <1>8, AllowedIf, Zenon DEF i

LEMMA OwnCreationAllowed ==
    ASSUME NEW c, IsCall(c), c.name = "CreateSettlementOwnedOrder"
    PROVE  IsAllowed(Client(c))
<1> DEFINE e == EncodeIntent(c.intent)
           d == <<10>> \o e
           x1 == NewReadonly(c.authority, TRUE)
           x2 == New(c.created_by, TRUE)
           x3 == NewReadonly(StatePda, FALSE)
           x4 == New(OrderPda(e), FALSE)
           x5 == NewReadonly(SystemProgram, FALSE)
           m == <<x1, x2, x3, x4, x5>>
           p == [instruction |-> "CreateSettlementOwnedOrder", intent_bytes |-> e, authority |-> x1,
                 created_by |-> x2, state_pda |-> x3, order_pda |-> x4]
           i == Client(c)
<1>0. c.intent \in Intents
  BY OwnOrderCall, Zenon
<1>1. e \in Seq(Bytes) /\ Len(e) = IntentSize /\ e # <<>>
  BY <1>0, IntentEncoded, Zenon
<1>2. i = [data |-> d, accounts |-> m]
  BY <1>1, CreateSettlementOwnedOrderIs, Zenon
<1>3. IsTagged(d, 10, e)
  BY <1>1 DEF IsTagged
<1>4. /\ x1.signer /\ x2.signer /\ ~x3.signer /\ ~x4.signer /\ ~x5.signer
      /\ ~x1.writable /\ x2.writable /\ ~x3.writable /\ x4.writable /\ ~x5.writable
  BY Zenon DEF New, NewReadonly
<1> HIDE DEF d, i, e, x1, x2, x3, x4, x5
<1>5. ParseInstruction(d, m) = p
  BY ONLY <1>1, <1>3, CreateOwnRead
<1>6. NeedsOf(p) = Needs({x1, x2}, {x2, x4})
  BY NeedsAre DEF NeedsOfCreateSettlementOwnedOrder
<1>7. Asked({x1, x2, x3, x4, x5}, {x1, x2}, {x2, x4})
  <2>1. /\ {x1, x2, x3, x4, x5} = {x1, x2} \cup {x3, x4, x5}
        /\ {x1, x2, x3, x4, x5} = {x2, x4} \cup {x1, x3, x5}
    OBVIOUS
  <2>2. (\A x \in {x1, x2} : x.signer) /\ (\A x \in {x3, x4, x5} : ~x.signer)
    BY <1>4, Zenon
  <2>3. (\A x \in {x2, x4} : x.writable) /\ (\A x \in {x1, x3, x5} : ~x.writable)
    BY <1>4, Zenon
  <2> QED BY <2>1, <2>2, <2>3, SigningAre, WrittenAre, Zenon DEF Asked
<1>8. HasNeeds(p, m)
  <2>1. Range(m) = {x1, x2, x3, x4, x5}
    BY ONLY RangeOfFive
  <2> HIDE DEF m, p
  <2> QED BY <1>6, <1>7, <2>1, NeedsIf, Zenon
<1> HIDE DEF m, p
<1> QED BY <1>2, <1>5, <1>8, AllowedIf, Zenon DEF i

LEMMA CancellationAllowed ==
    ASSUME NEW c, IsCall(c), c.name = "CancelOrder"
    PROVE  IsAllowed(Client(c))
<1> DEFINE e == EncodeIntent(c.intent)
           d == <<11>> \o e
           x1 == NewReadonly(c.owner, TRUE)
           x2 == New(c.created_by, TRUE)
           x3 == New(OrderPda(e), FALSE)
           x4 == NewReadonly(SystemProgram, FALSE)
           m == <<x1, x2, x3, x4>>
           p == [instruction |-> "CancelOrder", intent_bytes |-> e, owner |-> x1,
                 created_by |-> x2, order_pda |-> x3, state_pda |-> <<>>]
           i == Client(c)
<1>0. c.intent \in Intents
  BY OrderCall, Zenon
<1>1. e \in Seq(Bytes) /\ Len(e) = IntentSize /\ e # <<>>
  BY <1>0, IntentEncoded, Zenon
<1>2. i = [data |-> d, accounts |-> m]
  BY <1>1, CancelOrderIs, Zenon
<1>3. IsTagged(d, 11, e)
  BY <1>1 DEF IsTagged
<1>4. /\ x1.signer /\ x2.signer /\ ~x3.signer /\ ~x4.signer
      /\ ~x1.writable /\ x2.writable /\ x3.writable /\ ~x4.writable
  BY Zenon DEF New, NewReadonly
<1> HIDE DEF d, i, e, x1, x2, x3, x4
<1>5. ParseInstruction(d, m) = p
  BY ONLY <1>1, <1>3, CancelOrderRead
<1>6. NeedsOf(p) = Needs({x1, x2}, {x2, x3})
  <2>1. /\ p.instruction = "CancelOrder" /\ p.intent_bytes = e /\ p.owner = x1
        /\ p.created_by = x2 /\ p.order_pda = x3
    OBVIOUS
  <2> HIDE DEF p
  <2>2. NeedsOf(p) = Needs({x1} \cup {x2}, {x3} \cup {x2})
    BY <1>1, <2>1, NeedsAre, Zenon DEF NeedsOfCancelOrder
  <2>3. {x1} \cup {x2} = {x1, x2} /\ {x3} \cup {x2} = {x2, x3}
    OBVIOUS
  <2> QED BY <2>2, <2>3, Zenon
<1>7. Asked({x1, x2, x3, x4}, {x1, x2}, {x2, x3})
  <2>1. {x1, x2, x3, x4} = {x1, x2} \cup {x3, x4} /\ {x1, x2, x3, x4} = {x2, x3} \cup {x1, x4}
    OBVIOUS
  <2>2. (\A x \in {x1, x2} : x.signer) /\ (\A x \in {x3, x4} : ~x.signer)
    BY <1>4, Zenon
  <2>3. (\A x \in {x2, x3} : x.writable) /\ (\A x \in {x1, x4} : ~x.writable)
    BY <1>4, Zenon
  <2> QED BY <2>1, <2>2, <2>3, SigningAre, WrittenAre, Zenon DEF Asked
<1>8. HasNeeds(p, m)
  <2>1. Range(m) = {x1, x2, x3, x4}
    BY RangeOfFour, ZenonT(60)
  <2> HIDE DEF m, p
  <2> QED BY <1>6, <1>7, <2>1, NeedsIf, Zenon
<1> HIDE DEF m, p
<1> QED BY <1>2, <1>5, <1>8, AllowedIf, Zenon DEF i

LEMMA OwnCancellationAllowed ==
    ASSUME NEW c, IsCall(c), c.name = "CancelSettlementOwnedOrder"
    PROVE  IsAllowed(Client(c))
<1> DEFINE e == EncodeIntent(c.intent)
           d == <<11>> \o e
           x1 == NewReadonly(c.authority, TRUE)
           x2 == New(c.created_by, TRUE)
           x3 == New(OrderPda(e), FALSE)
           x4 == NewReadonly(SystemProgram, FALSE)
           x5 == NewReadonly(StatePda, FALSE)
           m == <<x1, x2, x3, x4, x5>>
           p == [instruction |-> "CancelOrder", intent_bytes |-> e, owner |-> x1,
                 created_by |-> x2, order_pda |-> x3, state_pda |-> <<x5>>]
           i == Client(c)
<1>0. c.intent \in Intents
  BY OwnOrderCall, Zenon
<1>1. e \in Seq(Bytes) /\ Len(e) = IntentSize /\ e # <<>>
  BY <1>0, IntentEncoded, Zenon
<1>2. i = [data |-> d, accounts |-> m]
  BY <1>1, CancelSettlementOwnedOrderIs, Zenon
<1>3. IsTagged(d, 11, e)
  BY <1>1 DEF IsTagged
<1>4. /\ x1.signer /\ x2.signer /\ ~x3.signer /\ ~x4.signer /\ ~x5.signer
      /\ ~x1.writable /\ x2.writable /\ x3.writable /\ ~x4.writable /\ ~x5.writable
  BY Zenon DEF New, NewReadonly
<1> HIDE DEF d, i, e, x1, x2, x3, x4, x5
<1>5. ParseInstruction(d, m) = p
  BY ONLY <1>1, <1>3, CancelOwnRead
<1>6. NeedsOf(p) = Needs({x1, x2}, {x2, x3})
  <2>1. /\ p.instruction = "CancelOrder" /\ p.intent_bytes = e /\ p.owner = x1
        /\ p.created_by = x2 /\ p.order_pda = x3
    OBVIOUS
  <2> HIDE DEF p
  <2>2. NeedsOf(p) = Needs({x1} \cup {x2}, {x3} \cup {x2})
    BY <1>1, <2>1, NeedsAre, Zenon DEF NeedsOfCancelOrder
  <2>3. {x1} \cup {x2} = {x1, x2} /\ {x3} \cup {x2} = {x2, x3}
    OBVIOUS
  <2> QED BY <2>2, <2>3, Zenon
<1>7. Asked({x1, x2, x3, x4, x5}, {x1, x2}, {x2, x3})
  <2>1. /\ {x1, x2, x3, x4, x5} = {x1, x2} \cup {x3, x4, x5}
        /\ {x1, x2, x3, x4, x5} = {x2, x3} \cup {x1, x4, x5}
    OBVIOUS
  <2>2. (\A x \in {x1, x2} : x.signer) /\ (\A x \in {x3, x4, x5} : ~x.signer)
    BY <1>4, Zenon
  <2>3. (\A x \in {x2, x3} : x.writable) /\ (\A x \in {x1, x4, x5} : ~x.writable)
    BY <1>4, Zenon
  <2> QED BY <2>1, <2>2, <2>3, SigningAre, WrittenAre, Zenon DEF Asked
<1>8. HasNeeds(p, m)
  <2>1. Range(m) = {x1, x2, x3, x4, x5}
    BY ONLY RangeOfFive
  <2> HIDE DEF m, p
  <2> QED BY <1>6, <1>7, <2>1, NeedsIf, Zenon
<1> HIDE DEF m, p
<1> QED BY <1>2, <1>5, <1>8, AllowedIf, Zenon DEF i

LEMMA OutstandingAllowed ==
    ASSUME NEW c, IsCall(c), c.name = "CancelOutstandingOrder"
    PROVE  IsAllowed(Client(c))
<1> DEFINE e == EncodeIntent(c.intent)
           d == <<11>>
           x1 == NewReadonly(c.owner, TRUE)
           x2 == NewReadonly(c.created_by, FALSE)
           x3 == New(OrderPda(e), FALSE)
           x4 == NewReadonly(SystemProgram, FALSE)
           m == <<x1, x2, x3, x4>>
           p == [instruction |-> "CancelOrder", intent_bytes |-> <<>>, owner |-> x1,
                 created_by |-> x2, order_pda |-> x3, state_pda |-> <<>>]
           i == Client(c)
<1>0. c.intent \in Intents
  BY OrderCall, Zenon
<1>1. e \in Seq(Bytes) /\ Len(e) = IntentSize /\ e # <<>>
  BY <1>0, IntentEncoded, Zenon
<1>2. i = [data |-> d, accounts |-> m]
  BY <1>1, CancelOutstandingOrderIs, Zenon
<1>3. IsTagged(d, 11, <<>>) /\ Len(<<>>) = 0
  BY <1>1 DEF IsTagged
<1>4. /\ x1.signer /\ ~x2.signer /\ ~x3.signer /\ ~x4.signer
      /\ ~x1.writable /\ ~x2.writable /\ x3.writable /\ ~x4.writable
  BY Zenon DEF New, NewReadonly
<1> HIDE DEF d, i, e, x1, x2, x3, x4
<1>5. ParseInstruction(d, m) = p
  BY ONLY <1>1, <1>3, CancelOrderRead
<1>6. NeedsOf(p) = Needs({x1}, {x3})
  <2>1. /\ p.instruction = "CancelOrder" /\ p.intent_bytes = <<>> /\ p.owner = x1
        /\ p.created_by = x2 /\ p.order_pda = x3
    OBVIOUS
  <2> HIDE DEF p
  <2>2. NeedsOf(p) = Needs({x1} \cup {}, {x3} \cup {})
    BY <1>1, <2>1, NeedsAre, Zenon DEF NeedsOfCancelOrder
  <2>3. {x1} \cup {} = {x1} /\ {x3} \cup {} = {x3}
    OBVIOUS
  <2> QED BY <2>2, <2>3, Zenon
<1>7. Asked({x1, x2, x3, x4}, {x1}, {x3})
  <2>1. {x1, x2, x3, x4} = {x1} \cup {x2, x3, x4} /\ {x1, x2, x3, x4} = {x3} \cup {x1, x2, x4}
    OBVIOUS
  <2>2. (\A x \in {x1} : x.signer) /\ (\A x \in {x2, x3, x4} : ~x.signer)
    BY <1>4, Zenon
  <2>3. (\A x \in {x3} : x.writable) /\ (\A x \in {x1, x2, x4} : ~x.writable)
    BY <1>4, Zenon
  <2> QED BY <2>1, <2>2, <2>3, SigningAre, WrittenAre, Zenon DEF Asked
<1>8. HasNeeds(p, m)
  <2>1. Range(m) = {x1, x2, x3, x4}
    BY RangeOfFour, ZenonT(60)
  <2> HIDE DEF m, p
  <2> QED BY <1>6, <1>7, <2>1, NeedsIf, Zenon
<1> HIDE DEF m, p
<1> QED BY <1>2, <1>5, <1>8, AllowedIf, Zenon DEF i

LEMMA TransferAllowed ==
    ASSUME NEW c, IsCall(c), c.name = "TransferAuthority"
    PROVE  IsAllowed(Client(c))
<1> DEFINE s == <<c.role>> \o c.new_authority
           d == <<7, c.role>> \o c.new_authority
           x1 == NewReadonly(c.signer, TRUE)
           x2 == New(StatePda, FALSE)
           m == <<x1, x2>>
           p == [instruction |-> "TransferAuthority", signer |-> x1, state_pda |-> x2,
                 role |-> c.role, new_authority |-> c.new_authority]
           i == Client(c)
<1>2. i = [data |-> d, accounts |-> m]
  BY TransferAuthorityIs, Zenon
<1>3. IsTagged(d, 7, s) /\ IsRoleAndKey(s, c.role, c.new_authority)
  BY TransferTagged, Zenon
<1>4. /\ x1.signer /\ ~x2.signer
      /\ ~x1.writable /\ x2.writable
  BY Zenon DEF New, NewReadonly
<1> HIDE DEF d, i, s, x1, x2
<1>5. ParseInstruction(d, m) = p
  BY ONLY <1>3, TransferAuthorityRead
<1>6. NeedsOf(p) = Needs({x1}, {x2})
  <2>1. p.instruction = "TransferAuthority" /\ {p.signer} = {x1} /\ {p.state_pda} = {x2}
    OBVIOUS
  <2> HIDE DEF p
  <2> QED BY <2>1, NeedsAre, Zenon DEF NeedsOfTransferAuthority
<1>7. Asked({x1, x2}, {x1}, {x2})
  <2>1. {x1, x2} = {x1} \cup {x2} /\ {x1, x2} = {x2} \cup {x1}
    OBVIOUS
  <2>2. (\A x \in {x1} : x.signer) /\ (\A x \in {x2} : ~x.signer)
    BY <1>4, Zenon
  <2>3. (\A x \in {x2} : x.writable) /\ (\A x \in {x1} : ~x.writable)
    BY <1>4, Zenon
  <2> QED BY <2>1, <2>2, <2>3, SigningAre, WrittenAre, Zenon DEF Asked
<1>8. HasNeeds(p, m)
  <2>1. Range(m) = {x1, x2}
    BY RangeOfTwo, Zenon
  <2> HIDE DEF m, p
  <2> QED BY <1>6, <1>7, <2>1, NeedsIf, Zenon
<1> HIDE DEF m, p
<1> QED BY <1>2, <1>5, <1>8, AllowedIf, Zenon DEF i

LEMMA InitializationAllowed ==
    ASSUME NEW c, IsCall(c), c.name = "Initialize"
    PROVE  IsAllowed(Client(c))
<1> DEFINE k1 == c.manager
           k2 == c.solver_authority
           k3 == c.reclaim_authority
           k4 == c.settlement_owned_order_authority
           s == k1 \o k2 \o k3 \o k4
           d == <<3>> \o k1 \o k2 \o k3 \o k4
           x1 == New(c.payer, TRUE)
           x2 == New(StatePda, FALSE)
           x3 == New(NativeBuffer, FALSE)
           x4 == NewReadonly(SystemProgram, FALSE)
           m == <<x1, x2, x3, x4>>
           p == [instruction |-> "Initialize", payer |-> x1, state_pda |-> x2, native_sol_buffer |-> x3,
                 manager |-> k1, solver_authority |-> k2, reclaim_authority |-> k3,
                 settlement_owned_order_authority |-> k4]
           i == Client(c)
<1>1. k1 \in Key /\ k2 \in Key /\ k3 \in Key /\ k4 \in Key
  BY InitializeIs, Zenon
<1>2. i = [data |-> d, accounts |-> m]
  BY InitializeIs, Zenon
<1>3. IsTagged(d, 3, s) /\ AreCuts(s, k1, k2, k3, k4)
  BY <1>1, InitializeTagged, Zenon
<1>4. /\ x1.signer /\ ~x2.signer /\ ~x3.signer /\ ~x4.signer
      /\ x1.writable /\ x2.writable /\ x3.writable /\ ~x4.writable
  BY Zenon DEF New, NewReadonly
<1> HIDE DEF d, i, s, k1, k2, k3, k4, x1, x2, x3, x4
<1>5. ParseInstruction(d, m) = p
  BY ONLY <1>3, InitializeRead
<1>6. NeedsOf(p) = Needs({x1}, {x1, x2, x3})
  BY NeedsAre DEF NeedsOfInitialize
<1>7. Asked({x1, x2, x3, x4}, {x1}, {x1, x2, x3})
  <2>1. {x1, x2, x3, x4} = {x1} \cup {x2, x3, x4} /\ {x1, x2, x3, x4} = {x1, x2, x3} \cup {x4}
    OBVIOUS
  <2>2. (\A x \in {x1} : x.signer) /\ (\A x \in {x2, x3, x4} : ~x.signer)
    BY <1>4, Zenon
  <2>3. (\A x \in {x1, x2, x3} : x.writable) /\ (\A x \in {x4} : ~x.writable)
    BY <1>4, Zenon
  <2> QED BY <2>1, <2>2, <2>3, SigningAre, WrittenAre, Zenon DEF Asked
<1>8. HasNeeds(p, m)
  <2>1. Range(m) = {x1, x2, x3, x4}
    BY RangeOfFour, ZenonT(60)
  <2> HIDE DEF m, p
  <2> QED BY <1>6, <1>7, <2>1, NeedsIf, Zenon
<1> HIDE DEF m, p
<1> QED BY <1>2, <1>5, <1>8, AllowedIf, Zenon DEF i

LEMMA ReclaimAllowed ==
    ASSUME NEW c, IsCall(c), c.name = "ReclaimOrder"
    PROVE  IsAllowed(Client(c))
<1> DEFINE e == EncodeIntent(c.intent)
           x1 == New(OrderPda(e), FALSE)
           x2 == New(c.reclaim_recipient, FALSE)
           o == c.owner
           l == [k \in 1..Len(o) |-> NewReadonly(o[k], TRUE)]
           d == <<5>>
           m == <<x1, x2>> \o l
           i == Client(c)
<1>1. o \in Seq(Key) /\ Len(o) <= 1 /\ i = [data |-> d, accounts |-> m]
  BY ReclaimOrderIs, Zenon
<1>2. ~x1.signer /\ ~x2.signer /\ x1.writable /\ x2.writable
  BY Zenon DEF New
<1>3. IsTagged(d, 5, <<>>)
  BY DEF IsTagged
<1>4. CASE Len(o) = 0
  <2>1. l = <<>>
    BY <1>4
  <2> HIDE DEF l, x1, x2, d, o, i
  <2>2. m = <<x1, x2>>
    BY <2>1
  <2> DEFINE a == <<x1, x2>>
             p == [instruction |-> "ReclaimOrder", order_pda |-> x1, reclaim_recipient |-> x2,
                   owner |-> <<>>]
  <2>3. ParseInstruction(d, a) = p
    BY ONLY <1>3, ReclaimAloneRead
  <2>4. NeedsOf(p) = Needs({}, {x1, x2})
    <3>1. Range(<<>>) = {}
      BY DEF Range
    <3>2. /\ p.instruction = "ReclaimOrder" /\ p.owner = <<>> /\ p.order_pda = x1
          /\ p.reclaim_recipient = x2
      OBVIOUS
    <3> HIDE DEF p
    <3> QED BY <3>1, <3>2, NeedsAre, Zenon DEF NeedsOfReclaimOrder
  <2>5. Asked({x1, x2}, {}, {x1, x2})
    <3>1. {x1, x2} = {} \cup {x1, x2} /\ {x1, x2} = {x1, x2} \cup {}
      OBVIOUS
    <3>2. (\A x \in {} : x.signer) /\ (\A x \in {x1, x2} : ~x.signer)
      BY <1>2, Zenon
    <3>3. (\A x \in {x1, x2} : x.writable) /\ (\A x \in {} : ~x.writable)
      BY <1>2, Zenon
    <3> QED BY <3>1, <3>2, <3>3, SigningAre, WrittenAre, Zenon DEF Asked
  <2>6. Range(a) = {x1, x2}
    BY RangeOfTwo, Zenon
  <2> HIDE DEF p, a
  <2>7. HasNeeds(p, a)
    BY <2>4, <2>5, <2>6, NeedsIf, Zenon
  <2>8. m = a
    BY <2>2, Zenon DEF a
  <2> HIDE DEF m
  <2>9. IsAllowed(i)
    BY <1>1, <2>3, <2>7, <2>8, AllowedIf, Zenon
  <2> QED BY <2>9, Zenon DEF i
<1>5. CASE Len(o) = 1
  <2> DEFINE x3 == NewReadonly(o[1], TRUE)
  <2>1. l \in [1..1 -> {x3}]
    <3>1. ASSUME NEW k \in 1..1 PROVE NewReadonly(o[k], TRUE) = x3
      <4>1. k = 1
        OBVIOUS
      <4> QED BY <4>1, Zenon
    <3> QED BY <1>5, <3>1, Zenon
  <2>2. x3.signer /\ ~x3.writable
    BY Zenon DEF NewReadonly
  <2> HIDE DEF l, x1, x2, x3, d, o, i
  <2>3. m = <<x1, x2, x3>>
    BY ONLY <2>1, TwoAndOne
  <2> DEFINE a == <<x1, x2, x3>>
             p == [instruction |-> "ReclaimOrder", order_pda |-> x1, reclaim_recipient |-> x2,
                   owner |-> <<x3>>]
  <2>4. ParseInstruction(d, a) = p
    BY ONLY <1>3, ReclaimOwnerRead
  <2>5. NeedsOf(p) = Needs({x3}, {x1, x2})
    <3>1. Range(<<x3>>) = {x3}
      BY DEF Range
    <3>2. /\ p.instruction = "ReclaimOrder" /\ p.owner = <<x3>> /\ p.order_pda = x1
          /\ p.reclaim_recipient = x2
      OBVIOUS
    <3> HIDE DEF p
    <3> QED BY <3>1, <3>2, NeedsAre, Zenon DEF NeedsOfReclaimOrder
  <2>6. Asked({x1, x2, x3}, {x3}, {x1, x2})
    <3>1. {x1, x2, x3} = {x3} \cup {x1, x2} /\ {x1, x2, x3} = {x1, x2} \cup {x3}
      OBVIOUS
    <3>2. (\A x \in {x3} : x.signer) /\ (\A x \in {x1, x2} : ~x.signer)
      BY <1>2, <2>2, Zenon
    <3>3. (\A x \in {x1, x2} : x.writable) /\ (\A x \in {x3} : ~x.writable)
      BY <1>2, <2>2, Zenon
    <3> QED BY <3>1, <3>2, <3>3, SigningAre, WrittenAre, Zenon DEF Asked
  <2>7. Range(a) = {x1, x2, x3}
    BY RangeOfThree, Zenon
  <2> HIDE DEF p, a
  <2>8. HasNeeds(p, a)
    BY <2>5, <2>6, <2>7, NeedsIf, Zenon
  <2>9. m = a
    BY <2>3, Zenon DEF a
  <2> HIDE DEF m
  <2>10. IsAllowed(i)
    BY <1>1, <2>4, <2>8, <2>9, AllowedIf, Zenon
  <2> QED BY <2>10, Zenon DEF i
<1>6. Len(o) = 0 \/ Len(o) = 1
  <2>1. Len(o) \in Nat
    BY <1>1
  <2> QED BY <1>1, <2>1
<1> QED BY <1>4, <1>5, <1>6, Zenon

Firsts(q, n) == {q[k][1] : k \in 1..n}
Seconds(q, n) == {q[k][2] : k \in 1..n}

LEMMA LaidRange ==
    ASSUME NEW S, NEW n \in Nat, NEW a, NEW h \in Seq(S), NEW q, HasPairs(S, a, h, q, n)
    PROVE  Range(a) = Range(h) \cup Firsts(q, n) \cup Seconds(q, n)
<1> DEFINE A == Firsts(q, n)
           B == Seconds(q, n)
<1>1. /\ a \in Seq(S) /\ Len(a) = Len(h) + 2 * n
      /\ \A j \in 1..Len(h) : a[j] = h[j]
      /\ \A k \in 1..n : a[Len(h) + 2 * k - 1] = q[k][1] /\ a[Len(h) + 2 * k] = q[k][2]
  BY Zenon DEF HasPairs
<1>2. DOMAIN a = 1..Len(a) /\ DOMAIN h = 1..Len(h) /\ Len(h) \in Nat
  BY <1>1
<1>3. ASSUME NEW e \in Range(a) PROVE e \in Range(h) \cup A \cup B
  <2>1. PICK j \in 1..Len(a) : e = a[j]
    BY <1>2, <1>3, Zenon DEF Range
  <2>2. CASE j \in 1..Len(h)
    <3>1. e = h[j]
      BY <1>1, <2>1, <2>2, Zenon
    <3> QED BY <1>2, <2>2, <3>1, Zenon DEF Range
  <2>3. CASE j > Len(h)
    <3> DEFINE k == (j - Len(h) + 1) \div 2
    <3>1. j - Len(h) \in 1..(2 * n)
      BY <1>1, <1>2, <2>1, <2>3
    <3>2. k \in 1..n /\ (j = Len(h) + 2 * k - 1 \/ j = Len(h) + 2 * k)
      BY <1>2, <2>1, <3>1
    <3> HIDE DEF k
    <3>3. e = q[k][1] \/ e = q[k][2]
      BY <1>1, <2>1, <3>2
    <3> QED BY <3>2, <3>3, Zenon DEF Firsts, Seconds
  <2> QED BY <1>2, <2>1, <2>2, <2>3
<1>4. ASSUME NEW e \in Range(h) PROVE e \in Range(a)
  <2>1. PICK j \in 1..Len(h) : e = h[j]
    BY <1>2, <1>4, Zenon DEF Range
  <2>2. j \in 1..Len(a)
    BY <1>1, <1>2, <2>1
  <2>3. e = a[j]
    BY <1>1, <2>1, Zenon
  <2> QED BY <1>2, <2>2, <2>3, Zenon DEF Range
<1>5. ASSUME NEW k \in 1..n PROVE q[k][1] \in Range(a) /\ q[k][2] \in Range(a)
  <2>1. Len(h) + 2 * k - 1 \in 1..Len(a) /\ Len(h) + 2 * k \in 1..Len(a)
    BY <1>1, <1>2
  <2> QED BY <1>1, <1>2, <2>1 DEF Range
<1> QED BY <1>3, <1>4, <1>5, Zenon DEF Firsts, Seconds

(* What the pairs of accounts add to the accounts that sign or are written. *)
LEMMA PairsAsked ==
    ASSUME NEW H, NEW A, NEW B, NEW R, R = H \cup A \cup B, NEW S, NEW W,
           {x \in H : x.signer} = S, {x \in H : x.writable} = W,
           \A x \in A \cup B : ~x.signer, \A x \in A : x.writable
    PROVE  /\ (\A x \in B : x.writable) => Asked(R, S, W \cup (A \cup B))
           /\ (\A x \in B : ~x.writable) => Asked(R, S, W \cup A)
<1>1. {x \in R : x.signer} = S
  BY Zenon
<1>2. ASSUME \A x \in B : x.writable PROVE {x \in R : x.writable} = W \cup (A \cup B)
  BY <1>2, Zenon
<1>3. ASSUME \A x \in B : ~x.writable PROVE {x \in R : x.writable} = W \cup A
  BY <1>3, Zenon
<1> QED BY <1>1, <1>2, <1>3, Zenon DEF Asked

LEMMA BufferCreationAllowed ==
    ASSUME NEW c, IsCall(c), c.name = "CreateBuffers"
    PROVE  IsAllowed(Client(c))
<1> DEFINE n == Len(c.mints)
           b(k) == New(Buffer[c.mints[k].mint], FALSE)
           r(k) == NewReadonly(c.mints[k].mint, FALSE)
           x1 == New(c.payer, TRUE)
           x2 == NewReadonly(SystemProgram, FALSE)
           x3 == NewReadonly(c.token_program, FALSE)
           h == <<x1, x2, x3>>
           q == [k \in 1..n |-> <<b(k), r(k)>>]
           m == h \o FlattenSeq(q)
           d == <<4>>
           i == Client(c)
           S == {x1, x2, x3} \cup {b(k) : k \in 1..n} \cup {r(k) : k \in 1..n}
<1>1. /\ c.mints \in Seq([mint: DOMAIN Buffer]) /\ i = [data |-> d, accounts |-> m]
  BY CreateBuffersIs, Zenon
<1>2. n \in Nat /\ (c.mints = <<>> <=> n = 0)
  BY <1>1
<1>3. IsTagged(d, 4, <<>>)
  BY DEF IsTagged
<1>4. /\ x1.signer /\ ~x2.signer /\ ~x3.signer /\ x1.writable /\ ~x2.writable /\ ~x3.writable
      /\ \A k \in 1..n : ~b(k).signer /\ ~r(k).signer /\ b(k).writable /\ ~r(k).writable
  BY Zenon DEF New, NewReadonly
<1> HIDE DEF b, r, x1, x2, x3, d, i
<1>6. IsLaid(S, m, h, q, n)
  <2>1. \A k \in 1..n : b(k) \in S /\ r(k) \in S
    BY Zenon
  <2>2. x1 \in S /\ x2 \in S /\ x3 \in S
    BY Zenon
  <2> HIDE DEF S, n
  <2>3. h \in Seq(S)
    BY <2>2
  <2>4. \A k \in 1..n : <<b(k), r(k)>> \in Seq(S) /\ Len(<<b(k), r(k)>>) = 2
    BY <2>1
  <2>5. q \in [1..n -> Seq(S)] /\ \A k \in 1..n : Len(q[k]) = 2
    BY <2>4
  <2> QED BY <2>3, <2>5, Zenon DEF IsLaid, ArePairs
<1>7. HasPairs(S, m, h, q, n)
  <2> HIDE DEF S, m, h, q, n
  <2>1. n \in Nat
    BY <1>2
  <2> QED BY <1>6, <2>1, PairsLaid, Zenon
<1>8. h \in Seq(S)
  BY <1>6, Zenon DEF IsLaid
<1>9. Len(h) = 3 /\ \A k \in 1..n : q[k][1] = b(k) /\ q[k][2] = r(k)
  BY <1>2
<1> DEFINE A == {b(k) : k \in 1..n}
           B == {r(k) : k \in 1..n}
           H == {x1, x2, x3}
<1>10. Range(h) = H
  BY RangeOfThree, Zenon
<1>11. h[1] = x1
  OBVIOUS
<1> HIDE DEF S, m, h, q, n, H
<1>12. Range(m) = H \cup A \cup B
  <2>1. n \in Nat
    BY <1>2
  <2>2. Range(m) = Range(h) \cup Firsts(q, n) \cup Seconds(q, n)
    BY ONLY <1>7, <1>8, <2>1, LaidRange
  <2>3. Firsts(q, n) = A /\ Seconds(q, n) = B
    BY <1>9, Zenon DEF Firsts, Seconds
  <2> QED BY <1>10, <2>2, <2>3, Zenon
<1>13. (\A x \in A \cup B : ~x.signer) /\ (\A x \in A : x.writable) /\ (\A x \in B : ~x.writable)
  BY <1>4, Zenon
<1>14. {x \in H : x.signer} = {x1} /\ {x \in H : x.writable} = {x1}
  <2>1. H = {x1} \cup {x2, x3}
    BY DEF H
  <2>2. /\ (\A x \in {x1} : x.signer) /\ (\A x \in {x2, x3} : ~x.signer)
        /\ (\A x \in {x1} : x.writable) /\ (\A x \in {x2, x3} : ~x.writable)
    BY <1>4, Zenon
  <2> QED BY <2>1, <2>2, SigningAre, WrittenAre, Zenon
<1> HIDE DEF A, B
<1>15. Asked(Range(m), {x1}, {x1} \cup A)
  BY <1>12, <1>13, <1>14, PairsAsked, Zenon
<1>16. /\ Len(m) = 3 + 2 * n /\ m[1] = x1
       /\ \A k \in 1..n : m[2 * k + 2] = b(k)
  <2>1. /\ Len(m) = Len(h) + 2 * n
        /\ \A j \in 1..Len(h) : m[j] = h[j]
        /\ \A k \in 1..n : m[Len(h) + 2 * k - 1] = q[k][1]
    BY <1>7, Zenon DEF HasPairs
  <2>2. 1 \in 1..Len(h)
    BY <1>9
  <2>3. m[1] = x1
    BY <1>11, <2>1, <2>2, Zenon
  <2>4. ASSUME NEW k \in 1..n PROVE m[2 * k + 2] = b(k)
    <3>1. Len(h) + 2 * k - 1 = 2 * k + 2
      BY <1>2, <1>9
    <3> QED BY <1>9, <2>1, <3>1, Zenon
  <2>5. Len(m) = 3 + 2 * n
    BY <1>9, <2>1, Zenon
  <2> QED BY <2>3, <2>4, <2>5, Zenon
<1> DEFINE u == [k \in 1..n |-> [buffer_pda |-> m[2 * k + 2], mint |-> m[2 * k + 3]]]
           p == ParseInstruction(d, m)
<1>17. /\ n = 0 => p = Refused
       /\ n # 0 => p = [instruction |-> "CreateBuffer", payer |-> m[1], buffers |-> u]
  BY <1>2, <1>3, <1>16, CreateBufferRead
<1>18. {f.buffer_pda : f \in Range(u)} = A
  <2>1. DOMAIN u = 1..n /\ \A k \in 1..n : u[k].buffer_pda = b(k)
    BY <1>16
  <2> HIDE DEF u
  <2> QED BY <2>1, Zenon DEF Range, A
<1> HIDE DEF u, p
<1>19. ASSUME n # 0 PROVE HasNeeds(p, m)
  <2>1. p.instruction = "CreateBuffer" /\ p.payer = x1 /\ p.buffers = u
    BY <1>16, <1>17, <1>19
  <2>2. NeedsOf(p) = Needs({x1}, {x1} \cup A)
    BY <1>18, <2>1, NeedsAre, Zenon DEF NeedsOfCreateBuffer
  <2> QED BY <1>15, <2>2, NeedsIf, Zenon
<1>20. p = Refused \/ HasNeeds(p, m)
  BY <1>17, <1>19, Zenon
<1>21. IsAllowed(i)
  BY <1>1, <1>20, AllowedIf, Zenon DEF p
<1> QED BY <1>21, Zenon DEF i

LEMMA BufferReclaimAllowed ==
    ASSUME NEW c, IsCall(c), c.name = "ReclaimBuffer"
    PROVE  IsAllowed(Client(c))
<1> DEFINE n == Len(c.mints)
           b(k) == New(Buffer[c.mints[k].mint], FALSE)
           r(k) == New(c.mints[k].mint, FALSE)
           v(k) == c.mints[k].burn_limit
           x1 == NewReadonly(StatePda, FALSE)
           x2 == NewReadonly(c.reclaim_authority, TRUE)
           x3 == New(c.reclaim_recipient, FALSE)
           x4 == NewReadonly(c.token_program, FALSE)
           h == <<x1, x2, x3, x4>>
           l == [k \in 1..n |-> ToBytes(v(k), Word)]
           s == FlattenSeq(l)
           q == [k \in 1..n |-> <<b(k), r(k)>>]
           m == h \o FlattenSeq(q)
           d == <<6>> \o s
           i == Client(c)
           S == {x1, x2, x3, x4} \cup {b(k) : k \in 1..n} \cup {r(k) : k \in 1..n}
<1>1. /\ c.mints \in Seq([mint: DOMAIN Buffer, burn_limit: Amount])
      /\ i = [data |-> d, accounts |-> m]
  BY ReclaimBufferIs, Zenon
<1>2. n \in Nat /\ (c.mints = <<>> <=> n = 0)
  BY <1>1
<1>3. /\ ~x1.signer /\ x2.signer /\ ~x3.signer /\ ~x4.signer
      /\ ~x1.writable /\ ~x2.writable /\ x3.writable /\ ~x4.writable
      /\ \A k \in 1..n : ~b(k).signer /\ ~r(k).signer /\ b(k).writable /\ r(k).writable
  BY Zenon DEF New, NewReadonly
<1>4. \A k \in 1..n : DOMAIN c.mints[k] = {"mint", "burn_limit"} /\ c.mints[k].burn_limit \in Amount
  <2>1. ASSUME NEW k \in 1..n
        PROVE  DOMAIN c.mints[k] = {"mint", "burn_limit"} /\ c.mints[k].burn_limit \in Amount
    <3>1. c.mints[k] \in [mint: DOMAIN Buffer, burn_limit: Amount]
      BY ONLY <1>1, n = Len(c.mints), k \in 1..n, ElementIs
    <3> QED BY <3>1
  <2> QED BY <2>1
<1>5. \A k \in 1..n : /\ l[k] = ToBytes(v(k), Word) /\ l[k] \in Seq(Bytes) /\ Len(l[k]) = Word
                         /\ FromBytes(l[k]) = v(k)
  <2>1. ASSUME NEW k \in 1..n
        PROVE  /\ l[k] = ToBytes(v(k), Word) /\ l[k] \in Seq(Bytes) /\ Len(l[k]) = Word
               /\ FromBytes(l[k]) = v(k)
    <3>1. v(k) \in Amount
      BY <1>4, Zenon
    <3>2. l[k] = ToBytes(v(k), Word)
      BY Zenon
    <3> HIDE DEF l, v
    <3> QED BY <3>1, <3>2, AmountBack, Zenon
  <2> HIDE DEF l, v
  <2> QED BY <2>1, Zenon
<1>6. l \in [1..n -> Seq(Bytes)]
  <2>1. \A k \in 1..n : ToBytes(v(k), Word) \in Seq(Bytes)
    BY <1>5, Zenon
  <2> QED BY <2>1, Zenon
<1> HIDE DEF l, v
<1>7. AreLimits(s, l, n)
  BY <1>5, <1>6, Zenon DEF AreLimits
<1> HIDE DEF s
<1>8. s \in Seq(Bytes) /\ LimitsMatch(s, n) /\ \A k \in 1..n : Chunk(s, Word, k) = l[k]
  <2> HIDE DEF n
  <2> QED BY ONLY <1>2, <1>7, LimitsCut
<1>9. IsTagged(d, 6, s)
  BY <1>8 DEF IsTagged
<1> HIDE DEF b, r, x1, x2, x3, x4, d, i
<1>10. IsLaid(S, m, h, q, n)
  <2>1. \A k \in 1..n : b(k) \in S /\ r(k) \in S
    BY Zenon
  <2>2. x1 \in S /\ x2 \in S /\ x3 \in S /\ x4 \in S
    BY Zenon
  <2> HIDE DEF S, n
  <2>3. h \in Seq(S)
    BY <2>2
  <2>4. \A k \in 1..n : <<b(k), r(k)>> \in Seq(S) /\ Len(<<b(k), r(k)>>) = 2
    BY <2>1
  <2>5. q \in [1..n -> Seq(S)] /\ \A k \in 1..n : Len(q[k]) = 2
    BY <2>4
  <2> QED BY <2>3, <2>5, Zenon DEF IsLaid, ArePairs
<1>11. HasPairs(S, m, h, q, n)
  <2> HIDE DEF S, m, h, q, n
  <2>1. n \in Nat
    BY <1>2
  <2> QED BY <1>10, <2>1, PairsLaid, Zenon
<1>12. h \in Seq(S)
  BY <1>10, Zenon DEF IsLaid
<1>13. Len(h) = 4 /\ \A k \in 1..n : q[k][1] = b(k) /\ q[k][2] = r(k)
  BY <1>2
<1> DEFINE A == {b(k) : k \in 1..n}
           B == {r(k) : k \in 1..n}
           H == {x1, x2, x3, x4}
<1>14. Range(h) = H
  BY RangeOfFour, ZenonT(60)
<1>15. h[2] = x2 /\ h[3] = x3
  OBVIOUS
<1> HIDE DEF S, m, h, q, n, H
<1>16. Range(m) = H \cup A \cup B
  <2>1. n \in Nat
    BY <1>2
  <2>2. Range(m) = Range(h) \cup Firsts(q, n) \cup Seconds(q, n)
    BY ONLY <1>11, <1>12, <2>1, LaidRange
  <2>3. Firsts(q, n) = A /\ Seconds(q, n) = B
    BY <1>13, Zenon DEF Firsts, Seconds
  <2> QED BY <1>14, <2>2, <2>3, Zenon
<1>17. (\A x \in A \cup B : ~x.signer) /\ (\A x \in A : x.writable) /\ (\A x \in B : x.writable)
  BY <1>3, Zenon
<1>18. {x \in H : x.signer} = {x2} /\ {x \in H : x.writable} = {x3}
  <2>1. H = {x2} \cup {x1, x3, x4} /\ H = {x3} \cup {x1, x2, x4}
    BY DEF H
  <2>2. /\ (\A x \in {x2} : x.signer) /\ (\A x \in {x1, x3, x4} : ~x.signer)
        /\ (\A x \in {x3} : x.writable) /\ (\A x \in {x1, x2, x4} : ~x.writable)
    BY <1>3, Zenon
  <2> QED BY <2>1, <2>2, SigningAre, WrittenAre, Zenon
<1> HIDE DEF A, B
<1>19. Asked(Range(m), {x2}, {x3} \cup (A \cup B))
  BY <1>16, <1>17, <1>18, PairsAsked, Zenon
<1>20. /\ Len(m) = 4 + 2 * n /\ m[2] = x2 /\ m[3] = x3
       /\ \A k \in 1..n : m[2 * k + 3] = b(k) /\ m[2 * k + 4] = r(k)
  <2>1. /\ Len(m) = Len(h) + 2 * n
        /\ \A j \in 1..Len(h) : m[j] = h[j]
        /\ \A k \in 1..n : m[Len(h) + 2 * k - 1] = q[k][1] /\ m[Len(h) + 2 * k] = q[k][2]
    BY <1>11, Zenon DEF HasPairs
  <2>2. 2 \in 1..Len(h) /\ 3 \in 1..Len(h)
    BY <1>13
  <2>3. m[2] = x2 /\ m[3] = x3
    BY <1>15, <2>1, <2>2, Zenon
  <2>4. ASSUME NEW k \in 1..n PROVE m[2 * k + 3] = b(k) /\ m[2 * k + 4] = r(k)
    <3>1. Len(h) + 2 * k - 1 = 2 * k + 3 /\ Len(h) + 2 * k = 2 * k + 4
      BY <1>2, <1>13
    <3> QED BY <1>13, <2>1, <3>1, Zenon
  <2>5. Len(m) = 4 + 2 * n
    BY <1>13, <2>1, Zenon
  <2> QED BY <2>3, <2>4, <2>5, Zenon
<1> DEFINE u == [k \in 1..n |-> [buffer_pda |-> m[2 * k + 3], mint |-> m[2 * k + 4],
                               burn_limit |-> FromBytes(Chunk(s, Word, k))]]
           p == ParseInstruction(d, m)
<1>21. /\ n = 0 => p = Refused
       /\ n # 0 => p = [instruction |-> "ReclaimBuffer", state_pda |-> m[1],
                         reclaim_authority |-> m[2], reclaim_recipient |-> m[3], buffers |-> u]
  BY <1>2, <1>9, <1>20, <1>8, ReclaimBufferRead
<1>22. UNION {{f.buffer_pda, f.mint} : f \in Range(u)} = A \cup B
  <2>1. DOMAIN u = 1..n /\ \A k \in 1..n : u[k].buffer_pda = b(k) /\ u[k].mint = r(k)
    BY <1>20
  <2> DEFINE U == UNION {{f.buffer_pda, f.mint} : f \in Range(u)}
  <2> HIDE DEF u
  <2>2. ASSUME NEW k \in 1..n PROVE u[k] \in Range(u)
    BY <2>1, Zenon DEF Range
  <2>3. ASSUME NEW k \in 1..n PROVE b(k) \in U /\ r(k) \in U
    <3>1. {u[k].buffer_pda, u[k].mint} \in {{f.buffer_pda, f.mint} : f \in Range(u)}
      BY <2>2, Zenon
    <3>2. b(k) \in {u[k].buffer_pda, u[k].mint} /\ r(k) \in {u[k].buffer_pda, u[k].mint}
      BY <2>1, Zenon
    <3> QED BY <3>1, <3>2, Zenon
  <2>4. ASSUME NEW x \in U PROVE x \in A \cup B
    <3>1. PICK f \in Range(u) : x \in {f.buffer_pda, f.mint}
      BY <2>4, Zenon
    <3>2. PICK k \in 1..n : f = u[k]
      BY <2>1, Zenon DEF Range
    <3>3. x = b(k) \/ x = r(k)
      BY <2>1, <3>1, <3>2, Zenon
    <3> QED BY <3>3, Zenon DEF A, B
  <2> QED BY <2>3, <2>4, Zenon DEF A, B
<1> HIDE DEF u, p
<1>23. ASSUME n # 0 PROVE HasNeeds(p, m)
  <2>1. /\ p.instruction = "ReclaimBuffer" /\ p.reclaim_authority = x2
        /\ p.reclaim_recipient = x3 /\ p.buffers = u
    BY <1>20, <1>21, <1>23
  <2>2. NeedsOf(p) = Needs({x2}, {x3} \cup (A \cup B))
    BY <1>22, <2>1, NeedsAre, Zenon DEF NeedsOfReclaimBuffer
  <2> QED BY <1>19, <2>2, NeedsIf, Zenon
<1>24. p = Refused \/ HasNeeds(p, m)
  BY <1>21, <1>23, Zenon
<1>25. IsAllowed(i)
  BY <1>1, <1>24, AllowedIf, Zenon DEF p
<1> QED BY <1>25, Zenon DEF i

LEMMA EveryCallAllowed ==
    ASSUME NEW c, IsCall(c)
    PROVE  IsAllowed(Client(c))
<1>1. CASE c.name = "Initialize"
  BY <1>1, InitializationAllowed, Zenon
<1>2. CASE c.name \in {"CreateOrder", "CancelOrder", "CancelOutstandingOrder"}
  BY <1>2, CreationAllowed, CancellationAllowed, OutstandingAllowed, Zenon
<1>3. CASE c.name \in {"CreateSettlementOwnedOrder", "CancelSettlementOwnedOrder"}
  BY <1>3, OwnCreationAllowed, OwnCancellationAllowed, Zenon
<1>4. CASE c.name = "ReclaimOrder"
  BY <1>4, ReclaimAllowed, Zenon
<1>5. CASE c.name \in {"CreateBuffers", "ReclaimBuffer"}
  BY <1>5, BufferCreationAllowed, BufferReclaimAllowed, Zenon
<1>6. CASE c.name \in {"TransferAuthority", "AddSolver", "RemoveSolver", "WithdrawNativeSol"}
  BY <1>6, TransferAllowed, SolverAdditionAllowed, SolverRemovalAllowed, WithdrawalAllowed, Zenon
<1> QED BY <1>1, <1>2, <1>3, <1>4, <1>5, <1>6, CallNames, Zenon

(* The client asks for exactly the signatures and write locks that the      *)
(* handler makes use of on one of its paths, for whichever call and however *)
(* many buffers it is about.                                                *)
THEOREM PrivilegesAreNeeded == WireSpec => []PrivilegesMatch
<1>1. WireInv => PrivilegesMatch
  <2> SUFFICES ASSUME WireInv, call # NoCall, edits = 0, NEW p, p = Parsed, p # Refused
               PROVE  HasNeeds(p, ix.accounts)
    BY Zenon DEF PrivilegesMatch, HasNeeds
  <2>1. IsCall(call) /\ ix = Client(call)
    BY Zenon DEF WireInv
  <2>2. IsAllowed(ix)
    BY <2>1, EveryCallAllowed, Zenon
  <2> QED BY <2>2, Zenon DEF IsAllowed, Parsed
<1> QED BY <1>1, WireStays, PTL
-----------------------------------------------------------------------------
(* Buffers. *)
LEMMA BatchMembers ==
    ASSUME NEW S \in SUBSET Mints, NEW batch \in [S -> Limits]
    PROVE  batch \in Batch
BY DEF Batch

LEMMA BatchParts ==
    ASSUME NEW batch \in Batch
    PROVE  /\ DOMAIN batch \subseteq Mints
           /\ batch \in [DOMAIN batch -> Limits]
           /\ \A m \in DOMAIN batch : batch[m] \in Nat
<1>1. PICK S \in SUBSET Mints : batch \in [S -> Limits]
  BY DEF Batch
<1> QED BY <1>1, BuffersAssumption

LEMMA NothingIsBatch == Nothing \in Batch
<1>1. Nothing \in [{} -> Limits]
  BY DEF Nothing
<1> QED BY <1>1, BatchMembers

(* The arguments of a command, as a batch. *)
LEMMA FirstOnlyIsBatch ==
    ASSUME NEW args \in Batches(Entry)
    PROVE  FirstOnly(args) \in Batch
<1> DEFINE S == {args[k].mint : k \in DOMAIN args}
           isFirst(m, k) == args[k].mint = m /\ \A j \in 1..(k - 1) : args[j].mint # m
           first(m) == CHOOSE k \in DOMAIN args : isFirst(m, k)
<1>1. PICK n \in 1..MaxBatch : args \in [1..n -> Entry]
  BY DEF Batches
<1>2. n \in Nat
  BY <1>1
<1>3. S \in SUBSET Mints
  BY <1>1 DEF Entry
<1>4. ASSUME NEW m \in S
      PROVE  \E k \in DOMAIN args : isFirst(m, k)
  <2> DEFINE K == {k \in 1..n : args[k].mint = m}
  <2>1. K \in SUBSET Nat /\ K # {}
    BY <1>1, <1>2
  <2>2. PICK k \in K : \A other \in K : k <= other
    BY <2>1, Smallest
  <2>3. ASSUME NEW j \in 1..(k - 1) PROVE args[j].mint # m
    BY <1>2, <2>2
  <2> QED BY <1>1, <2>2, <2>3
<1>5. ASSUME NEW m \in S
      PROVE  args[first(m)].burn_limit \in Limits
  <2>1. first(m) \in DOMAIN args
    BY <1>4
  <2> QED BY <1>1, <2>1 DEF Entry
<1>6. FirstOnly(args) = [m \in S |-> args[first(m)].burn_limit]
  BY Zenon DEF FirstOnly
<1> HIDE DEF S, first
<1>7. FirstOnly(args) \in [S -> Limits]
  BY <1>5, <1>6
<1> QED BY <1>3, <1>7, BatchMembers

(* A part of a batch. *)
LEMMA RestrictIsBatch ==
    ASSUME NEW batch \in Batch, NEW S \in SUBSET DOMAIN batch
    PROVE  /\ Restrict(batch, S) \in Batch
           /\ DOMAIN Restrict(batch, S) = S
           /\ \A m \in S : Restrict(batch, S)[m] = batch[m]
<1>1. Restrict(batch, S) \in [S -> Limits]
  BY BatchParts DEF Restrict
<1>2. S \in SUBSET Mints
  BY BatchParts
<1> QED BY <1>1, <1>2, BatchMembers DEF Restrict

-----------------------------------------------------------------------------
(* Lamports at the addresses of the buffers. *)
Held == [m \in Mints |-> buffer[m].lamports]

LEMMA HeldType ==
    ASSUME TypeOK
    PROVE  /\ \A m \in Mints : Held[m] \in Nat
           /\ \A m \in Mints : Held[m] = buffer[m].lamports
BY DEF TypeOK, Held, Account

LEMMA ShortfallType ==
    ASSUME TypeOK, NEW m \in Mints
    PROVE  /\ Shortfall(m) \in Nat
           /\ buffer[m].lamports + Shortfall(m) >= Rent
BY BuffersAssumption DEF TypeOK, Account, Shortfall

(* What the creation of a set of buffers costs. *)
Cost(new) == SumFunctionOnSet([m \in Mints |-> Shortfall(m)], new)

LEMMA CostType ==
    ASSUME TypeOK, NEW new \in SUBSET Mints
    PROVE  Cost(new) \in Nat
<1>1. IsFiniteSet(new)
  BY BuffersAssumption, FS_Subset
<1>2. \A m \in new : [k \in Mints |-> Shortfall(k)][m] \in Nat
  BY ShortfallType
<1> DEFINE f == [k \in Mints |-> Shortfall(k)]
<1> HIDE DEF f
<1>3. SumFunctionOnSet(f, new) \in Nat
  BY <1>1, <1>2, SumSplits DEF f
<1> QED BY <1>3, Zenon DEF Cost, f

(* What closing a set of buffers returns. *)
LEMMA RefundType ==
    ASSUME TypeOK, NEW gone \in SUBSET Mints
    PROVE  SumFunctionOnSet(Held, gone) \in Nat
<1>1. IsFiniteSet(gone)
  BY BuffersAssumption, FS_Subset
<1> QED BY <1>1, HeldType, SumSplits

LEMMA ClosableParts ==
    ASSUME NEW batch \in Batch
    PROVE  Closable(batch) \in SUBSET Mints
BY BatchParts DEF Closable
-----------------------------------------------------------------------------
(* What CreateBuffer and a successful ReclaimBuffer do, by named parts. *)
LEMMA CreateParts ==
    ASSUME TypeOK, NEW p \in Parties, NEW mints \in Batches(Mints), CreateBuffer(p, mints)
    PROVE  \E new \in SUBSET Mints :
               /\ \A m \in new : ~buffer[m].open
               /\ Cost(new) \in Nat
               /\ wallet[p] >= Cost(new)
               /\ wallet' = [wallet EXCEPT ![p] = @ - Cost(new)]
               /\ buffer' = [m \in Mints |->
                               IF m \in new
                               THEN [open |-> TRUE, amount |-> 0,
                                     lamports |-> buffer[m].lamports + Shortfall(m)]
                               ELSE buffer[m]]
               /\ UNCHANGED <<outside, destroyed, closed, tool>>
<1> DEFINE new == {m \in Range(mints) : ~buffer[m].open}
<1>1. new \in SUBSET Mints /\ \A m \in new : ~buffer[m].open
  BY DEF Batches, Range
<1>2. /\ CanPay(p, Cost(new))
      /\ wallet' = [wallet EXCEPT ![p] = @ - Cost(new)]
      /\ buffer' = [m \in Mints |->
                      IF m \in new
                      THEN [open |-> TRUE, amount |-> 0,
                            lamports |-> buffer[m].lamports + Shortfall(m)]
                      ELSE buffer[m]]
      /\ UNCHANGED <<outside, destroyed, closed, tool>>
  BY Zenon DEF CreateBuffer, Cost
<1>3. Cost(new) \in Nat
  BY <1>1, CostType
<1> HIDE DEF new
<1> QED BY <1>1, <1>2, <1>3, Zenon DEF CanPay

LEMMA ReclaimParts ==
    ASSUME TypeOK, NEW batch \in Batch, ReclaimBuffer(batch, Operator)
    PROVE  \E gone \in SUBSET Mints :
               /\ gone = Closable(batch)
               /\ SumFunctionOnSet(Held, gone) \in Nat
               /\ wallet' = [wallet EXCEPT ![Operator] = @ + SumFunctionOnSet(Held, gone)]
               /\ destroyed' = [m \in Mints |->
                                  destroyed[m] + IF m \in gone THEN buffer[m].amount ELSE 0]
               /\ buffer' = [m \in Mints |->
                               IF m \in gone THEN [open |-> FALSE, amount |-> 0, lamports |-> 0]
                               ELSE buffer[m]]
               /\ closed' = closed \cup gone
               /\ UNCHANGED outside
<1>1. Closable(batch) \in SUBSET Mints
  BY ClosableParts
<1>2. SumFunctionOnSet(Held, Closable(batch)) \in Nat
  BY <1>1, RefundType
<1> QED BY <1>1, <1>2, Zenon DEF ReclaimBuffer, Held

(* The types, and that only finitely many transactions are pending. *)
TypesInv == TypeOK /\ IsFiniteSet(pending)

LEMMA ReclaimTypes ==
    ASSUME TypeOK, NEW batch \in Batch, ReclaimBuffer(batch, Operator)
    PROVE  /\ buffer' \in [Mints -> Account]
           /\ wallet' \in [Parties -> Nat]
           /\ outside' \in [Mints -> Nat]
           /\ destroyed' \in [Mints -> Nat]
           /\ closed' \subseteq Mints
<1>1. PICK gone \in SUBSET Mints :
               /\ SumFunctionOnSet(Held, gone) \in Nat
               /\ wallet' = [wallet EXCEPT ![Operator] = @ + SumFunctionOnSet(Held, gone)]
               /\ destroyed' = [m \in Mints |->
                                  destroyed[m] + IF m \in gone THEN buffer[m].amount ELSE 0]
               /\ buffer' = [m \in Mints |->
                               IF m \in gone THEN [open |-> FALSE, amount |-> 0, lamports |-> 0]
                               ELSE buffer[m]]
               /\ closed' = closed \cup gone
               /\ UNCHANGED outside
  BY ReclaimParts
<1> DEFINE refund == SumFunctionOnSet(Held, gone)
<1> HIDE DEF refund
<1>2. wallet' \in [Parties -> Nat]
  <2>1. refund \in Nat /\ wallet' = [wallet EXCEPT ![Operator] = @ + refund]
    BY <1>1, Zenon DEF refund
  <2> QED BY <2>1, BuffersAssumption DEF TypeOK
<1>3. buffer' \in [Mints -> Account]
  BY <1>1 DEF TypeOK, Account
<1>4. destroyed' \in [Mints -> Nat]
  BY <1>1 DEF TypeOK, Account
<1> QED BY <1>1, <1>2, <1>3, <1>4 DEF TypeOK

LEMMA TypesInit == Init => TypesInv
<1> SUFFICES ASSUME Init PROVE TypesInv
  OBVIOUS
<1>1. command \in [stage: {"idle", "looked", "sent", "reported"}, to_close: Batch,
                   non_empty: SUBSET Mints, reclaimed: SUBSET Mints]
  BY NothingIsBatch DEF Init, Idle
<1>2. IsFiniteSet(pending)
  BY FS_EmptySet DEF Init
<1> QED BY <1>1, <1>2, BuffersAssumption DEF Init, TypesInv, TypeOK, Account

LEMMA TypesNext == TypesInv /\ [Next]_vars => TypesInv'
<1> SUFFICES ASSUME TypesInv, [Next]_vars PROVE TypesInv'
  OBVIOUS
<1> USE DEF TypesInv
<1>1. ASSUME NEW p \in Parties, NEW mints \in Batches(Mints), CreateBuffer(p, mints)
      PROVE  TypesInv'
  <2>1. PICK new \in SUBSET Mints :
               /\ Cost(new) \in Nat
               /\ wallet[p] >= Cost(new)
               /\ wallet' = [wallet EXCEPT ![p] = @ - Cost(new)]
               /\ buffer' = [m \in Mints |->
                               IF m \in new
                               THEN [open |-> TRUE, amount |-> 0,
                                     lamports |-> buffer[m].lamports + Shortfall(m)]
                               ELSE buffer[m]]
               /\ UNCHANGED <<outside, destroyed, closed, tool>>
    BY <1>1, CreateParts
  <2>2. wallet' \in [Parties -> Nat]
    BY <2>1 DEF TypeOK
  <2>3. buffer' \in [Mints -> Account]
    BY <2>1, ShortfallType DEF TypeOK, Account
  <2> QED BY <2>1, <2>2, <2>3 DEF TypeOK, tool
<1>2. ASSUME NEW args \in Batches(Entry), StartReclaim(args)
      PROVE  TypesInv'
  <2> DEFINE named == FirstOnly(args)
             to_close == Restrict(named, Closable(named))
  <2>1. named \in Batch
    BY FirstOnlyIsBatch
  <2>2. to_close \in Batch
    BY <2>1, RestrictIsBatch DEF Closable
  <2>3. command' = [stage |-> IF Closable(named) = {} THEN "reported" ELSE "looked",
                    to_close |-> to_close,
                    non_empty |-> DOMAIN named \ DOMAIN to_close,
                    reclaimed |-> {}]
    BY <1>2 DEF StartReclaim
  <2>4. command' \in [stage: {"idle", "looked", "sent", "reported"}, to_close: Batch,
                      non_empty: SUBSET Mints, reclaimed: SUBSET Mints]
    <3>1. DOMAIN named \ DOMAIN to_close \in SUBSET Mints
      BY <2>1, BatchParts
    <3> HIDE DEF named, to_close
    <3> QED BY <2>2, <2>3, <3>1
  <2>5. granted' \in [Mints -> Nat]
    <3>1. ASSUME NEW m \in Mints PROVE LimitOf(named, m) \in Nat
      BY <2>1, BatchParts DEF LimitOf
    <3>2. granted' = [m \in Mints |-> granted[m] + LimitOf(named, m)]
      BY <1>2 DEF StartReclaim
    <3> HIDE DEF named
    <3> QED BY <3>1, <3>2 DEF TypeOK
  <2>6. /\ commands < MaxCommands
        /\ commands' = commands + 1
        /\ closed' = {}
        /\ UNCHANGED <<buffer, wallet, outside, destroyed, pending>>
    BY <1>2 DEF StartReclaim
  <2>7. commands' \in 0..MaxCommands
    BY <2>6, BuffersAssumption DEF TypeOK
  <2> HIDE DEF named, to_close
  <2> QED BY <2>4, <2>5, <2>6, <2>7 DEF TypeOK
<1>3. CASE Send
  <2>1. command.to_close \in Batch /\ ReclaimBuffer(command.to_close, Operator)
    BY <1>3 DEF Send, TypeOK
  <2> QED BY <1>3, <2>1, ReclaimTypes DEF Send, TypeOK
<1>4. CASE SendFails
  BY <1>4, NothingIsBatch DEF SendFails, TypeOK, Idle, chain
<1>5. CASE Propose \/ TimeOut
  <2>1. /\ pending' = pending \cup {Numbered(command.to_close)}
        /\ command' = [command EXCEPT !.stage = "reported"] \/ command' = Idle
        /\ UNCHANGED <<chain, commands, granted>>
    BY <1>5 DEF Propose, TimeOut
  <2>2. IsFiniteSet(pending')
    BY <2>1, FS_AddElement
  <2>3. command' \in [stage: {"idle", "looked", "sent", "reported"}, to_close: Batch,
                      non_empty: SUBSET Mints, reclaimed: SUBSET Mints]
    BY <2>1, NothingIsBatch DEF TypeOK, Idle
  <2> QED
    BY <2>1, <2>2, <2>3 DEF TypeOK, Numbered, chain
<1>6. ASSUME NEW late \in pending, Execute(late)
      PROVE  TypesInv'
  <2>1. late.batch \in Batch /\ ReclaimBuffer(late.batch, Operator)
    BY <1>6 DEF Execute, TypeOK
  <2>2. IsFiniteSet(pending')
    BY <1>6, FS_RemoveElement DEF Execute
  <2> QED BY <1>6, <2>1, <2>2, ReclaimTypes DEF Execute, TypeOK
<1>7. CASE CheckOutcome
  <2>1. DOMAIN command.to_close \in SUBSET Mints
    BY BatchParts DEF TypeOK
  <2> QED BY <1>7, <2>1 DEF CheckOutcome, TypeOK, chain
<1>8. CASE Finish
  BY <1>8, NothingIsBatch DEF Finish, TypeOK, Idle, chain
<1>9. ASSUME NEW m \in Mints, Deposit(m, 1) \/ Spend(m, 1)
      PROVE  TypesInv'
  <2>1. CASE Deposit(m, 1)
    BY <2>1 DEF Deposit, TypeOK, Account, tool
  <2>2. CASE Spend(m, 1)
    BY <2>2 DEF Spend, TypeOK, Account, tool
  <2> QED BY <1>9, <2>1, <2>2
<1>10. ASSUME NEW p \in Parties, NEW m \in Mints, Donate(p, m)
       PROVE  TypesInv'
  BY <1>10 DEF Donate, TypeOK, Account, tool
<1>11. CASE UNCHANGED vars
  BY <1>11 DEF vars, chain, tool, TypeOK
<1> QED BY <1>1, <1>2, <1>3, <1>4, <1>5, <1>6, <1>7, <1>8, <1>9, <1>10, <1>11 DEF Next

(* The variables of Buffers keep their types: wallets never go negative,   *)
(* and what is pending or was looked at always names buffers of mints with *)
(* the operator's limits.                                                  *)
THEOREM TypesAreKept == Spec => []TypeOK
<1>1. Spec => []TypesInv
  BY TypesInit, TypesNext, PTL DEF Spec
<1> QED BY <1>1, PTL DEF TypesInv
-----------------------------------------------------------------------------
(* Until the report, a buffer that was to be closed is open or was closed  *)
(* since the command looked, and it does not count as left open.           *)
ReportInv ==
    /\ ReportIsTrue
    /\ command.stage \in {"looked", "sent"} =>
           /\ \A m \in DOMAIN command.to_close :
                  (buffer[m].open \/ m \in closed) /\ m \notin command.non_empty
           /\ command.reclaimed = {}

LEMMA ReportInit == Init => ReportInv
BY DEF Init, Idle, ReportInv, ReportIsTrue

(* The command is not touched, and a buffer is only closed visibly. *)
LEMMA ReportKept ==
    ASSUME ReportInv, UNCHANGED command, closed \subseteq closed',
           \A m \in DOMAIN command.to_close : buffer[m].open => buffer'[m].open \/ m \in closed'
    PROVE  ReportInv'
BY DEF ReportInv, ReportIsTrue

LEMMA ReclaimCloses ==
    ASSUME TypeOK, NEW batch \in Batch, ReclaimBuffer(batch, Operator)
    PROVE  /\ closed \subseteq closed'
           /\ \A m \in Mints : buffer[m].open => buffer'[m].open \/ m \in closed'
<1>1. PICK gone \in SUBSET Mints :
               /\ buffer' = [m \in Mints |->
                               IF m \in gone THEN [open |-> FALSE, amount |-> 0, lamports |-> 0]
                               ELSE buffer[m]]
               /\ closed' = closed \cup gone
  BY ReclaimParts
<1> QED BY <1>1

LEMMA ReportNext == TypesInv /\ ReportInv /\ [Next]_vars => ReportInv'
<1> SUFFICES ASSUME TypesInv, ReportInv, [Next]_vars PROVE ReportInv'
  OBVIOUS
<1>0. TypeOK /\ command.to_close \in Batch /\ DOMAIN command.to_close \subseteq Mints
  BY BatchParts DEF TypesInv, TypeOK
<1>1. ASSUME NEW p \in Parties, NEW mints \in Batches(Mints), CreateBuffer(p, mints)
      PROVE  ReportInv'
  <2>1. PICK new \in SUBSET Mints :
               /\ buffer' = [m \in Mints |->
                               IF m \in new
                               THEN [open |-> TRUE, amount |-> 0,
                                     lamports |-> buffer[m].lamports + Shortfall(m)]
                               ELSE buffer[m]]
               /\ UNCHANGED <<outside, destroyed, closed, tool>>
    BY <1>0, <1>1, CreateParts
  <2>2. \A m \in Mints : buffer[m].open => buffer'[m].open
    BY <2>1
  <2> QED BY <1>0, <2>1, <2>2, ReportKept DEF tool
<1>2. ASSUME NEW args \in Batches(Entry), StartReclaim(args)
      PROVE  ReportInv'
  <2> DEFINE named == FirstOnly(args)
             to_close == Restrict(named, Closable(named))
  <2>1. named \in Batch /\ Closable(named) \in SUBSET DOMAIN named
    BY FirstOnlyIsBatch DEF Closable
  <2>2. DOMAIN to_close = Closable(named)
    BY <2>1, RestrictIsBatch
  <2>3. /\ \A m \in DOMAIN named : buffer[m].open
        /\ command' = [stage |-> IF Closable(named) = {} THEN "reported" ELSE "looked",
                       to_close |-> to_close,
                       non_empty |-> DOMAIN named \ DOMAIN to_close,
                       reclaimed |-> {}]
        /\ UNCHANGED buffer
    BY <1>2 DEF StartReclaim
  <2> HIDE DEF named, to_close
  <2>4. /\ command'.reclaimed = {}
        /\ command'.to_close = to_close
        /\ command'.non_empty = DOMAIN named \ DOMAIN to_close
    BY <2>3
  <2>5. \A m \in DOMAIN to_close : buffer'[m].open
    BY <2>1, <2>2, <2>3
  <2> QED BY <2>4, <2>5 DEF ReportInv, ReportIsTrue
<1>3. CASE Send
  <2>1. /\ command.stage = "looked"
        /\ ReclaimBuffer(command.to_close, Operator)
        /\ command' = [command EXCEPT !.stage = "sent"]
    BY <1>3 DEF Send
  <2>2. /\ closed \subseteq closed'
        /\ \A m \in Mints : buffer[m].open => buffer'[m].open \/ m \in closed'
    BY <1>0, <2>1, ReclaimCloses
  <2>3. /\ command'.stage = "sent"
        /\ command'.to_close = command.to_close
        /\ command'.non_empty = command.non_empty
        /\ command'.reclaimed = command.reclaimed
    BY <1>0, <2>1 DEF TypeOK
  <2> QED BY <1>0, <2>1, <2>2, <2>3 DEF ReportInv, ReportIsTrue
<1>4. CASE SendFails \/ TimeOut \/ Finish
  <2>1. command'.stage = "idle"
    BY <1>4 DEF SendFails, TimeOut, Finish, Idle
  <2> QED BY <2>1 DEF ReportInv, ReportIsTrue
<1>5. CASE Propose
  <2>1. command.stage = "looked" /\ command' = [command EXCEPT !.stage = "reported"]
    BY <1>5 DEF Propose
  <2>2. command'.stage = "reported" /\ command'.reclaimed = command.reclaimed
    BY <1>0, <2>1 DEF TypeOK
  <2> QED BY <2>1, <2>2 DEF ReportInv, ReportIsTrue
<1>6. ASSUME NEW late \in pending, Execute(late)
      PROVE  ReportInv'
  <2>1. late.batch \in Batch /\ ReclaimBuffer(late.batch, Operator) /\ UNCHANGED command
    BY <1>0, <1>6 DEF Execute, TypeOK
  <2>2. /\ closed \subseteq closed'
        /\ \A m \in Mints : buffer[m].open => buffer'[m].open \/ m \in closed'
    BY <1>0, <2>1, ReclaimCloses
  <2> QED BY <1>0, <2>1, <2>2, ReportKept
<1>7. CASE CheckOutcome
  <2> DEFINE asked == DOMAIN command.to_close
  <2>1. /\ command.stage = "sent"
        /\ command' = [command EXCEPT
                         !.stage = "reported",
                         !.reclaimed = {m \in asked : ~IsFound(m)},
                         !.non_empty = @ \cup {m \in asked : IsFound(m)}]
        /\ UNCHANGED <<buffer, closed>>
    BY <1>7 DEF CheckOutcome, chain
  <2>2. /\ command'.stage = "reported"
        /\ command'.reclaimed = {m \in asked : ~IsFound(m)}
        /\ command'.non_empty = command.non_empty \cup {m \in asked : IsFound(m)}
    BY <1>0, <2>1 DEF TypeOK
  <2>3. \A m \in asked : (buffer[m].open \/ m \in closed) /\ m \notin command.non_empty
    BY <2>1 DEF ReportInv
  <2>4. \A m \in asked : ~IsFound(m) => m \in closed
    BY <2>3 DEF IsFound
  <2> HIDE DEF asked
  <2>5. command'.reclaimed \subseteq closed'
    BY <2>1, <2>2, <2>4
  <2>6. command'.reclaimed \cap command'.non_empty = {}
    BY <2>2, <2>3
  <2> QED BY <2>2, <2>5, <2>6 DEF ReportInv, ReportIsTrue
<1>8. ASSUME NEW m \in Mints, Deposit(m, 1) \/ Spend(m, 1)
      PROVE  ReportInv'
  <2>1. UNCHANGED <<command, closed>> /\ \A k \in Mints : buffer'[k].open = buffer[k].open
    BY <1>0, <1>8 DEF Deposit, Spend, tool, TypeOK, Account
  <2> QED BY <1>0, <2>1, ReportKept
<1>9. ASSUME NEW p \in Parties, NEW m \in Mints, Donate(p, m)
      PROVE  ReportInv'
  <2>1. UNCHANGED <<command, closed>> /\ \A k \in Mints : buffer'[k].open = buffer[k].open
    BY <1>0, <1>9 DEF Donate, tool, TypeOK, Account
  <2> QED BY <1>0, <2>1, ReportKept
<1>10. CASE UNCHANGED vars
  BY <1>10 DEF vars, chain, tool, ReportInv, ReportIsTrue
<1> QED BY <1>1, <1>2, <1>3, <1>4, <1>5, <1>6, <1>7, <1>8, <1>9, <1>10 DEF Next

(* Whatever happens between the two looks of a reclaim command, and        *)
(* although the program skips buffers silently, a buffer that the command  *)
(* reports as reclaimed was closed since its first look, and the report    *)
(* does not name it among those left open too.                             *)
THEOREM ReportsAreTrue == Spec => []ReportIsTrue
<1>1. Spec => [](TypesInv /\ ReportInv)
  BY TypesInit, TypesNext, ReportInit, ReportNext, PTL DEF Spec
<1> QED BY <1>1, PTL DEF ReportInv
-----------------------------------------------------------------------------
(* The lamports of the parties and of the buffers' addresses. *)
InWallets == SumFunctionOnSet(wallet, Parties)
InBuffers == SumFunctionOnSet(Held, Mints)

LEMMA FundedForm ==
    BuffersAreFunded <=>
        /\ \A m \in Mints : buffer[m].open => buffer[m].lamports >= Rent
        /\ InWallets + InBuffers = SumFunctionOnSet(InitLamports, Parties)
BY Zenon DEF BuffersAreFunded, InWallets, InBuffers, Held

LEMMA FundsType ==
    ASSUME TypeOK
    PROVE  InWallets \in Nat /\ InBuffers \in Nat
<1>1. InWallets \in Nat
  BY BuffersAssumption, SumSplits DEF TypeOK, InWallets
<1>2. InBuffers \in Nat
  BY HeldType, BuffersAssumption, SumSplits DEF InBuffers
<1> QED BY <1>1, <1>2

(* One wallet changes. *)
LEMMA WalletChange ==
    ASSUME TypeOK, TypeOK', NEW p \in Parties,
           \A q \in Parties \ {p} : wallet'[q] = wallet[q]
    PROVE  InWallets' = InWallets - wallet[p] + wallet'[p]
BY BuffersAssumption, SumChange DEF TypeOK, InWallets

(* One buffer's address changes. *)
LEMMA BufferChange ==
    ASSUME TypeOK, TypeOK', NEW m \in Mints,
           \A k \in Mints \ {m} : buffer'[k].lamports = buffer[k].lamports
    PROVE  InBuffers' = InBuffers - buffer[m].lamports + buffer'[m].lamports
<1>1. \A k \in Mints : Held[k] \in Nat /\ Held'[k] \in Nat
  BY DEF TypeOK, Held, Account
<1>2. \A k \in Mints \ {m} : Held[k] = Held'[k]
  BY DEF Held
<1>3. Held[m] = buffer[m].lamports /\ Held'[m] = buffer'[m].lamports
  BY DEF Held
<1>4. SumFunctionOnSet(Held', Mints) = SumFunctionOnSet(Held, Mints) - Held[m] + Held'[m]
  <2> DEFINE f == Held
             g == Held'
  <2> HIDE DEF f, g
  <2>1. SumFunctionOnSet(g, Mints) = SumFunctionOnSet(f, Mints) - f[m] + g[m]
    BY <1>1, <1>2, BuffersAssumption, SumChange DEF f, g
  <2> QED BY <2>1 DEF f, g
<1> QED BY <1>3, <1>4 DEF InBuffers

(* No buffer's address changes. *)
LEMMA BuffersSame ==
    ASSUME \A m \in Mints : buffer'[m].lamports = buffer[m].lamports
    PROVE  InBuffers' = InBuffers
BY DEF InBuffers, Held

(* The buffers that are created take what their payer pays. *)
LEMMA CreateMoves ==
    ASSUME TypeOK, TypeOK', NEW p \in Parties, NEW mints \in Batches(Mints),
           CreateBuffer(p, mints)
    PROVE  InWallets' + InBuffers' = InWallets + InBuffers
<1>1. PICK new \in SUBSET Mints :
               /\ Cost(new) \in Nat
               /\ wallet' = [wallet EXCEPT ![p] = @ - Cost(new)]
               /\ buffer' = [m \in Mints |->
                               IF m \in new
                               THEN [open |-> TRUE, amount |-> 0,
                                     lamports |-> buffer[m].lamports + Shortfall(m)]
                               ELSE buffer[m]]
  BY CreateParts
<1> DEFINE f == Held
           g == Held'
           h == [m \in Mints |-> Shortfall(m)]
<1>2. \A m \in Mints : f[m] \in Nat /\ g[m] \in Nat
  BY DEF TypeOK, Held, Account
<1>3. \A m \in new : h[m] \in Nat /\ g[m] = f[m] + h[m]
  BY <1>1, ShortfallType DEF Held
<1>4. \A m \in Mints \ new : g[m] = f[m]
  BY <1>1 DEF Held
<1>5. InBuffers' = InBuffers + Cost(new)
  <2> HIDE DEF f, g, h
  <2>1. SumFunctionOnSet(g, Mints) = SumFunctionOnSet(f, Mints) + SumFunctionOnSet(h, new)
    BY <1>2, <1>3, <1>4, BuffersAssumption, SumRaised
  <2> QED BY <2>1, Zenon DEF f, g, h, InBuffers, Cost
<1>6. /\ \A q \in Parties \ {p} : wallet'[q] = wallet[q]
      /\ wallet'[p] = wallet[p] - Cost(new)
  BY <1>1 DEF TypeOK
<1>7. InWallets' = InWallets - wallet[p] + wallet'[p]
  BY <1>6, WalletChange
<1>8. wallet[p] \in Nat
  BY DEF TypeOK
<1> QED BY <1>1, <1>5, <1>6, <1>7, <1>8, FundsType

(* The operator gets what the closed buffers held. *)
LEMMA ReclaimMoves ==
    ASSUME TypeOK, TypeOK', NEW batch \in Batch, ReclaimBuffer(batch, Operator)
    PROVE  /\ InWallets' + InBuffers' = InWallets + InBuffers
           /\ \A m \in Mints : buffer'[m].open => buffer'[m] = buffer[m]
<1>1. PICK gone \in SUBSET Mints :
               /\ SumFunctionOnSet(Held, gone) \in Nat
               /\ wallet' = [wallet EXCEPT ![Operator] = @ + SumFunctionOnSet(Held, gone)]
               /\ buffer' = [m \in Mints |->
                               IF m \in gone THEN [open |-> FALSE, amount |-> 0, lamports |-> 0]
                               ELSE buffer[m]]
  BY ReclaimParts
<1> DEFINE f == Held
           g == Held'
           refund == SumFunctionOnSet(Held, gone)
<1>2. \A m \in Mints : f[m] \in Nat /\ g[m] \in Nat
  BY DEF TypeOK, Held, Account
<1>3. \A m \in gone : f[m] = g[m] + f[m]
  BY <1>1, <1>2 DEF Held
<1>4. \A m \in Mints \ gone : f[m] = g[m]
  BY <1>1 DEF Held
<1>5. InBuffers = InBuffers' + refund /\ InBuffers' \in Nat
  <2> HIDE DEF f, g
  <2>1. SumFunctionOnSet(f, Mints) = SumFunctionOnSet(g, Mints) + SumFunctionOnSet(f, gone)
    BY <1>2, <1>3, <1>4, BuffersAssumption, SumRaised
  <2>2. SumFunctionOnSet(g, Mints) \in Nat
    BY <1>2, BuffersAssumption, SumSplits
  <2> QED BY <2>1, <2>2, Zenon DEF f, g, InBuffers
<1>6. /\ \A q \in Parties \ {Operator} : wallet'[q] = wallet[q]
      /\ wallet'[Operator] = wallet[Operator] + refund
  <2> HIDE DEF refund
  <2>1. wallet' = [wallet EXCEPT ![Operator] = @ + refund]
    BY <1>1, Zenon DEF refund
  <2> QED BY <2>1, BuffersAssumption DEF TypeOK
<1>7. InWallets' = InWallets - wallet[Operator] + wallet'[Operator]
  BY <1>6, WalletChange, BuffersAssumption
<1>8. wallet[Operator] \in Nat /\ refund \in Nat
  BY <1>1, BuffersAssumption DEF TypeOK
<1>9. InWallets' + InBuffers' = InWallets + InBuffers
  <2> HIDE DEF refund
  <2> QED BY <1>5, <1>6, <1>7, <1>8, FundsType
<1> QED BY <1>1, <1>9

LEMMA FundedInit == Init => BuffersAreFunded
<1> SUFFICES ASSUME Init PROVE BuffersAreFunded
  OBVIOUS
<1>1. TypeOK
  BY TypesInit DEF TypesInv
<1>2. \A m \in Mints : Held[m] = 0
  BY DEF Init, Held
<1>3. InBuffers = 0
  BY <1>2, BuffersAssumption, SumOfZeros DEF InBuffers
<1>4. InWallets = SumFunctionOnSet(InitLamports, Parties)
  BY Zenon DEF Init, InWallets
<1> QED BY <1>1, <1>3, <1>4, FundsType, FundedForm DEF Init

LEMMA FundedNext == TypesInv /\ TypesInv' /\ BuffersAreFunded /\ [Next]_vars => BuffersAreFunded'
<1> SUFFICES ASSUME TypesInv, TypesInv', BuffersAreFunded, [Next]_vars PROVE BuffersAreFunded'
  OBVIOUS
<1> DEFINE total == SumFunctionOnSet(InitLamports, Parties)
<1>0. /\ TypeOK /\ TypeOK'
      /\ \A m \in Mints : buffer[m].open => buffer[m].lamports >= Rent
      /\ InWallets + InBuffers = total
  BY FundedForm DEF TypesInv
<1> SUFFICES /\ \A m \in Mints : buffer'[m].open => buffer'[m].lamports >= Rent
             /\ InWallets' + InBuffers' = total
  <2>1. BuffersAreFunded' <=>
            /\ \A m \in Mints : buffer'[m].open => buffer'[m].lamports >= Rent
            /\ InWallets' + InBuffers' = SumFunctionOnSet(InitLamports, Parties)
    BY Zenon DEF BuffersAreFunded, InWallets, InBuffers, Held
  <2> QED BY <2>1, Zenon DEF total
<1> HIDE DEF total
<1>1. ASSUME NEW p \in Parties, NEW mints \in Batches(Mints), CreateBuffer(p, mints)
      PROVE  /\ \A m \in Mints : buffer'[m].open => buffer'[m].lamports >= Rent
             /\ InWallets' + InBuffers' = total
  <2>1. PICK new \in SUBSET Mints :
               buffer' = [m \in Mints |->
                            IF m \in new
                            THEN [open |-> TRUE, amount |-> 0,
                                  lamports |-> buffer[m].lamports + Shortfall(m)]
                            ELSE buffer[m]]
    BY <1>0, <1>1, CreateParts
  <2>2. \A m \in Mints : buffer'[m].open => buffer'[m].lamports >= Rent
    BY <1>0, <2>1, ShortfallType
  <2> QED BY <1>0, <1>1, <2>2, CreateMoves
<1>2. ASSUME NEW batch \in Batch, ReclaimBuffer(batch, Operator)
      PROVE  /\ \A m \in Mints : buffer'[m].open => buffer'[m].lamports >= Rent
             /\ InWallets' + InBuffers' = total
  <2>1. /\ InWallets' + InBuffers' = InWallets + InBuffers
        /\ \A m \in Mints : buffer'[m].open => buffer'[m] = buffer[m]
    BY <1>0, <1>2, ReclaimMoves
  <2> QED BY <1>0, <2>1
<1>3. CASE Send
  BY <1>0, <1>2, <1>3 DEF Send, TypeOK
<1>4. ASSUME NEW late \in pending, Execute(late)
      PROVE  /\ \A m \in Mints : buffer'[m].open => buffer'[m].lamports >= Rent
             /\ InWallets' + InBuffers' = total
  BY <1>0, <1>2, <1>4 DEF Execute, TypeOK
<1>5. ASSUME UNCHANGED <<buffer, wallet>>
      PROVE  /\ \A m \in Mints : buffer'[m].open => buffer'[m].lamports >= Rent
             /\ InWallets' + InBuffers' = total
  BY <1>0, <1>5 DEF InWallets, InBuffers, Held
<1>6. ASSUME NEW args \in Batches(Entry), StartReclaim(args)
      PROVE  UNCHANGED <<buffer, wallet>>
  BY <1>6 DEF StartReclaim
<1>7. CASE SendFails \/ Propose \/ TimeOut \/ CheckOutcome \/ Finish \/ UNCHANGED vars
  <2>1. UNCHANGED <<buffer, wallet>>
    BY <1>7 DEF SendFails, Propose, TimeOut, CheckOutcome, Finish, vars, chain
  <2> QED BY <1>5, <2>1
<1>8. ASSUME NEW m \in Mints, Deposit(m, 1) \/ Spend(m, 1)
      PROVE  /\ \A k \in Mints : buffer'[k].open => buffer'[k].lamports >= Rent
             /\ InWallets' + InBuffers' = total
  <2>1. /\ UNCHANGED wallet
        /\ \A k \in Mints : /\ buffer'[k].open = buffer[k].open
                            /\ buffer'[k].lamports = buffer[k].lamports
    BY <1>0, <1>8 DEF Deposit, Spend, TypeOK, Account
  <2>2. InBuffers' = InBuffers /\ InWallets' = InWallets
    BY <2>1, BuffersSame DEF InWallets
  <2> QED BY <1>0, <2>1, <2>2
<1>9. ASSUME NEW p \in Parties, NEW m \in Mints, Donate(p, m)
      PROVE  /\ \A k \in Mints : buffer'[k].open => buffer'[k].lamports >= Rent
             /\ InWallets' + InBuffers' = total
  <2>1. /\ wallet'[p] = wallet[p] - 1
        /\ \A q \in Parties \ {p} : wallet'[q] = wallet[q]
        /\ buffer'[m].lamports = buffer[m].lamports + 1
        /\ \A k \in Mints \ {m} : buffer'[k].lamports = buffer[k].lamports
        /\ \A k \in Mints : buffer'[k].open = buffer[k].open
        /\ \A k \in Mints : buffer'[k].lamports >= buffer[k].lamports
    BY <1>0, <1>9 DEF Donate, TypeOK, Account
  <2>2. InWallets' = InWallets - wallet[p] + wallet'[p]
    BY <1>0, <2>1, WalletChange
  <2>3. InBuffers' = InBuffers - buffer[m].lamports + buffer'[m].lamports
    BY <1>0, <2>1, BufferChange
  <2>4. wallet[p] \in Nat /\ buffer[m].lamports \in Nat
    BY <1>0 DEF TypeOK, Account
  <2>5. InWallets' + InBuffers' = total
    BY <1>0, <2>1, <2>2, <2>3, <2>4, FundsType
  <2>6. \A k \in Mints : buffer[k].lamports \in Nat /\ buffer'[k].lamports \in Nat
    BY <1>0 DEF TypeOK, Account
  <2> QED BY <1>0, <2>1, <2>5, <2>6, BuffersAssumption
<1> QED BY <1>1, <1>3, <1>4, <1>5, <1>6, <1>7, <1>8, <1>9 DEF Next

(* However the address of a buffer was prefunded and however often it was  *)
(* closed and created again in batches, an open buffer is rent exempt, and *)
(* creating, reclaiming and donating move lamports without losing or       *)
(* making any.                                                             *)
THEOREM LamportsAreKept == Spec => []BuffersAreFunded
<1>1. Spec => []TypesInv
  BY TypesInit, TypesNext, PTL DEF Spec
<1>2. Spec => [](TypesInv /\ BuffersAreFunded)
  BY <1>1, FundedInit, FundedNext, PTL DEF Spec
<1> QED BY <1>2, PTL
-----------------------------------------------------------------------------
(* What the pending transactions may still burn, and the running command.  *)
Owed(m) == SumFunctionOnSet([late \in pending |-> LimitOf(late.batch, m)], pending)
AskedNext(m) == IF command.stage = "looked" THEN LimitOf(command.to_close, m) ELSE 0

(* Each grant is spent once at most: what was burnt, what may still be     *)
(* burnt late and what is about to be asked for is within the grants.      *)
BurnsInv == \A m \in Mints : destroyed[m] + Owed(m) + AskedNext(m) <= granted[m]

LEMMA LimitType ==
    ASSUME NEW batch \in Batch, NEW m
    PROVE  LimitOf(batch, m) \in Nat
BY BatchParts DEF LimitOf

LEMMA OwedType ==
    ASSUME TypesInv, NEW m
    PROVE  Owed(m) \in Nat /\ AskedNext(m) \in Nat
<1> DEFINE f == [late \in pending |-> LimitOf(late.batch, m)]
<1>1. \A late \in pending : f[late] \in Nat
  BY LimitType DEF TypesInv, TypeOK
<1>2. SumFunctionOnSet(f, pending) \in Nat
  <2> HIDE DEF f
  <2> QED BY <1>1, SumSplits DEF TypesInv
<1>3. AskedNext(m) \in Nat
  BY LimitType DEF TypesInv, TypeOK, AskedNext
<1> QED BY <1>2, <1>3, Zenon DEF Owed

(* One more transaction may land late. *)
LEMMA OwedMore ==
    ASSUME TypesInv, TypesInv', NEW late \in pending', pending' = pending \cup {late}, NEW m
    PROVE  Owed(m)' <= Owed(m) + LimitOf(late.batch, m)
<1> DEFINE f == [x \in pending |-> LimitOf(x.batch, m)]
           g == [x \in pending' |-> LimitOf(x.batch, m)]
<1>1. \A x \in pending' : g[x] \in Nat /\ g[x] = LimitOf(x.batch, m)
  BY LimitType DEF TypesInv, TypeOK
<1>2. \A x \in pending : f[x] = g[x]
  OBVIOUS
<1>3. SumFunctionOnSet(f, pending) = Owed(m) /\ SumFunctionOnSet(g, pending') = Owed(m)'
  BY Zenon DEF Owed
<1>4. IsFiniteSet(pending) /\ IsFiniteSet(pending')
  BY DEF TypesInv
<1> HIDE DEF f, g
<1>5. SumFunctionOnSet(f, pending) = SumFunctionOnSet(g, pending)
  BY <1>2, <1>4, SumSame
<1>6. /\ Owed(m) \in Nat
      /\ g[late] \in Nat
      /\ g[late] = LimitOf(late.batch, m)
  BY <1>1, OwedType
<1>7. CASE late \in pending
  <2>1. pending' = pending
    BY <1>7
  <2>2. SumFunctionOnSet(g, pending') = SumFunctionOnSet(g, pending)
    BY <2>1, Zenon
  <2>3. Owed(m)' = Owed(m)
    BY <1>3, <1>5, <2>2, Zenon
  <2> QED BY <1>6, <2>3
<1>8. CASE late \notin pending
  <2>1. pending' \ {late} = pending
    BY <1>8
  <2>2. SumFunctionOnSet(g, pending') = g[late] + SumFunctionOnSet(g, pending' \ {late})
    BY <1>1, <1>4, SumSplits
  <2>3. SumFunctionOnSet(g, pending') = g[late] + SumFunctionOnSet(g, pending)
    BY <2>1, <2>2, Zenon
  <2>4. Owed(m)' = g[late] + Owed(m)
    BY <1>3, <1>5, <2>3, Zenon
  <2> QED BY <1>6, <2>4
<1> QED BY <1>7, <1>8

(* One landed. *)
LEMMA OwedLess ==
    ASSUME TypesInv, NEW late \in pending, pending' = pending \ {late}, NEW m
    PROVE  Owed(m) = LimitOf(late.batch, m) + Owed(m)'
<1> DEFINE f == [x \in pending |-> LimitOf(x.batch, m)]
           g == [x \in pending' |-> LimitOf(x.batch, m)]
<1>1. \A x \in pending : f[x] \in Nat /\ f[x] = LimitOf(x.batch, m)
  BY LimitType DEF TypesInv, TypeOK
<1>2. \A x \in pending' : g[x] = f[x]
  OBVIOUS
<1>3. SumFunctionOnSet(f, pending) = Owed(m) /\ SumFunctionOnSet(g, pending') = Owed(m)'
  BY Zenon DEF Owed
<1>4. IsFiniteSet(pending) /\ IsFiniteSet(pending')
  BY FS_RemoveElement DEF TypesInv
<1> HIDE DEF f, g
<1>5. SumFunctionOnSet(g, pending') = SumFunctionOnSet(f, pending')
  BY <1>2, <1>4, SumSame
<1>6. SumFunctionOnSet(f, pending) = f[late] + SumFunctionOnSet(f, pending \ {late})
  BY <1>1, <1>4, SumSplits
<1>7. SumFunctionOnSet(f, pending) = f[late] + SumFunctionOnSet(f, pending')
  BY <1>6, Zenon
<1> QED BY <1>1, <1>3, <1>5, <1>7

(* A reclaim burns no more than its limits. *)
LEMMA ReclaimBurns ==
    ASSUME TypeOK, NEW batch \in Batch, ReclaimBuffer(batch, Operator), NEW m \in Mints
    PROVE  destroyed'[m] <= destroyed[m] + LimitOf(batch, m)
<1>1. destroyed'[m] = destroyed[m] + IF m \in Closable(batch) THEN buffer[m].amount ELSE 0
  <2>1. PICK gone \in SUBSET Mints :
               /\ gone = Closable(batch)
               /\ destroyed' = [k \in Mints |->
                                  destroyed[k] + IF k \in gone THEN buffer[k].amount ELSE 0]
    BY ReclaimParts
  <2> QED BY <2>1
<1>2. m \in Closable(batch) => buffer[m].amount <= LimitOf(batch, m)
  BY DEF Closable, WithinLimit, LimitOf
<1>3. LimitOf(batch, m) \in Nat /\ destroyed[m] \in Nat /\ buffer[m].amount \in Nat
  BY LimitType DEF TypeOK, Account
<1> QED BY <1>1, <1>2, <1>3

LEMMA BurnsInit == Init => BurnsInv
<1> SUFFICES ASSUME Init, NEW m \in Mints PROVE destroyed[m] + Owed(m) + AskedNext(m) <= granted[m]
  BY DEF BurnsInv
<1>1. Owed(m) = 0
  <2>1. Owed(m) = SumFunctionOnSet([late \in {} |-> LimitOf(late.batch, m)], {})
    BY Zenon DEF Init, Owed
  <2> QED BY <2>1, SumEmpty
<1>2. AskedNext(m) = 0 /\ destroyed[m] = 0 /\ granted[m] = 0
  BY DEF Init, Idle, AskedNext
<1> QED BY <1>1, <1>2

LEMMA BurnsNext == TypesInv /\ TypesInv' /\ BurnsInv /\ [Next]_vars => BurnsInv'
<1> SUFFICES ASSUME TypesInv, TypesInv', BurnsInv, [Next]_vars, NEW m \in Mints
             PROVE  destroyed'[m] + Owed(m)' + AskedNext(m)' <= granted'[m]
  BY DEF BurnsInv
<1>0. /\ destroyed[m] + Owed(m) + AskedNext(m) <= granted[m]
      /\ destroyed[m] \in Nat /\ destroyed'[m] \in Nat
      /\ granted[m] \in Nat /\ granted'[m] \in Nat
      /\ Owed(m) \in Nat /\ AskedNext(m) \in Nat
      /\ TypeOK /\ command.to_close \in Batch
  BY OwedType DEF BurnsInv, TypesInv, TypeOK
<1>1. ASSUME UNCHANGED <<destroyed, granted>>, UNCHANGED pending,
             UNCHANGED command \/ command'.stage # "looked"
      PROVE  destroyed'[m] + Owed(m)' + AskedNext(m)' <= granted'[m]
  <2>1. Owed(m)' = Owed(m)
    BY <1>1 DEF Owed
  <2>2. AskedNext(m)' = AskedNext(m) \/ AskedNext(m)' = 0
    BY <1>1 DEF AskedNext
  <2> QED BY <1>0, <1>1, <2>1, <2>2
<1>2. ASSUME NEW p \in Parties, NEW mints \in Batches(Mints), CreateBuffer(p, mints)
      PROVE  destroyed'[m] + Owed(m)' + AskedNext(m)' <= granted'[m]
  BY <1>1, <1>2 DEF CreateBuffer, tool
<1>3. ASSUME NEW args \in Batches(Entry), StartReclaim(args)
      PROVE  destroyed'[m] + Owed(m)' + AskedNext(m)' <= granted'[m]
  <2> DEFINE named == FirstOnly(args)
             to_close == Restrict(named, Closable(named))
  <2>1. named \in Batch /\ Closable(named) \in SUBSET DOMAIN named
    BY FirstOnlyIsBatch DEF Closable
  <2>2. /\ DOMAIN to_close \subseteq DOMAIN named
        /\ \A k \in DOMAIN to_close : to_close[k] = named[k]
    BY <2>1, RestrictIsBatch
  <2>3. /\ command' = [stage |-> IF Closable(named) = {} THEN "reported" ELSE "looked",
                       to_close |-> to_close,
                       non_empty |-> DOMAIN named \ DOMAIN to_close,
                       reclaimed |-> {}]
        /\ granted' = [k \in Mints |-> granted[k] + LimitOf(named, k)]
        /\ UNCHANGED <<destroyed, pending>>
    BY <1>3 DEF StartReclaim
  <2>4. LimitOf(named, m) \in Nat
    BY <2>1, LimitType
  <2> HIDE DEF named, to_close
  <2>5. LimitOf(to_close, m) <= LimitOf(named, m)
    BY <2>2, <2>4 DEF LimitOf
  <2>6. command'.to_close = to_close
    BY <2>3
  <2>7. AskedNext(m)' = 0 \/ AskedNext(m)' = LimitOf(to_close, m)
    BY <2>6 DEF AskedNext, LimitOf
  <2>8. granted'[m] = granted[m] + LimitOf(named, m)
    BY <2>3
  <2>9. Owed(m)' = Owed(m) /\ destroyed'[m] = destroyed[m]
    BY <2>3 DEF Owed
  <2>10. AskedNext(m)' \in Nat
    <3>1. command'.to_close \in Batch
      BY DEF TypesInv, TypeOK
    <3>2. LimitOf(command'.to_close, m) \in Nat
      BY <3>1, LimitType
    <3> QED BY <3>2 DEF AskedNext, LimitOf
  <2>11. AskedNext(m)' <= LimitOf(named, m)
    BY <2>4, <2>5, <2>7
  <2> QED BY <1>0, <2>4, <2>8, <2>9, <2>10, <2>11
<1>4. CASE Send
  <2>1. /\ ReclaimBuffer(command.to_close, Operator)
        /\ command.stage = "looked"
        /\ command' = [command EXCEPT !.stage = "sent"]
        /\ UNCHANGED <<pending, granted>>
    BY <1>4 DEF Send
  <2>2. destroyed'[m] <= destroyed[m] + LimitOf(command.to_close, m)
    BY <1>0, <2>1, ReclaimBurns
  <2>3. command'.stage = "sent"
    BY <1>0, <2>1 DEF TypeOK
  <2>4. AskedNext(m) = LimitOf(command.to_close, m) /\ AskedNext(m)' = 0 /\ Owed(m)' = Owed(m)
    BY <2>1, <2>3 DEF AskedNext, Owed
  <2> QED BY <1>0, <2>1, <2>2, <2>4
<1>5. CASE SendFails \/ CheckOutcome \/ Finish
  <2>1. command'.stage # "looked"
    <3>1. CASE SendFails \/ Finish
      BY <3>1 DEF SendFails, Finish, Idle
    <3>2. CASE CheckOutcome
      BY <1>0, <3>2 DEF CheckOutcome, TypeOK
    <3> QED BY <1>5, <3>1, <3>2
  <2> QED BY <1>1, <1>5, <2>1 DEF SendFails, CheckOutcome, Finish, chain
<1>6. CASE Propose \/ TimeOut
  <2> DEFINE late == Numbered(command.to_close)
  <2>1. /\ command.stage = "looked"
        /\ pending' = pending \cup {late}
        /\ command' = [command EXCEPT !.stage = "reported"] \/ command' = Idle
        /\ UNCHANGED <<destroyed, granted>>
    BY <1>6 DEF Propose, TimeOut, chain
  <2>2. command'.stage # "looked"
    BY <1>0, <2>1 DEF Idle, TypeOK
  <2>3. late.batch = command.to_close
    BY DEF Numbered
  <2> HIDE DEF late
  <2>4. Owed(m)' <= Owed(m) + LimitOf(late.batch, m)
    BY <2>1, OwedMore
  <2>5. AskedNext(m) = LimitOf(late.batch, m) /\ AskedNext(m)' = 0
    BY <2>1, <2>2, <2>3 DEF AskedNext
  <2>6. Owed(m)' \in Nat
    <3>1. \A x \in pending' : x.batch \in Batch
      BY DEF TypesInv, TypeOK
    <3> DEFINE g == [x \in pending' |-> LimitOf(x.batch, m)]
    <3>2. \A x \in pending' : g[x] \in Nat
      BY <3>1, LimitType
    <3>3. SumFunctionOnSet(g, pending') \in Nat
      <4> HIDE DEF g
      <4> QED BY <3>2, SumSplits DEF TypesInv
    <3> QED BY <3>3, Zenon DEF Owed
  <2> QED BY <1>0, <2>1, <2>4, <2>5, <2>6
<1>7. ASSUME NEW late \in pending, Execute(late)
      PROVE  destroyed'[m] + Owed(m)' + AskedNext(m)' <= granted'[m]
  <2>1. /\ late.batch \in Batch
        /\ ReclaimBuffer(late.batch, Operator)
        /\ pending' = pending \ {late}
        /\ UNCHANGED <<command, granted>>
    BY <1>0, <1>7 DEF Execute, TypeOK
  <2>2. destroyed'[m] <= destroyed[m] + LimitOf(late.batch, m)
    BY <1>0, <2>1, ReclaimBurns
  <2>3. Owed(m) = LimitOf(late.batch, m) + Owed(m)'
    BY <2>1, OwedLess
  <2>4. AskedNext(m)' = AskedNext(m)
    BY <2>1 DEF AskedNext
  <2>5. LimitOf(late.batch, m) \in Nat
    BY <2>1, LimitType
  <2>6. Owed(m)' \in Nat
    <3> DEFINE g == [x \in pending' |-> LimitOf(x.batch, m)]
    <3>1. \A x \in pending' : g[x] \in Nat
      BY LimitType DEF TypesInv, TypeOK
    <3>2. SumFunctionOnSet(g, pending') \in Nat
      <4> HIDE DEF g
      <4> QED BY <3>1, SumSplits DEF TypesInv
    <3> QED BY <3>2, Zenon DEF Owed
  <2> QED BY <1>0, <2>1, <2>2, <2>3, <2>4, <2>5, <2>6
<1>8. ASSUME NEW k \in Mints, Deposit(k, 1) \/ Spend(k, 1)
      PROVE  destroyed'[m] + Owed(m)' + AskedNext(m)' <= granted'[m]
  BY <1>1, <1>8 DEF Deposit, Spend, tool
<1>9. ASSUME NEW p \in Parties, NEW k \in Mints, Donate(p, k)
      PROVE  destroyed'[m] + Owed(m)' + AskedNext(m)' <= granted'[m]
  BY <1>1, <1>9 DEF Donate, tool
<1>10. CASE UNCHANGED vars
  BY <1>1, <1>10 DEF vars, chain, tool
<1> QED BY <1>2, <1>3, <1>4, <1>5, <1>6, <1>7, <1>8, <1>9, <1>10 DEF Next

(* However late a transaction or a proposal runs, and whatever was burnt,  *)
(* deposited or granted since the operator looked, no more tokens of a     *)
(* mint are burnt than the operator's limits for it add up to.             *)
THEOREM GrantsAreKept == Spec => []BurnsAreGranted
<1>1. Spec => []TypesInv
  BY TypesInit, TypesNext, PTL DEF Spec
<1>2. TypesInv /\ BurnsInv => BurnsAreGranted
  BY OwedType DEF BurnsInv, BurnsAreGranted, TypesInv, TypeOK
<1>3. Spec => [](TypesInv /\ BurnsInv)
  BY <1>1, BurnsInit, BurnsNext, PTL DEF Spec
<1> QED BY <1>2, <1>3, PTL
===============================================================================
