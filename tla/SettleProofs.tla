---------------------------- MODULE SettleProofs ----------------------------
(***************************************************************************)
(* The properties of SettleTx, for transactions of any length and any      *)
(* instructions, and of SettleCodec, for any orders, bytes and accounts.   *)
(*                                                                         *)
(* A transaction never changes, so it is enough to know which of its       *)
(* instructions have run and what each of them found: Ran says that the    *)
(* instructions before pc are accounted for, Checked what the two handlers *)
(* established.  Everything else follows from the two.                     *)
(*                                                                         *)
(* Of an instruction it is enough to know that it is bytes and accounts,   *)
(* and what it was built of while nobody has edited it: CodecInv.  What is *)
(* read at a place is then found by adding up the lengths of what was      *)
(* written before it (SumLinear, FlattenAt) and the other way round        *)
(* (HoldsFlatten).                                                         *)
(***************************************************************************)
EXTENDS SettleTx, SettleCodec, SharedLemmas

(* The settlement halves before pc are those that succeeded. *)
Ran ==
    \A k \in 0..(len - 1) :
        /\ k \in begun <=> k < pc /\ Runs(k, "BeginSettle")
        /\ k \in finalized <=> k < pc /\ Runs(k, "FinalizeSettle")

(* What a handler that succeeded has seen. *)
Checked ==
    /\ \A b \in begun :
         /\ ValidateCounterpart(b, tx[b].counterpart, "FinalizeSettle")
         /\ ValidateNoNestedSettlement(b, tx[b].counterpart)
    /\ \A f \in finalized : ValidateCounterpart(f, tx[f].counterpart, "BeginSettle")

Complete == status = "committed" => pc = len

IInv == TypeOK /\ Ran /\ Checked /\ Complete

(* The conjuncts of IInv hold of every run: of SettleTx's handlers, each   *)
(* step adds at most the instruction that just ran.                        *)
LEMMA Inductive == Spec => []IInv
<1> USE SettleTxAssumption
<1>1. Init => IInv
  BY DEF Init, IInv, TypeOK, Ran, Checked, Complete, Instruction
<1>2. IInv /\ [Next]_vars => IInv'
  <2> SUFFICES ASSUME IInv, [Next]_vars PROVE IInv'
    OBVIOUS
  <2> USE DEF IInv, Runs
  <2>1. CASE BeginSettle
    <3>1. TypeOK'
      BY <2>1 DEF BeginSettle, Advance, TypeOK
    <3>2. Ran'
      BY <2>1 DEF BeginSettle, Advance, TypeOK, Ran
    <3>3. Checked'
      BY <2>1 DEF BeginSettle, Advance, TypeOK, Checked, ValidateCounterpart,
                  ValidateNoNestedSettlement
    <3>4. QED
      BY <2>1, <3>1, <3>2, <3>3 DEF BeginSettle, Advance, Complete
  <2>2. CASE FinalizeSettle
    <3>1. TypeOK'
      BY <2>2 DEF FinalizeSettle, Advance, TypeOK
    <3>2. Ran'
      BY <2>2 DEF FinalizeSettle, Advance, TypeOK, Ran
    <3>3. Checked'
      BY <2>2 DEF FinalizeSettle, Advance, TypeOK, Checked, ValidateCounterpart,
                  ValidateNoNestedSettlement
    <3>4. QED
      BY <2>2, <3>1, <3>2, <3>3 DEF FinalizeSettle, Advance, Complete
  <2>3. CASE OtherInstruction
    <3>1. TypeOK'
      BY <2>3 DEF OtherInstruction, Advance, TypeOK
    <3>2. Ran'
      BY <2>3 DEF OtherInstruction, Advance, TypeOK, Ran
    <3>3. Checked'
      BY <2>3 DEF OtherInstruction, Advance, Checked, ValidateCounterpart,
                  ValidateNoNestedSettlement
    <3>4. QED
      BY <2>3, <3>1, <3>2, <3>3 DEF OtherInstruction, Advance, Complete
  <2>4. CASE Revert
    BY <2>4 DEF Revert, TypeOK, Ran, Checked, Complete, ValidateCounterpart,
                ValidateNoNestedSettlement
  <2>5. CASE Commit
    BY <2>5 DEF Commit, TypeOK, Ran, Checked, Complete, ValidateCounterpart,
                ValidateNoNestedSettlement
  <2>6. CASE UNCHANGED vars
    BY <2>6 DEF vars, TypeOK, Ran, Checked, Complete, ValidateCounterpart,
                ValidateNoNestedSettlement
  <2>7. QED
    BY <2>1, <2>2, <2>3, <2>4, <2>5, <2>6 DEF Next
<1>3. QED
  BY <1>1, <1>2, PTL DEF Spec

(* Every FinalizeSettle of a committed transaction ran after a BeginSettle *)
(* that validated this very FinalizeSettle's pushes.                       *)
THEOREM FinalizeIsValidated == Spec => []PushesWereValidated
<1>1. IInv => PushesWereValidated
  <2> SUFFICES ASSUME IInv, status = "committed", NEW f \in finalized
               PROVE  /\ tx[f].counterpart \in begun
                      /\ tx[f].counterpart < f
                      /\ tx[tx[f].counterpart].counterpart = f
    BY DEF PushesWereValidated
  <2> DEFINE b == tx[f].counterpart
  <2>1. ValidateCounterpart(f, b, "BeginSettle")
    BY DEF IInv, Checked
  <2>2. b \in 0..(len - 1) /\ Runs(b, "BeginSettle") /\ tx[b].counterpart = f
    BY <2>1 DEF ValidateCounterpart, Runs
  <2>3. b \in begun
    BY <2>2 DEF IInv, Complete, Ran, TypeOK
  <2>4. f > b
    BY <2>2, <2>3 DEF IInv, Checked, ValidateNoNestedSettlement
  <2>5. QED
    BY <2>2, <2>3, <2>4, SettleTxAssumption DEF IInv, TypeOK
<1>2. QED
  BY <1>1, Inductive, PTL

(* The second of two settlements begins after the first one's              *)
(* FinalizeSettle ran.                                                     *)
LEMMA SettlementsAreOrdered ==
    ASSUME IInv, NEW b1 \in begun, NEW b2 \in begun, b1 < b2
    PROVE  tx[b1].counterpart \in finalized /\ tx[b1].counterpart < b2
<1> DEFINE c == tx[b1].counterpart
<1>1. ValidateCounterpart(b1, c, "FinalizeSettle") /\ ValidateNoNestedSettlement(b1, c)
  BY DEF IInv, Checked
<1>2. c \in 0..(len - 1) /\ Runs(c, "FinalizeSettle") /\ c > b1
  BY <1>1 DEF ValidateCounterpart, ValidateNoNestedSettlement, Runs
<1>3. b2 \in 0..(len - 1) /\ b2 < pc /\ Runs(b2, "BeginSettle")
  BY DEF IInv, Ran, TypeOK
<1>4. b1 \in Int /\ b2 \in Int /\ c \in Int
  BY <1>2, <1>3 DEF IInv, TypeOK
<1>5. ~(b2 \in (b1 + 1)..(c - 1))
  BY <1>1, <1>3 DEF ValidateNoNestedSettlement, Runs
<1>6. b2 # c
  BY <1>2, <1>3 DEF Runs
<1>7. c < b2
  BY <1>4, <1>5, <1>6
<1>8. QED
  BY <1>2, <1>3, <1>4, <1>7 DEF IInv, Ran, TypeOK

(* At most one settlement of a transaction is open at any time.  *)
THEOREM NoOverlap == Spec => []OneOpenSettlement
<1>1. IInv => OneOpenSettlement
  <2> SUFFICES ASSUME IInv, NEW b1 \in begun, NEW b2 \in begun, b1 # b2,
                      tx[b1].counterpart \notin finalized,
                      tx[b2].counterpart \notin finalized
               PROVE  FALSE
    BY DEF OneOpenSettlement
  <2>1. b1 \in Int /\ b2 \in Int
    BY DEF IInv, TypeOK
  <2>2. CASE b1 < b2
    BY <2>2, SettlementsAreOrdered
  <2>3. CASE b2 < b1
    BY <2>3, SettlementsAreOrdered
  <2>4. QED
    BY <2>1, <2>2, <2>3
<1>2. QED
  BY <1>1, Inductive, PTL

(* In a committed transaction every pull is followed by its own push. *)
THEOREM EveryPullIsPaid == Spec => []PullsArePaid
<1>1. IInv => PullsArePaid
  <2> SUFFICES ASSUME IInv, status = "committed" PROVE
               /\ \A b \in begun : tx[b].counterpart \in finalized
               /\ \A b1, b2 \in begun : tx[b1].counterpart = tx[b2].counterpart => b1 = b2
    BY DEF PullsArePaid
  <2>1. ASSUME NEW b \in begun PROVE tx[b].counterpart \in finalized
    <3>1. ValidateCounterpart(b, tx[b].counterpart, "FinalizeSettle")
      BY <2>1 DEF IInv, Checked
    <3>2. QED
      BY <3>1 DEF IInv, Complete, Ran, TypeOK, ValidateCounterpart, Runs
  <2>2. ASSUME NEW b1 \in begun, NEW b2 \in begun, tx[b1].counterpart = tx[b2].counterpart
        PROVE  b1 = b2
    <3>1. ValidateCounterpart(b1, tx[b1].counterpart, "FinalizeSettle")
      BY <2>2 DEF IInv, Checked
    <3>2. ValidateCounterpart(b2, tx[b2].counterpart, "FinalizeSettle")
      BY <2>2 DEF IInv, Checked
    <3>3. QED
      BY <2>2, <3>1, <3>2 DEF ValidateCounterpart
  <2>3. QED
    BY <2>1, <2>2
<1>2. QED
  BY <1>1, Inductive, PTL
-----------------------------------------------------------------------------
(* SettleCodec. *)

Bytes == 0..(Byte - 1)

(* What is known of an order. *)
LEMMA OrderFields ==
    ASSUME NEW o \in Orders
    PROVE  /\ o.pda \in Int /\ o.sell_token_account \in Int /\ o.buy_token_account \in Int
           /\ o.sell_mint \in Int /\ o.buy_mint \in Int
           /\ o.amount \in 0..(Power(Word) - 1)
           /\ o.pulls \in Seq([destination: Int, amount: 0..(Power(Word) - 1)])
           /\ Buffer[o.buy_mint] \in Int /\ Bump[o.buy_mint] \in Bytes
<1>1. o \in Order
  BY CodecAssumption, Zenon
<1>2. /\ o.pda \in Int /\ o.sell_token_account \in Int /\ o.buy_token_account \in Int
      /\ o.sell_mint \in Int /\ o.buy_mint \in Int
      /\ o.amount \in 0..(Power(Word) - 1)
      /\ o.pulls \in Seq([destination: Int, amount: 0..(Power(Word) - 1)])
  BY <1>1, Zenon DEF Order
<1>3. Buffer[o.buy_mint] \in Int /\ Bump[o.buy_mint] \in Bytes
  BY CodecAssumption, Zenon DEF Bytes
<1> QED BY <1>2, <1>3, Zenon

LEMMA Constants ==
    /\ Byte \in Nat \ {0} /\ 0 \in Bytes /\ 1 \in Bytes /\ Bytes \subseteq Nat
    /\ Word \in Nat \ {0}
    /\ Sysvar \in Int /\ State \in Int /\ Other \in Int /\ MINT_PLACEHOLDER \in Int
    /\ Stray \subseteq Int
BY CodecAssumption DEF Bytes, MINT_PLACEHOLDER

(* Numbers as bytes. *)
LEMMA PowerIsPowerOf ==
    ASSUME NEW k
    PROVE  Power(k) = PowerOf(Byte, k)
BY Zenon DEF Power, PowerOf

LEMMA ToBytesDigits ==
    ASSUME NEW v, NEW width
    PROVE  ToBytes(v, width) = [k \in 1..width |-> Digit(Byte, v, k)]
BY PowerIsPowerOf DEF ToBytes, Digit

LEMMA ToBytesType ==
    ASSUME NEW v \in Nat, NEW width \in Nat
    PROVE  ToBytes(v, width) \in Seq(Bytes) /\ Len(ToBytes(v, width)) = width
<1>1. \A k \in 1..width : Digit(Byte, v, k) \in Bytes
  BY Constants, DigitType DEF Bytes
<1> QED BY <1>1, ToBytesDigits

LEMMA BytesBack ==
    ASSUME NEW v \in 0..(Power(Word) - 1)
    PROVE  FromBytes(ToBytes(v, Word)) = v
<1> DEFINE bytes == ToBytes(v, Word)
           f == [k \in DOMAIN bytes |-> bytes[k] * Power(k - 1)]
<1>1. FromBytes(bytes) = SumFunctionOnSet(f, DOMAIN bytes)
  BY Zenon DEF FromBytes
<1>2. DOMAIN bytes = 1..Word /\ \A k \in 1..Word : bytes[k] = Digit(Byte, v, k)
  BY ToBytesDigits
<1> HIDE DEF bytes
<1>3. \A k \in 1..Word : f[k] = Digit(Byte, v, k) * PowerOf(Byte, k - 1)
  BY <1>2, PowerIsPowerOf
<1> HIDE DEF f
<1>4. Power(Word) \in Nat \ {0}
  BY Constants, PowerType, PowerIsPowerOf
<1>5. SumFunctionOnSet(f, 1..Word) = v % PowerOf(Byte, Word)
  BY <1>3, <1>4, Constants, DigitsBack
<1>6. v % Power(Word) = v
  BY <1>4, SmallRemainder
<1> QED BY <1>1, <1>2, <1>5, <1>6, PowerIsPowerOf DEF bytes

(* Bytes are read as a number below the power of the base, and that number *)
(* is written as these bytes.                                              *)
LEMMA NumberBack ==
    ASSUME NEW bytes \in Seq(Bytes), Len(bytes) = Word
    PROVE  FromBytes(bytes) \in Nat /\ ToBytes(FromBytes(bytes), Word) = bytes
<1> DEFINE f == [k \in DOMAIN bytes |-> bytes[k] * Power(k - 1)]
           v == SumFunctionOnSet(f, 1..Word)
<1>1. DOMAIN bytes = 1..Word /\ \A k \in 1..Word : bytes[k] \in 0..(Byte - 1)
  <2>1. DOMAIN bytes = 1..Len(bytes) /\ \A k \in 1..Len(bytes) : bytes[k] \in Bytes
    OBVIOUS
  <2> QED BY <2>1 DEF Bytes
<1>2. FromBytes(bytes) = v
  <2>1. FromBytes(bytes) = SumFunctionOnSet(f, DOMAIN bytes)
    BY Zenon DEF FromBytes
  <2> HIDE DEF f
  <2> QED BY <1>1, <2>1
<1>3. \A k \in 1..Word : f[k] = bytes[k] * PowerOf(Byte, k - 1)
  BY <1>1, PowerIsPowerOf
<1> HIDE DEF f
<1>4. v \in Nat /\ v < PowerOf(Byte, Word) /\ \A k \in 1..Word : Digit(Byte, v, k) = bytes[k]
  <2>1. Byte \in Nat \ {0} /\ Word \in Nat
    BY Constants
  <2>2. AreDigits(Byte, Word, bytes, f)
    BY <1>1, <1>3, Zenon DEF AreDigits
  <2> QED BY <2>1, <2>2, DigitsUnique
<1> HIDE DEF v
<1>5. ToBytes(v, Word) = [k \in 1..Word |-> bytes[k]]
  <2>1. ToBytes(v, Word) = [k \in 1..Word |-> Digit(Byte, v, k)]
    BY ToBytesDigits
  <2> QED BY <1>4, <2>1, Zenon
<1>6. bytes = [k \in 1..Word |-> bytes[k]]
  BY <1>1
<1> QED BY <1>2, <1>4, <1>5, <1>6

(* However a FinalizeSettle was put together. *)
LEMMA ViewsOfOne ==
    ASSUME NEW ix \in Encoded, FinalizeParses(ix)
    PROVE  PairedPushes(ix) = Pushes(ix)
<1> DEFINE n == PushCount(ix)
           m == Len(ix.accounts)
<1>1. ix.accounts \in Seq(Int) /\ ix.data \in Seq(Bytes)
  BY DEF Encoded, Bytes
<1>2. m \in Nat /\ m >= 4 /\ m - 4 = 3 * n
  BY <1>1 DEF FinalizeParses, AccountsMatchPushes
<1>3. n \in Nat
  <2>1. Len(Body(ix)) \in Nat
    BY <1>1 DEF Body
  <2>2. Word + 1 \in Nat \ {0}
    BY Constants
  <2> QED BY <2>1, <2>2, Division DEF PushCount
<1> HIDE DEF n, m
<1>4. Cardinality(Destined(ix)) = n
  <2>1. Destined(ix) = 1..n
    <3>1. Destined(ix) = {k \in 1..m : 6 + 3 * (k - 1) <= m}
      BY DEF Destined, DestinationPlace, m
    <3> QED BY <1>2, <1>3, <3>1
  <2>2. Cardinality(1..n) = n
    BY <1>3, FS_Interval
  <2> QED BY <2>1, <2>2
<1>5. Min({Cardinality(Destined(ix)), PushCount(ix)}) = n
  <2>1. {Cardinality(Destined(ix)), PushCount(ix)} = {n}
    BY <1>4 DEF n
  <2> QED BY <1>3, <2>1 DEF Min
<1>6. ASSUME NEW k \in 1..n
      PROVE  DestinationPlace(k) - 1 = 4 + 3 * (k - 1) + 1 /\ DestinationPlace(k) = 4 + 3 * (k - 1) + 2
  BY <1>3 DEF DestinationPlace
<1>7. PairedPushes(ix) = [k \in 1..n |->
        [source_buffer |-> ix.accounts[DestinationPlace(k) - 1],
         destination |-> ix.accounts[DestinationPlace(k)],
         bump |-> PushBump(ix, k),
         amount |-> PushAmount(ix, k)]]
  BY <1>5, Zenon DEF PairedPushes
<1>8. Pushes(ix) = [k \in 1..n |->
        [source_buffer |-> ix.accounts[4 + 3 * (k - 1) + 1],
         destination |-> ix.accounts[4 + 3 * (k - 1) + 2],
         bump |-> PushBump(ix, k),
         amount |-> PushAmount(ix, k)]]
  BY Zenon DEF Pushes, n
<1> QED BY <1>6, <1>7, <1>8
-----------------------------------------------------------------------------
(* What a BeginSettle that is accepted is made of. *)
LEMMA BodyType ==
    ASSUME NEW ix \in Encoded, Len(ix.data) >= 3
    PROVE  /\ Body(ix) \in Seq(Bytes) /\ Len(Body(ix)) = Len(ix.data) - 3
           /\ \A j \in 1..(Len(ix.data) - 3) : Body(ix)[j] = ix.data[j + 3]
<1> DEFINE d == ix.data
<1>1. d \in Seq(Bytes)
  BY DEF Encoded, Bytes
<1>2. Body(ix) = SubSeq(d, 4, Len(d))
  BY DEF Body
<1> HIDE DEF d
<1>3. Len(d) \in Nat /\ Len(d) >= 3
  BY <1>1 DEF d
<1> DEFINE n == Len(d)
<1>4. n - 4 + 1 = n - 3 /\ 4 <= n + 1
  BY <1>3
<1>5. /\ SubSeq(d, 4, n) \in Seq(Bytes) /\ Len(SubSeq(d, 4, n)) = n - 4 + 1
      /\ \A j \in 1..(n - 4 + 1) : SubSeq(d, 4, n)[j] = d[4 + j - 1] /\ d[4 + j - 1] \in Bytes
  BY <1>1, <1>3, <1>4, Cut
<1>6. \A j \in 1..(n - 3) : 4 + j - 1 = j + 3
  BY <1>3
<1> QED BY <1>2, <1>4, <1>5, <1>6 DEF d

LEMMA BeginShape ==
    ASSUME NEW ix \in Encoded, BeginParses(ix)
    PROVE  /\ OrderCount(ix) \in Nat /\ TransferCount(ix) \in Nat
           /\ \A k \in 1..OrderCount(ix) : Counts(ix)[k] \in Nat
           /\ AmountBytes(ix) \in Seq(Bytes) /\ Len(AmountBytes(ix)) = Word * TransferCount(ix)
           /\ RestOfAccounts(ix, 5) \in Seq(Int)
           /\ Len(RestOfAccounts(ix, 5)) = 3 * OrderCount(ix) + TransferCount(ix)
           /\ CountsSum(ix, OrderCount(ix)) = TransferCount(ix)
<1> DEFINE body == Body(ix)
           c == OrderCount(ix)
           n == Len(body)
<1>1. /\ Len(ix.data) >= 3 /\ Len(ix.accounts) >= 5
      /\ n >= Word + 1 /\ n >= Word + 1 + c
      /\ Len(AmountBytes(ix)) % Word = 0
      /\ Len(ix.accounts) - 5 = 3 * OrderCount(ix) + TransferCount(ix)
      /\ CountsSum(ix, OrderCount(ix)) = TransferCount(ix)
  BY Zenon DEF BeginParses, HasHeader, CountsAddUp
<1>2. body \in Seq(Bytes) /\ n \in Nat
  <2>1. body \in Seq(Bytes)
    BY <1>1, BodyType
  <2> QED BY <2>1
<1>3. c = body[Word + 1]
  BY DEF OrderCount
<1>4. Counts(ix) = SubSeq(body, Word + 2, Word + 1 + c) /\ AmountBytes(ix) = SubSeq(body, Word + 2 + c, n)
  BY DEF Counts, AmountBytes
<1>5. TransferCount(ix) = Len(AmountBytes(ix)) \div Word
  BY DEF TransferCount
<1> HIDE DEF body, c, n
<1>6. c \in Nat
  <2>1. Word + 1 \in 1..n
    BY <1>1, <1>2, Constants
  <2>2. body[Word + 1] \in Bytes
    BY <1>2, <2>1 DEF n
  <2> QED BY <1>3, <2>2, Constants
<1>7. \A k \in 1..c : Counts(ix)[k] \in Nat
  <2> DEFINE lo == Word + 2
             hi == Word + 1 + c
  <2>1. lo \in Nat \ {0} /\ hi \in Nat /\ lo <= hi + 1 /\ hi <= Len(body) /\ hi - lo + 1 = c
    BY <1>1, <1>2, <1>6, Constants DEF n
  <2> HIDE DEF lo, hi
  <2>2. \A j \in 1..(hi - lo + 1) : SubSeq(body, lo, hi)[j] = body[lo + j - 1] /\ body[lo + j - 1] \in Bytes
    BY <1>2, <2>1, Cut
  <2>3. \A j \in 1..c : SubSeq(body, lo, hi)[j] \in Nat
    BY <2>1, <2>2, Constants
  <2> QED BY <1>4, <2>3 DEF lo, hi
<1>8. AmountBytes(ix) \in Seq(Bytes) /\ Len(AmountBytes(ix)) \in Nat
  <2> DEFINE lo == Word + 2 + c
  <2>1. lo \in Nat \ {0} /\ n \in Nat /\ lo <= n + 1 /\ n <= Len(body)
    BY <1>1, <1>2, <1>6, Constants DEF n
  <2> HIDE DEF lo
  <2>2. SubSeq(body, lo, n) \in Seq(Bytes)
    BY <1>2, <2>1, Cut
  <2> QED BY <1>4, <2>2 DEF lo
<1>9. TransferCount(ix) \in Nat /\ Len(AmountBytes(ix)) = Word * TransferCount(ix)
  <2> DEFINE m == Len(AmountBytes(ix))
  <2>1. m \in Nat /\ m % Word = 0 /\ Word \in Nat \ {0}
    BY <1>1, <1>8, Constants
  <2> HIDE DEF m
  <2>2. m \div Word \in Nat /\ m % Word \in 0..(Word - 1) /\ m = Word * (m \div Word) + (m % Word)
    BY <2>1, Division
  <2>3. Word * (m \div Word) \in Nat
    BY <2>1, <2>2
  <2> QED BY <1>5, <2>1, <2>2, <2>3 DEF m
<1>10. /\ RestOfAccounts(ix, 5) \in Seq(Int)
       /\ Len(RestOfAccounts(ix, 5)) = Len(ix.accounts) - 5
  <2> DEFINE a == ix.accounts
             m == Len(a)
  <2>1. a \in Seq(Int)
    BY DEF Encoded
  <2>2. RestOfAccounts(ix, 5) = SubSeq(a, 6, m)
    BY DEF RestOfAccounts
  <2>3. m >= 5
    BY <1>1
  <2> HIDE DEF a
  <2>4. m \in Nat /\ 6 <= m + 1 /\ m - 6 + 1 = m - 5
    BY <2>1, <2>3
  <2>5. SubSeq(a, 6, m) \in Seq(Int) /\ Len(SubSeq(a, 6, m)) = m - 6 + 1
    <3> DEFINE I == Int
               x == 6
    <3>1. a \in Seq(I) /\ m \in Nat /\ x \in Nat \ {0} /\ x <= m + 1 /\ m <= Len(a)
      BY <2>1, <2>4
    <3> HIDE DEF I, x, m
    <3>2. /\ SubSeq(a, x, m) \in Seq(I) /\ Len(SubSeq(a, x, m)) = m - x + 1
          /\ \A j \in 1..(m - x + 1) : SubSeq(a, x, m)[j] = a[x + j - 1] /\ a[x + j - 1] \in I
      BY ONLY <3>1, Cut
    <3> QED BY <3>2, Zenon DEF I, x, m
  <2> QED BY <2>2, <2>4, <2>5 DEF a
<1> QED BY <1>1, <1>6, <1>7, <1>8, <1>9, <1>10 DEF c

(* Where the k-th order of it takes its accounts and amounts from. *)
LEMMA OrderPlace ==
    ASSUME NEW ix \in Encoded, BeginParses(ix), NEW k \in 1..OrderCount(ix)
    PROVE  LET taken == CountsSum(ix, k - 1)
               count == Counts(ix)[k]
           IN  /\ taken \in Nat /\ count \in Nat
               /\ 3 * (k - 1) + taken + 3 + count <= Len(RestOfAccounts(ix, 5))
               /\ taken + count <= TransferCount(ix)
<1> DEFINE c == OrderCount(ix)
           cs == Counts(ix)
           T == TransferCount(ix)
           sum(j) == SumFunctionOnSet(cs, 1..j)
<1>1. /\ c \in Nat /\ T \in Nat /\ \A j \in 1..c : cs[j] \in Nat
      /\ Len(RestOfAccounts(ix, 5)) = 3 * c + T /\ sum(c) = T
  BY BeginShape DEF CountsSum
<1>2. k \in 1..c
  OBVIOUS
<1>3. CountsSum(ix, k - 1) = sum(k - 1)
  BY DEF CountsSum
<1> HIDE DEF c, cs, T
<1>4. /\ sum(0) = 0
      /\ \A m \in 0..c : sum(m) \in Nat
      /\ \A m \in 1..c : sum(m) = sum(m - 1) + cs[m]
      /\ \A m \in 0..c, j \in 0..c : j <= m => sum(j) <= sum(m)
  BY ONLY <1>1, SumGrows
<1> HIDE DEF sum
<1>5. k - 1 \in 0..c /\ k \in 0..c /\ c \in 0..c /\ k <= c
  BY <1>1, <1>2
<1>6. sum(k - 1) \in Nat /\ cs[k] \in Nat /\ sum(k - 1) + cs[k] <= T
  BY <1>1, <1>2, <1>4, <1>5
<1>7. 3 * (k - 1) + sum(k - 1) + 3 + cs[k] <= 3 * c + T
  BY <1>1, <1>2, <1>5, <1>6
<1> QED BY <1>1, <1>3, <1>6, <1>7 DEF cs, T

LEMMA OrderParts ==
    ASSUME NEW ix, NEW k
    PROVE  LET accounts == RestOfAccounts(ix, 5)
               taken == CountsSum(ix, k - 1)
               first == 3 * (k - 1) + taken
               count == Counts(ix)[k]
           IN  /\ SettledOrder(ix, k).pda = accounts[first + 1]
               /\ SettledOrder(ix, k).sell_token_account = accounts[first + 2]
               /\ SettledOrder(ix, k).sell_mint = accounts[first + 3]
               /\ SettledOrder(ix, k).destinations = SubSeq(accounts, first + 4, first + 3 + count)
BY DEF SettledOrder

LEMMA OrderAmounts ==
    ASSUME NEW ix, NEW k
    PROVE  SettledOrder(ix, k).amounts =
               [j \in 1..Counts(ix)[k] |-> FromBytes(Chunk(AmountBytes(ix), Word, CountsSum(ix, k - 1) + j))]
BY DEF SettledOrder

(* The orders take every account, one after the other. *)
LEMMA AccountsTaken ==
    ASSUME NEW ix \in Encoded, BeginParses(ix)
    PROVE  LET s == SettledOrders(ix) IN
           RestOfAccounts(ix, 5) =
               FlattenSeq([k \in 1..Len(s) |->
                   <<s[k].pda, s[k].sell_token_account, s[k].sell_mint>> \o s[k].destinations])
<1> DEFINE c == OrderCount(ix)
           cs == Counts(ix)
           T == TransferCount(ix)
           rest == RestOfAccounts(ix, 5)
           s == SettledOrders(ix)
           q == [k \in 1..c |-> <<s[k].pda, s[k].sell_token_account, s[k].sell_mint>> \o s[k].destinations]
           h == [k \in 1..c |-> 3 + 1 * cs[k]]
           sum(k) == SumFunctionOnSet(cs, 1..k)
           place(k) == SumFunctionOnSet(h, 1..k)
<1>1. /\ c \in Nat /\ T \in Nat /\ \A k \in 1..c : cs[k] \in Nat
      /\ rest \in Seq(Int) /\ Len(rest) = 3 * c + T /\ sum(c) = T
  BY BeginShape DEF CountsSum
<1>2. Len(s) = c
  <2>1. s = [k \in 1..c |-> SettledOrder(ix, k)]
    BY DEF SettledOrders
  <2> HIDE DEF c, s
  <2> QED BY <1>1, <2>1
<1>3. \A k \in 0..c : sum(k) \in Nat /\ place(k) = 3 * k + 1 * sum(k)
  <2>1. IsLinear(h, 3, 1, cs, c)
    BY <1>1 DEF IsLinear
  <2> HIDE DEF c, cs, h
  <2> QED BY <1>1, <2>1, SumLinear
<1>4. ASSUME NEW k \in 1..c
      PROVE  /\ q[k] \in Seq(Int) /\ Len(q[k]) = h[k]
             /\ Holds(rest, 1 + place(k - 1), q[k])
  <2> DEFINE taken == CountsSum(ix, k - 1)
             first == 3 * (k - 1) + taken
             count == cs[k]
             e == <<rest[first + 1], rest[first + 2], rest[first + 3]>>
             d == SubSeq(rest, first + 4, first + 3 + count)
  <2>1. /\ taken \in Nat /\ count \in Nat
        /\ 3 * (k - 1) + taken + 3 + count <= Len(rest)
    BY OrderPlace
  <2>2. s[k] = SettledOrder(ix, k)
    BY DEF SettledOrders
  <2>3. /\ s[k].pda = rest[first + 1] /\ s[k].sell_token_account = rest[first + 2]
        /\ s[k].sell_mint = rest[first + 3] /\ s[k].destinations = d
    <3> DEFINE o == SettledOrder(ix, k)
    <3>1. /\ o.pda = rest[first + 1] /\ o.sell_token_account = rest[first + 2]
          /\ o.sell_mint = rest[first + 3] /\ o.destinations = d
      BY OrderParts
    <3> HIDE DEF o, s, first, d
    <3> QED BY <2>2, <3>1 DEF o
  <2>4. q[k] = e \o d
    BY <2>3, Zenon
  <2>5. place(k - 1) = 3 * (k - 1) + taken
    <3>1. k - 1 \in 0..c /\ taken = sum(k - 1)
      BY <1>1 DEF CountsSum
    <3> HIDE DEF place, sum, c, taken
    <3> QED BY <1>3, <3>1
  <2>6. h[k] = 3 + count
    BY <2>1
  <2> HIDE DEF rest, taken, count, place, h, q, c
  <2>7. first \in Nat /\ first + 3 + count <= Len(rest) /\ rest \in Seq(Int) /\ Len(rest) \in Nat
    BY <1>1, <2>1
  <2> HIDE DEF first
  <2>8. e \in Seq(Int) /\ Len(e) = 3 /\ Holds(rest, first + 1, e)
    <3>1. \A j \in 1..3 : first + j \in 1..Len(rest)
      BY <2>1, <2>7
    <3>2. rest[first + 1] \in Int /\ rest[first + 2] \in Int /\ rest[first + 3] \in Int
      BY <2>7, <3>1
    <3>3. e \in Seq(Int) /\ Len(e) = 3 /\ e[1] = rest[first + 1] /\ e[2] = rest[first + 2] /\ e[3] = rest[first + 3]
      BY <3>2
    <3> HIDE DEF e
    <3>4. ASSUME NEW j \in 1..3 PROVE rest[(first + 1) + j - 1] = e[j]
      <4>1. (first + 1) + j - 1 = first + j /\ (j = 1 \/ j = 2 \/ j = 3)
        BY <2>7
      <4> QED BY <3>3, <4>1
    <3>5. (first + 1) + 3 - 1 <= Len(rest)
      BY <2>1, <2>7
    <3> QED BY <3>3, <3>4, <3>5 DEF Holds
  <2>9. d \in Seq(Int) /\ Len(d) = count /\ Holds(rest, first + 4, d)
    <3> DEFINE lo == first + 4
               hi == first + 3 + count
    <3>1. lo \in Nat \ {0} /\ hi \in Nat /\ lo <= hi + 1 /\ hi <= Len(rest) /\ hi - lo + 1 = count
      BY <2>1, <2>7
    <3> HIDE DEF lo, hi
    <3>2. SubSeq(rest, lo, hi) \in Seq(Int) /\ Len(SubSeq(rest, lo, hi)) = hi - lo + 1
      BY <2>7, <3>1, Cut
    <3>3. Holds(rest, lo, SubSeq(rest, lo, hi))
      BY <2>7, <3>1, HoldsCut
    <3> QED BY <3>1, <3>2, <3>3 DEF lo, hi
  <2> HIDE DEF e, d
  <2>10. Holds(rest, first + 1, e \o d)
    <3>1. first + 1 \in Nat \ {0} /\ Holds(rest, (first + 1) + Len(e), d)
      <4>1. (first + 1) + Len(e) = first + 4
        BY <2>7, <2>8
      <4> QED BY <2>7, <2>9, <4>1
    <3> QED BY <2>7, <2>8, <2>9, <3>1, HoldsJoin
  <2>11. e \o d \in Seq(Int) /\ Len(e \o d) = 3 + count
    BY <2>8, <2>9, TwoParts
  <2>12. 1 + place(k - 1) = first + 1
    BY <2>5, <2>7 DEF first
  <2> QED BY <2>4, <2>6, <2>10, <2>11, <2>12
<1>5. q \in [1..c -> Seq(Int)]
  <2>1. q = [k \in 1..c |-> q[k]]
    OBVIOUS
  <2> HIDE DEF q
  <2> QED BY <1>4, <2>1
<1>6. Len(rest) = place(c)
  <2>1. c \in 0..c
    BY <1>1
  <2> HIDE DEF place, sum, c, rest
  <2> QED BY <1>1, <1>3, <2>1
<1> HIDE DEF q, h, c, rest, s
<1>7. Holds(rest, 1, FlattenSeq(q)) /\ FlattenSeq(q) \in Seq(Int)
  <2>1. 1 - 1 <= Len(rest) /\ AreLengths(h, q, c)
    BY <1>1, <1>4 DEF AreLengths
  <2>2. HoldsEach(rest, 1, q, c, h)
    BY <1>4 DEF HoldsEach
  <2> QED BY <1>1, <1>5, <2>1, <2>2, HoldsFlatten
<1>8. Len(FlattenSeq(q)) = place(c)
  <2>1. AreLengths(h, q, c)
    BY <1>4 DEF AreLengths
  <2> QED BY <1>1, <1>5, <2>1, FlattenLen
<1>9. rest = FlattenSeq(q)
  BY <1>1, <1>6, <1>7, <1>8, HoldsWhole
<1> QED BY <1>2, <1>9, Zenon DEF q, rest, s
-----------------------------------------------------------------------------
(* Amounts as bytes, and the bytes of each. *)
WordList(a, n) == [k \in 1..n |-> ToBytes(a[k], Word)]
Constant(w, n) == [k \in 1..n |-> w]

LEMMA WordsType ==
    ASSUME NEW n \in Nat, NEW a \in [1..n -> Nat]
    PROVE  /\ Words(a) = FlattenSeq(WordList(a, n))
           /\ WordList(a, n) \in [1..n -> Seq(Bytes)]
           /\ AreLengths(Constant(Word, n), WordList(a, n), n)
           /\ \A k \in 0..n : SumFunctionOnSet(Constant(Word, n), 1..k) = Word * k
           /\ Words(a) \in Seq(Bytes) /\ Len(Words(a)) = Word * n
<1> DEFINE q == WordList(a, n)
           h == Constant(Word, n)
<1>0. Word \in Nat
  BY Constants
<1>1. Len(a) = n
  OBVIOUS
<1>2. Words(a) = FlattenSeq(q)
  BY <1>1, Zenon DEF Words, WordList
<1>3. ASSUME NEW k \in 1..n PROVE q[k] \in Seq(Bytes) /\ Len(q[k]) = Word
  <2>1. q[k] = ToBytes(a[k], Word) /\ a[k] \in Nat
    BY DEF WordList
  <2> QED BY <1>0, <2>1, ToBytesType
<1>4. q = [k \in 1..n |-> q[k]]
  BY DEF WordList
<1>5. \A k \in 1..n : h[k] = Word
  BY DEF Constant
<1> HIDE DEF q, h
<1>6. q \in [1..n -> Seq(Bytes)]
  BY <1>3, <1>4
<1>7. AreLengths(h, q, n)
  BY <1>3, <1>5 DEF AreLengths
<1>8. \A k \in 0..n : SumFunctionOnSet(h, 1..k) = Word * k
  <2>1. n \in Nat /\ Word \in Nat /\ AreAll(h, Word, n)
    BY <1>0, <1>5 DEF AreAll
  <2> QED BY ONLY <2>1, SumConstant
<1>9. FlattenSeq(q) \in Seq(Bytes) /\ Len(FlattenSeq(q)) = SumFunctionOnSet(h, 1..n)
  BY <1>6, <1>7, FlattenLen
<1>10. SumFunctionOnSet(h, 1..n) = Word * n
  BY <1>8
<1> QED BY <1>2, <1>6, <1>7, <1>8, <1>9, <1>10 DEF q, h

(* The m-th chunk of a sequence of whole words. *)
LEMMA ChunkType ==
    ASSUME NEW am \in Seq(Bytes), NEW T \in Nat, Len(am) = Word * T, NEW m \in 1..T
    PROVE  /\ Chunk(am, Word, m) \in Seq(Bytes) /\ Len(Chunk(am, Word, m)) = Word
           /\ (m - 1) * Word + 1 \in Nat \ {0}
           /\ Holds(am, (m - 1) * Word + 1, Chunk(am, Word, m))
<1> DEFINE lo == (m - 1) * Word + 1
           hi == m * Word
<1>0. Word \in Nat \ {0}
  BY Constants
<1>1. m * Word <= T * Word /\ T * Word = Word * T
  BY <1>0
<1>2. (m - 1) * Word = m * Word - Word /\ (m - 1) * Word \in Nat /\ m * Word \in Nat
  BY <1>0
<1>3. lo \in Nat \ {0} /\ hi \in Nat /\ lo <= hi + 1 /\ hi <= Len(am) /\ hi - lo + 1 = Word
  BY <1>0, <1>1, <1>2
<1>4. Chunk(am, Word, m) = SubSeq(am, lo, hi)
  BY DEF Chunk
<1> HIDE DEF lo, hi
<1>5. SubSeq(am, lo, hi) \in Seq(Bytes) /\ Len(SubSeq(am, lo, hi)) = hi - lo + 1
  BY <1>3, Cut
<1>6. Holds(am, lo, SubSeq(am, lo, hi))
  BY <1>3, HoldsCut
<1> QED BY <1>3, <1>4, <1>5, <1>6 DEF lo

(* A sequence of words holds, from a word on, what the numbers there are   *)
(* written as.                                                             *)
AreNumbers(a, am, taken, n) == a = [j \in 1..n |-> FromBytes(Chunk(am, Word, taken + j))]

LEMMA WordsHeld ==
    ASSUME NEW am \in Seq(Bytes), NEW T \in Nat, Len(am) = Word * T,
           NEW taken \in Nat, NEW n \in Nat, taken + n <= T,
           NEW a, AreNumbers(a, am, taken, n)
    PROVE  a \in [1..n -> Nat] /\ Holds(am, Word * taken + 1, Words(a))
<1> DEFINE q == WordList(a, n)
           h == Constant(Word, n)
<1>0. Word \in Nat \ {0}
  BY Constants
<1>8. a = [j \in 1..n |-> FromBytes(Chunk(am, Word, taken + j))]
  BY Zenon DEF AreNumbers
<1>1. ASSUME NEW j \in 1..n
      PROVE  /\ a[j] \in Nat /\ ToBytes(a[j], Word) = Chunk(am, Word, taken + j)
             /\ Holds(am, ((taken + j) - 1) * Word + 1, ToBytes(a[j], Word))
  <2> DEFINE m == taken + j
             c == Chunk(am, Word, m)
  <2>1. m \in 1..T
    OBVIOUS
  <2>2. a[j] = FromBytes(c)
    BY <1>8
  <2> HIDE DEF m
  <2>3. c \in Seq(Bytes) /\ Len(c) = Word /\ (m - 1) * Word + 1 \in Nat \ {0} /\ Holds(am, (m - 1) * Word + 1, c)
    BY <2>1, ChunkType
  <2> HIDE DEF c
  <2>4. FromBytes(c) \in Nat /\ ToBytes(FromBytes(c), Word) = c
    BY <2>3, NumberBack
  <2> QED BY <2>2, <2>3, <2>4 DEF m, c
<1>2. a \in [1..n -> Nat]
  <2>1. a = [j \in 1..n |-> a[j]]
    BY <1>8
  <2> QED BY <1>1, <2>1
<1>3. /\ Words(a) = FlattenSeq(q)
      /\ q \in [1..n -> Seq(Bytes)]
      /\ AreLengths(h, q, n)
      /\ \A k \in 0..n : SumFunctionOnSet(h, 1..k) = Word * k
      /\ Words(a) \in Seq(Bytes) /\ Len(Words(a)) = Word * n
  BY <1>2, WordsType
<1>4. \A k \in 1..n : q[k] = ToBytes(a[k], Word)
  BY DEF WordList
<1> HIDE DEF q, h
<1> DEFINE p == Word * taken + 1
<1>5. HoldsEach(am, p, q, n, h)
  <2> SUFFICES ASSUME NEW k \in 1..n PROVE Holds(am, p + SumFunctionOnSet(h, 1..(k - 1)), q[k])
    BY DEF HoldsEach
  <2>1. SumFunctionOnSet(h, 1..(k - 1)) = Word * (k - 1)
    <3>1. k - 1 \in 0..n
      OBVIOUS
    <3> QED BY <1>3, <3>1
  <2>2. ((taken + k) - 1) * Word + 1 = p + Word * (k - 1)
    <3>1. ((taken + k) - 1) * Word = taken * Word + (k - 1) * Word
      BY <1>0
    <3>2. taken * Word = Word * taken /\ (k - 1) * Word = Word * (k - 1) /\ taken * Word \in Nat /\ (k - 1) * Word \in Nat
      BY <1>0
    <3> QED BY <3>1, <3>2
  <2> HIDE DEF p
  <2> QED BY <1>1, <1>4, <2>1, <2>2
<1>6. p \in Nat \ {0} /\ p - 1 <= Len(am)
  <2>1. Word * taken \in Nat /\ Word * taken <= Word * T
    BY <1>0
  <2> QED BY <2>1
<1> HIDE DEF p
<1>7. Holds(am, p, FlattenSeq(q)) /\ FlattenSeq(q) \in Seq(Bytes)
  BY <1>3, <1>5, <1>6, HoldsFlatten
<1> QED BY <1>2, <1>3, <1>7 DEF p

(* The orders take every amount, one after the other. *)
LEMMA AmountsTaken ==
    ASSUME NEW ix \in Encoded, BeginParses(ix)
    PROVE  LET s == SettledOrders(ix) IN
           AmountBytes(ix) = FlattenSeq([k \in 1..Len(s) |-> Words(s[k].amounts)])
<1> DEFINE c == OrderCount(ix)
           cs == Counts(ix)
           T == TransferCount(ix)
           am == AmountBytes(ix)
           s == SettledOrders(ix)
           q == [k \in 1..c |-> Words(s[k].amounts)]
           h == [k \in 1..c |-> 0 + Word * cs[k]]
           sum(k) == SumFunctionOnSet(cs, 1..k)
           place(k) == SumFunctionOnSet(h, 1..k)
<1>0. Word \in Nat
  BY Constants
<1>1. /\ c \in Nat /\ T \in Nat /\ \A k \in 1..c : cs[k] \in Nat
      /\ am \in Seq(Bytes) /\ Len(am) = Word * T /\ sum(c) = T
  BY BeginShape DEF CountsSum
<1>2. Len(s) = c
  <2>1. s = [k \in 1..c |-> SettledOrder(ix, k)]
    BY DEF SettledOrders
  <2> HIDE DEF c, s
  <2> QED BY <1>1, <2>1
<1>3. \A k \in 0..c : sum(k) \in Nat /\ place(k) = 0 * k + Word * sum(k)
  <2>1. IsLinear(h, 0, Word, cs, c)
    BY <1>1 DEF IsLinear
  <2> HIDE DEF c, cs, h
  <2> QED BY <1>0, <1>1, <2>1, SumLinear
<1>4. ASSUME NEW k \in 1..c
      PROVE  /\ q[k] \in Seq(Bytes) /\ Len(q[k]) = h[k]
             /\ Holds(am, 1 + place(k - 1), q[k])
  <2> DEFINE taken == CountsSum(ix, k - 1)
             count == cs[k]
             a == SettledOrder(ix, k).amounts
  <2>1. taken \in Nat /\ count \in Nat /\ taken + count <= T
    BY OrderPlace
  <2>2. q[k] = Words(a)
    BY DEF SettledOrders
  <2>3. AreNumbers(a, am, taken, count)
    <3>1. a = [j \in 1..count |-> FromBytes(Chunk(am, Word, taken + j))]
      BY OrderAmounts
    <3> HIDE DEF a, count, am, taken
    <3> QED BY <3>1, Zenon DEF AreNumbers
  <2>4. place(k - 1) = Word * taken
    <3>1. k - 1 \in 0..c /\ taken = sum(k - 1)
      BY <1>1 DEF CountsSum
    <3>2. place(k - 1) = 0 * (k - 1) + Word * sum(k - 1)
      <4> HIDE DEF place, sum, c, taken
      <4> QED BY <1>3, <3>1
    <3> HIDE DEF place, sum, c, taken
    <3>3. 0 * (k - 1) = 0 /\ Word * taken \in Nat
      BY <1>0, <1>1, <2>1
    <3> QED BY <3>1, <3>2, <3>3
  <2>5. h[k] = Word * count
    <3>1. h[k] = 0 + Word * cs[k]
      OBVIOUS
    <3> HIDE DEF h
    <3>2. Word * cs[k] \in Nat
      BY <1>0, <2>1
    <3> QED BY <3>1, <3>2
  <2> HIDE DEF am, taken, count, place, h, q, c, a, T
  <2>6. a \in [1..count -> Nat] /\ Holds(am, Word * taken + 1, Words(a))
    BY <1>1, <2>1, <2>3, WordsHeld
  <2>7. Words(a) \in Seq(Bytes) /\ Len(Words(a)) = Word * count
    BY <2>1, <2>6, WordsType
  <2>8. 1 + place(k - 1) = Word * taken + 1
    BY <1>0, <2>1, <2>4
  <2> QED BY <2>2, <2>5, <2>6, <2>7, <2>8
<1>5. q \in [1..c -> Seq(Bytes)]
  <2>1. q = [k \in 1..c |-> q[k]]
    OBVIOUS
  <2> HIDE DEF q
  <2> QED BY <1>4, <2>1
<1>6. Len(am) = place(c)
  <2>1. c \in 0..c
    BY <1>1
  <2> HIDE DEF place, sum, c, am
  <2>2. place(c) = 0 * c + Word * T
    BY <1>1, <1>3, <2>1
  <2> HIDE DEF T
  <2>3. 0 * c = 0 /\ Word * T \in Nat
    BY <1>0, <1>1
  <2> QED BY <1>1, <2>2, <2>3
<1> HIDE DEF q, h, c, am, s
<1>7. AreLengths(h, q, c)
  BY <1>4 DEF AreLengths
<1>8. Holds(am, 1, FlattenSeq(q)) /\ FlattenSeq(q) \in Seq(Bytes)
  <2>1. 1 - 1 <= Len(am)
    BY <1>1
  <2>2. HoldsEach(am, 1, q, c, h)
    BY <1>4 DEF HoldsEach
  <2> QED BY <1>1, <1>5, <1>7, <2>1, <2>2, HoldsFlatten
<1>9. Len(FlattenSeq(q)) = place(c)
  BY <1>1, <1>5, <1>7, FlattenLen
<1>10. am = FlattenSeq(q)
  BY <1>1, <1>6, <1>8, <1>9, HoldsWhole
<1> QED BY <1>2, <1>10, Zenon DEF q, am, s
-----------------------------------------------------------------------------
(* Sorting keeps the orders and loses none. *)
Precedes(x, i, y, j) ==
    \/ x < y
    \/ x = y /\ i <= j

LEMMA PrecedesTotal ==
    ASSUME NEW x \in Int, NEW y \in Int, NEW i \in Int, NEW j \in Int
    PROVE  /\ Precedes(x, i, x, i)
           /\ Precedes(x, i, y, j) \/ Precedes(y, j, x, i)
           /\ Precedes(x, i, y, j) /\ Precedes(y, j, x, i) => i = j
BY DEF Precedes

LEMMA PrecedesTransitive ==
    ASSUME NEW x \in Int, NEW y \in Int, NEW z \in Int, NEW i \in Int, NEW j \in Int, NEW k \in Int,
           Precedes(x, i, y, j), Precedes(y, j, z, k)
    PROVE  Precedes(x, i, z, k)
BY DEF Precedes

LEMMA Sorting ==
    ASSUME NEW orders \in Seq(Orders)
    PROVE  LET s == SortedByPda(orders)
               n == Len(orders)
           IN  /\ n \in Nat /\ s \in [1..n -> Orders] /\ Len(s) = n
               /\ \A k \in 1..n : \E i \in 1..n : s[k] = orders[i]
               /\ \A i \in 1..n : \E k \in 1..n : s[k] = orders[i]
<1> DEFINE n == Len(orders)
           s == SortedByPda(orders)
           D == DOMAIN orders
           key(i) == orders[i].pda
           before(j, i) == Precedes(key(j), j, key(i), i)
           R(i) == {j \in D : before(j, i)}
           rank(i) == Cardinality(R(i))
           at(k) == CHOOSE i \in D : rank(i) = k
<1>1. n \in Nat /\ D = 1..n /\ \A i \in D : orders[i] \in Orders
  OBVIOUS
<1>2. \A i \in D : key(i) \in Int /\ i \in Int
  BY <1>1, OrderFields
<1>3. s = [k \in 1..n |-> orders[at(k)]]
  BY Zenon DEF SortedByPda, Precedes
<1> HIDE DEF n, s, key, D
<1>4. ASSUME NEW i \in D, NEW j \in D, NEW k \in D
      PROVE  /\ before(i, i)
             /\ before(i, j) \/ before(j, i)
             /\ before(i, j) /\ before(j, k) => before(i, k)
             /\ before(i, j) /\ before(j, i) => i = j
  <2>1. key(i) \in Int /\ key(j) \in Int /\ key(k) \in Int /\ i \in Int /\ j \in Int /\ k \in Int
    BY <1>2
  <2>2. before(i, i) /\ (before(i, j) \/ before(j, i)) /\ (before(i, j) /\ before(j, i) => i = j)
    BY <2>1, PrecedesTotal
  <2>3. before(i, j) /\ before(j, k) => before(i, k)
    BY <2>1, PrecedesTransitive
  <2> QED BY <2>2, <2>3
<1> HIDE DEF before
<1>5. IsFiniteSet(D) /\ Cardinality(D) = n
  BY <1>1, FS_Interval
<1>6. ASSUME NEW i \in D
      PROVE  R(i) \in SUBSET D /\ i \in R(i) /\ IsFiniteSet(R(i)) /\ rank(i) \in 1..n
  <2>1. R(i) \in SUBSET D /\ i \in R(i)
    BY <1>4
  <2> HIDE DEF R
  <2>2. IsFiniteSet(R(i)) /\ Cardinality(R(i)) <= Cardinality(D)
    BY <1>5, <2>1, FS_Subset
  <2>3. Cardinality(R(i)) \in Nat /\ Cardinality(R(i)) # 0
    BY <2>1, <2>2, FS_CardinalityType, FS_EmptySet
  <2> QED BY <1>1, <1>5, <2>1, <2>2, <2>3
<1>7. ASSUME NEW i \in D, NEW j \in D, before(j, i), i # j PROVE rank(i) # rank(j)
  <2>1. R(j) \subseteq R(i)
    BY <1>4, <1>7
  <2>2. i \in R(i) /\ i \notin R(j)
    BY <1>4, <1>7
  <2>3. IsFiniteSet(R(i))
    BY <1>6
  <2> HIDE DEF R
  <2>4. Cardinality(R(i)) = Cardinality(R(j)) => R(i) = R(j)
    BY <2>1, <2>3, FS_Subset
  <2> QED BY <2>2, <2>4
<1>8. \A i, j \in D : rank(i) = rank(j) => i = j
  <2> HIDE DEF rank
  <2> QED BY <1>4, <1>7
<1>9. \A k \in 1..n : \E i \in D : rank(i) = k
  <2> HIDE DEF rank
  <2> DEFINE f == [i \in D |-> rank(i)]
  <2>1. f \in Injection(D, 1..n)
    BY <1>6, <1>8 DEF Injection, IsInjective
  <2> HIDE DEF f
  <2>2. IsFiniteSet(1..n) /\ Cardinality(1..n) = n
    BY <1>1, FS_Interval
  <2>3. f \in Surjection(D, 1..n)
    BY <1>5, <2>1, <2>2, FS_Injection
  <2>4. \A k \in 1..n : \E i \in D : f[i] = k
    BY <2>3 DEF Surjection
  <2> QED BY <2>4 DEF f
<1> HIDE DEF rank
<1>10. \A k \in 1..n : at(k) \in D /\ rank(at(k)) = k
  BY <1>9
<1> HIDE DEF at
<1>11. \A i \in D : rank(i) \in 1..n /\ at(rank(i)) = i
  BY <1>6, <1>8, <1>10
<1>12. \A k \in 1..n : s[k] = orders[at(k)]
  BY <1>3
<1>13. s \in [1..n -> Orders] /\ Len(s) = n
  BY <1>1, <1>3, <1>10
<1>14. \A i \in D : s[rank(i)] = orders[i]
  BY <1>11, <1>12
<1> QED BY <1>1, <1>10, <1>11, <1>12, <1>13, <1>14 DEF n, s
-----------------------------------------------------------------------------
(* Bytes and accounts that are edited stay bytes and accounts. *)
LEMMA EditedType ==
    ASSUME NEW S, NEW s \in Seq(S), NEW V \in SUBSET S
    PROVE  Edited(s, V) \subseteq Seq(S)
<1>1. \A i \in 1..Len(s) : RemoveAt(s, i) \in Seq(S)
  BY EditTypes
<1>2. \A i \in 1..(Len(s) + 1), v \in S : InsertAt(s, i, v) \in Seq(S)
  BY EditTypes
<1> QED BY <1>1, <1>2 DEF Edited

LEMMA EditsType ==
    ASSUME NEW ix \in Encoded
    PROVE  EditsOf(ix) \subseteq Encoded
<1>1. ix.data \in Seq(Bytes) /\ ix.accounts \in Seq(Int)
  BY DEF Encoded, Bytes
<1>2. Edited(ix.data, 0..(Byte - 1)) \subseteq Seq(Bytes)
  BY <1>1, EditedType DEF Bytes
<1>3. Edited(ix.accounts, Stray) \subseteq Seq(Int)
  BY <1>1, Constants, EditedType
<1>4. ASSUME NEW d \in Edited(ix.data, 0..(Byte - 1)) PROVE [ix EXCEPT !.data = d] \in Encoded
  <2>1. d \in Seq(0..(Byte - 1))
    BY <1>2 DEF Bytes
  <2> QED BY <2>1 DEF Encoded
<1>5. ASSUME NEW a \in Edited(ix.accounts, Stray) PROVE [ix EXCEPT !.accounts = a] \in Encoded
  <2>1. a \in Seq(Int)
    BY <1>3
  <2> QED BY <2>1 DEF Encoded
<1> QED BY <1>4, <1>5 DEF EditsOf
-----------------------------------------------------------------------------
(* What is built of the orders s, n of them. *)
AccountLists(s, n) == [k \in 1..n |-> OrderAccounts(s[k])]
AmountLists(s, n) == [k \in 1..n |-> Words(PullAmounts(s[k]))]
PullCounts(s, n) == [k \in 1..n |-> Len(s[k].pulls)]
ByteCounts(s, n) == [k \in 1..n |-> Len(s[k].pulls) % Byte]
AccountWidths(s, n) == [k \in 1..n |-> 3 + 1 * Len(s[k].pulls)]
AmountWidths(s, n) == [k \in 1..n |-> 0 + Word * Len(s[k].pulls)]

LEMMA OneOrder ==
    ASSUME NEW o \in Orders
    PROVE  /\ Len(o.pulls) \in Nat
           /\ Destinations(o) \in [1..Len(o.pulls) -> Int]
           /\ PullAmounts(o) \in [1..Len(o.pulls) -> 0..(Power(Word) - 1)]
           /\ PullAmounts(o) \in [1..Len(o.pulls) -> Nat]
           /\ SellMint(o) \in Int
           /\ OrderAccounts(o) \in Seq(Int) /\ Len(OrderAccounts(o)) = 3 + 1 * Len(o.pulls)
           /\ OrderAccounts(o)[1] = o.pda /\ OrderAccounts(o)[2] = o.sell_token_account
           /\ OrderAccounts(o)[3] = SellMint(o)
           /\ \A j \in 1..Len(o.pulls) : OrderAccounts(o)[3 + j] = Destinations(o)[j]
           /\ Words(PullAmounts(o)) \in Seq(Bytes)
           /\ Len(Words(PullAmounts(o))) = 0 + Word * Len(o.pulls)
<1> DEFINE n == Len(o.pulls)
           d == Destinations(o)
           a == PullAmounts(o)
           m == SellMint(o)
           x == o.pda
           y == o.sell_token_account
<1>0. o.pulls \in Seq([destination: Int, amount: 0..(Power(Word) - 1)])
  BY OrderFields
<1>1. n \in Nat
  BY <1>0
<1>2. \A j \in 1..n : o.pulls[j].destination \in Int /\ o.pulls[j].amount \in 0..(Power(Word) - 1)
  <2> DEFINE R == [destination: Int, amount: 0..(Power(Word) - 1)]
             p == o.pulls
  <2>1. p \in Seq(R)
    BY <1>0
  <2>2. \A r \in R : r.destination \in Int /\ r.amount \in 0..(Power(Word) - 1)
    OBVIOUS
  <2> HIDE DEF R, p
  <2>3. \A j \in 1..Len(p) : p[j] \in R
    BY <2>1
  <2> QED BY <2>2, <2>3 DEF p
<1>3. d \in [1..n -> Int]
  BY <1>2 DEF Destinations
<1>4. a \in [1..n -> 0..(Power(Word) - 1)]
  BY <1>2 DEF PullAmounts
<1>5. x \in Int /\ y \in Int
  BY OrderFields
<1>6. m \in Int
  <2>1. o.sell_mint \in Int /\ MINT_PLACEHOLDER \in Int
    BY OrderFields, Constants
  <2> QED BY <2>1, Zenon DEF SellMint
<1>7. OrderAccounts(o) = <<x, y, m>> \o d
  BY Zenon DEF OrderAccounts
<1> HIDE DEF n, d, a, m, x, y
<1>8. a \in [1..n -> Nat]
  <2>1. 0..(Power(Word) - 1) \subseteq Nat
    OBVIOUS
  <2> QED BY <1>4, <2>1
<1>9. Words(a) \in Seq(Bytes) /\ Len(Words(a)) = Word * n
  BY <1>1, <1>8, WordsType
<1>10. 0 + Word * n = Word * n
  BY <1>1, Constants
<1>11. d \in Seq(Int) /\ Len(d) = n
  BY <1>1, <1>3
<1>12. /\ OrderAccounts(o) \in Seq(Int) /\ Len(OrderAccounts(o)) = 3 + 1 * n
       /\ OrderAccounts(o)[1] = x /\ OrderAccounts(o)[2] = y /\ OrderAccounts(o)[3] = m
       /\ \A j \in 1..n : OrderAccounts(o)[3 + j] = d[j]
  <2> DEFINE t == <<x, y, m>>
  <2>1. t \in Seq(Int) /\ Len(t) = 3 /\ t[1] = x /\ t[2] = y /\ t[3] = m
    BY <1>5, <1>6
  <2> HIDE DEF t
  <2>2. IsJoin(OrderAccounts(o), t, d)
    BY <1>7, Zenon DEF t, IsJoin
  <2> DEFINE ab == OrderAccounts(o)
  <2> HIDE DEF ab
  <2>3. /\ ab \in Seq(Int) /\ Len(ab) = Len(t) + Len(d) /\ Len(t) \in Nat /\ Len(d) \in Nat
        /\ Holds(ab, 1, t) /\ Holds(ab, 1 + Len(t), d)
        /\ \A j \in 1..Len(t) : ab[j] = t[j]
        /\ \A j \in 1..Len(d) : ab[Len(t) + j] = d[j]
    <3> DEFINE I == Int
    <3>1. Joins(I, ab, t, d)
      BY <1>11, <2>1, <2>2, Zenon DEF Joins, ab
    <3> HIDE DEF I
    <3>2. /\ ab \in Seq(I) /\ Len(ab) = Len(t) + Len(d) /\ Len(t) \in Nat /\ Len(d) \in Nat
          /\ Holds(ab, 1, t) /\ Holds(ab, 1 + Len(t), d)
          /\ \A j \in 1..Len(t) : ab[j] = t[j]
          /\ \A j \in 1..Len(d) : ab[Len(t) + j] = d[j]
      BY ONLY <3>1, PartsAt
    <3> QED BY <3>2, Zenon DEF I
  <2>6. 1 \in 1..3 /\ 2 \in 1..3 /\ 3 \in 1..3 /\ 3 + 1 * n = 3 + n
    BY <1>1
  <2> QED BY <1>11, <2>1, <2>3, <2>6 DEF ab
<1> QED BY <1>1, <1>3, <1>4, <1>6, <1>8, <1>9, <1>10, <1>12 DEF n, d, a, m, x, y
Total(s, n, k) == SumFunctionOnSet(PullCounts(s, n), 1..k)
AllAccounts(s, n) == FlattenSeq(AccountLists(s, n))
AllAmounts(s, n) == FlattenSeq(AmountLists(s, n))

LEMMA OrderLists ==
    ASSUME NEW n \in Nat, NEW s \in [1..n -> Orders]
    PROVE  /\ AccountLists(s, n) \in [1..n -> Seq(Int)]
           /\ AreLengths(AccountWidths(s, n), AccountLists(s, n), n)
           /\ AmountLists(s, n) \in [1..n -> Seq(Bytes)]
           /\ AreLengths(AmountWidths(s, n), AmountLists(s, n), n)
           /\ \A k \in 1..n : PullCounts(s, n)[k] \in Nat
           /\ ByteCounts(s, n) \in Seq(Bytes) /\ Len(ByteCounts(s, n)) = n
           /\ \A k \in 0..n : /\ Total(s, n, k) \in Nat
                              /\ SumFunctionOnSet(AccountWidths(s, n), 1..k) = 3 * k + Total(s, n, k)
                              /\ SumFunctionOnSet(AmountWidths(s, n), 1..k) = Word * Total(s, n, k)
           /\ AllAccounts(s, n) \in Seq(Int) /\ Len(AllAccounts(s, n)) = 3 * n + Total(s, n, n)
           /\ AllAmounts(s, n) \in Seq(Bytes) /\ Len(AllAmounts(s, n)) = Word * Total(s, n, n)
<1> DEFINE c == PullCounts(s, n)
           b == ByteCounts(s, n)
           aw == AccountWidths(s, n)
           mw == AmountWidths(s, n)
           al == AccountLists(s, n)
           ml == AmountLists(s, n)
<1>0. Word \in Nat \ {0} /\ Byte \in Nat \ {0}
  BY Constants
<1>1. ASSUME NEW k \in 1..n
      PROVE  /\ c[k] = Len(s[k].pulls) /\ c[k] \in Nat
             /\ b[k] = c[k] % Byte
             /\ al[k] \in Seq(Int) /\ aw[k] = Len(al[k]) /\ aw[k] = 3 + 1 * c[k]
             /\ ml[k] \in Seq(Bytes) /\ mw[k] = Len(ml[k]) /\ mw[k] = 0 + Word * c[k]
  <2> DEFINE o == s[k]
  <2>1. o \in Orders
    OBVIOUS
  <2>2. c[k] = Len(o.pulls) /\ b[k] = Len(o.pulls) % Byte /\ aw[k] = 3 + 1 * Len(o.pulls)
        /\ mw[k] = 0 + Word * Len(o.pulls) /\ al[k] = OrderAccounts(o) /\ ml[k] = Words(PullAmounts(o))
    BY DEF PullCounts, ByteCounts, AccountWidths, AmountWidths, AccountLists, AmountLists
  <2> HIDE DEF o, c, b, aw, mw, al, ml
  <2>3. /\ Len(o.pulls) \in Nat
        /\ OrderAccounts(o) \in Seq(Int) /\ Len(OrderAccounts(o)) = 3 + 1 * Len(o.pulls)
        /\ Words(PullAmounts(o)) \in Seq(Bytes)
        /\ Len(Words(PullAmounts(o))) = 0 + Word * Len(o.pulls)
    BY <2>1, OneOrder
  <2>4. c[k] = Len(s[k].pulls)
    BY <2>2 DEF o
  <2> QED BY <2>2, <2>3, <2>4, Zenon
<1>2. al = [k \in 1..n |-> al[k]] /\ ml = [k \in 1..n |-> ml[k]] /\ b = [k \in 1..n |-> b[k]]
  BY DEF AccountLists, AmountLists, ByteCounts
<1> HIDE DEF c, b, aw, mw, al, ml
<1>3. al \in [1..n -> Seq(Int)] /\ ml \in [1..n -> Seq(Bytes)]
  BY <1>1, <1>2
<1>4. AreLengths(aw, al, n) /\ AreLengths(mw, ml, n)
  BY <1>1 DEF AreLengths
<1>5. b \in Seq(Bytes) /\ Len(b) = n
  <2>1. ASSUME NEW k \in 1..n PROVE b[k] \in Bytes
    <3>1. b[k] = c[k] % Byte /\ c[k] \in Nat
      BY <1>1
    <3>2. c[k] % Byte \in 0..(Byte - 1)
      BY <1>0, <3>1
    <3> QED BY <3>1, <3>2, Zenon DEF Bytes
  <2>2. b \in [1..n -> Bytes]
    BY <1>2, <2>1
  <2> QED BY <2>2
<1>6. IsLinear(aw, 3, 1, c, n) /\ IsLinear(mw, 0, Word, c, n)
  BY <1>1 DEF IsLinear
<1>7. \A k \in 0..n : /\ SumFunctionOnSet(c, 1..k) \in Nat
                      /\ SumFunctionOnSet(aw, 1..k) = 3 * k + 1 * SumFunctionOnSet(c, 1..k)
  BY <1>6, SumLinear
<1>8. \A k \in 0..n : /\ SumFunctionOnSet(c, 1..k) \in Nat
                      /\ SumFunctionOnSet(mw, 1..k) = 0 * k + Word * SumFunctionOnSet(c, 1..k)
  BY <1>0, <1>6, SumLinear
<1>9. ASSUME NEW k \in 0..n
      PROVE  /\ SumFunctionOnSet(c, 1..k) \in Nat
             /\ SumFunctionOnSet(aw, 1..k) = 3 * k + SumFunctionOnSet(c, 1..k)
             /\ SumFunctionOnSet(mw, 1..k) = Word * SumFunctionOnSet(c, 1..k)
  <2> DEFINE C == SumFunctionOnSet(c, 1..k)
             A == SumFunctionOnSet(aw, 1..k)
             M == SumFunctionOnSet(mw, 1..k)
  <2>1. C \in Nat /\ A = 3 * k + 1 * C /\ M = 0 * k + Word * C
    BY <1>7, <1>8
  <2> HIDE DEF C, A, M
  <2>2. Word * C \in Nat /\ 0 * k = 0 /\ 1 * C = C
    BY <1>0, <2>1
  <2>3. C \in Nat /\ A = 3 * k + C /\ M = Word * C
    BY <2>1, <2>2
  <2> QED BY <2>3 DEF C, A, M
<1>10. FlattenSeq(al) \in Seq(Int) /\ Len(FlattenSeq(al)) = SumFunctionOnSet(aw, 1..n)
  BY <1>3, <1>4, FlattenLen
<1>11. FlattenSeq(ml) \in Seq(Bytes) /\ Len(FlattenSeq(ml)) = SumFunctionOnSet(mw, 1..n)
  BY <1>3, <1>4, FlattenLen
<1>12. n \in 0..n
  OBVIOUS
<1>13. \A k \in 0..n : /\ Total(s, n, k) \in Nat
                       /\ SumFunctionOnSet(aw, 1..k) = 3 * k + Total(s, n, k)
                       /\ SumFunctionOnSet(mw, 1..k) = Word * Total(s, n, k)
  BY <1>9, Zenon DEF Total, c
<1>14. \A k \in 1..n : c[k] \in Nat
  BY <1>1
<1>15. AllAccounts(s, n) \in Seq(Int) /\ Len(AllAccounts(s, n)) = 3 * n + Total(s, n, n)
       /\ AllAmounts(s, n) \in Seq(Bytes) /\ Len(AllAmounts(s, n)) = Word * Total(s, n, n)
  BY <1>10, <1>11, <1>12, <1>13, Zenon DEF AllAccounts, AllAmounts, al, ml
<1> QED BY <1>3, <1>4, <1>5, <1>13, <1>14, <1>15, Zenon DEF al, ml, aw, mw, b, c

LEMMA BeginLayout ==
    ASSUME NEW orders \in Seq(Orders)
    PROVE  LET s == SortedByPda(orders)
               n == Len(orders)
               d == BuildBeginSettle(orders).data
           IN  /\ d \in Seq(Bytes) /\ Len(d) = 4 + Word + n + Word * Total(s, n, n)
               /\ d[1] = 0 /\ d[4 + Word] = n % Byte
               /\ \A k \in 1..n : d[4 + Word + k] = ByteCounts(s, n)[k]
               /\ Holds(d, 5 + Word + n, AllAmounts(s, n))
<1> DEFINE s == SortedByPda(orders)
           n == Len(orders)
           P == Total(s, n, n)
           t0 == <<0>>
           t1 == ToBytes(FinalizeIndex, 2)
           t2 == ToBytes(AuctionId, Word)
           t3 == <<n % Byte>>
           t4 == ByteCounts(s, n)
           t5 == AllAmounts(s, n)
           d1 == t0 \o t1
           d2 == d1 \o t2
           d3 == d2 \o t3
           d4 == d3 \o t4
           d == d4 \o t5
<1>1. n \in Nat /\ s \in [1..n -> Orders] /\ Len(s) = n
  BY Sorting
<1>2. BuildBeginSettle(orders).data = d
  <2>1. BuildBeginSettle(orders).data = BeginData(orders)
    BY DEF BuildBeginSettle
  <2>2. BeginData(orders) = d
    BY <1>1, Zenon DEF BeginData, ByteCounts, AllAmounts, AmountLists
  <2> QED BY <2>1, <2>2
<1> HIDE DEF s, n
<1>3. Word \in Nat \ {0} /\ Byte \in Nat \ {0} /\ 0 \in Bytes
  BY Constants
<1>4. P \in Nat /\ t4 \in Seq(Bytes) /\ Len(t4) = n /\ t5 \in Seq(Bytes) /\ Len(t5) = Word * P
  <2>1. n \in 0..n
    BY <1>1
  <2> QED BY <1>1, <2>1, OrderLists
<1>5. t1 \in Seq(Bytes) /\ Len(t1) = 2
  BY ToBytesType DEF FinalizeIndex
<1>6. t2 \in Seq(Bytes) /\ Len(t2) = Word
  BY <1>3, ToBytesType DEF AuctionId
<1>7. t0 \in Seq(Bytes) /\ Len(t0) = 1 /\ t0[1] = 0
  BY <1>3
<1>8. t3 \in Seq(Bytes) /\ Len(t3) = 1 /\ t3[1] = n % Byte
  <2>1. n % Byte \in Bytes
    BY <1>1, <1>3 DEF Bytes
  <2> HIDE DEF n
  <2> DEFINE x == n % Byte
  <2> HIDE DEF x
  <2>2. x \in Bytes
    BY <2>1 DEF x
  <2>3. <<x>> \in Seq(Bytes) /\ Len(<<x>>) = 1 /\ <<x>>[1] = x
    BY <2>2
  <2> QED BY <2>3, Zenon DEF x
<1> HIDE DEF P, t0, t1, t2, t3, t4, t5
<1>9. IsJoin(d1, t0, t1) /\ IsJoin(d2, d1, t2) /\ IsJoin(d3, d2, t3) /\ IsJoin(d4, d3, t4) /\ IsJoin(d, d4, t5)
  BY Zenon DEF IsJoin
<1> HIDE DEF d, d1, d2, d3, d4
<1>10. d1 \in Seq(Bytes) /\ Len(d1) = 3 /\ d1[1] = 0
  <2>1. /\ d1 \in Seq(Bytes) /\ Len(d1) = Len(t0) + Len(t1) /\ Len(t0) \in Nat /\ Len(t1) \in Nat
        /\ Holds(d1, 1, t0) /\ Holds(d1, 1 + Len(t0), t1)
        /\ \A j \in 1..Len(t0) : d1[j] = t0[j]
        /\ \A j \in 1..Len(t1) : d1[Len(t0) + j] = t1[j]
    <3>1. Joins(Bytes, d1, t0, t1)
      BY <1>5, <1>7, <1>9, Zenon DEF Joins
    <3> QED BY ONLY <3>1, PartsAt
  <2> QED BY <1>5, <1>7, <2>1
<1>11. d2 \in Seq(Bytes) /\ Len(d2) = 3 + Word /\ d2[1] = 0
  <2>1. /\ d2 \in Seq(Bytes) /\ Len(d2) = Len(d1) + Len(t2) /\ Len(d1) \in Nat /\ Len(t2) \in Nat
        /\ Holds(d2, 1, d1) /\ Holds(d2, 1 + Len(d1), t2)
        /\ \A j \in 1..Len(d1) : d2[j] = d1[j]
        /\ \A j \in 1..Len(t2) : d2[Len(d1) + j] = t2[j]
    <3>1. Joins(Bytes, d2, d1, t2)
      BY <1>6, <1>9, <1>10, Zenon DEF Joins
    <3> QED BY ONLY <3>1, PartsAt
  <2> QED BY <1>6, <1>10, <2>1
<1>12. d3 \in Seq(Bytes) /\ Len(d3) = 4 + Word /\ d3[1] = 0 /\ d3[4 + Word] = n % Byte
  <2>1. /\ d3 \in Seq(Bytes) /\ Len(d3) = Len(d2) + Len(t3) /\ Len(d2) \in Nat /\ Len(t3) \in Nat
        /\ Holds(d3, 1, d2) /\ Holds(d3, 1 + Len(d2), t3)
        /\ \A j \in 1..Len(d2) : d3[j] = d2[j]
        /\ \A j \in 1..Len(t3) : d3[Len(d2) + j] = t3[j]
    <3>1. Joins(Bytes, d3, d2, t3)
      BY <1>8, <1>9, <1>11, Zenon DEF Joins
    <3> QED BY ONLY <3>1, PartsAt
  <2>2. 1 \in 1..Len(d2) /\ 1 \in 1..Len(t3) /\ Len(d2) + 1 = 4 + Word /\ Len(d2) + Len(t3) = 4 + Word
    BY <1>3, <1>8, <1>11
  <2>3. d3[1] = d2[1]
    BY <2>1, <2>2
  <2>4. d3[4 + Word] = t3[1]
    BY <2>1, <2>2
  <2> QED BY <1>8, <1>11, <2>1, <2>2, <2>3, <2>4, Zenon
<1>13. /\ d4 \in Seq(Bytes) /\ Len(d4) = 4 + Word + n /\ d4[1] = 0 /\ d4[4 + Word] = n % Byte
       /\ \A k \in 1..n : d4[4 + Word + k] = t4[k]
  <2>1. /\ d4 \in Seq(Bytes) /\ Len(d4) = Len(d3) + Len(t4) /\ Len(d3) \in Nat /\ Len(t4) \in Nat
        /\ Holds(d4, 1, d3) /\ Holds(d4, 1 + Len(d3), t4)
        /\ \A j \in 1..Len(d3) : d4[j] = d3[j]
        /\ \A j \in 1..Len(t4) : d4[Len(d3) + j] = t4[j]
    <3>1. Joins(Bytes, d4, d3, t4)
      BY <1>4, <1>9, <1>12, Zenon DEF Joins
    <3> QED BY ONLY <3>1, PartsAt
  <2>2. 1 \in 1..Len(d3) /\ 4 + Word \in 1..Len(d3)
    BY <1>3, <1>12
  <2>3. d4[1] = d3[1] /\ d4[4 + Word] = d3[4 + Word]
    BY <2>1, <2>2
  <2> QED BY <1>4, <1>12, <2>1, <2>3, Zenon
<1>14. /\ d \in Seq(Bytes) /\ Len(d) = 4 + Word + n + Word * P /\ d[1] = 0 /\ d[4 + Word] = n % Byte
       /\ \A k \in 1..n : d[4 + Word + k] = t4[k]
       /\ Holds(d, 5 + Word + n, t5)
  <2>1. /\ d \in Seq(Bytes) /\ Len(d) = Len(d4) + Len(t5) /\ Len(d4) \in Nat /\ Len(t5) \in Nat
        /\ Holds(d, 1, d4) /\ Holds(d, 1 + Len(d4), t5)
        /\ \A j \in 1..Len(d4) : d[j] = d4[j]
        /\ \A j \in 1..Len(t5) : d[Len(d4) + j] = t5[j]
    <3>1. Joins(Bytes, d, d4, t5)
      BY <1>4, <1>9, <1>13, Zenon DEF Joins
    <3> QED BY ONLY <3>1, PartsAt
  <2>2. 1 \in 1..Len(d4) /\ 4 + Word \in 1..Len(d4) /\ 1 + Len(d4) = 5 + Word + n
        /\ \A k \in 1..n : 4 + Word + k \in 1..Len(d4)
    BY <1>1, <1>3, <1>13
  <2>3. d[1] = d4[1] /\ d[4 + Word] = d4[4 + Word]
    BY <2>1, <2>2
  <2>4. \A k \in 1..n : d[4 + Word + k] = t4[k]
    BY <1>13, <2>1, <2>2
  <2>5. Holds(d, 5 + Word + n, t5)
    BY <2>1, <2>2, Zenon
  <2> QED BY <1>4, <1>13, <2>1, <2>3, <2>4, <2>5, Zenon
<1> QED BY <1>2, <1>14, Zenon DEF P, t4, t5, s, n

LEMMA BeginAccounts ==
    ASSUME NEW orders \in Seq(Orders)
    PROVE  LET s == SortedByPda(orders)
               n == Len(orders)
               ix == BuildBeginSettle(orders)
           IN  /\ ix.accounts \in Seq(Int) /\ Len(ix.accounts) = 5 + (3 * n + Total(s, n, n))
               /\ RestOfAccounts(ix, 5) = AllAccounts(s, n)
<1> DEFINE s == SortedByPda(orders)
           n == Len(orders)
           ix == BuildBeginSettle(orders)
           a == <<Other, Sysvar, State, Other, Other>>
           b == AllAccounts(s, n)
           ab == ix.accounts
           m == 3 * n + Total(s, n, n)
<1>1. n \in Nat /\ s \in [1..n -> Orders] /\ Len(s) = n
  BY Sorting
<1>2. IsJoin(ab, a, b)
  <2>1. ab = a \o FlattenSeq([k \in 1..Len(s) |-> OrderAccounts(s[k])])
    BY DEF BuildBeginSettle
  <2> QED BY <1>1, <2>1, Zenon DEF IsJoin, AllAccounts, AccountLists
<1> HIDE DEF s, n, ix
<1>3. b \in Seq(Int) /\ Len(b) = m /\ m \in Nat
  <2>1. n \in 0..n
    BY <1>1
  <2>2. Total(s, n, n) \in Nat /\ b \in Seq(Int) /\ Len(b) = m
    BY <1>1, <2>1, OrderLists
  <2> QED BY <1>1, <2>2
<1>4. a \in Seq(Int) /\ Len(a) = 5
  BY Constants
<1> HIDE DEF a, b, ab, m
<1>5. /\ ab \in Seq(Int) /\ Len(ab) = Len(a) + Len(b) /\ Len(a) \in Nat /\ Len(b) \in Nat
      /\ Holds(ab, 1, a) /\ Holds(ab, 1 + Len(a), b)
      /\ \A j \in 1..Len(a) : ab[j] = a[j]
      /\ \A j \in 1..Len(b) : ab[Len(a) + j] = b[j]
  <2> DEFINE I == Int
  <2>1. Joins(I, ab, a, b)
    BY <1>2, <1>3, <1>4, Zenon DEF Joins
  <2> HIDE DEF I
  <2>2. /\ ab \in Seq(I) /\ Len(ab) = Len(a) + Len(b) /\ Len(a) \in Nat /\ Len(b) \in Nat
        /\ Holds(ab, 1, a) /\ Holds(ab, 1 + Len(a), b)
        /\ \A j \in 1..Len(a) : ab[j] = a[j]
        /\ \A j \in 1..Len(b) : ab[Len(a) + j] = b[j]
    BY ONLY <2>1, PartsAt
  <2> QED BY <2>2, Zenon DEF I
<1>6. RestOfAccounts(ix, 5) = b
  <2>1. Holds(ab, 6, b) /\ 6 \in Nat \ {0} /\ 6 + Len(b) - 1 = Len(ab)
    <3>1. 1 + Len(a) = 6 /\ 6 + Len(b) - 1 = Len(ab)
      BY <1>3, <1>4, <1>5
    <3> QED BY <1>5, <3>1
  <2>2. SubSeq(ab, 6, 6 + Len(b) - 1) = b
    BY <1>3, <1>5, <2>1, CutOut
  <2>3. RestOfAccounts(ix, 5) = SubSeq(ab, 6, Len(ab))
    BY DEF RestOfAccounts, ab
  <2> QED BY <2>1, <2>2, <2>3, Zenon
<1>7. ab \in Seq(Int) /\ Len(ab) = 5 + m
  BY <1>3, <1>4, <1>5
<1> QED BY <1>6, <1>7, Zenon DEF ab, b, ix, s, n, m

LEMMA BeginBody ==
    ASSUME NEW orders \in Seq(Orders)
    PROVE  LET s == SortedByPda(orders)
               n == Len(orders)
               ix == BuildBeginSettle(orders)
               d == Body(ix)
           IN  /\ ix \in Encoded /\ HasHeader(ix, 0)
               /\ n \in Nat /\ Total(s, n, n) \in Nat
               /\ d \in Seq(Bytes) /\ Len(d) = 1 + Word + n + Word * Total(s, n, n)
               /\ d[Word + 1] = n % Byte
               /\ \A k \in 1..n : d[Word + 1 + k] = ByteCounts(s, n)[k]
               /\ Holds(d, Word + 2 + n, AllAmounts(s, n))
<1> DEFINE s == SortedByPda(orders)
           n == Len(orders)
           ix == BuildBeginSettle(orders)
           P == Total(s, n, n)
           c == ByteCounts(s, n)
           F == AllAmounts(s, n)
           b == ix.data
           d == Body(ix)
<1>1. n \in Nat /\ s \in [1..n -> Orders]
  BY Sorting
<1>2. P \in Nat /\ F \in Seq(Bytes) /\ Len(F) = Word * P
  <2>1. n \in 0..n
    BY <1>1
  <2> QED BY <1>1, <2>1, OrderLists
<1>3. /\ b \in Seq(Bytes) /\ Len(b) = 4 + Word + n + Word * P
      /\ b[1] = 0 /\ b[4 + Word] = n % Byte
      /\ \A k \in 1..n : b[4 + Word + k] = c[k]
      /\ Holds(b, 5 + Word + n, F)
  BY BeginLayout, Zenon
<1>4. ix \in Encoded
  <2>1. ix.accounts \in Seq(Int)
    BY BeginAccounts, Zenon
  <2>2. ix = [data |-> ix.data, accounts |-> ix.accounts]
    BY DEF BuildBeginSettle
  <2> HIDE DEF ix
  <2> QED BY <1>3, <2>1, <2>2 DEF Encoded, Bytes
<1>0. Word \in Nat \ {0} /\ Byte \in Nat \ {0}
  BY Constants
<1> HIDE DEF s, n, ix, P, c, F
<1>5. Word * P \in Nat
  BY <1>0, <1>2
<1>6. Len(b) >= 3
  BY <1>0, <1>1, <1>3, <1>5
<1>7. /\ d \in Seq(Bytes) /\ Len(d) = Len(b) - 3
      /\ \A j \in 1..(Len(b) - 3) : d[j] = b[j + 3]
  BY <1>4, <1>6, BodyType
<1>8. HasHeader(ix, 0)
  BY <1>3, <1>6 DEF HasHeader
<1> HIDE DEF b, d
<1>9. Len(d) = 1 + Word + n + Word * P
  BY <1>0, <1>1, <1>3, <1>5, <1>7
<1>10. d[Word + 1] = n % Byte
  <2>1. Word + 1 \in 1..(Len(b) - 3) /\ (Word + 1) + 3 = 4 + Word
    BY <1>0, <1>1, <1>3, <1>5
  <2> QED BY <1>3, <1>7, <2>1
<1>11. ASSUME NEW k \in 1..n PROVE d[Word + 1 + k] = c[k]
  <2>1. Word + 1 + k \in 1..(Len(b) - 3) /\ (Word + 1 + k) + 3 = 4 + Word + k
    BY <1>0, <1>1, <1>3, <1>5
  <2> QED BY <1>3, <1>7, <2>1
<1>12. Holds(d, Word + 2 + n, F)
  <2>1. Word + 2 + n + Len(F) - 1 <= Len(d)
    BY <1>0, <1>1, <1>2, <1>5, <1>9
  <2>2. ASSUME NEW j \in 1..Len(F) PROVE d[Word + 2 + n + j - 1] = F[j]
    <3>1. j \in 1..(Word * P)
      BY <1>2
    <3>2. Word + 2 + n + j - 1 \in 1..(Len(b) - 3) /\ (Word + 2 + n + j - 1) + 3 = 5 + Word + n + j - 1
      BY <1>0, <1>1, <1>3, <1>5, <3>1
    <3>3. b[5 + Word + n + j - 1] = F[j]
      BY <1>3 DEF Holds
    <3> QED BY <1>7, <3>2, <3>3
  <2> QED BY <2>1, <2>2 DEF Holds
<1> QED BY <1>1, <1>2, <1>4, <1>7, <1>8, <1>9, <1>10, <1>11, <1>12, Zenon DEF s, n, ix, P, c, F, d

LEMMA CountedRead ==
    ASSUME NEW orders \in Seq(Orders), Len(orders) < Byte
    PROVE  LET s == SortedByPda(orders)
               n == Len(orders)
               ix == BuildBeginSettle(orders)
           IN  /\ OrderCount(ix) = n
               /\ \A k \in 1..n : Counts(ix)[k] = ByteCounts(s, n)[k]
               /\ AmountBytes(ix) = AllAmounts(s, n)
               /\ Len(AmountBytes(ix)) % Word = 0
               /\ TransferCount(ix) = Total(s, n, n)
<1> DEFINE s == SortedByPda(orders)
           n == Len(orders)
           ix == BuildBeginSettle(orders)
           P == Total(s, n, n)
           c == ByteCounts(s, n)
           F == AllAmounts(s, n)
           d == Body(ix)
<1>0. Word \in Nat \ {0} /\ Byte \in Nat \ {0}
  BY Constants
<1>1. /\ n \in Nat /\ P \in Nat
      /\ d \in Seq(Bytes) /\ Len(d) = 1 + Word + n + Word * P
      /\ d[Word + 1] = n % Byte
      /\ \A k \in 1..n : d[Word + 1 + k] = c[k]
      /\ Holds(d, Word + 2 + n, F)
  BY BeginBody, Zenon
<1>2. F \in Seq(Bytes) /\ Len(F) = Word * P
  BY Sorting, OrderLists
<1>3. n < Byte
  OBVIOUS
<1>4. AmountBytes(ix) = SubSeq(d, Word + 2 + OrderCount(ix), Len(d)) /\ OrderCount(ix) = d[Word + 1]
      /\ Counts(ix) = SubSeq(d, Word + 2, Word + 1 + OrderCount(ix))
      /\ TransferCount(ix) = Len(AmountBytes(ix)) \div Word
  BY Zenon DEF AmountBytes, OrderCount, Counts, TransferCount
<1> HIDE DEF s, n, ix, P, c, F, d
<1>5. OrderCount(ix) = n
  <2>1. n \in 0..(Byte - 1)
    BY <1>0, <1>1, <1>3
  <2> QED BY <1>0, <1>1, <1>4, <2>1, SmallRemainder
<1>6. Word * P \in Nat
  BY <1>0, <1>1
<1>7. ASSUME NEW k \in 1..n PROVE Counts(ix)[k] = c[k]
  <2>1. Word + 2 \in Nat \ {0} /\ Word + 1 + n \in Nat /\ Word + 2 <= (Word + 1 + n) + 1
        /\ Word + 1 + n <= Len(d)
    BY <1>0, <1>1, <1>6
  <2>2. \A j \in 1..((Word + 1 + n) - (Word + 2) + 1) : SubSeq(d, Word + 2, Word + 1 + n)[j] = d[Word + 2 + j - 1]
    <3>1. d \in Seq(Bytes)
      BY <1>1
    <3> QED BY ONLY <2>1, <3>1, Cut
  <2>3. k \in 1..((Word + 1 + n) - (Word + 2) + 1) /\ Word + 2 + k - 1 = Word + 1 + k
    BY <1>0, <1>1
  <2>4. SubSeq(d, Word + 2, Word + 1 + n)[k] = d[Word + 1 + k]
    BY <2>2, <2>3
  <2>5. Counts(ix) = SubSeq(d, Word + 2, Word + 1 + n)
    BY <1>4, <1>5, Zenon
  <2> QED BY <1>1, <2>4, <2>5, Zenon
<1>8. AmountBytes(ix) = F
  <2>1. Word + 2 + n \in Nat \ {0} /\ Word + 2 + n + Len(F) - 1 = Len(d)
    BY <1>0, <1>1, <1>2, <1>6
  <2>2. SubSeq(d, Word + 2 + n, Word + 2 + n + Len(F) - 1) = F
    BY <1>1, <1>2, <2>1, CutOut
  <2> QED BY <1>4, <1>5, <2>1, <2>2, Zenon
<1>9. Len(AmountBytes(ix)) = Word * P
  BY <1>2, <1>8, Zenon
<1>10. (Word * P) % Word = 0 /\ (Word * P) \div Word = P
  <2>1. 0 \in 0..(Word - 1) /\ Word * P = Word * P + 0
    BY <1>0, <1>6
  <2> QED BY <1>0, <1>1, <1>6, <2>1, DivisionIs
<1>11. Len(AmountBytes(ix)) % Word = 0 /\ TransferCount(ix) = P
  BY <1>4, <1>9, <1>10
<1> QED BY <1>5, <1>7, <1>8, <1>11, Zenon DEF s, n, ix, P, c, F

LEMMA ParsedIsCounted ==
    ASSUME NEW orders \in Seq(Orders), BeginParses(BuildBeginSettle(orders))
    PROVE  Len(orders) < Byte
<1> DEFINE s == SortedByPda(orders)
           n == Len(orders)
           ix == BuildBeginSettle(orders)
           P == Total(s, n, n)
           d == Body(ix)
           c == OrderCount(ix)
           T == TransferCount(ix)
<1>0. Word \in Nat \ {0} /\ Byte \in Nat \ {0}
  BY Constants
<1>1. /\ ix \in Encoded /\ n \in Nat /\ P \in Nat
      /\ d \in Seq(Bytes) /\ Len(d) = 1 + Word + n + Word * P
      /\ d[Word + 1] = n % Byte
  BY BeginBody, Zenon
<1>2. c \in Nat /\ T \in Nat /\ Len(AmountBytes(ix)) = Word * T
      /\ Len(RestOfAccounts(ix, 5)) = 3 * c + T
  BY <1>1, BeginShape
<1>3. Len(RestOfAccounts(ix, 5)) = 3 * n + P
  <2>1. RestOfAccounts(ix, 5) = AllAccounts(s, n)
    BY BeginAccounts, Zenon
  <2>2. Len(AllAccounts(s, n)) = 3 * n + P
    BY Sorting, OrderLists
  <2> QED BY <2>1, <2>2, Zenon
<1>4. AmountBytes(ix) = SubSeq(d, Word + 2 + c, Len(d)) /\ c = d[Word + 1]
  BY Zenon DEF AmountBytes, OrderCount
<1>5. Word + 1 + c <= Len(d)
  BY DEF BeginParses
<1> HIDE DEF s, n, ix, P, d, c, T
<1>6. c = n % Byte /\ c < Byte /\ c <= n
  <2>1. c = n % Byte
    BY <1>1, <1>4
  <2>2. n \div Byte \in Nat /\ n % Byte \in 0..(Byte - 1) /\ n = Byte * (n \div Byte) + (n % Byte)
    BY <1>0, <1>1, Division
  <2> DEFINE q == n \div Byte
             r == n % Byte
  <2> HIDE DEF q, r
  <2>3. q \in Nat /\ r \in 0..(Byte - 1) /\ n = Byte * q + r /\ c = r
    BY <2>1, <2>2 DEF q, r
  <2>4. Byte * q \in Nat
    BY <1>0, <2>3
  <2>5. c < Byte /\ c <= n
    BY <1>0, <1>1, <2>3, <2>4
  <2> QED BY <2>1, <2>5
<1>7. Len(AmountBytes(ix)) = Len(d) - (Word + 2 + c) + 1
  <2>1. Word + 2 + c \in Nat \ {0} /\ Len(d) \in Nat /\ Word + 2 + c <= Len(d) + 1 /\ Len(d) <= Len(d)
    BY <1>0, <1>1, <1>2, <1>5
  <2>2. Len(SubSeq(d, Word + 2 + c, Len(d))) = Len(d) - (Word + 2 + c) + 1
    BY <1>1, <2>1, Cut
  <2> QED BY <1>4, <2>2, Zenon
<1>8. Word * T = n - c + Word * P /\ 3 * c + T = 3 * n + P
  <2>1. Word * P \in Nat /\ Word * T \in Nat
    BY <1>0, <1>1, <1>2
  <2> QED BY <1>0, <1>1, <1>2, <1>3, <1>7, <2>1
<1>9. n = c
  <2> DEFINE e == n - c
             D == T - P
  <2>1. e \in Nat /\ D \in Int /\ D = 3 * e
    <3>1. 3 * c + T = 3 * n + P /\ c <= n /\ n \in Nat /\ P \in Nat /\ c \in Nat /\ T \in Nat
      BY <1>1, <1>2, <1>6, <1>8
    <3> QED BY ONLY <3>1
  <2>2. Word * D = Word * T - Word * P
    BY <1>0, <1>1, <1>2
  <2>3. Word * D = e
    <3>1. Word * P \in Nat /\ Word * T \in Nat
      BY <1>0, <1>1, <1>2
    <3> QED BY <1>1, <1>2, <1>8, <2>2, <3>1
  <2> HIDE DEF e, D
  <2>4. Word * D = 3 * (Word * e)
    BY <1>0, <2>1
  <2>5. Word * e >= e
    <3> DEFINE w == Word - 1
    <3>1. w \in Nat /\ Word = w + 1
      BY <1>0
    <3> HIDE DEF w
    <3>2. (w + 1) * e = w * e + e /\ w * e \in Nat
      BY <2>1, <3>1
    <3>3. Word * e = w * e + e
      BY <3>1, <3>2, Zenon
    <3> QED BY <2>1, <3>2, <3>3
  <2>6. Word * e \in Nat
    BY <1>0, <2>1
  <2>7. e = 0
    BY <2>1, <2>3, <2>4, <2>5, <2>6
  <2> QED BY <1>1, <1>2, <2>7 DEF e
<1> QED BY <1>6, <1>9 DEF n

(* The counts as they are read are never more than the pulls. *)
LEMMA ByteCountsBound ==
    ASSUME NEW n \in Nat, NEW s \in [1..n -> Orders], NEW k \in 1..n
    PROVE  LET p == Len(s[k].pulls)
               b == ByteCounts(s, n)[k]
           IN  /\ p \in Nat /\ PullCounts(s, n)[k] = p
               /\ b \in Nat /\ b < Byte /\ b <= p /\ (p < Byte => b = p)
<1> DEFINE p == Len(s[k].pulls)
           b == ByteCounts(s, n)[k]
<1>1. s[k] \in Orders
  OBVIOUS
<1>2. p \in Nat
  BY <1>1, OneOrder
<1>3. b = p % Byte /\ PullCounts(s, n)[k] = p
  BY DEF ByteCounts, PullCounts
<1> HIDE DEF p, b
<1>0. Byte \in Nat \ {0}
  BY Constants
<1>4. p \div Byte \in Nat /\ p % Byte \in 0..(Byte - 1) /\ p = Byte * (p \div Byte) + (p % Byte)
  BY <1>0, <1>2, Division
<1>5. p < Byte => b = p
  <2> SUFFICES ASSUME p < Byte PROVE b = p
    OBVIOUS
  <2>1. p \in 0..(Byte - 1)
    BY <1>0, <1>2
  <2> QED BY <1>0, <1>3, <2>1, SmallRemainder
<1>6. b \in Nat /\ b < Byte /\ b <= p
  <2> DEFINE q == p \div Byte
             r == p % Byte
  <2> HIDE DEF q, r
  <2>1. q \in Nat /\ r \in 0..(Byte - 1) /\ p = Byte * q + r /\ b = r
    BY <1>3, <1>4 DEF q, r
  <2>2. Byte * q \in Nat
    BY <1>0, <2>1
  <2> QED BY <1>0, <1>2, <2>1, <2>2
<1> QED BY <1>2, <1>3, <1>5, <1>6 DEF p, b

LEMMA FittingIsRead ==
    ASSUME NEW orders \in Seq(Orders), Len(orders) < Byte,
           \A k \in 1..Len(orders) : Len(SortedByPda(orders)[k].pulls) < Byte
    PROVE  LET s == SortedByPda(orders)
               n == Len(orders)
               ix == BuildBeginSettle(orders)
           IN  /\ OrderCount(ix) = n
               /\ \A k \in 1..n : Counts(ix)[k] = Len(s[k].pulls)
               /\ \A k \in 0..n : CountsSum(ix, k) = Total(s, n, k)
               /\ AmountBytes(ix) = AllAmounts(s, n)
               /\ BeginParses(ix)
<1> DEFINE s == SortedByPda(orders)
           n == Len(orders)
           ix == BuildBeginSettle(orders)
           P == Total(s, n, n)
           c == PullCounts(s, n)
           d == Body(ix)
<1>0. Word \in Nat \ {0}
  BY Constants
<1>1. n \in Nat /\ s \in [1..n -> Orders]
  BY Sorting
<1>2. /\ OrderCount(ix) = n
      /\ \A k \in 1..n : Counts(ix)[k] = ByteCounts(s, n)[k]
      /\ AmountBytes(ix) = AllAmounts(s, n)
      /\ Len(AmountBytes(ix)) % Word = 0
      /\ TransferCount(ix) = P
  BY CountedRead, Zenon
<1>3. \A k \in 1..n : Len(s[k].pulls) < Byte
  OBVIOUS
<1>4. HasHeader(ix, 0) /\ P \in Nat /\ Len(d) = 1 + Word + n + Word * P
  BY BeginBody, Zenon
<1>5. Len(ix.accounts) = 5 + (3 * n + P)
  BY BeginAccounts, Zenon
<1> HIDE DEF s, n, ix, P, d
<1>6. ASSUME NEW k \in 1..n PROVE Counts(ix)[k] = Len(s[k].pulls) /\ c[k] = Len(s[k].pulls)
  <2>1. PullCounts(s, n)[k] = Len(s[k].pulls)
        /\ (Len(s[k].pulls) < Byte => ByteCounts(s, n)[k] = Len(s[k].pulls))
    BY <1>1, ByteCountsBound
  <2> QED BY <1>2, <1>3, <2>1
<1> HIDE DEF c
<1>7. ASSUME NEW k \in 0..n PROVE CountsSum(ix, k) = Total(s, n, k)
  <2> DEFINE K == Counts(ix)
  <2>1. \A x \in 1..k : x \in 1..n
    BY <1>1
  <2>2. IsFiniteSet(1..k) /\ \A x \in 1..k : K[x] = c[x]
    <3>1. IsFiniteSet(1..k)
      BY FS_Interval
    <3> QED BY <1>6, <2>1, <3>1
  <2> HIDE DEF K
  <2>3. SumFunctionOnSet(K, 1..k) = SumFunctionOnSet(c, 1..k)
    BY <2>2, SumSame
  <2> QED BY <2>3, Zenon DEF CountsSum, Total, K, c
<1>8. BeginParses(ix)
  <2>1. n \in 0..n /\ Word * P \in Nat
    BY <1>0, <1>1, <1>4
  <2>2. CountsSum(ix, OrderCount(ix)) = TransferCount(ix)
    <3>1. CountsSum(ix, n) = Total(s, n, n)
      BY <1>7, <2>1
    <3> QED BY <1>2, <3>1, Zenon DEF P
  <2>3. Len(ix.accounts) >= 5 /\ Len(ix.accounts) - 5 = 3 * n + P
    BY <1>1, <1>4, <1>5
  <2>4. Len(d) >= Word + 1 /\ Len(d) >= Word + 1 + n
    <3> DEFINE w == Word * P
               l == Len(d)
    <3>1. w \in Nat /\ l = 1 + Word + n + w
      BY <1>4, <2>1
    <3> HIDE DEF w, l
    <3>2. l >= Word + 1 /\ l >= Word + 1 + n
      BY ONLY <1>0, <1>1, <3>1
    <3> QED BY <3>2 DEF l
  <2> QED BY <1>2, <1>4, <2>2, <2>3, <2>4 DEF BeginParses, CountsAddUp, d
<1> QED BY <1>2, <1>6, <1>7, <1>8, Zenon DEF s, n, ix

LEMMA ParsedFits ==
    ASSUME NEW orders \in Seq(Orders), BeginParses(BuildBeginSettle(orders))
    PROVE  Len(orders) < Byte /\ \A k \in 1..Len(orders) : Len(SortedByPda(orders)[k].pulls) < Byte
<1> DEFINE s == SortedByPda(orders)
           n == Len(orders)
           ix == BuildBeginSettle(orders)
           c == PullCounts(s, n)
           K == Counts(ix)
<1>0. n < Byte
  BY ParsedIsCounted
<1>1. n \in Nat /\ s \in [1..n -> Orders]
  BY Sorting
<1>2. /\ OrderCount(ix) = n
      /\ \A k \in 1..n : K[k] = ByteCounts(s, n)[k]
      /\ TransferCount(ix) = Total(s, n, n)
  BY <1>0, CountedRead, Zenon
<1>3. SumFunctionOnSet(K, 1..n) = SumFunctionOnSet(c, 1..n)
  <2>1. CountsSum(ix, OrderCount(ix)) = TransferCount(ix)
    BY DEF BeginParses, CountsAddUp
  <2>2. CountsSum(ix, n) = Total(s, n, n)
    BY <1>2, <2>1, Zenon
  <2> QED BY <2>2, Zenon DEF CountsSum, Total
<1> HIDE DEF s, n, ix, c, K
<1>4. ASSUME NEW k \in 1..n
      PROVE  K[k] \in Nat /\ c[k] \in Nat /\ K[k] <= c[k] /\ K[k] < Byte /\ c[k] = Len(s[k].pulls)
  <2>1. LET p == Len(s[k].pulls)
            b == ByteCounts(s, n)[k]
        IN  /\ p \in Nat /\ PullCounts(s, n)[k] = p
            /\ b \in Nat /\ b < Byte /\ b <= p /\ (p < Byte => b = p)
    BY <1>1, ByteCountsBound
  <2>2. K[k] = ByteCounts(s, n)[k]
    BY <1>2
  <2> QED BY <2>1, <2>2, Zenon DEF c
<1>5. \A k \in 1..n : K[k] = c[k]
  BY <1>1, <1>3, <1>4, SumDominated, SMTT(60)
<1>6. \A k \in 1..n : Len(s[k].pulls) < Byte
  BY <1>4, <1>5
<1> QED BY <1>0, <1>6 DEF s, n

(* Words are read back, one chunk after the other. *)
LEMMA WordsRead ==
    ASSUME NEW F \in Seq(Bytes), NEW taken \in Nat, NEW n \in Nat,
           NEW a \in [1..n -> 0..(Power(Word) - 1)], Holds(F, 1 + Word * taken, Words(a)), NEW j \in 1..n
    PROVE  FromBytes(Chunk(F, Word, taken + j)) = a[j]
<1> DEFINE q == WordList(a, n)
           h == Constant(Word, n)
           p == 1 + Word * taken
           v == a[j]
           b == ToBytes(v, Word)
<1>0. Word \in Nat \ {0}
  BY Constants
<1>1. a \in [1..n -> Nat] /\ v \in 0..(Power(Word) - 1) /\ v \in Nat
  OBVIOUS
<1>2. Words(a) = FlattenSeq(q) /\ q \in [1..n -> Seq(Bytes)] /\ AreLengths(h, q, n)
      /\ \A k \in 0..n : SumFunctionOnSet(h, 1..k) = Word * k
  BY <1>1, WordsType
<1>3. q[j] = b
  BY DEF WordList
<1>4. b \in Seq(Bytes) /\ Len(b) = Word
  BY <1>0, <1>1, ToBytesType
<1>5. FromBytes(b) = v
  BY <1>1, BytesBack
<1>6. Holds(F, p, Words(a))
  OBVIOUS
<1> HIDE DEF q, h, v, b
<1>7. p \in Nat \ {0}
  <2>1. Word * taken \in Nat
    BY <1>0
  <2> QED BY <2>1
<1> HIDE DEF p
<1>8. HoldsEach(F, p, q, n, h)
  <2>1. Holds(F, p, FlattenSeq(q))
    BY <1>2, <1>6, Zenon
  <2> QED BY <1>2, <1>7, <2>1, FlattenAt
<1>9. Holds(F, p + Word * (j - 1), b)
  <2>1. j - 1 \in 0..n
    OBVIOUS
  <2>2. Holds(F, p + SumFunctionOnSet(h, 1..(j - 1)), q[j])
    BY <1>8, Zenon DEF HoldsEach
  <2>3. SumFunctionOnSet(h, 1..(j - 1)) = Word * (j - 1)
    BY <1>2, <2>1
  <2> QED BY <1>3, <2>2, <2>3, Zenon
<1>10. /\ p + Word * (j - 1) = ((taken + j) - 1) * Word + 1
       /\ ((taken + j) - 1) * Word + 1 + Word - 1 = (taken + j) * Word
       /\ ((taken + j) - 1) * Word + 1 \in Nat \ {0}
  <2> DEFINE i == j - 1
             w == Word
  <2>1. i \in Nat /\ j = i + 1 /\ w \in Nat
    BY <1>0
  <2> HIDE DEF i, w
  <2>2. (taken + i) * w = w * taken + w * i /\ (taken + (i + 1)) * w = w * taken + w * i + w
        /\ w * taken \in Nat /\ w * i \in Nat
    BY <2>1
  <2>3. (taken + j) - 1 = taken + i /\ taken + j = taken + (i + 1)
    BY <2>1
  <2>4. p = 1 + w * taken
    BY DEF p, w
  <2>5. 1 + w * taken + w * i = (taken + i) * w + 1 /\ (taken + i) * w + 1 + w - 1 = (taken + (i + 1)) * w
        /\ (taken + i) * w + 1 \in Nat \ {0}
    <3> DEFINE x == w * taken
               y == w * i
               z == (taken + i) * w
               u == (taken + (i + 1)) * w
    <3>1. x \in Nat /\ y \in Nat /\ w \in Nat /\ z = x + y /\ u = x + y + w
      BY <2>1, <2>2, Zenon
    <3> HIDE DEF x, y, z, u
    <3>2. 1 + x + y = z + 1 /\ z + 1 + w - 1 = u /\ z + 1 \in Nat \ {0}
      BY ONLY <3>1
    <3> QED BY <3>2, Zenon DEF x, y, z, u
  <2>6. p + w * i = (taken + i) * w + 1
    BY <2>4, <2>5, Zenon
  <2> QED BY <2>3, <2>5, <2>6, Zenon DEF i, w
<1>11. Chunk(F, Word, taken + j) = b
  <2> DEFINE m == ((taken + j) - 1) * Word + 1
  <2>1. Holds(F, m, b) /\ m \in Nat \ {0}
    BY <1>9, <1>10, Zenon
  <2>2. m + Word - 1 = (taken + j) * Word
    BY <1>10, Zenon
  <2>3. Chunk(F, Word, taken + j) = SubSeq(F, m, (taken + j) * Word)
    BY DEF Chunk
  <2> HIDE DEF m
  <2>4. SubSeq(F, m, m + Len(b) - 1) = b
    BY <1>4, <2>1, CutOut
  <2> QED BY <1>4, <2>2, <2>3, <2>4, Zenon
<1> QED BY <1>5, <1>11, Zenon DEF v

LEMMA OrderIsRead ==
    ASSUME NEW orders \in Seq(Orders), BeginParses(BuildBeginSettle(orders)), NEW k \in 1..Len(orders)
    PROVE  SettledOrder(BuildBeginSettle(orders), k) = Meant(SortedByPda(orders)[k])
<1> DEFINE s == SortedByPda(orders)
           n == Len(orders)
           ix == BuildBeginSettle(orders)
           o == s[k]
           c == Len(o.pulls)
           A == AllAccounts(s, n)
           F == AllAmounts(s, n)
           t == Total(s, n, k - 1)
           f == 3 * (k - 1) + t
           oa == OrderAccounts(o)
           dest == Destinations(o)
           am == PullAmounts(o)
<1>0. Word \in Nat \ {0} /\ k - 1 \in 0..n /\ n \in 0..n
  BY Sorting, Constants
<1>1. n \in Nat /\ s \in [1..n -> Orders] /\ o \in Orders
  BY Sorting
<1>2. Counts(ix)[k] = c /\ CountsSum(ix, k - 1) = t /\ AmountBytes(ix) = F
  <2>1. n < Byte /\ \A i \in 1..n : Len(s[i].pulls) < Byte
    BY ParsedFits, Zenon
  <2>2. /\ \A i \in 1..n : Counts(ix)[i] = Len(s[i].pulls)
        /\ \A i \in 0..n : CountsSum(ix, i) = Total(s, n, i)
        /\ AmountBytes(ix) = AllAmounts(s, n)
    BY <2>1, FittingIsRead, Zenon
  <2> QED BY <1>0, <2>2, Zenon
<1>3. RestOfAccounts(ix, 5) = A
  BY BeginAccounts, Zenon
<1>4. k \in 1..n
  OBVIOUS
<1> HIDE DEF s, n, ix
<1>5. /\ AccountLists(s, n) \in [1..n -> Seq(Int)]
      /\ AreLengths(AccountWidths(s, n), AccountLists(s, n), n)
      /\ AmountLists(s, n) \in [1..n -> Seq(Bytes)]
      /\ AreLengths(AmountWidths(s, n), AmountLists(s, n), n)
      /\ t \in Nat
      /\ SumFunctionOnSet(AccountWidths(s, n), 1..(k - 1)) = f
      /\ SumFunctionOnSet(AmountWidths(s, n), 1..(k - 1)) = Word * t
      /\ A \in Seq(Int) /\ F \in Seq(Bytes)
  <2>1. /\ AccountLists(s, n) \in [1..n -> Seq(Int)]
        /\ AreLengths(AccountWidths(s, n), AccountLists(s, n), n)
        /\ AmountLists(s, n) \in [1..n -> Seq(Bytes)]
        /\ AreLengths(AmountWidths(s, n), AmountLists(s, n), n)
        /\ A \in Seq(Int) /\ F \in Seq(Bytes)
    BY <1>1, OrderLists, Zenon
  <2>2. \A i \in 0..n : /\ Total(s, n, i) \in Nat
                        /\ SumFunctionOnSet(AccountWidths(s, n), 1..i) = 3 * i + Total(s, n, i)
                        /\ SumFunctionOnSet(AmountWidths(s, n), 1..i) = Word * Total(s, n, i)
    BY <1>1, OrderLists, Zenon
  <2> QED BY <1>0, <2>1, <2>2, Zenon
<1>6. /\ c \in Nat /\ dest \in [1..c -> Int] /\ am \in [1..c -> 0..(Power(Word) - 1)]
      /\ oa \in Seq(Int) /\ Len(oa) = 3 + 1 * c
      /\ oa[1] = o.pda /\ oa[2] = o.sell_token_account /\ oa[3] = SellMint(o)
      /\ \A j \in 1..c : oa[3 + j] = dest[j]
  BY <1>1, OneOrder
<1>7. f \in Nat
  <2>1. k - 1 \in Nat /\ t \in Nat
    BY <1>0, <1>1, <1>5
  <2> HIDE DEF t
  <2> QED BY ONLY <2>1 DEF f
<1>8. Holds(A, 1 + f, oa)
  <2> DEFINE q == AccountLists(s, n)
             h == AccountWidths(s, n)
  <2>1. A = FlattenSeq(q) /\ q[k] = oa
    BY <1>4 DEF AllAccounts, AccountLists
  <2>2. Holds(A, 1, A)
    BY <1>5, HoldsItself
  <2>3. Holds(A, 1, FlattenSeq(q))
    BY <2>1, <2>2, Zenon
  <2> HIDE DEF A, q, h, oa, f
  <2>4. HoldsEach(A, 1, q, n, h)
    <3>1. A \in Seq(Int) /\ q \in [1..n -> Seq(Int)] /\ AreLengths(h, q, n) /\ n \in Nat /\ 1 \in Nat \ {0}
      BY <1>1, <1>5 DEF q, h
    <3> QED BY <2>3, <3>1, FlattenAt
  <2>5. Holds(A, 1 + SumFunctionOnSet(h, 1..(k - 1)), q[k])
    BY <1>4, <2>4, Zenon DEF HoldsEach
  <2>6. SumFunctionOnSet(h, 1..(k - 1)) = f
    BY <1>5, Zenon DEF h
  <2> QED BY <2>1, <2>5, <2>6, Zenon
<1>9. Holds(F, 1 + Word * t, Words(am))
  <2> DEFINE q == AmountLists(s, n)
             h == AmountWidths(s, n)
  <2>1. F = FlattenSeq(q) /\ q[k] = Words(am)
    BY <1>4 DEF AllAmounts, AmountLists
  <2>2. Holds(F, 1, F)
    BY <1>5, HoldsItself
  <2>3. Holds(F, 1, FlattenSeq(q))
    BY <2>1, <2>2, Zenon
  <2> HIDE DEF F, q, h, am, t
  <2>4. HoldsEach(F, 1, q, n, h)
    <3>1. F \in Seq(Bytes) /\ q \in [1..n -> Seq(Bytes)] /\ AreLengths(h, q, n) /\ n \in Nat /\ 1 \in Nat \ {0}
      BY <1>1, <1>5 DEF q, h
    <3> QED BY <2>3, <3>1, FlattenAt
  <2>5. Holds(F, 1 + SumFunctionOnSet(h, 1..(k - 1)), q[k])
    BY <1>4, <2>4, Zenon DEF HoldsEach
  <2>6. SumFunctionOnSet(h, 1..(k - 1)) = Word * t
    BY <1>5, Zenon DEF h
  <2> QED BY <2>1, <2>5, <2>6, Zenon
<1>10. SettledOrder(ix, k) =
         [pda |-> A[f + 1], sell_token_account |-> A[f + 2], sell_mint |-> A[f + 3],
          destinations |-> SubSeq(A, f + 4, f + 3 + c),
          amounts |-> [j \in 1..c |-> FromBytes(Chunk(F, Word, t + j))]]
  <2> HIDE DEF A, F, c, t
  <2> QED BY <1>2, <1>3, Zenon DEF SettledOrder
<1>11. Meant(o) =
         [pda |-> o.pda, sell_token_account |-> o.sell_token_account, sell_mint |-> SellMint(o),
          destinations |-> dest, amounts |-> am]
  BY Zenon DEF Meant
<1> HIDE DEF A, F, t, f, c, oa, dest, am
<1>12. \A j \in 1..(3 + c) : A[f + j] = oa[j]
  <2>1. \A j \in 1..Len(oa) : A[1 + f + j - 1] = oa[j]
    BY <1>8 DEF Holds
  <2>2. Len(oa) = 3 + c /\ \A j \in 1..(3 + c) : 1 + f + j - 1 = f + j
    BY <1>6, <1>7
  <2> QED BY <2>1, <2>2
<1>13. A[f + 1] = o.pda /\ A[f + 2] = o.sell_token_account /\ A[f + 3] = SellMint(o)
  <2>1. 1 \in 1..(3 + c) /\ 2 \in 1..(3 + c) /\ 3 \in 1..(3 + c)
    BY <1>6
  <2>2. A[f + 1] = oa[1] /\ A[f + 2] = oa[2] /\ A[f + 3] = oa[3]
    BY <1>12, <2>1
  <2> QED BY <1>6, <2>2, Zenon
<1>14. SubSeq(A, f + 4, f + 3 + c) = dest
  <2>1. dest \in Seq(Int) /\ Len(dest) = c
    BY <1>6
  <2>2. ASSUME NEW j \in 1..c PROVE A[f + 4 + j - 1] = dest[j]
    <3>1. 3 + j \in 1..(3 + c) /\ f + 4 + j - 1 = f + (3 + j)
      <4>1. c \in Nat /\ f \in Nat /\ j \in 1..c
        BY <1>6, <1>7
      <4> QED BY ONLY <4>1
    <3>2. A[f + (3 + j)] = oa[3 + j]
      BY <1>12, <3>1
    <3> QED BY <1>6, <3>1, <3>2, Zenon
  <2>3. f + 4 + c - 1 <= Len(A) /\ f + 4 \in Nat \ {0} /\ f + 4 + c - 1 = f + 3 + c
    <3>1. 1 + f + Len(oa) - 1 <= Len(A) /\ Len(oa) = 3 + c /\ Len(A) \in Nat
      BY <1>5, <1>6, <1>8 DEF Holds
    <3> QED BY <1>6, <1>7, <3>1
  <2>4. Holds(A, f + 4, dest)
    BY <2>1, <2>2, <2>3 DEF Holds
  <2>5. SubSeq(A, f + 4, f + 4 + Len(dest) - 1) = dest
    <3>1. A \in Seq(Int) /\ dest \in Seq(Int) /\ f + 4 \in Nat \ {0}
      BY <1>5, <2>1, <2>3
    <3> QED BY ONLY <2>4, <3>1, CutOut
  <2> QED BY <2>1, <2>3, <2>5, Zenon
<1>15. [j \in 1..c |-> FromBytes(Chunk(F, Word, t + j))] = am
  <2>1. ASSUME NEW j \in 1..c PROVE FromBytes(Chunk(F, Word, t + j)) = am[j]
    BY <1>5, <1>6, <1>9, WordsRead
  <2>2. am = [j \in 1..c |-> am[j]]
    BY <1>6
  <2> QED BY <2>1, <2>2, Zenon
<1> QED BY <1>10, <1>11, <1>13, <1>14, <1>15, Zenon DEF o, s, ix
-----------------------------------------------------------------------------
(* The FinalizeSettle that is built. *)
LEMMA OnePush ==
    ASSUME NEW o \in Orders
    PROVE  LET p == OrderPush(o) IN
           /\ p.source_buffer = Buffer[o.buy_mint] /\ p.source_buffer \in Int
           /\ p.destination = o.buy_token_account /\ p.destination \in Int
           /\ p.mint \in Int
           /\ p.bump \in Bytes
           /\ p.amount = o.amount /\ p.amount \in 0..(Power(Word) - 1)
<1> DEFINE p == OrderPush(o)
           m == IF o.use_transfer_checked /\ o.buy_mint # NativeSol THEN o.buy_mint ELSE MINT_PLACEHOLDER
           b == Buffer[o.buy_mint]
           u == Bump[o.buy_mint]
<1>1. p = [source_buffer |-> b, destination |-> o.buy_token_account, mint |-> m, bump |-> u, amount |-> o.amount]
  BY Zenon DEF OrderPush
<1>2. m \in Int
  <2>1. o.buy_mint \in Int /\ MINT_PLACEHOLDER \in Int
    BY OrderFields, Constants
  <2> QED BY <2>1, Zenon
<1>3. b \in Int /\ u \in Bytes /\ o.buy_token_account \in Int /\ o.amount \in 0..(Power(Word) - 1)
  BY OrderFields
<1> HIDE DEF p, m, b, u
<1>4. p.source_buffer = b /\ p.destination = o.buy_token_account /\ p.mint = m /\ p.bump = u /\ p.amount = o.amount
  BY <1>1
<1> QED BY <1>2, <1>3, <1>4, Zenon DEF p, b, u

Triple(p) == <<p.source_buffer, p.destination, p.mint>>
Triples(s, n) == [k \in 1..n |-> Triple(OrderPush(s[k]))]
BumpsOf(s, n) == [k \in 1..n |-> OrderPush(s[k]).bump]
AmountsOf(s, n) == [k \in 1..n |-> OrderPush(s[k]).amount]

LEMMA PushLists ==
    ASSUME NEW n \in Nat, NEW s \in [1..n -> Orders]
    PROVE  /\ Triples(s, n) \in [1..n -> Seq(Int)]
           /\ AreLengths(Constant(3, n), Triples(s, n), n)
           /\ \A k \in 0..n : SumFunctionOnSet(Constant(3, n), 1..k) = 3 * k
           /\ FlattenSeq(Triples(s, n)) \in Seq(Int) /\ Len(FlattenSeq(Triples(s, n))) = 3 * n
           /\ BumpsOf(s, n) \in Seq(Bytes) /\ Len(BumpsOf(s, n)) = n
           /\ AmountsOf(s, n) \in [1..n -> 0..(Power(Word) - 1)]
           /\ AmountsOf(s, n) \in [1..n -> Nat]
           /\ Words(AmountsOf(s, n)) \in Seq(Bytes) /\ Len(Words(AmountsOf(s, n))) = Word * n
<1> DEFINE q == Triples(s, n)
           b == BumpsOf(s, n)
           a == AmountsOf(s, n)
           h == Constant(3, n)
<1>1. ASSUME NEW k \in 1..n
      PROVE  /\ q[k] \in Seq(Int) /\ Len(q[k]) = 3 /\ h[k] = 3
             /\ b[k] \in Bytes /\ a[k] \in 0..(Power(Word) - 1)
  <2> DEFINE p == OrderPush(s[k])
             x == p.source_buffer
             y == p.destination
             z == p.mint
  <2>1. x \in Int /\ y \in Int /\ z \in Int /\ p.bump \in Bytes /\ p.amount \in 0..(Power(Word) - 1)
    <3>1. s[k] \in Orders
      OBVIOUS
    <3> QED BY <3>1, OnePush
  <2>2. q[k] = Triple(p) /\ b[k] = p.bump /\ a[k] = p.amount /\ h[k] = 3
    BY DEF Triples, BumpsOf, AmountsOf, Constant
  <2>3. Triple(p) = <<x, y, z>>
    BY Zenon DEF Triple
  <2> HIDE DEF x, y, z
  <2>4. <<x, y, z>> \in Seq(Int) /\ Len(<<x, y, z>>) = 3
    BY <2>1
  <2> HIDE DEF p, q, b, a, h
  <2> QED BY <2>1, <2>2, <2>3, <2>4, Zenon
<1>2. q = [k \in 1..n |-> q[k]] /\ b = [k \in 1..n |-> b[k]] /\ a = [k \in 1..n |-> a[k]]
  BY DEF Triples, BumpsOf, AmountsOf
<1> HIDE DEF q, b, a, h
<1>3. q \in [1..n -> Seq(Int)] /\ b \in [1..n -> Bytes] /\ a \in [1..n -> 0..(Power(Word) - 1)]
  <2>1. q \in [1..n -> Seq(Int)]
    BY <1>1, <1>2
  <2>2. b \in [1..n -> Bytes]
    BY <1>1, <1>2
  <2>3. a \in [1..n -> 0..(Power(Word) - 1)]
    BY <1>1, <1>2
  <2> QED BY <2>1, <2>2, <2>3
<1>4. AreLengths(h, q, n)
  BY <1>1 DEF AreLengths
<1>5. \A k \in 0..n : SumFunctionOnSet(h, 1..k) = 3 * k
  <2>1. n \in Nat /\ 3 \in Nat /\ AreAll(h, 3, n)
    BY <1>1 DEF AreAll
  <2> QED BY ONLY <2>1, SumConstant
<1>6. FlattenSeq(q) \in Seq(Int) /\ Len(FlattenSeq(q)) = SumFunctionOnSet(h, 1..n)
  BY <1>3, <1>4, FlattenLen
<1>7. n \in 0..n
  OBVIOUS
<1>8. b \in Seq(Bytes) /\ Len(b) = n
  BY <1>3
<1>9. a \in [1..n -> Nat]
  <2>1. 0..(Power(Word) - 1) \subseteq Nat
    OBVIOUS
  <2> QED BY <1>3, <2>1
<1>10. Words(a) \in Seq(Bytes) /\ Len(Words(a)) = Word * n
  BY <1>9, WordsType, Zenon
<1>11. Len(FlattenSeq(q)) = 3 * n
  BY <1>5, <1>6, <1>7
<1> QED BY <1>3, <1>4, <1>5, <1>6, <1>8, <1>9, <1>10, <1>11, Zenon DEF q, b, a, h

LEMMA FinalizeLayout ==
    ASSUME NEW orders \in Seq(Orders)
    PROVE  LET s == SortedByPda(orders)
               n == Len(orders)
               ix == BuildFinalizeSettle(orders)
           IN  /\ n \in Nat /\ ix \in Encoded
               /\ ix.data[1] = 1 /\ Len(ix.data) = 3 + n + Word * n
               /\ Holds(ix.data, 4, BumpsOf(s, n))
               /\ Holds(ix.data, 4 + n, Words(AmountsOf(s, n)))
               /\ Len(ix.accounts) = 4 + 3 * n
               /\ Holds(ix.accounts, 5, FlattenSeq(Triples(s, n)))
<1> DEFINE s == SortedByPda(orders)
           n == Len(orders)
           ix == BuildFinalizeSettle(orders)
           t0 == <<1>>
           t1 == ToBytes(BeginIndex, 2)
           t2 == BumpsOf(s, n)
           t3 == Words(AmountsOf(s, n))
           d1 == t0 \o t1
           d2 == d1 \o t2
           d == d2 \o t3
           a == <<Sysvar, State, Other, Other>>
           q == FlattenSeq(Triples(s, n))
           ab == a \o q
<1>1. n \in Nat /\ s \in [1..n -> Orders] /\ Len(s) = n
  BY Sorting
<1>2. ix = [data |-> d, accounts |-> ab]
  <2> DEFINE p == PushesOf(orders)
  <2>1. p = [k \in 1..n |-> OrderPush(s[k])]
    BY <1>1, Zenon DEF PushesOf
  <2>2. Len(p) = n /\ \A k \in 1..n : p[k] = OrderPush(s[k])
    <3> HIDE DEF n, s, p
    <3> QED BY <1>1, <2>1
  <2>3. [k \in 1..Len(p) |-> p[k].bump] = BumpsOf(s, n)
        /\ [k \in 1..Len(p) |-> p[k].amount] = AmountsOf(s, n)
        /\ [k \in 1..Len(p) |-> <<p[k].source_buffer, p[k].destination, p[k].mint>>] = Triples(s, n)
    <3> HIDE DEF n, s, p
    <3> QED BY <2>2, Zenon DEF BumpsOf, AmountsOf, Triples, Triple
  <2> HIDE DEF n, s, p
  <2>4. ix = [data |-> <<1>> \o ToBytes(BeginIndex, 2) \o [k \in 1..Len(p) |-> p[k].bump]
                       \o Words([k \in 1..Len(p) |-> p[k].amount]),
              accounts |-> <<Sysvar, State, Other, Other>>
                           \o FlattenSeq([k \in 1..Len(p) |->
                                <<p[k].source_buffer, p[k].destination, p[k].mint>>])]
    BY Zenon DEF BuildFinalizeSettle, p
  <2> QED BY <2>3, <2>4, Zenon
<1> HIDE DEF s, n, ix
<1>3. Word \in Nat \ {0} /\ 1 \in Bytes
  BY Constants
<1>4. t2 \in Seq(Bytes) /\ Len(t2) = n /\ t3 \in Seq(Bytes) /\ Len(t3) = Word * n
      /\ q \in Seq(Int) /\ Len(q) = 3 * n
  BY <1>1, PushLists, Zenon
<1>5. t1 \in Seq(Bytes) /\ Len(t1) = 2
  BY ToBytesType DEF BeginIndex
<1>6. t0 \in Seq(Bytes) /\ Len(t0) = 1 /\ t0[1] = 1
  BY <1>3
<1>7. a \in Seq(Int) /\ Len(a) = 4
  BY Constants
<1> HIDE DEF t0, t1, t2, t3, a, q
<1>8. IsJoin(d1, t0, t1) /\ IsJoin(d2, d1, t2) /\ IsJoin(d, d2, t3) /\ IsJoin(ab, a, q)
  BY Zenon DEF IsJoin
<1> HIDE DEF d, d1, d2, ab
<1>9. d1 \in Seq(Bytes) /\ Len(d1) = 3 /\ d1[1] = 1
  <2>1. /\ d1 \in Seq(Bytes) /\ Len(d1) = Len(t0) + Len(t1) /\ Len(t0) \in Nat /\ Len(t1) \in Nat
        /\ Holds(d1, 1, t0) /\ Holds(d1, 1 + Len(t0), t1)
        /\ \A j \in 1..Len(t0) : d1[j] = t0[j]
        /\ \A j \in 1..Len(t1) : d1[Len(t0) + j] = t1[j]
    <3>1. Joins(Bytes, d1, t0, t1)
      BY <1>5, <1>6, <1>8, Zenon DEF Joins
    <3> QED BY ONLY <3>1, PartsAt
  <2> QED BY <1>5, <1>6, <2>1
<1>10. d2 \in Seq(Bytes) /\ Len(d2) = 3 + n /\ d2[1] = 1 /\ Holds(d2, 4, t2)
  <2>1. /\ d2 \in Seq(Bytes) /\ Len(d2) = Len(d1) + Len(t2) /\ Len(d1) \in Nat /\ Len(t2) \in Nat
        /\ Holds(d2, 1, d1) /\ Holds(d2, 1 + Len(d1), t2)
        /\ \A j \in 1..Len(d1) : d2[j] = d1[j]
        /\ \A j \in 1..Len(t2) : d2[Len(d1) + j] = t2[j]
    <3>1. Joins(Bytes, d2, d1, t2)
      BY <1>4, <1>8, <1>9, Zenon DEF Joins
    <3> QED BY ONLY <3>1, PartsAt
  <2>2. 1 \in 1..Len(d1) /\ 1 + Len(d1) = 4
    BY <1>9
  <2>3. d2[1] = d1[1]
    BY <2>1, <2>2
  <2> QED BY <1>4, <1>9, <2>1, <2>2, <2>3, Zenon
<1>11. /\ d \in Seq(Bytes) /\ Len(d) = 3 + n + Word * n /\ d[1] = 1
       /\ Holds(d, 4, t2) /\ Holds(d, 4 + n, t3)
  <2>1. /\ d \in Seq(Bytes) /\ Len(d) = Len(d2) + Len(t3) /\ Len(d2) \in Nat /\ Len(t3) \in Nat
        /\ Holds(d, 1, d2) /\ Holds(d, 1 + Len(d2), t3)
        /\ \A j \in 1..Len(d2) : d[j] = d2[j]
        /\ \A j \in 1..Len(t3) : d[Len(d2) + j] = t3[j]
    <3>1. Joins(Bytes, d, d2, t3)
      BY <1>4, <1>8, <1>10, Zenon DEF Joins
    <3> QED BY ONLY <3>1, PartsAt
  <2>2. 1 \in 1..Len(d2) /\ 1 + Len(d2) = 4 + n
    BY <1>1, <1>10
  <2>3. d[1] = d2[1]
    BY <2>1, <2>2
  <2>4. Holds(d, 4, t2)
    <3>1. 4 + n - 1 <= Len(d2) /\ \A j \in 1..n : d2[4 + j - 1] = t2[j]
      BY <1>4, <1>10 DEF Holds
    <3>2. \A j \in 1..n : 4 + j - 1 \in 1..Len(d2)
      BY <1>1, <1>10
    <3>3. \A j \in 1..n : d[4 + j - 1] = t2[j]
      BY <2>1, <3>1, <3>2
    <3>4. 4 + n - 1 <= Len(d)
      BY <1>1, <2>1, <3>1
    <3> QED BY <1>4, <3>3, <3>4 DEF Holds
  <2> QED BY <1>4, <1>10, <2>1, <2>2, <2>3, <2>4, Zenon
<1>12. ab \in Seq(Int) /\ Len(ab) = 4 + 3 * n /\ Holds(ab, 5, q)
  <2>1. /\ ab \in Seq(Int) /\ Len(ab) = Len(a) + Len(q) /\ Len(a) \in Nat /\ Len(q) \in Nat
        /\ Holds(ab, 1, a) /\ Holds(ab, 1 + Len(a), q)
        /\ \A j \in 1..Len(a) : ab[j] = a[j]
        /\ \A j \in 1..Len(q) : ab[Len(a) + j] = q[j]
    <3> DEFINE I == Int
    <3>1. Joins(I, ab, a, q)
      BY <1>4, <1>7, <1>8, Zenon DEF Joins
    <3> HIDE DEF I
    <3>2. /\ ab \in Seq(I) /\ Len(ab) = Len(a) + Len(q) /\ Len(a) \in Nat /\ Len(q) \in Nat
          /\ Holds(ab, 1, a) /\ Holds(ab, 1 + Len(a), q)
          /\ \A j \in 1..Len(a) : ab[j] = a[j]
          /\ \A j \in 1..Len(q) : ab[Len(a) + j] = q[j]
      BY ONLY <3>1, PartsAt
    <3> QED BY <3>2, Zenon DEF I
  <2>2. 1 + Len(a) = 5
    BY <1>7
  <2> QED BY <1>4, <1>7, <2>1, <2>2, Zenon
<1>13. ix \in Encoded /\ ix.data = d /\ ix.accounts = ab
  BY <1>2, <1>11, <1>12 DEF Encoded, Bytes
<1> QED BY <1>1, <1>11, <1>12, <1>13, Zenon DEF s, n, ix, t2, t3, q

LEMMA FinalizeIsRead ==
    ASSUME NEW orders \in Seq(Orders)
    PROVE  LET s == SortedByPda(orders)
               n == Len(orders)
               ix == BuildFinalizeSettle(orders)
           IN  /\ FinalizeParses(ix) /\ PushCount(ix) = n
               /\ \A k \in 1..n : /\ Pushes(ix)[k].destination = s[k].buy_token_account
                                  /\ Pushes(ix)[k].source_buffer = Buffer[s[k].buy_mint]
                                  /\ Pushes(ix)[k].amount = s[k].amount
<1> DEFINE s == SortedByPda(orders)
           n == Len(orders)
           ix == BuildFinalizeSettle(orders)
           d == ix.data
           ac == ix.accounts
           body == Body(ix)
           am == AmountsOf(s, n)
           F == Words(am)
           q == Triples(s, n)
           h == Constant(3, n)
<1>0. Word \in Nat \ {0}
  BY Constants
<1>1. n \in Nat /\ s \in [1..n -> Orders]
  BY Sorting
<1>2. /\ n \in Nat /\ ix \in Encoded
      /\ d[1] = 1 /\ Len(d) = 3 + n + Word * n
      /\ Holds(d, 4 + n, F)
      /\ Len(ac) = 4 + 3 * n
      /\ Holds(ac, 5, FlattenSeq(q))
  BY FinalizeLayout, Zenon
<1> HIDE DEF s, n, ix
<1>3. /\ q \in [1..n -> Seq(Int)] /\ AreLengths(h, q, n)
      /\ \A k \in 0..n : SumFunctionOnSet(h, 1..k) = 3 * k
      /\ am \in [1..n -> 0..(Power(Word) - 1)]
      /\ F \in Seq(Bytes) /\ Len(F) = Word * n
  BY <1>1, PushLists, Zenon
<1>4. ac \in Seq(Int)
  BY <1>2 DEF Encoded
<1> DEFINE w == Word * n
<1>5. w \in Nat /\ (Word + 1) * n = n + w
  BY <1>0, <1>1
<1>6. Len(d) = 3 + n + w /\ Len(F) = w
  BY <1>2, <1>3
<1> HIDE DEF w
<1>7. Len(d) >= 3 /\ Len(d) - 3 = n + w
  BY <1>1, <1>5, <1>6
<1>8. body \in Seq(Bytes) /\ Len(body) = n + w /\ \A j \in 1..(n + w) : body[j] = d[j + 3]
  <2>1. body \in Seq(Bytes) /\ Len(body) = Len(d) - 3 /\ \A j \in 1..(Len(d) - 3) : body[j] = d[j + 3]
    BY <1>2, <1>7, BodyType
  <2> QED BY <1>7, <2>1, Zenon
<1>9. PushCount(ix) = n /\ Len(body) % (Word + 1) = 0
  <2>1. n + w = (Word + 1) * n + 0 /\ n + w \in Nat /\ Word + 1 \in Nat \ {0} /\ 0 \in 0..((Word + 1) - 1)
    BY <1>0, <1>1, <1>5
  <2>2. (n + w) \div (Word + 1) = n /\ (n + w) % (Word + 1) = 0
    BY <1>1, <2>1, DivisionIs
  <2> QED BY <1>8, <2>2, Zenon DEF PushCount
<1>10. FinalizeParses(ix)
  <2>1. HasHeader(ix, 1)
    BY <1>2, <1>7 DEF HasHeader
  <2>2. Len(ac) >= 4 /\ Len(ac) - 4 = 3 * n
    BY <1>1, <1>2
  <2> QED BY <1>9, <2>1, <2>2 DEF FinalizeParses, PushBytesSplit, AccountsMatchPushes
<1>11. SubSeq(body, n + 1, Len(body)) = F
  <2>1. Holds(body, n + 1, F)
    <3>1. n + 1 + w - 1 <= Len(body)
      BY <1>1, <1>5, <1>8
    <3>2. ASSUME NEW j \in 1..w PROVE body[n + 1 + j - 1] = F[j]
      <4>1. n + 1 + j - 1 \in 1..(n + w) /\ (n + 1 + j - 1) + 3 = 4 + n + j - 1
        BY <1>1, <1>5
      <4>2. d[4 + n + j - 1] = F[j]
        BY <1>2, <1>6 DEF Holds
      <4> QED BY <1>8, <4>1, <4>2
    <3> QED BY <1>6, <3>1, <3>2 DEF Holds
  <2>2. n + 1 \in Nat \ {0} /\ n + 1 + w - 1 = Len(body)
    BY <1>1, <1>5, <1>8
  <2>3. SubSeq(body, n + 1, n + 1 + Len(F) - 1) = F
    <3> HIDE DEF F, body
    <3> QED BY <1>3, <1>8, <2>1, <2>2, CutOut
  <2> QED BY <1>6, <2>2, <2>3, Zenon
<1>12. ASSUME NEW k \in 1..n
       PROVE  /\ Pushes(ix)[k].destination = s[k].buy_token_account
              /\ Pushes(ix)[k].source_buffer = Buffer[s[k].buy_mint]
              /\ Pushes(ix)[k].amount = s[k].amount
  <2> DEFINE p == OrderPush(s[k])
             at == 4 + 3 * (k - 1)
  <2>1. s[k] \in Orders
    BY <1>1
  <2>2. /\ p.source_buffer = Buffer[s[k].buy_mint] /\ p.destination = s[k].buy_token_account
        /\ p.amount = s[k].amount
    BY <2>1, OnePush, Zenon
  <2>3. q[k] = Triple(p) /\ am[k] = p.amount
    BY DEF Triples, AmountsOf
  <2>4. Pushes(ix)[k].destination = ac[at + 2] /\ Pushes(ix)[k].source_buffer = ac[at + 1]
        /\ Pushes(ix)[k].amount = PushAmount(ix, k)
    BY <1>9 DEF Pushes
  <2> HIDE DEF p, q, am, ac, body, F, h
  <2>5. Holds(ac, 5 + 3 * (k - 1), q[k])
    <3>1. HoldsEach(ac, 5, q, n, h)
      <4>1. 5 \in Nat \ {0}
        OBVIOUS
      <4> QED BY <1>1, <1>2, <1>3, <1>4, <4>1, FlattenAt
    <3>2. k - 1 \in 0..n
      BY <1>1
    <3>3. Holds(ac, 5 + SumFunctionOnSet(h, 1..(k - 1)), q[k])
      BY <3>1, Zenon DEF HoldsEach
    <3>4. SumFunctionOnSet(h, 1..(k - 1)) = 3 * (k - 1)
      BY <1>3, <3>2
    <3> QED BY <3>3, <3>4, Zenon
  <2>6. ac[at + 1] = p.source_buffer /\ ac[at + 2] = p.destination
    <3> DEFINE t == Triple(p)
    <3>1. Len(t) = 3 /\ t[1] = p.source_buffer /\ t[2] = p.destination
      BY DEF Triple
    <3> HIDE DEF t, at
    <3>2. \A j \in 1..3 : ac[5 + 3 * (k - 1) + j - 1] = t[j]
      BY <2>3, <2>5, <3>1 DEF Holds, t
    <3>3. 1 \in 1..3 /\ 2 \in 1..3 /\ 5 + 3 * (k - 1) + 1 - 1 = at + 1 /\ 5 + 3 * (k - 1) + 2 - 1 = at + 2
      BY <1>1 DEF at
    <3>4. ac[at + 1] = t[1] /\ ac[at + 2] = t[2]
      BY <3>2, <3>3
    <3> QED BY <3>1, <3>4, Zenon
  <2>7. PushAmount(ix, k) = am[k]
    <3>1. PushAmount(ix, k) = FromBytes(Chunk(SubSeq(body, n + 1, Len(body)), Word, k))
      BY <1>9, Zenon DEF PushAmount, body
    <3>2. PushAmount(ix, k) = FromBytes(Chunk(F, Word, k))
      BY <1>11, <3>1, Zenon
    <3>3. Holds(F, 1, F)
      BY <1>3, HoldsItself
    <3> DEFINE z == 0
    <3>4. 1 + Word * z = 1 /\ z + k = k /\ z \in Nat
      BY <1>0, <1>1
    <3> HIDE DEF z
    <3>5. Holds(F, 1 + Word * z, Words(am))
      BY <3>3, <3>4, Zenon DEF F
    <3>6. FromBytes(Chunk(F, Word, z + k)) = am[k]
      <4>1. F \in Seq(Bytes) /\ z \in Nat /\ n \in Nat /\ k \in 1..n
            /\ am \in [1..n -> 0..(Power(Word) - 1)]
        BY <1>1, <1>3, <3>4
      <4> QED BY ONLY <3>5, <4>1, WordsRead
    <3> QED BY <3>2, <3>4, <3>6, Zenon
  <2> QED BY <2>2, <2>3, <2>4, <2>6, <2>7, Zenon
<1> QED BY <1>9, <1>10, <1>12, Zenon DEF s, n, ix
-----------------------------------------------------------------------------
(* The inductive invariant: both instructions are bytes and accounts, and  *)
(* until they are edited they are what the client builds of the request.   *)
CodecInv ==
    /\ request \in Seq(Orders)
    /\ begin \in Encoded /\ finalize \in Encoded
    /\ edits \in Nat
    /\ stage = "built" /\ edits = 0 =>
           begin = BuildBeginSettle(request) /\ finalize = BuildFinalizeSettle(request)

(* The shape of every instruction that is built or edited. *)
LEMMA CodecInvariant == CodecSpec => []CodecInv
<1>1. CodecInit => CodecInv
  <2> SUFFICES ASSUME CodecInit PROVE CodecInv
    OBVIOUS
  <2>1. NoInstruction \in Encoded
    BY DEF NoInstruction, Encoded
  <2> QED BY <2>1 DEF CodecInit, CodecInv
<1>2. CodecInv /\ [CodecNext]_codec => CodecInv'
  <2> SUFFICES ASSUME CodecInv, [CodecNext]_codec PROVE CodecInv'
    OBVIOUS
  <2>0. request \in Seq(Orders) /\ begin \in Encoded /\ finalize \in Encoded /\ edits \in Nat
    BY DEF CodecInv
  <2>1. ASSUME NEW o \in Orders, AddOrder(o) PROVE CodecInv'
    BY <2>0, <2>1 DEF AddOrder, CodecInv
  <2>2. CASE Build
    <3>1. BuildBeginSettle(request) \in Encoded
      BY <2>0, BeginBody, Zenon
    <3>2. BuildFinalizeSettle(request) \in Encoded
      BY <2>0, FinalizeLayout, Zenon
    <3> QED BY <2>0, <2>2, <3>1, <3>2 DEF Build, CodecInv
  <2>3. CASE EditBegin
    <3>1. begin' \in Encoded
      BY <2>0, <2>3, EditsType DEF EditBegin
    <3>2. edits' \in Nat /\ edits' # 0
      BY <2>0, <2>3 DEF EditBegin
    <3> QED BY <2>0, <2>3, <3>1, <3>2 DEF EditBegin, CodecInv
  <2>4. CASE EditFinalize
    <3>1. finalize' \in Encoded
      BY <2>0, <2>4, EditsType DEF EditFinalize
    <3>2. edits' \in Nat /\ edits' # 0
      BY <2>0, <2>4 DEF EditFinalize
    <3> QED BY <2>0, <2>4, <3>1, <3>2 DEF EditFinalize, CodecInv
  <2>5. CASE UNCHANGED codec
    BY <2>5 DEF codec, CodecInv
  <2> QED BY <2>1, <2>2, <2>3, <2>4, <2>5 DEF CodecNext
<1> QED BY <1>1, <1>2, PTL DEF CodecSpec

(* However a FinalizeSettle was edited, the pushes that it executes        *)
(* (FinalizeSettleInput::parse, Pushes::iter) are the ones BeginSettle     *)
(* has validated through introspection.                                    *)
THEOREM FinalizeIsSeenAsItRuns == CodecSpec => []ViewsAgree
<1>1. CodecInv => ViewsAgree
  BY ViewsOfOne DEF CodecInv, ViewsAgree
<1> QED BY <1>1, CodecInvariant, PTL

(* However a BeginSettle was edited, if BeginSettleInput::parse accepts it *)
(* its orders take every account and every amount of it exactly once.      *)
THEOREM BeginIsUsedUp == CodecSpec => []NothingLeftOver
<1>1. CodecInv => NothingLeftOver
  <2> SUFFICES ASSUME CodecInv, stage = "built", BeginParses(begin)
               PROVE  LET s == SettledOrders(begin) IN
                      /\ RestOfAccounts(begin, 5) =
                           FlattenSeq([k \in 1..Len(s) |->
                               <<s[k].pda, s[k].sell_token_account, s[k].sell_mint>> \o s[k].destinations])
                      /\ AmountBytes(begin) = FlattenSeq([k \in 1..Len(s) |-> Words(s[k].amounts)])
    BY Zenon DEF NothingLeftOver
  <2>1. begin \in Encoded
    BY DEF CodecInv
  <2> QED BY <2>1, AccountsTaken, AmountsTaken, Zenon
<1> QED BY <1>1, CodecInvariant, PTL

(* What the client lays out is read back as it was meant: every order with *)
(* its own accounts, pulls and push, in the order of the addresses; counts *)
(* that do not fit into the byte they are narrowed to are refused.         *)
THEOREM BuiltIsRead == CodecSpec => []BuiltIsMeant
<1>1. CodecInv => BuiltIsMeant
  <2> SUFFICES ASSUME CodecInv, stage = "built", edits = 0 PROVE BuiltIsMeant
    BY Zenon DEF BuiltIsMeant
  <2> DEFINE s == SortedByPda(request)
             n == Len(request)
  <2>1. request \in Seq(Orders) /\ begin = BuildBeginSettle(request) /\ finalize = BuildFinalizeSettle(request)
        /\ finalize \in Encoded
    BY DEF CodecInv
  <2>2. n \in Nat /\ s \in [1..n -> Orders] /\ Len(s) = n
        /\ (\A k \in 1..n : \E i \in 1..n : s[k] = request[i])
        /\ (\A i \in 1..n : \E k \in 1..n : s[k] = request[i])
    BY <2>1, Sorting
  <2>3. Fits <=> n < Byte /\ \A k \in 1..n : Len(s[k].pulls) < Byte
    <3> HIDE DEF s
    <3> QED BY <2>2, Zenon DEF Fits
  <2>4. BeginParses(begin) <=> Fits
    <3>1. Fits => BeginParses(begin)
      BY <2>1, <2>3, FittingIsRead, Zenon
    <3>2. BeginParses(begin) => Fits
      BY <2>1, <2>3, ParsedFits, Zenon
    <3> QED BY <3>1, <3>2, Zenon
  <2>5. BeginParses(begin) => SettledOrders(begin) = [k \in 1..Len(s) |-> Meant(s[k])]
    <3> SUFFICES ASSUME BeginParses(begin) PROVE SettledOrders(begin) = [k \in 1..n |-> Meant(s[k])]
      BY <2>2, Zenon
    <3>1. ASSUME NEW k \in 1..n PROVE SettledOrder(begin, k) = Meant(s[k])
      <4>1. BeginParses(BuildBeginSettle(request))
        BY <2>1, Zenon
      <4>2. SettledOrder(BuildBeginSettle(request), k) = Meant(SortedByPda(request)[k])
        BY <2>1, <4>1, OrderIsRead, Zenon
      <4> QED BY <2>1, <4>2, Zenon
    <3>2. OrderCount(begin) = n
      <4>1. n < Byte
        BY <2>1, ParsedIsCounted, Zenon
      <4> QED BY <2>1, <4>1, CountedRead, Zenon
    <3> QED BY <3>1, <3>2, Zenon DEF SettledOrders
  <2>6. FinalizeParses(finalize) /\ PushCount(finalize) = n
        /\ \A k \in 1..n : /\ Pushes(finalize)[k].destination = s[k].buy_token_account
                           /\ Pushes(finalize)[k].source_buffer = Buffer[s[k].buy_mint]
                           /\ Pushes(finalize)[k].amount = s[k].amount
    BY <2>1, FinalizeIsRead, Zenon
  <2>7. PairedPushes(finalize) = Pushes(finalize)
    BY <2>1, <2>6, ViewsOfOne
  <2>8. Len(Pushes(finalize)) = n
    BY <2>2, <2>6 DEF Pushes
  <2> HIDE DEF s, n
  <2> QED BY <2>2, <2>4, <2>5, <2>6, <2>7, <2>8, Zenon DEF BuiltIsMeant, s
<1> QED BY <1>1, CodecInvariant, PTL
===============================================================================
