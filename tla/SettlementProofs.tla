--------------------------- MODULE SettlementProofs ---------------------------
(***************************************************************************)
(* Proofs about Settlement and the table of known buffers, for any orders, *)
(* pushes, accounts, list of mints and hash: the table knows the known     *)
(* mints and no others, no number leaves its range, the native SOL buffer  *)
(* survives every transaction, funds leave an owner's accounts only for    *)
(* that owner's orders, and what is recorded as received was paid.         *)
(***************************************************************************)
EXTENDS Settlement, SharedLemmas

-----------------------------------------------------------------------------
(* What the table of known buffers answers, for every list of mints and    *)
(* every hash.                                                             *)

(* The top bits of a word are the number of a slot. *)
LEMMA TopBits ==
    ASSUME NEW n \in Nat, NEW width \in Nat \ {0}, NEW word \in 0..(n * width - 1)
    PROVE  word \div width \in 0..(n - 1)
<1> DEFINE q == word \div width
           r == word % width
<1>1. q \in Nat /\ r \in 0..(width - 1) /\ word = width * q + r
  BY SMT
<1>2. ASSUME q >= n PROVE FALSE
  <2>1. width * q >= width * n
    BY <1>1, <1>2, SMT
  <2> QED BY <1>1, <2>1, SMT
<1> QED BY <1>1, <1>2, SMT

(* A key always finds a slot of the table. *)
LEMMA SlotInTable ==
    ASSUME NEW mint \in AllMints, NEW multiplier \in Nat
    PROVE  Slot(mint, multiplier) \in 0..(SlotCount - 1)
<1>1. KeyOf[mint] * multiplier \in Nat
  BY KnownBuffersAssumption DEF WordSize, AllMints
<1>2. WordSize \in Nat \ {0}
  BY KnownBuffersAssumption DEF WordSize
<1>3. (KeyOf[mint] * multiplier) % WordSize \in 0..(WordSize - 1)
  BY <1>1, <1>2
<1> QED BY <1>3, TopBits, KnownBuffersAssumption DEF Slot, WordSize

(* An element of a sequence is of the sequence's type. *)
LEMMA ElementType ==
    ASSUME NEW S, NEW s \in Seq(S), NEW k \in DOMAIN s
    PROVE  s[k] \in S
OBVIOUS

(* The build only goes through with a multiplier that keeps the known      *)
(* buffers apart.                                                          *)
LEMMA MultiplierWorks ==
    ASSUME Attempts # {}
    PROVE  KNOWN_BUFFER_MULTIPLIER \in Nat /\ HasDistinctSlots(KNOWN_BUFFER_MULTIPLIER)
<1> DEFINE first == CHOOSE k \in Attempts : \A other \in Attempts : k <= other
<1>1. Attempts \in SUBSET Nat
  BY KnownBuffersAssumption DEF Attempts
<1>2. first \in Attempts
  BY <1>1, Smallest
<1>3. HasDistinctSlots(Multipliers[first]) /\ first \in DOMAIN Multipliers
  BY <1>2 DEF Attempts
<1>4. Multipliers[first] \in Nat
  <2>1. \A word \in 0..(WordSize - 1) : word \in Nat
    BY KnownBuffersAssumption DEF WordSize
  <2>2. Multipliers[first] \in 0..(WordSize - 1)
    <3> HIDE DEF first
    <3> QED BY <1>3, ElementType, KnownBuffersAssumption, Zenon
  <2> QED BY <2>1, <2>2
<1> QED BY <1>3, <1>4 DEF KNOWN_BUFFER_MULTIPLIER, FindSlotMultiplier

(* Every entry of the table belongs to a mint, and holds its buffer. *)
LEMMA Entries ==
    ASSUME NEW i \in Indices
    PROVE  /\ KNOWN_BUFFERS[i].mint \in AllMints
           /\ KNOWN_BUFFERS[i].address = Buffer[KNOWN_BUFFERS[i].mint]
<1>1. Len(KNOWN_MINTS) \in Nat /\ i \in 1..(Len(KNOWN_MINTS) + 1)
  BY KnownBuffersAssumption DEF Indices
<1>2. CASE i <= Len(KNOWN_MINTS)
  <2>1. KNOWN_MINTS[i] \in AllMints
    BY <1>1, <1>2, KnownBuffersAssumption DEF Mints
  <2> QED BY <1>1, <1>2, <2>1 DEF KNOWN_BUFFERS
<1>3. CASE ~(i <= Len(KNOWN_MINTS))
  BY <1>1, <1>3, KnownBuffersAssumption DEF KNOWN_BUFFERS
<1> QED BY <1>2, <1>3

(* The slot of a known mint holds the index of that mint: nothing that is  *)
(* written later overwrites it.                                            *)
LEMMA SlotHoldsIndex ==
    ASSUME Attempts # {}, NEW i \in Indices
    PROVE  KNOWN_BUFFER_SLOTS[Slot(KNOWN_BUFFERS[i].mint, KNOWN_BUFFER_MULTIPLIER)] = i
<1> DEFINE s == Slot(KNOWN_BUFFERS[i].mint, KNOWN_BUFFER_MULTIPLIER)
           here == {k \in Indices :
                      Slot(KNOWN_BUFFERS[k].mint, KNOWN_BUFFER_MULTIPLIER) = s}
<1>1. s \in 0..(SlotCount - 1)
  BY SlotInTable, MultiplierWorks, Entries
<1>2. here = {i}
  BY MultiplierWorks DEF HasDistinctSlots
<1>3. i \in Nat
  BY KnownBuffersAssumption DEF Indices
<1>4. (CHOOSE k \in here : \A j \in here : j <= k) = i
  BY <1>2, <1>3
<1>5. KNOWN_BUFFER_SLOTS[s] = IF here = {} THEN NoIndex
                              ELSE CHOOSE k \in here : \A j \in here : j <= k
  BY <1>1 DEF KNOWN_BUFFER_SLOTS
<1> QED BY <1>2, <1>4, <1>5

(* The lookup of known_buffer answers for the mints it knows, and for no   *)
(* others, even where the hash of another mint meets an occupied slot.     *)
THEOREM LookupIsExact ==
    ASSUME Attempts # {}, NEW mint \in AllMints
    PROVE  KnownBuffer(mint) = {KNOWN_BUFFERS[i] : i \in {k \in Indices : KNOWN_BUFFERS[k].mint = mint}}
<1>1. ASSUME NEW k \in Indices, KNOWN_BUFFERS[k].mint = mint
      PROVE  k = KNOWN_BUFFER_SLOTS[Slot(mint, KNOWN_BUFFER_MULTIPLIER)]
  BY <1>1, SlotHoldsIndex
<1> QED BY <1>1 DEF KnownBuffer

(* What validate_buffer_pda accepts for a mint is an address derived from  *)
(* that mint, and for native SOL its buffer alone; and it always accepts   *)
(* the canonical buffer with the canonical bump, whether or not the mint   *)
(* is known.                                                               *)
THEOREM OnlyBuffersPass ==
    ASSUME Attempts # {}, NEW mint \in AllMints, NEW buffer, NEW bump \in Nat
    PROVE  /\ ValidateBufferPda(buffer, mint, bump) =>
                  \/ buffer = Buffer[mint]
                  \/ /\ mint # NativeSol
                     /\ <<mint, bump>> \in DOMAIN Derived
                     /\ buffer = Derived[<<mint, bump>>]
           /\ ValidateBufferPda(Buffer[mint], mint, CanonicalBump[mint])
<1>1. ASSUME NEW known \in KnownBuffer(mint)
      PROVE  known.address = Buffer[mint]
  BY <1>1, LookupIsExact, Entries
<1>2. mint = NativeSol => KnownBuffer(mint) # {}
  <2>1. Len(KNOWN_MINTS) \in Nat
    BY KnownBuffersAssumption
  <2> DEFINE last == Len(KNOWN_MINTS) + 1
  <2>2. last \in Indices /\ KNOWN_BUFFERS[last].mint = NativeSol
    BY <2>1 DEF Indices, KNOWN_BUFFERS
  <2> HIDE DEF last
  <2> QED BY <2>2, LookupIsExact
<1>3. mint # NativeSol =>
          /\ <<mint, CanonicalBump[mint]>> \in DOMAIN Derived
          /\ Buffer[mint] = Derived[<<mint, CanonicalBump[mint]>>]
  BY KnownBuffersAssumption DEF Mints, Buffer
<1> QED BY <1>1, <1>2, <1>3 DEF ValidateBufferPda

-----------------------------------------------------------------------------
(* The order whose pulls are running has the push at next. *)
CurrentOrder ==
    phase = "pulls" => previous \in Orders /\ next <= Len(pushes)

PaysNative == \E k \in 1..Len(pushes) : pushes[k].source_buffer = NativeBuffer

(* The buffer may only be empty while the second loop of a FinalizeSettle  *)
(* that pays native SOL is running, before the check that ends it.         *)
NativeAlive == lamports[NativeBuffer] > 0 \/ (phase = "native" /\ PaysNative)

IInv ==
    /\ TypeOK
    /\ pushes \in Seq(PushSet)
    /\ CurrentOrder
    /\ NativeAlive
    /\ NativeBufferLives

-----------------------------------------------------------------------------
(* Min of two numbers, as WithdrawNativeSol uses it. *)
LEMMA MinOfTwo ==
    ASSUME NEW a \in Nat, NEW b \in Nat
    PROVE  Min({a, b}) \in Nat /\ Min({a, b}) <= a /\ Min({a, b}) <= b
<1>1. \E x \in {a, b} : \A y \in {a, b} : x <= y
    OBVIOUS
<1>2. Min({a, b}) \in {a, b} /\ \A y \in {a, b} : Min({a, b}) <= y
    BY <1>1 DEF Min
<1> QED BY <1>2

(* What a push and an order's intent are made of. *)
LEMMA PushFields ==
    ASSUME NEW p \in PushSet
    PROVE  p.amount \in Amount /\ p.destination \in Addresses
BY SettlementAssumption DEF Push

LEMMA AmountsAreNat == /\ Amount \subseteq Nat
                       /\ Amounts \subseteq Amount
                       /\ 0 \in Amount
BY SettlementAssumption, U64MaxAssumption DEF Amount

LEMMA PushAtNext ==
    ASSUME IInv, next <= Len(pushes)
    PROVE  pushes[next] \in PushSet
<1>1. Len(pushes) \in Nat /\ next \in 1..(Len(pushes) + 1)
    BY DEF IInv, TypeOK
<1>2. next \in 1..Len(pushes)
    BY <1>1
<1> QED BY <1>2 DEF IInv, TypeOK

(* A transfer keeps every token account well formed. *)
LEMMA TransferKeepsTokens ==
    ASSUME tokens \in [Accounts -> TokenAccount],
           NEW from, NEW to, NEW n \in Nat, Transfer(from, to, n)
    PROVE  tokens' \in [Accounts -> TokenAccount]
<1>1. from \in Accounts /\ to \in Accounts
    BY DEF Transfer, CanTransfer
<1>2. /\ tokens[from] \in TokenAccount /\ tokens[to] \in TokenAccount
      /\ tokens[from].amount >= n
      /\ tokens[from].owner # StatePda => tokens[from].delegated >= n
    BY <1>1 DEF Transfer, CanTransfer
<1>3. CASE from = to
    BY <1>3 DEF Transfer
<1>4. CASE from # to
  <2> DEFINE d == IF tokens[from].owner = StatePda THEN tokens[from].delegated
                  ELSE tokens[from].delegated - n
             f == [tokens[from] EXCEPT !.amount = @ - n, !.delegated = d]
             t == [tokens[to] EXCEPT !.amount = @ + n]
  <2>1. tokens[from].amount - n \in Nat /\ d \in Nat /\ tokens[to].amount + n \in Nat
      BY <1>2 DEF TokenAccount
  <2>2. f \in TokenAccount /\ t \in TokenAccount
      BY <1>2, <2>1 DEF TokenAccount
  <2>3. tokens' = [tokens EXCEPT ![from] = f, ![to] = t]
      BY <1>1, <1>2, <1>4 DEF Transfer, TokenAccount
  <2> QED BY <1>1, <2>2, <2>3
<1> QED BY <1>3, <1>4

(* A movement of lamports creates none. *)
LEMMA MoveKeepsLamports ==
    ASSUME lamports \in [LamportAccounts -> Nat],
           NEW from \in LamportAccounts, NEW to \in LamportAccounts, NEW n \in Nat,
           MoveLamports(from, to, n)
    PROVE  /\ lamports' \in [LamportAccounts -> Nat]
           /\ lamports'[from] >= lamports[from] - n
           /\ \A a \in LamportAccounts \ {from} : lamports'[a] >= lamports[a]
BY DEF MoveLamports

-----------------------------------------------------------------------------
LEMMA InitIsGood == Init => IInv
<1> SUFFICES ASSUME Init PROVE IInv
    OBVIOUS
<1>1. /\ tokens \in [Accounts -> TokenAccount]
      /\ lamports \in [LamportAccounts -> Nat]
      /\ lamports[NativeBuffer] >= NativeRent /\ lamports[NativeBuffer] > 0
    BY SettlementAssumption DEF Init, LamportAccounts
<1>2. fill \in [Orders -> FillAmounts]
    BY AmountsAreNat DEF Init, NoFill, FillAmounts
<1>3. pushes = <<>> /\ pushes \in Seq(PushSet) /\ Len(pushes) = 0
    BY DEF Init
<1>4. TypeOK
    BY <1>1, <1>2, <1>3, AmountsAreNat DEF Init, TypeOK
<1> QED BY <1>1, <1>3, <1>4 DEF Init, IInv, CurrentOrder, NativeAlive, NativeBufferLives

(* Steps that move nothing. *)
LEMMA MarkerStep ==
    ASSUME IInv, StartTransaction \/ EndBeginSettle \/ FinalizeSettle \/ StartNativeLoop
    PROVE  IInv'
<1>1. Len(pushes) \in Nat /\ 1 \in 1..(Len(pushes) + 1)
    BY DEF IInv
<1>2. TypeOK' /\ (pushes \in Seq(PushSet))'
    BY <1>1 DEF IInv, TypeOK, StartTransaction, EndBeginSettle, FinalizeSettle,
                StartNativeLoop, ledger, progress
<1>3. (CurrentOrder /\ NativeAlive /\ NativeBufferLives)'
    BY DEF IInv, CurrentOrder, NativeAlive, NativeBufferLives, PaysNative, StartTransaction,
           EndBeginSettle, FinalizeSettle, StartNativeLoop, ledger, progress
<1> QED BY <1>2, <1>3 DEF IInv

LEMMA BeginSettleStep ==
    ASSUME IInv, NEW n \in 0..MaxPushes, NEW list \in [1..n -> PushSet], BeginSettle(list)
    PROVE  IInv'
<1>1. n \in Nat
    BY SettlementAssumption
<1>2. list \in Seq(PushSet) /\ Len(list) = n
    BY <1>1
<1>3. TypeOK'
    BY <1>1, <1>2 DEF IInv, TypeOK, BeginSettle, ledger
<1> QED BY <1>2, <1>3
        DEF IInv, BeginSettle, ledger, CurrentOrder, NativeAlive, NativeBufferLives

LEMMA ProcessOrderStep ==
    ASSUME IInv, NEW o \in Orders, ProcessOrder(o)
    PROVE  IInv'
<1>1. TypeOK'
    BY AmountsAreNat DEF IInv, TypeOK, ProcessOrder, ledger
<1> QED BY <1>1 DEF IInv, ProcessOrder, ledger, CurrentOrder, NativeAlive, NativeBufferLives

LEMMA PullStep ==
    ASSUME IInv, NEW a \in Accounts, NEW n \in Amounts, Pull(a, n)
    PROVE  IInv'
<1> DEFINE from == Book[previous].sell_token_account
<1>1. n \in Nat /\ amount_in \in Nat
    BY AmountsAreNat DEF IInv, TypeOK
<1>2. amount_in' \in Amount
    BY <1>1, U64MaxAssumption DEF Pull, PulledSumFits, Amount
<1>3. tokens' \in [Accounts -> TokenAccount]
    BY <1>1, TransferKeepsTokens DEF IInv, TypeOK, Pull
<1>4. lost' \in [Owners \X Mints -> Nat]
  <2>1. from \in Accounts
      BY DEF Pull, Transfer, CanTransfer
  <2>2. tokens[from].owner \in Owners /\ tokens[from].mint \in Mints
      BY <2>1 DEF IInv, TypeOK, TokenAccount
  <2> DEFINE key == <<tokens[from].owner, tokens[from].mint>>
  <2>3. key \in Owners \X Mints
      BY <2>2
  <2>4. lost' = lost \/ lost' = [lost EXCEPT ![key] = @ + n]
      BY DEF Pull
  <2> DEFINE keys == Owners \X Mints
  <2> HIDE DEF key, keys
  <2>5. lost \in [keys -> Nat] /\ key \in keys
      BY <2>3 DEF IInv, TypeOK, keys
  <2>6. lost' \in [keys -> Nat]
      BY <1>1, <2>4, <2>5
  <2> QED BY <2>6 DEF keys
<1>5. TypeOK'
    BY <1>2, <1>3, <1>4 DEF IInv, TypeOK, Pull
<1> QED BY <1>5 DEF IInv, Pull, CurrentOrder, NativeAlive, NativeBufferLives

LEMMA RecordFillStep ==
    ASSUME IInv, RecordFill
    PROVE  IInv'
<1> DEFINE settled == [withdrawn |-> amount_in, received |-> pushes[next].amount]
           new == AddFills(fill[previous], settled)
<1>1. previous \in Orders /\ next <= Len(pushes)
    BY DEF IInv, CurrentOrder, RecordFill
<1>2. pushes[next].amount \in Amount
    BY <1>1, PushAtNext, PushFields
<1>3. fill[previous] \in FillAmounts /\ settled \in FillAmounts
    BY <1>1, <1>2 DEF IInv, TypeOK, FillAmounts
<1>4. new.withdrawn <= U64Max /\ new.received <= U64Max
    BY DEF RecordFill, ValidatedFinalAmounts
<1>5. new \in FillAmounts
    BY <1>3, <1>4, U64MaxAssumption DEF AddFills, FillAmounts, Amount
<1>6. fill' \in [Orders -> FillAmounts]
  <2>1. fill' = [fill EXCEPT ![previous] = new]
      BY DEF RecordFill
  <2> HIDE DEF new
  <2> QED BY <1>5, <2>1 DEF IInv, TypeOK
<1>7. Len(pushes) \in Nat /\ next + 1 \in 1..(Len(pushes) + 1)
    BY <1>1 DEF IInv, TypeOK
<1>8. TypeOK'
    BY <1>6, <1>7 DEF IInv, TypeOK, RecordFill
<1> QED BY <1>8 DEF IInv, RecordFill, CurrentOrder, NativeAlive, NativeBufferLives

(* What a push adds to the history of credits. *)
LEMMA CreditKeepsGained ==
    ASSUME IInv, next <= Len(pushes), NEW asset \in Assets, Credit(asset)
    PROVE  gained' \in [Addresses \X Assets -> Nat]
<1> DEFINE push == pushes[next]
           keys == Addresses \X Assets
           key == <<push.destination, asset>>
<1>1. push.amount \in Nat /\ push.destination \in Addresses
    BY PushAtNext, PushFields, AmountsAreNat
<1>2. key \in keys /\ gained \in [keys -> Nat]
    BY <1>1 DEF IInv, TypeOK
<1>3. gained' = gained \/ gained' = [gained EXCEPT ![key] = @ + push.amount]
    BY DEF Credit
<1> HIDE DEF key, keys, push
<1>4. gained' \in [keys -> Nat]
    BY <1>1, <1>2, <1>3
<1> QED BY <1>4 DEF keys

LEMMA PushTokenStep ==
    ASSUME IInv, PushToken
    PROVE  IInv'
<1> DEFINE push == pushes[next]
<1>1. next <= Len(pushes) /\ push.amount \in Nat
    BY PushAtNext, PushFields, AmountsAreNat DEF PushToken
<1>2. Len(pushes) \in Nat /\ next + 1 \in 1..(Len(pushes) + 1)
    BY <1>1 DEF IInv, TypeOK
<1>3. tokens' \in [Accounts -> TokenAccount] /\ gained' \in [Addresses \X Assets -> Nat]
  <2>1. CASE UNCHANGED <<tokens, gained>>
      BY <2>1 DEF IInv, TypeOK
  <2>2. CASE /\ Transfer(push.source_buffer, push.destination, push.amount)
             /\ Credit(tokens[push.source_buffer].mint)
    <3>1. tokens' \in [Accounts -> TokenAccount]
        BY <1>1, <2>2, TransferKeepsTokens DEF IInv, TypeOK
    <3>2. tokens[push.source_buffer].mint \in Assets
        BY <2>2 DEF IInv, TypeOK, TokenAccount, Transfer, CanTransfer, Assets, Mints
    <3> QED BY <1>1, <2>2, <3>1, <3>2, CreditKeepsGained
  <2> QED BY <2>1, <2>2 DEF PushToken
<1>4. TypeOK'
    BY <1>2, <1>3 DEF IInv, TypeOK, PushToken
<1> QED BY <1>4 DEF IInv, PushToken, CurrentOrder, NativeAlive, NativeBufferLives

LEMMA PushNativeStep ==
    ASSUME IInv, PushNative
    PROVE  IInv'
<1> DEFINE push == pushes[next]
<1>1. next <= Len(pushes) /\ push.amount \in Nat
    BY PushAtNext, PushFields, AmountsAreNat DEF PushNative
<1>2. Len(pushes) \in Nat /\ next \in 1..Len(pushes) /\ next + 1 \in 1..(Len(pushes) + 1)
    BY <1>1 DEF IInv, TypeOK
<1>3. lamports' \in [LamportAccounts -> Nat] /\ gained' \in [Addresses \X Assets -> Nat]
  <2>1. CASE UNCHANGED <<lamports, gained>>
      BY <2>1 DEF IInv, TypeOK
  <2>2. CASE /\ push.source_buffer = NativeBuffer
             /\ push.destination \in LamportAccounts
             /\ MoveLamports(push.source_buffer, push.destination, push.amount)
             /\ Credit(NativeSol)
    <3>1. lamports' \in [LamportAccounts -> Nat]
        BY <1>1, <2>2, MoveKeepsLamports DEF IInv, TypeOK, LamportAccounts
    <3>2. NativeSol \in Assets
        BY KnownBuffersAssumption DEF Assets
    <3> QED BY <1>1, <2>2, <3>1, <3>2, CreditKeepsGained
  <2> QED BY <2>1, <2>2 DEF PushNative
<1>4. TypeOK'
    BY <1>2, <1>3 DEF IInv, TypeOK, PushNative
<1>5. NativeAlive'
  <2>1. CASE push.source_buffer = NativeBuffer
      BY <1>2, <2>1 DEF NativeAlive, PaysNative, PushNative
  <2>2. CASE push.source_buffer # NativeBuffer
      BY <2>2 DEF IInv, NativeAlive, PaysNative, PushNative
  <2> QED BY <2>1, <2>2
<1> QED BY <1>4, <1>5 DEF IInv, PushNative, CurrentOrder, NativeBufferLives

LEMMA EndFinalizeSettleStep ==
    ASSUME IInv, EndFinalizeSettle
    PROVE  IInv'
<1>1. lamports[NativeBuffer] \in Nat
    BY DEF IInv, TypeOK, LamportAccounts
<1>2. lamports[NativeBuffer] > 0
    BY <1>1 DEF IInv, NativeAlive, PaysNative, EndFinalizeSettle, NotEmptied
<1>3. pushes' = <<>> /\ pushes' \in Seq(PushSet) /\ Len(pushes') = 0
    BY DEF EndFinalizeSettle
<1>4. TypeOK'
    BY <1>3, AmountsAreNat DEF IInv, TypeOK, EndFinalizeSettle, ledger
<1> QED BY <1>2, <1>3, <1>4
        DEF IInv, EndFinalizeSettle, ledger, CurrentOrder, NativeAlive, NativeBufferLives

LEMMA WithdrawNativeSolStep ==
    ASSUME IInv, NEW w \in LamportAccounts, NEW n \in Amounts, WithdrawNativeSol(w, n)
    PROVE  IInv'
<1> DEFINE held == lamports[NativeBuffer]
           withdrawable == IF held >= NativeRent THEN held - NativeRent ELSE 0
           moved == Min({n, withdrawable})
<1>1. held \in Nat /\ held > 0 /\ NativeRent \in Nat /\ NativeRent > 0
    BY SettlementAssumption
       DEF IInv, TypeOK, LamportAccounts, NativeAlive, WithdrawNativeSol
<1>2. withdrawable \in Nat /\ held - withdrawable > 0
    BY <1>1
<1>3. n \in Nat
    BY AmountsAreNat
<1>4. moved \in Nat /\ moved <= withdrawable
    BY <1>2, <1>3, MinOfTwo
<1>5. MoveLamports(NativeBuffer, w, moved)
    BY DEF WithdrawNativeSol
<1> HIDE DEF moved, withdrawable
<1>6. lamports' \in [LamportAccounts -> Nat] /\ lamports'[NativeBuffer] >= held - moved
    BY <1>4, <1>5, MoveKeepsLamports DEF IInv, TypeOK, LamportAccounts
<1>7. lamports'[NativeBuffer] > 0
    BY <1>1, <1>2, <1>4, <1>6 DEF LamportAccounts
<1>8. TypeOK'
    BY <1>6 DEF IInv, TypeOK, WithdrawNativeSol, progress
<1> QED BY <1>7, <1>8
        DEF IInv, WithdrawNativeSol, progress, CurrentOrder, NativeAlive, NativeBufferLives

(* The runtime refuses a balance between nothing and the rent, and there   *)
(* is something.                                                           *)
LEMMA CommitStep ==
    ASSUME IInv, Commit
    PROVE  IInv'
<1>1. TypeOK'
    BY DEF IInv, TypeOK, Commit, ledger, progress
<1>2. lamports[NativeBuffer] \in Nat /\ lamports[NativeBuffer] > 0
    BY DEF IInv, TypeOK, LamportAccounts, NativeAlive, Commit
<1>3. (NativeAlive /\ NativeBufferLives)'
    BY <1>2 DEF Commit, ledger, NativeAlive, NativeBufferLives
<1> QED BY <1>1, <1>3 DEF IInv, Commit, ledger, progress, CurrentOrder

(* What others do changes token accounts only. *)
LEMMA ForeignStep ==
    ASSUME IInv, Foreign, tokens' \in [Accounts -> TokenAccount]
    PROVE  IInv'
<1>1. TypeOK'
    BY DEF IInv, TypeOK, Foreign, progress
<1> QED BY <1>1
        DEF IInv, Foreign, progress, CurrentOrder, NativeAlive, NativeBufferLives

LEMMA UserTransferStep ==
    ASSUME IInv, NEW a \in Accounts, NEW b \in Accounts, NEW n \in Amounts,
           UserTransfer(a, b, n)
    PROVE  IInv'
<1>1. tokens \in [Accounts -> TokenAccount] /\ n \in Nat
    BY AmountsAreNat DEF IInv, TypeOK
<1> DEFINE f == [tokens[a] EXCEPT !.amount = @ - n]
           t == [tokens[b] EXCEPT !.amount = @ + n]
<1>2. f \in TokenAccount /\ t \in TokenAccount
    BY <1>1 DEF UserTransfer, TokenAccount
<1>3. tokens' = [tokens EXCEPT ![a] = f, ![b] = t]
    BY <1>1 DEF UserTransfer, TokenAccount
<1>4. tokens' \in [Accounts -> TokenAccount]
    BY <1>1, <1>2, <1>3
<1> QED BY <1>4, ForeignStep DEF UserTransfer

LEMMA AccountChangeStep ==
    ASSUME IInv, NEW a \in Accounts,
           \/ \E n \in Amounts : Approve(a, n)
           \/ \E u \in Users : SetOwner(a, u)
           \/ \E m \in Mints : Recreate(a, m)
    PROVE  IInv'
<1>1. tokens \in [Accounts -> TokenAccount] /\ Foreign
    BY DEF IInv, TypeOK, Approve, SetOwner, Recreate
<1>2. ASSUME NEW n \in Amounts, Approve(a, n) PROVE tokens' \in [Accounts -> TokenAccount]
    BY <1>1, <1>2, AmountsAreNat DEF Approve, TokenAccount
<1>3. ASSUME NEW u \in Users, SetOwner(a, u) PROVE tokens' \in [Accounts -> TokenAccount]
    BY <1>1, <1>3 DEF SetOwner, TokenAccount, Owners
<1>4. ASSUME NEW m \in Mints, Recreate(a, m) PROVE tokens' \in [Accounts -> TokenAccount]
  <2> DEFINE new == [tokens[a] EXCEPT !.mint = m, !.delegated = 0]
  <2>1. new \in TokenAccount
      BY <1>1 DEF TokenAccount
  <2>2. tokens' = [tokens EXCEPT ![a] = new]
      BY <1>1, <1>4 DEF Recreate
  <2> HIDE DEF new
  <2> QED BY <1>1, <2>1, <2>2
<1> QED BY <1>1, <1>2, <1>3, <1>4, ForeignStep

LEMMA NextKeepsIInv == IInv /\ [Next]_vars => IInv'
<1> SUFFICES ASSUME IInv, [Next]_vars PROVE IInv'
    OBVIOUS
<1>1. CASE UNCHANGED vars
    BY <1>1 DEF vars, ledger, progress, IInv, TypeOK, CurrentOrder, NativeAlive, PaysNative,
                NativeBufferLives
<1>2. CASE StartTransaction \/ EndBeginSettle \/ FinalizeSettle \/ StartNativeLoop
    BY <1>2, MarkerStep
<1>3. CASE \E n \in 0..MaxPushes : \E list \in [1..n -> PushSet] : BeginSettle(list)
    BY <1>3, BeginSettleStep
<1>4. CASE \E o \in Orders : ProcessOrder(o)
    BY <1>4, ProcessOrderStep
<1>5. CASE \E a \in Accounts, n \in Amounts : Pull(a, n)
    BY <1>5, PullStep
<1>6. CASE RecordFill
    BY <1>6, RecordFillStep
<1>7. CASE PushToken
    BY <1>7, PushTokenStep
<1>8. CASE PushNative
    BY <1>8, PushNativeStep
<1>9. CASE EndFinalizeSettle
    BY <1>9, EndFinalizeSettleStep
<1>10. CASE \E w \in LamportAccounts, n \in Amounts : WithdrawNativeSol(w, n)
    BY <1>10, WithdrawNativeSolStep
<1>11. CASE Commit
    BY <1>11, CommitStep
<1>12. CASE \E a, b \in Accounts, n \in Amounts : UserTransfer(a, b, n)
    BY <1>12, UserTransferStep
<1>13. CASE \/ \E a \in Accounts, n \in Amounts : Approve(a, n)
            \/ \E a \in Accounts, u \in Users : SetOwner(a, u)
            \/ \E a \in Accounts, m \in Mints : Recreate(a, m)
    BY <1>13, AccountChangeStep
<1> QED BY <1>1, <1>2, <1>3, <1>4, <1>5, <1>6, <1>7, <1>8, <1>9, <1>10, <1>11, <1>12,
           <1>13 DEF Next

(* Over any sequence of settlements of any orders with any pushes, no fill *)
(* and no sum of pulls outgrows a u64 and no balance, delegation or        *)
(* lamport count becomes negative.                                         *)
THEOREM NumbersFit == Spec => []TypeOK
<1>1. IInv => TypeOK
    BY DEF IInv
<1> QED BY <1>1, InitIsGood, NextKeepsIInv, PTL DEF Spec

(* The native SOL buffer is rent exempt after every transaction, whatever  *)
(* it pays out and withdraws: the check at the end of push_funds excludes  *)
(* zero, and the runtime all that is left between zero and the rent.       *)
THEOREM NativeBufferSurvives == Spec => []NativeBufferLives
<1>1. IInv => NativeBufferLives
    BY DEF IInv
<1> QED BY <1>1, InitIsGood, NextKeepsIInv, PTL DEF Spec
-----------------------------------------------------------------------------
(* The pulls.  While those of an order run, its sell account stays what    *)
(* ProcessOrder found; a buffer stays one for good.                        *)
SellAccountHeld == phase = "pulls" => ValidateSellAccount(Book[previous])

BuffersKept ==
    \A d \in DOMAIN Derived : Derived[d] \in Accounts =>
        tokens[Derived[d]].owner = StatePda /\ tokens[Derived[d]].mint = d[1]

(* What is pulled but not yet recorded. *)
Underway(u, m) ==
    IF phase = "pulls" /\ previous \in OrdersSelling(u, m) THEN amount_in ELSE 0

PullsAccounted ==
    \A u \in Owners, m \in Mints :
        lost[<<u, m>>] <= TotalWithdrawn(OrdersSelling(u, m)) + Underway(u, m)

PullsInv == SellAccountHeld /\ BuffersKept /\ PullsAccounted

(* A transfer changes nobody's owner or mint. *)
LEMMA TransferKeepsIdentity ==
    ASSUME tokens \in [Accounts -> TokenAccount],
           NEW from, NEW to, NEW n \in Nat, Transfer(from, to, n), NEW a \in Accounts
    PROVE  tokens'[a].owner = tokens[a].owner /\ tokens'[a].mint = tokens[a].mint
<1>1. from \in Accounts /\ to \in Accounts
    BY DEF Transfer, CanTransfer
<1> QED BY <1>1 DEF Transfer, TokenAccount

(* Whatever happens, an account keeps its owner and its mint, unless it is *)
(* a user's and the step is taken outside of both instructions.            *)
LEMMA IdentityKept ==
    ASSUME IInv, [Next]_vars, NEW a \in Accounts
    PROVE  \/ tokens'[a].owner = tokens[a].owner /\ tokens'[a].mint = tokens[a].mint
           \/ tokens[a].owner \in Users /\ Foreign
<1>1. tokens \in [Accounts -> TokenAccount]
    BY DEF IInv, TypeOK
<1>2. ASSUME NEW to \in Accounts, NEW n \in Amounts, Pull(to, n)
      PROVE  tokens'[a].owner = tokens[a].owner /\ tokens'[a].mint = tokens[a].mint
    BY <1>1, <1>2, TransferKeepsIdentity, AmountsAreNat DEF Pull
<1>3. ASSUME PushToken
      PROVE  tokens'[a].owner = tokens[a].owner /\ tokens'[a].mint = tokens[a].mint
  <2>1. pushes[next].amount \in Nat
      BY <1>3, PushAtNext, PushFields, AmountsAreNat DEF PushToken
  <2> QED BY <1>1, <1>3, <2>1, TransferKeepsIdentity DEF PushToken
<1>4. ASSUME NEW x \in Accounts, NEW y \in Accounts, NEW n \in Amounts, UserTransfer(x, y, n)
      PROVE  tokens'[a].owner = tokens[a].owner /\ tokens'[a].mint = tokens[a].mint
    BY <1>1, <1>4 DEF UserTransfer, TokenAccount
<1>5. ASSUME NEW x \in Accounts,
             \/ \E n \in Amounts : Approve(x, n)
             \/ \E u \in Users : SetOwner(x, u)
             \/ \E m \in Mints : Recreate(x, m)
      PROVE  \/ tokens'[a].owner = tokens[a].owner /\ tokens'[a].mint = tokens[a].mint
             \/ tokens[a].owner \in Users /\ Foreign
  <2>1. Foreign /\ tokens[x].owner \in Users
      BY <1>5 DEF Approve, SetOwner, Recreate
  <2>2. a # x => tokens'[a] = tokens[a]
      BY <1>1, <1>5 DEF Approve, SetOwner, Recreate
  <2> QED BY <2>1, <2>2
<1>6. \/ tokens' = tokens
      \/ \E to \in Accounts, n \in Amounts : Pull(to, n)
      \/ PushToken
      \/ \E x, y \in Accounts, m \in Amounts : UserTransfer(x, y, m)
      \/ \E x \in Accounts, m \in Amounts : Approve(x, m)
      \/ \E x \in Accounts, u \in Users : SetOwner(x, u)
      \/ \E x \in Accounts, m \in Mints : Recreate(x, m)
    BY DEF Next, vars, ledger, progress, StartTransaction, BeginSettle, ProcessOrder, RecordFill,
           EndBeginSettle, FinalizeSettle, StartNativeLoop, PushNative, EndFinalizeSettle,
           WithdrawNativeSol, Commit
<1> QED BY <1>2, <1>3, <1>4, <1>5, <1>6

(* How pulls begin and go on. *)
LEMMA InPulls ==
    ASSUME [Next]_vars, phase' = "pulls"
    PROVE  \/ \E o \in Orders : ProcessOrder(o)
           \/ phase = "pulls" /\ previous' = previous
BY DEF Next, vars, ledger, progress, StartTransaction, BeginSettle, ProcessOrder, RecordFill,
       EndBeginSettle, FinalizeSettle, StartNativeLoop, PushNative, EndFinalizeSettle, PushToken,
       WithdrawNativeSol, Commit, Pull, UserTransfer, Approve, SetOwner, Recreate, Foreign
(* The sums over fills are numbers. *)
LEMMA TotalsAreNat ==
    ASSUME IInv, NEW S \in SUBSET Orders
    PROVE  TotalWithdrawn(S) \in Nat /\ TotalReceived(S) \in Nat
<1>1. IsFiniteSet(S)
    BY SettlementAssumption, FS_Subset
<1>2. \A o \in S : fill[o].withdrawn \in Nat /\ fill[o].received \in Nat
    BY AmountsAreNat DEF IInv, TypeOK, FillAmounts
<1> QED BY <1>1, <1>2, SumSplits DEF TotalWithdrawn, TotalReceived

(* RecordFill adds the current order's amounts to the sums it is in. *)
LEMMA RecordFillAddsToTotals ==
    ASSUME IInv, IInv', RecordFill, NEW S \in SUBSET Orders
    PROVE  /\ TotalWithdrawn(S)' = TotalWithdrawn(S) + (IF previous \in S THEN amount_in ELSE 0)
           /\ TotalReceived(S)' =
                TotalReceived(S) + (IF previous \in S THEN pushes[next].amount ELSE 0)
<1> DEFINE w == [o \in Orders |-> fill[o].withdrawn]
           w2 == [o \in Orders |-> fill'[o].withdrawn]
           r == [o \in Orders |-> fill[o].received]
           r2 == [o \in Orders |-> fill'[o].received]
           amount == pushes[next].amount
<1>1. IsFiniteSet(S)
    BY SettlementAssumption, FS_Subset
<1>2. \A o \in S : w[o] \in Nat /\ w2[o] \in Nat /\ r[o] \in Nat /\ r2[o] \in Nat
    BY AmountsAreNat DEF IInv, TypeOK, FillAmounts
<1>3. previous \in Orders /\ amount_in \in Nat /\ amount \in Nat
    BY PushAtNext, PushFields, AmountsAreNat DEF IInv, TypeOK, CurrentOrder, RecordFill
<1>4. /\ fill' = [fill EXCEPT ![previous] =
                    AddFills(@, [withdrawn |-> amount_in, received |-> amount])]
      /\ fill \in [Orders -> FillAmounts]
    BY DEF IInv, TypeOK, RecordFill
<1>5. /\ \A o \in Orders \ {previous} : w[o] = w2[o] /\ r[o] = r2[o]
      /\ w2[previous] = w[previous] + amount_in
      /\ r2[previous] = r[previous] + amount
    BY <1>3, <1>4 DEF AddFills
<1>6. /\ TotalWithdrawn(S) = SumFunctionOnSet(w, S) /\ TotalReceived(S) = SumFunctionOnSet(r, S)
      /\ TotalWithdrawn(S)' = SumFunctionOnSet(w2, S)
      /\ TotalReceived(S)' = SumFunctionOnSet(r2, S)
    BY DEF TotalWithdrawn, TotalReceived
<1>7. SumFunctionOnSet(w, S) \in Nat /\ SumFunctionOnSet(r, S) \in Nat
    BY <1>1, <1>2, SumSplits
<1> HIDE DEF w, w2, r, r2, amount
<1>8. CASE previous \in S
  <2>1. /\ SumFunctionOnSet(w2, S) = SumFunctionOnSet(w, S) - w[previous] + w2[previous]
        /\ SumFunctionOnSet(r2, S) = SumFunctionOnSet(r, S) - r[previous] + r2[previous]
      BY <1>1, <1>2, <1>5, <1>8, SumChange
  <2>2. w[previous] \in Nat /\ r[previous] \in Nat
      BY <1>2, <1>8
  <2> QED BY <1>3, <1>5, <1>6, <1>7, <1>8, <2>1, <2>2 DEF amount
<1>9. CASE previous \notin S
  <2>1. /\ SumFunctionOnSet(w2, S) = SumFunctionOnSet(w, S)
        /\ SumFunctionOnSet(r2, S) = SumFunctionOnSet(r, S)
      BY <1>1, <1>5, <1>9, SumSame
  <2> QED BY <1>6, <1>7, <1>9, <2>1
<1> QED BY <1>8, <1>9

(* A pull is booked on the owner and the mint of the order it is for. *)
LEMMA PullIsAccounted ==
    ASSUME IInv, PullsInv, NEW a \in Accounts, NEW n \in Amounts, Pull(a, n)
    PROVE  PullsAccounted'
<1> DEFINE from == Book[previous].sell_token_account
           owner == Book[previous].owner
           mint == Book[previous].sell_mint
<1>1. n \in Nat /\ amount_in \in Nat /\ amount_in' = amount_in + n
    BY AmountsAreNat DEF IInv, TypeOK, Pull
<1>2. previous \in OrdersSelling(owner, mint) /\ phase = "pulls" /\ previous' = previous
    BY DEF IInv, CurrentOrder, Pull, OrdersSelling
<1>3. tokens[from].owner = owner /\ tokens[from].mint = mint
    BY DEF PullsInv, SellAccountHeld, ValidateSellAccount, Pull
<1>4. lost' = lost \/ lost' = [lost EXCEPT ![<<owner, mint>>] = @ + n]
    BY <1>3 DEF Pull
<1>5. lost \in [Owners \X Mints -> Nat] /\ fill' = fill /\ phase' = phase
    BY DEF IInv, TypeOK, Pull
<1> SUFFICES ASSUME NEW u \in Owners, NEW m \in Mints
             PROVE  lost'[<<u, m>>] <= (TotalWithdrawn(OrdersSelling(u, m)) + Underway(u, m))'
    BY DEF PullsAccounted
<1>6. lost[<<u, m>>] <= TotalWithdrawn(OrdersSelling(u, m)) + Underway(u, m)
    BY DEF PullsInv, PullsAccounted
<1>7. OrdersSelling(u, m) \in SUBSET Orders
    BY DEF OrdersSelling
<1>8. TotalWithdrawn(OrdersSelling(u, m)) \in Nat
    BY <1>7, TotalsAreNat
<1>9. TotalWithdrawn(OrdersSelling(u, m))' = TotalWithdrawn(OrdersSelling(u, m))
    BY <1>5 DEF TotalWithdrawn, OrdersSelling
<1>10. <<u, m>> \in Owners \X Mints /\ lost[<<u, m>>] \in Nat
    BY <1>5
<1>11. CASE u = owner /\ m = mint
  <2>1. Underway(u, m) = amount_in /\ Underway(u, m)' = amount_in + n
      BY <1>1, <1>2, <1>5, <1>11 DEF Underway, OrdersSelling
  <2>2. lost'[<<u, m>>] <= lost[<<u, m>>] + n
      BY <1>1, <1>4, <1>5, <1>10
  <2>3. lost'[<<u, m>>] \in Nat
      BY <1>1, <1>4, <1>5, <1>10
  <2> QED BY <1>1, <1>6, <1>8, <1>9, <1>10, <2>1, <2>2, <2>3
<1>12. CASE ~(u = owner /\ m = mint)
  <2>1. Underway(u, m)' = Underway(u, m)
      BY <1>2, <1>5, <1>12 DEF Underway, OrdersSelling
  <2>2. lost'[<<u, m>>] = lost[<<u, m>>]
      BY <1>4, <1>5, <1>10, <1>12
  <2> QED BY <1>6, <1>9, <2>1, <2>2
<1> QED BY <1>11, <1>12
(* RecordFill moves what is underway into the fill. *)
LEMMA RecordingIsAccounted ==
    ASSUME IInv, IInv', PullsInv, RecordFill
    PROVE  PullsAccounted'
<1> SUFFICES ASSUME NEW u \in Owners, NEW m \in Mints
             PROVE  lost'[<<u, m>>] <= (TotalWithdrawn(OrdersSelling(u, m)) + Underway(u, m))'
    BY DEF PullsAccounted
<1> DEFINE S == OrdersSelling(u, m)
<1>1. lost[<<u, m>>] <= TotalWithdrawn(S) + Underway(u, m)
    BY DEF PullsInv, PullsAccounted
<1>2. S \in SUBSET Orders /\ S' = S
    BY DEF OrdersSelling
<1>3. TotalWithdrawn(S)' = TotalWithdrawn(S) + (IF previous \in S THEN amount_in ELSE 0)
    BY <1>2, RecordFillAddsToTotals
<1>4. Underway(u, m) = (IF previous \in S THEN amount_in ELSE 0) /\ Underway(u, m)' = 0
    BY DEF Underway, RecordFill
<1>5. lost' = lost /\ amount_in \in Nat
    BY AmountsAreNat DEF IInv, TypeOK, RecordFill
<1>6. TotalWithdrawn(S) \in Nat
    BY <1>2, TotalsAreNat
<1> HIDE DEF S
<1>7. TotalWithdrawn(S)' + Underway(u, m)' = TotalWithdrawn(S) + Underway(u, m)
    BY <1>3, <1>4, <1>5, <1>6
<1> QED BY <1>1, <1>5, <1>7 DEF S

(* Any other step leaves the fills and the history of pulls alone. *)
LEMMA OtherStepsPullNothing ==
    ASSUME IInv, PullsInv, [Next]_vars, ~RecordFill,
           \A a \in Accounts, n \in Amounts : ~Pull(a, n)
    PROVE  PullsAccounted'
<1>1. fill' = fill /\ lost' = lost
    BY DEF Next, vars, ledger, progress, StartTransaction, BeginSettle, ProcessOrder,
           EndBeginSettle, FinalizeSettle, StartNativeLoop, PushNative, EndFinalizeSettle,
           PushToken, WithdrawNativeSol, Commit, UserTransfer, Approve, SetOwner, Recreate, Foreign
<1>2. phase = "pulls" => UNCHANGED <<phase, previous, amount_in>>
    BY DEF Next, vars, ledger, progress, StartTransaction, BeginSettle, ProcessOrder,
           EndBeginSettle, FinalizeSettle, StartNativeLoop, PushNative, EndFinalizeSettle,
           PushToken, WithdrawNativeSol, Commit, UserTransfer, Approve, SetOwner, Recreate, Foreign
<1>3. phase # "pulls" /\ phase' = "pulls" => amount_in' = 0
    BY InPulls DEF ProcessOrder
<1> SUFFICES ASSUME NEW u \in Owners, NEW m \in Mints
             PROVE  lost'[<<u, m>>] <= (TotalWithdrawn(OrdersSelling(u, m)) + Underway(u, m))'
    BY DEF PullsAccounted
<1>4. lost[<<u, m>>] <= TotalWithdrawn(OrdersSelling(u, m)) + Underway(u, m)
    BY DEF PullsInv, PullsAccounted
<1>5. TotalWithdrawn(OrdersSelling(u, m))' = TotalWithdrawn(OrdersSelling(u, m))
    BY <1>1 DEF TotalWithdrawn, OrdersSelling
<1>6. Underway(u, m)' = Underway(u, m)
    BY <1>2, <1>3 DEF Underway, OrdersSelling
<1> QED BY <1>1, <1>4, <1>5, <1>6

LEMMA NextKeepsPullsInv == IInv /\ IInv' /\ PullsInv /\ [Next]_vars => PullsInv'
<1> SUFFICES ASSUME IInv, IInv', PullsInv, [Next]_vars PROVE PullsInv'
    OBVIOUS
<1>1. BuffersKept'
  <2> SUFFICES ASSUME NEW d \in DOMAIN Derived, Derived[d] \in Accounts
               PROVE  tokens'[Derived[d]].owner = StatePda /\ tokens'[Derived[d]].mint = d[1]
      BY DEF BuffersKept
  <2>1. tokens[Derived[d]].owner = StatePda /\ tokens[Derived[d]].mint = d[1]
      BY DEF PullsInv, BuffersKept
  <2> QED BY <2>1, IdentityKept, SettlementAssumption
<1>2. SellAccountHeld'
  <2> SUFFICES ASSUME phase' = "pulls" PROVE ValidateSellAccount(Book[previous])'
      BY DEF SellAccountHeld
  <2>1. CASE \E o \in Orders : ProcessOrder(o)
      BY <2>1 DEF ProcessOrder, ledger, ValidateSellAccount
  <2>2. CASE phase = "pulls" /\ previous' = previous
    <3>1. ValidateSellAccount(Book[previous]) /\ previous \in Orders /\ ~Foreign
        BY <2>2 DEF PullsInv, SellAccountHeld, IInv, CurrentOrder, Foreign
    <3>2. Book[previous].sell_token_account \in Accounts
        BY <3>1, SettlementAssumption DEF Intent
    <3> QED BY <2>2, <3>1, <3>2, IdentityKept DEF ValidateSellAccount
  <2> QED BY <2>1, <2>2, InPulls
<1>3. PullsAccounted'
    BY PullIsAccounted, RecordingIsAccounted, OtherStepsPullNothing
<1> QED BY <1>1, <1>2, <1>3 DEF PullsInv

LEMMA InitPullsInv == Init => PullsInv
<1> SUFFICES ASSUME Init PROVE PullsInv
    OBVIOUS
<1>1. SellAccountHeld /\ BuffersKept
    BY DerivedAssumption DEF Init, SellAccountHeld, BuffersKept
<1>2. ASSUME NEW u \in Owners, NEW m \in Mints
      PROVE  lost[<<u, m>>] <= TotalWithdrawn(OrdersSelling(u, m)) + Underway(u, m)
  <2>1. OrdersSelling(u, m) \in SUBSET Orders
      BY DEF OrdersSelling
  <2>2. TotalWithdrawn(OrdersSelling(u, m)) \in Nat
      BY <2>1, InitIsGood, TotalsAreNat
  <2>3. lost[<<u, m>>] = 0 /\ Underway(u, m) = 0
      BY DEF Init, Underway
  <2> QED BY <2>2, <2>3
<1> QED BY <1>1, <1>2 DEF PullsInv, PullsAccounted

(* G1, for any orders, any sequence of settlements and any accounts that   *)
(* change hands between them: what left an owner's accounts under the      *)
(* program's signature is recorded on that owner's own orders.             *)
THEOREM FundsMove == Spec => []FundsMoveForOwnOrders
<1>1. IInv /\ PullsInv => FundsMoveForOwnOrders
  <2> SUFFICES ASSUME IInv, PullsInv, phase = "idle", NEW u \in Owners, NEW m \in Mints
               PROVE  lost[<<u, m>>] <= TotalWithdrawn(OrdersSelling(u, m))
      BY DEF FundsMoveForOwnOrders
  <2>1. OrdersSelling(u, m) \in SUBSET Orders
      BY DEF OrdersSelling
  <2>2. TotalWithdrawn(OrdersSelling(u, m)) \in Nat
      BY <2>1, TotalsAreNat
  <2>3. Underway(u, m) = 0
      BY DEF Underway
  <2> QED BY <2>2, <2>3 DEF PullsInv, PullsAccounted
<1> QED BY <1>1, InitIsGood, NextKeepsIInv, InitPullsInv, NextKeepsPullsInv, PTL DEF Spec
-----------------------------------------------------------------------------
(* The pushes.  A push is paid in the mint its source is a buffer of. *)
PaysIn(push, m) ==
    IF m = NativeSol THEN push.source_buffer = NativeBuffer
    ELSE \E d \in DOMAIN Derived : d[1] = m /\ push.source_buffer = Derived[d]

IsNative(k) == pushes[k].source_buffer = NativeBuffer

(* The pushes that BeginSettle has paired with an order so far. *)
Paired == IF phase \in {"orders", "pulls"} THEN 1..(next - 1) ELSE 1..Len(pushes)

PushesValidated ==
    /\ \A k \in Paired : /\ pushes[k].source_buffer # pushes[k].destination
                         /\ \E m \in Assets : PaysIn(pushes[k], m)
    /\ phase = "pulls" => ValidatePush(pushes[next], Book[previous])

PushList ==
    /\ phase \in {"idle", "open"} => pushes = <<>>
    /\ phase = "between" => next > Len(pushes)

(* The pushes that are recorded as received and not paid yet: in the first *)
(* loop of push_funds the native ones stay behind.                         *)
IsPending(k) ==
    \/ phase \in {"orders", "pulls", "between"} /\ k < next
    \/ phase = "tokens" /\ (k >= next \/ IsNative(k))
    \/ phase = "native" /\ k >= next /\ IsNative(k)

PendingInto(a, m) ==
    {k \in 1..Len(pushes) :
        IsPending(k) /\ pushes[k].destination = a /\ PaysIn(pushes[k], m)}

PushAmounts == [k \in 1..Len(pushes) |-> pushes[k].amount]

PushesAccounted ==
    \A a \in Addresses, m \in Assets :
        TotalReceived(OrdersBuying(a, m))
            = gained[<<a, m>>] + SumFunctionOnSet(PushAmounts, PendingInto(a, m))

PushesInv == PushesValidated /\ PushList /\ PushesAccounted

(* A push pays in one mint only. *)
LEMMA OneMint ==
    ASSUME NEW push, NEW m \in Assets, NEW other \in Assets, PaysIn(push, m), PaysIn(push, other)
    PROVE  m = other
<1>1. CASE m = NativeSol
    BY <1>1, DerivedAssumption DEF PaysIn
<1>2. CASE other = NativeSol
    BY <1>2, DerivedAssumption DEF PaysIn
<1>3. CASE m # NativeSol /\ other # NativeSol
    BY <1>3, DerivedAssumption DEF PaysIn
<1> QED BY <1>1, <1>2, <1>3

(* A validated push pays in the mint that the order buys. *)
LEMMA ValidatedPaysIn ==
    ASSUME NEW push \in PushSet, NEW o \in Orders, ValidatePush(push, Book[o])
    PROVE  PaysIn(push, Book[o].buy_mint) /\ Book[o].buy_mint \in Assets
<1> DEFINE mint == Book[o].buy_mint
<1>1. mint \in AllMints /\ push.bump \in Nat
    BY SettlementAssumption DEF Intent, Push, Assets
<1>2. ValidateBufferPda(push.source_buffer, mint, push.bump)
    BY DEF ValidatePush
<1> HIDE DEF mint
<1>3. \/ push.source_buffer = Buffer[mint]
      \/ /\ mint # NativeSol
         /\ <<mint, push.bump>> \in DOMAIN Derived
         /\ push.source_buffer = Derived[<<mint, push.bump>>]
    BY <1>1, <1>2, OnlyBuffersPass, BuildAssumption
<1>4. ASSUME mint = NativeSol PROVE PaysIn(push, mint)
    BY <1>1, <1>3, <1>4 DEF Buffer, PaysIn
<1>5. ASSUME mint # NativeSol PROVE PaysIn(push, mint)
  <2>1. /\ <<mint, CanonicalBump[mint]>> \in DOMAIN Derived
        /\ Buffer[mint] = Derived[<<mint, CanonicalBump[mint]>>]
      BY <1>1, <1>5, KnownBuffersAssumption DEF Mints, Buffer
  <2>2. \E b \in {push.bump, CanonicalBump[mint]} :
            <<mint, b>> \in DOMAIN Derived /\ push.source_buffer = Derived[<<mint, b>>]
      BY <1>3, <2>1
  <2> QED BY <1>5, <2>2 DEF PaysIn
<1>6. PaysIn(push, mint) /\ mint \in Assets
    BY <1>1, <1>4, <1>5 DEF Assets
<1> QED BY <1>6 DEF mint

(* A sum over pushes is a number, and one more push adds its amount. *)
LEMMA PushSums ==
    ASSUME IInv, NEW S \in SUBSET (1..Len(pushes))
    PROVE  /\ SumFunctionOnSet(PushAmounts, S) \in Nat
           /\ \A k \in S : SumFunctionOnSet(PushAmounts, S)
                             = pushes[k].amount + SumFunctionOnSet(PushAmounts, S \ {k})
<1>1. Len(pushes) \in Nat
    BY DEF IInv
<1>2. IsFiniteSet(1..Len(pushes))
    BY <1>1, FS_Interval
<1>3. IsFiniteSet(S)
    BY <1>2, FS_Subset
<1>4. \A k \in S : PushAmounts[k] \in Nat /\ PushAmounts[k] = pushes[k].amount
    BY PushFields, AmountsAreNat DEF IInv, TypeOK, PushAmounts
<1> DEFINE sum(T) == SumFunctionOnSet(PushAmounts, T)
<1>5. sum(S) \in Nat /\ \A k \in S : sum(S) = PushAmounts[k] + sum(S \ {k})
    BY <1>3, <1>4, SumSplits
<1> HIDE DEF sum
<1>6. \A k \in S : sum(S) = pushes[k].amount + sum(S \ {k})
    BY <1>4, <1>5
<1> QED BY <1>5, <1>6 DEF sum
(* Steps that record and pay nothing keep the account, if the same pushes  *)
(* stay pending or none are pending before and after.                      *)
LEMMA NothingPaid ==
    ASSUME PushesAccounted, fill' = fill, gained' = gained,
           \/ pushes' = pushes /\ \A k \in 1..Len(pushes) : IsPending(k)' <=> IsPending(k)
           \/ /\ \A k \in 1..Len(pushes) : ~IsPending(k)
              /\ \A k \in 1..Len(pushes') : ~IsPending(k)'
    PROVE  PushesAccounted'
<1> SUFFICES ASSUME NEW a \in Addresses, NEW m \in Assets
             PROVE  TotalReceived(OrdersBuying(a, m))'
                      = gained'[<<a, m>>] + SumFunctionOnSet(PushAmounts', PendingInto(a, m)')
    BY DEF PushesAccounted
<1>1. TotalReceived(OrdersBuying(a, m))
        = gained[<<a, m>>] + SumFunctionOnSet(PushAmounts, PendingInto(a, m))
    BY DEF PushesAccounted
<1>2. TotalReceived(OrdersBuying(a, m))' = TotalReceived(OrdersBuying(a, m))
    BY DEF TotalReceived, OrdersBuying
<1>3. SumFunctionOnSet(PushAmounts', PendingInto(a, m)')
        = SumFunctionOnSet(PushAmounts, PendingInto(a, m))
  <2>1. CASE pushes' = pushes /\ \A k \in 1..Len(pushes) : IsPending(k)' <=> IsPending(k)
    <3>1. PendingInto(a, m)' = PendingInto(a, m)
        BY <2>1 DEF PendingInto, PaysIn
    <3>2. PushAmounts' = PushAmounts
        BY <2>1 DEF PushAmounts
    <3> QED BY <3>1, <3>2
  <2>2. CASE /\ \A k \in 1..Len(pushes) : ~IsPending(k)
             /\ \A k \in 1..Len(pushes') : ~IsPending(k)'
    <3>1. PendingInto(a, m) = {} /\ PendingInto(a, m)' = {}
        BY <2>2 DEF PendingInto
    <3> QED BY <3>1, SumEmpty
  <2> QED BY <2>1, <2>2
<1> QED BY <1>1, <1>2, <1>3

(* BeginSettle and EndFinalizeSettle replace the list of pushes when none  *)
(* is owed.                                                                *)
LEMMA NewListStep ==
    ASSUME IInv, PushesInv,
           \/ \E n \in 0..MaxPushes : \E list \in [1..n -> PushSet] : BeginSettle(list)
           \/ EndFinalizeSettle
    PROVE  PushesInv'
<1>1. CASE \E n \in 0..MaxPushes : \E list \in [1..n -> PushSet] : BeginSettle(list)
  <2>1. PICK n \in 0..MaxPushes : \E list \in [1..n -> PushSet] : BeginSettle(list)
      BY <1>1
  <2>2. PICK list \in [1..n -> PushSet] : BeginSettle(list)
      BY <2>1
  <2>3. n \in Nat
      BY SettlementAssumption
  <2>4. Len(pushes') = n
      BY <2>2, <2>3 DEF BeginSettle
  <2>5. /\ \A k \in 1..Len(pushes) : ~IsPending(k)
        /\ \A k \in 1..Len(pushes') : ~IsPending(k)'
      BY <2>2, <2>3, <2>4 DEF IsPending, BeginSettle
  <2>6. PushesAccounted'
      BY <2>2, <2>5, NothingPaid DEF PushesInv, BeginSettle, ledger
  <2> QED BY <2>2, <2>6 DEF PushesInv, BeginSettle, PushesValidated, PushList, Paired
<1>2. CASE EndFinalizeSettle
  <2>1. Len(pushes) \in Nat /\ next \in Nat /\ Len(pushes') = 0
      BY <1>2 DEF IInv, TypeOK, EndFinalizeSettle
  <2>2. /\ \A k \in 1..Len(pushes) : ~IsPending(k)
        /\ \A k \in 1..Len(pushes') : ~IsPending(k)'
      BY <1>2, <2>1 DEF IsPending, EndFinalizeSettle
  <2>3. PushesAccounted'
      BY <1>2, <2>2, NothingPaid DEF PushesInv, EndFinalizeSettle, ledger
  <2> QED BY <1>2, <2>1, <2>3 DEF PushesInv, EndFinalizeSettle, PushesValidated, PushList, Paired
<1> QED BY <1>1, <1>2

(* ProcessOrder, the pulls and the steps between the loops change what is  *)
(* owed by nothing.                                                        *)
LEMMA SamePendingStep ==
    ASSUME IInv, PushesInv,
           \/ \E o \in Orders : ProcessOrder(o)
           \/ \E a \in Accounts, n \in Amounts : Pull(a, n)
           \/ StartTransaction \/ EndBeginSettle \/ FinalizeSettle \/ StartNativeLoop \/ Commit
    PROVE  PushesInv'
<1>1. Len(pushes) \in Nat /\ next \in Nat
    BY DEF IInv, TypeOK
<1>2. pushes' = pushes /\ fill' = fill /\ gained' = gained
    BY DEF ProcessOrder, Pull, StartTransaction, EndBeginSettle, FinalizeSettle, StartNativeLoop,
           Commit, ledger, progress
<1>3. \A k \in 1..Len(pushes) : IsPending(k)' <=> IsPending(k)
    BY <1>1, <1>2
       DEF IsPending, IsNative, PushesInv, PushList, ProcessOrder, Pull, StartTransaction,
           EndBeginSettle, FinalizeSettle, StartNativeLoop, Commit, ledger, progress
<1>4. PushesAccounted'
    BY <1>2, <1>3, NothingPaid DEF PushesInv
<1>5. PushList'
    BY <1>1, <1>2
       DEF PushesInv, PushList, ProcessOrder, Pull, StartTransaction, EndBeginSettle,
           FinalizeSettle, StartNativeLoop, Commit, ledger, progress
<1>6. Paired' \subseteq Paired
    BY <1>1, <1>2 DEF Paired, ProcessOrder, Pull, StartTransaction, EndBeginSettle,
           FinalizeSettle, StartNativeLoop, Commit, ledger, progress
<1>7. phase' = "pulls" => ValidatePush(pushes[next], Book[previous])'
    BY <1>2 DEF PushesInv, PushesValidated, ProcessOrder, Pull, StartTransaction, EndBeginSettle,
           FinalizeSettle, StartNativeLoop, Commit, ledger, progress, ValidatePush
<1>8. PushesValidated'
    BY <1>2, <1>6, <1>7 DEF PushesInv, PushesValidated, PaysIn
<1> QED BY <1>4, <1>5, <1>8 DEF PushesInv

(* What happens outside of both instructions neither pays nor records. *)
LEMMA OutsideStep ==
    ASSUME IInv, PushesInv, phase' = phase, next' = next, previous' = previous,
           pushes' = pushes, fill' = fill, gained' = gained
    PROVE  PushesInv'
<1>1. PushesAccounted'
    BY NothingPaid DEF PushesInv, IsPending, IsNative
<1>2. PushesValidated' /\ PushList'
    BY DEF PushesInv, PushesValidated, PushList, Paired, PaysIn, ValidatePush
<1> QED BY <1>1, <1>2 DEF PushesInv
(* RecordFill records what the push at next will pay. *)
LEMMA RecordFillIsOwed ==
    ASSUME IInv, IInv', PushesInv, RecordFill
    PROVE  PushesInv'
<1> DEFINE push == pushes[next]
           dest == Book[previous].buy_token_account
           mint == Book[previous].buy_mint
<1>1. /\ Len(pushes) \in Nat /\ next \in 1..Len(pushes) /\ previous \in Orders
      /\ push \in PushSet /\ push.amount \in Nat
  <2>1. previous \in Orders /\ next <= Len(pushes)
      BY DEF IInv, CurrentOrder, RecordFill
  <2>2. Len(pushes) \in Nat /\ next \in 1..Len(pushes)
      BY <2>1 DEF IInv, TypeOK
  <2>3. push \in PushSet
      BY <2>1, PushAtNext
  <2> QED BY <2>1, <2>2, <2>3, PushFields, AmountsAreNat
<1>2. ValidatePush(push, Book[previous]) /\ phase = "pulls"
    BY DEF PushesInv, PushesValidated, RecordFill
<1>3. PaysIn(push, mint) /\ mint \in Assets
    BY <1>1, <1>2, ValidatedPaysIn
<1>4. push.destination = dest /\ push.source_buffer # push.destination
    BY <1>2 DEF ValidatePush
<1>5. pushes' = pushes /\ next' = next + 1 /\ gained' = gained /\ phase' = "orders"
    BY DEF RecordFill
<1>6. \A k \in 1..Len(pushes) : IsPending(k)' <=> IsPending(k) \/ k = next
    BY <1>1, <1>2, <1>5 DEF IsPending
<1>7. ~IsPending(next)
    BY <1>1, <1>2 DEF IsPending
<1> HIDE DEF push, dest, mint
<1>8. ASSUME NEW a \in Addresses, NEW m \in Assets
      PROVE  TotalReceived(OrdersBuying(a, m))'
               = gained'[<<a, m>>] + SumFunctionOnSet(PushAmounts', PendingInto(a, m)')
  <2> DEFINE S == OrdersBuying(a, m)
             P == PendingInto(a, m)
  <2>1. S \in SUBSET Orders /\ P \in SUBSET (1..Len(pushes))
      BY DEF OrdersBuying, PendingInto
  <2>2. TotalReceived(S) = gained[<<a, m>>] + SumFunctionOnSet(PushAmounts, P)
      BY DEF PushesInv, PushesAccounted
  <2>3. TotalReceived(S)' = TotalReceived(S) + (IF previous \in S THEN push.amount ELSE 0)
    <3>1. S' = S
        BY DEF OrdersBuying
    <3> QED BY <2>1, <3>1, RecordFillAddsToTotals DEF push
  <2>4. previous \in S <=> a = dest /\ m = mint
      BY <1>1 DEF OrdersBuying, dest, mint
  <2>5. PushAmounts' = PushAmounts
      BY <1>5 DEF PushAmounts
  <2>6. \A k \in 1..Len(pushes) :
            k \in P' <=> /\ IsPending(k) \/ k = next
                         /\ pushes[k].destination = a /\ PaysIn(pushes[k], m)
      BY <1>5, <1>6 DEF PendingInto, PaysIn
  <2>7. P' \in SUBSET (1..Len(pushes))
      BY <1>5 DEF PendingInto
  <2>8. \A k \in 1..Len(pushes) :
            k \in P <=> IsPending(k) /\ pushes[k].destination = a /\ PaysIn(pushes[k], m)
      BY DEF PendingInto
  <2>9. gained[<<a, m>>] \in Nat
      BY DEF IInv, TypeOK
  <2>10. SumFunctionOnSet(PushAmounts, P) \in Nat
      BY <2>1, PushSums
  <2> HIDE DEF S, P
  <2>11. CASE a = dest /\ m = mint
    <3>1. next \in P' /\ P' \ {next} = P
        BY <1>1, <1>3, <1>4, <1>7, <2>1, <2>6, <2>7, <2>8, <2>11 DEF push
    <3>2. SumFunctionOnSet(PushAmounts, P') = push.amount + SumFunctionOnSet(PushAmounts, P)
      <4>1. SumFunctionOnSet(PushAmounts, P')
              = push.amount + SumFunctionOnSet(PushAmounts, P' \ {next})
          BY <2>7, <3>1, PushSums DEF push
      <4> QED BY <3>1, <4>1, Zenon
    <3>3. TotalReceived(S)' = TotalReceived(S) + push.amount
        BY <2>3, <2>4, <2>11
    <3>4. gained'[<<a, m>>] = gained[<<a, m>>]
        BY <1>5
    <3>5. TotalReceived(S)' = gained'[<<a, m>>] + SumFunctionOnSet(PushAmounts', P')
        BY <1>1, <2>2, <2>5, <2>9, <2>10, <3>1, <3>2, <3>3, <3>4
    <3> QED BY <3>5 DEF S, P
  <2>12. CASE ~(a = dest /\ m = mint)
    <3>1. ~(push.destination = a /\ PaysIn(push, m))
        BY <1>3, <1>4, <2>12, OneMint
    <3>2. P' = P
        BY <1>1, <2>1, <2>6, <2>7, <2>8, <3>1 DEF push
    <3>3. TotalReceived(S)' = TotalReceived(S)
        BY <2>2, <2>3, <2>4, <2>9, <2>10, <2>12
    <3> QED BY <1>5, <2>2, <2>5, <3>2, <3>3 DEF S, P
  <2> QED BY <2>11, <2>12
<1>9. PushesAccounted'
    BY <1>8 DEF PushesAccounted
<1>10. \A k \in Paired' : /\ pushes[k].source_buffer # pushes[k].destination
                          /\ \E m \in Assets : PaysIn(pushes[k], m)
  <2>1. Paired' \subseteq Paired \cup {next}
      BY <1>1, <1>2, <1>5 DEF Paired
  <2> QED BY <1>3, <1>4, <2>1 DEF PushesInv, PushesValidated, push
<1>11. PushesValidated' /\ PushList'
    BY <1>5, <1>10 DEF PushesValidated, PushList, PaysIn
<1> QED BY <1>9, <1>11 DEF PushesInv

(* A push that pays takes its amount from what is owed. *)
LEMMA PaidPush ==
    ASSUME IInv, PushesInv, pushes' = pushes, fill' = fill,
           NEW i \in 1..Len(pushes), i = next, i \in Paired,
           NEW mint \in Assets, PaysIn(pushes[i], mint), Credit(mint),
           IsPending(i), ~IsPending(i)',
           \A k \in 1..Len(pushes) \ {i} : IsPending(k)' <=> IsPending(k)
    PROVE  PushesAccounted'
<1> DEFINE push == pushes[i]
           dest == push.destination
<1>1. push \in PushSet /\ push.amount \in Nat /\ dest \in Addresses
    BY PushFields, AmountsAreNat DEF IInv, TypeOK
<1>2. gained' = [gained EXCEPT ![<<dest, mint>>] = @ + push.amount]
    BY DEF Credit, PushesInv, PushesValidated
<1>3. gained \in [Addresses \X Assets -> Nat]
    BY DEF IInv, TypeOK
<1> HIDE DEF push, dest
<1> SUFFICES ASSUME NEW a \in Addresses, NEW m \in Assets
             PROVE  TotalReceived(OrdersBuying(a, m))'
                      = gained'[<<a, m>>] + SumFunctionOnSet(PushAmounts', PendingInto(a, m)')
    BY DEF PushesAccounted
<1> DEFINE S == OrdersBuying(a, m)
           P == PendingInto(a, m)
<1>4. P \in SUBSET (1..Len(pushes)) /\ P' \in SUBSET (1..Len(pushes))
    BY DEF PendingInto
<1>5. TotalReceived(S) = gained[<<a, m>>] + SumFunctionOnSet(PushAmounts, P)
    BY DEF PushesInv, PushesAccounted
<1>6. TotalReceived(S)' = TotalReceived(S)
    BY DEF TotalReceived, OrdersBuying
<1>7. PushAmounts' = PushAmounts
    BY DEF PushAmounts
<1>8. \A k \in 1..Len(pushes) :
          /\ k \in P <=> IsPending(k) /\ pushes[k].destination = a /\ PaysIn(pushes[k], m)
          /\ k \in P' <=> IsPending(k)' /\ pushes[k].destination = a /\ PaysIn(pushes[k], m)
    BY DEF PendingInto, PaysIn
<1>9. <<a, m>> \in Addresses \X Assets /\ gained[<<a, m>>] \in Nat
    BY <1>3
<1> HIDE DEF S, P
<1>10. CASE a = dest /\ m = mint
  <2>1. i \in P /\ i \notin P'
      BY <1>8, <1>10 DEF push, dest
  <2>2. \A k \in 1..Len(pushes) \ {i} : k \in P' <=> k \in P
      BY <1>8
  <2>3. P' = P \ {i}
      BY <1>4, <2>1, <2>2
  <2>4. SumFunctionOnSet(PushAmounts, P) = push.amount + SumFunctionOnSet(PushAmounts, P')
    <3>1. SumFunctionOnSet(PushAmounts, P)
            = push.amount + SumFunctionOnSet(PushAmounts, P \ {i})
        BY <1>4, <2>1, PushSums DEF push
    <3> QED BY <2>3, <3>1, Zenon
  <2>5. SumFunctionOnSet(PushAmounts, P') \in Nat
      BY <1>4, PushSums
  <2>6. gained'[<<a, m>>] = gained[<<a, m>>] + push.amount
      BY <1>2, <1>3, <1>9, <1>10
  <2>7. TotalReceived(S)' = gained'[<<a, m>>] + SumFunctionOnSet(PushAmounts', P')
      BY <1>1, <1>5, <1>6, <1>7, <1>9, <2>3, <2>4, <2>5, <2>6
  <2> QED BY <2>7 DEF S, P
<1>11. CASE ~(a = dest /\ m = mint)
  <2>1. ~(push.destination = a /\ PaysIn(push, m))
      BY <1>11, OneMint DEF dest, push
  <2>2. P' = P
      BY <1>4, <1>8, <2>1 DEF push
  <2>3. gained'[<<a, m>>] = gained[<<a, m>>]
      BY <1>2, <1>3, <1>9, <1>11
  <2> QED BY <1>5, <1>6, <1>7, <2>2, <2>3 DEF S, P
<1> QED BY <1>10, <1>11
(* In both loops of push_funds every push has been paired, and stays so. *)
LEMMA LoopKeepsPairs ==
    ASSUME IInv, PushesInv, phase \in {"tokens", "native"}, phase' = phase, pushes' = pushes
    PROVE  PushesValidated' /\ PushList'
BY DEF PushesInv, PushesValidated, PushList, Paired, PaysIn

LEMMA PushTokenIsOwed ==
    ASSUME IInv, PullsInv, PushesInv, PushToken
    PROVE  PushesInv'
<1> DEFINE push == pushes[next]
<1>1. /\ phase = "tokens" /\ phase' = "tokens" /\ next' = next + 1
      /\ pushes' = pushes /\ fill' = fill
    BY DEF PushToken
<1>2. Len(pushes) \in Nat /\ next \in 1..Len(pushes) /\ next \in Paired
    BY <1>1 DEF IInv, TypeOK, Paired, PushToken
<1>3. PushesValidated' /\ PushList'
    BY <1>1, LoopKeepsPairs
<1>4. CASE push.source_buffer = NativeBuffer
  <2>1. \A k \in 1..Len(pushes) : IsPending(k)' <=> IsPending(k)
      BY <1>1, <1>2, <1>4 DEF IsPending, IsNative
  <2>2. gained' = gained
      BY <1>4 DEF PushToken
  <2> QED BY <1>1, <1>3, <2>1, <2>2, NothingPaid DEF PushesInv
<1>5. CASE push.source_buffer # NativeBuffer
  <2>1. PICK m \in Assets : PaysIn(push, m)
      BY <1>2 DEF PushesInv, PushesValidated
  <2>2. PICK d \in DOMAIN Derived : d[1] = m /\ push.source_buffer = Derived[d]
      BY <1>5, <2>1 DEF PaysIn
  <2>3. push.source_buffer \in Accounts /\ Credit(tokens[push.source_buffer].mint)
      BY <1>5 DEF PushToken, Transfer, CanTransfer
  <2>4. tokens[push.source_buffer].mint = m
      BY <2>2, <2>3 DEF PullsInv, BuffersKept
  <2>5. PICK i \in 1..Len(pushes) : i = next
      BY <1>2
  <2>6. IsPending(i) /\ ~IsPending(i)'
      BY <1>1, <1>2, <1>5, <2>5 DEF IsPending, IsNative
  <2>7. \A k \in 1..Len(pushes) \ {i} : IsPending(k)' <=> IsPending(k)
      BY <1>1, <1>2, <2>5 DEF IsPending, IsNative
  <2>8. Credit(m) /\ PaysIn(pushes[i], m) /\ i \in Paired
      BY <1>2, <2>1, <2>3, <2>4, <2>5
  <2>9. PushesAccounted'
      BY <1>1, <2>5, <2>6, <2>7, <2>8, PaidPush
  <2> QED BY <1>3, <2>9 DEF PushesInv
<1> QED BY <1>4, <1>5

LEMMA PushNativeIsOwed ==
    ASSUME IInv, PushesInv, PushNative
    PROVE  PushesInv'
<1> DEFINE push == pushes[next]
<1>1. /\ phase = "native" /\ phase' = "native" /\ next' = next + 1
      /\ pushes' = pushes /\ fill' = fill
    BY DEF PushNative
<1>2. Len(pushes) \in Nat /\ next \in 1..Len(pushes) /\ next \in Paired
    BY <1>1 DEF IInv, TypeOK, Paired, PushNative
<1>3. PushesValidated' /\ PushList'
    BY <1>1, LoopKeepsPairs
<1>4. CASE push.source_buffer # NativeBuffer
  <2>1. \A k \in 1..Len(pushes) : IsPending(k)' <=> IsPending(k)
      BY <1>1, <1>2, <1>4 DEF IsPending, IsNative
  <2>2. gained' = gained
      BY <1>4 DEF PushNative
  <2> QED BY <1>1, <1>3, <2>1, <2>2, NothingPaid DEF PushesInv
<1>5. CASE push.source_buffer = NativeBuffer
  <2>1. NativeSol \in Assets /\ PaysIn(push, NativeSol) /\ Credit(NativeSol)
      BY <1>5, KnownBuffersAssumption DEF Assets, PaysIn, PushNative
  <2>2. PICK i \in 1..Len(pushes) : i = next
      BY <1>2
  <2>3. IsPending(i) /\ ~IsPending(i)'
      BY <1>1, <1>2, <1>5, <2>2 DEF IsPending, IsNative
  <2>4. \A k \in 1..Len(pushes) \ {i} : IsPending(k)' <=> IsPending(k)
      BY <1>1, <1>2, <2>2 DEF IsPending, IsNative
  <2>5. PaysIn(pushes[i], NativeSol) /\ i \in Paired
      BY <1>2, <2>1, <2>2
  <2>6. PushesAccounted'
      BY <1>1, <2>1, <2>2, <2>3, <2>4, <2>5, PaidPush
  <2> QED BY <1>3, <2>6 DEF PushesInv
<1> QED BY <1>4, <1>5

LEMMA NextKeepsPushesInv ==
    IInv /\ IInv' /\ PullsInv /\ PushesInv /\ [Next]_vars => PushesInv'
<1> SUFFICES ASSUME IInv, IInv', PullsInv, PushesInv, [Next]_vars PROVE PushesInv'
    OBVIOUS
<1>1. CASE \/ UNCHANGED vars
           \/ \E w \in LamportAccounts, n \in Amounts : WithdrawNativeSol(w, n)
           \/ \E a, b \in Accounts, n \in Amounts : UserTransfer(a, b, n)
           \/ \E a \in Accounts, n \in Amounts : Approve(a, n)
           \/ \E a \in Accounts, u \in Users : SetOwner(a, u)
           \/ \E a \in Accounts, m \in Mints : Recreate(a, m)
    BY <1>1, OutsideStep DEF vars, ledger, progress, WithdrawNativeSol, UserTransfer, Approve,
                             SetOwner, Recreate, Foreign
<1>2. CASE \/ \E o \in Orders : ProcessOrder(o)
           \/ \E a \in Accounts, n \in Amounts : Pull(a, n)
           \/ StartTransaction \/ EndBeginSettle \/ FinalizeSettle \/ StartNativeLoop \/ Commit
    BY <1>2, SamePendingStep
<1>3. CASE \/ \E n \in 0..MaxPushes : \E list \in [1..n -> PushSet] : BeginSettle(list)
           \/ EndFinalizeSettle
    BY <1>3, NewListStep
<1>4. CASE RecordFill
    BY <1>4, RecordFillIsOwed
<1>5. CASE PushToken
    BY <1>5, PushTokenIsOwed
<1>6. CASE PushNative
    BY <1>6, PushNativeIsOwed
<1> QED BY <1>1, <1>2, <1>3, <1>4, <1>5, <1>6 DEF Next

LEMMA InitPushesInv == Init => PushesInv
<1> SUFFICES ASSUME Init PROVE PushesInv
    OBVIOUS
<1>1. pushes = <<>> /\ Len(pushes) = 0 /\ phase = "idle"
    BY DEF Init
<1>2. PushesValidated /\ PushList
    BY <1>1 DEF PushesValidated, PushList, Paired
<1>3. ASSUME NEW a \in Addresses, NEW m \in Assets
      PROVE  TotalReceived(OrdersBuying(a, m))
               = gained[<<a, m>>] + SumFunctionOnSet(PushAmounts, PendingInto(a, m))
  <2> DEFINE zero == [o \in Orders |-> fill[o].received]
             S == OrdersBuying(a, m)
  <2>1. IsFiniteSet(S) /\ \A o \in S : zero[o] = 0
    <3>1. S \in SUBSET Orders
        BY DEF OrdersBuying
    <3> QED BY <3>1, FS_Subset, SettlementAssumption DEF Init, NoFill
  <2>2. TotalReceived(S) = 0
      BY <2>1, SumOfZeros DEF TotalReceived
  <2>3. PendingInto(a, m) = {}
      BY <1>1 DEF PendingInto
  <2>4. SumFunctionOnSet(PushAmounts, PendingInto(a, m)) = 0
      BY <2>3, SumEmpty
  <2>5. gained[<<a, m>>] = 0
      BY DEF Init
  <2> QED BY <2>2, <2>4, <2>5
<1> QED BY <1>2, <1>3 DEF PushesInv, PushesAccounted

(* What BeginSettle records before anything is paid is what FinalizeSettle *)
(* pays, whatever orders, pushes and bumps the solver chooses: to the last *)
(* unit, in the mint that the order buys, and to nobody else.              *)
THEOREM RecordedPaid == Spec => []RecordedIsPaid
<1>1. IInv /\ PushesInv => RecordedIsPaid
  <2> SUFFICES ASSUME IInv, PushesInv, phase = "idle", NEW a \in Addresses, NEW m \in Assets
               PROVE  gained[<<a, m>>] = TotalReceived(OrdersBuying(a, m))
      BY DEF RecordedIsPaid
  <2>1. PendingInto(a, m) = {}
      BY DEF PendingInto, IsPending
  <2>2. SumFunctionOnSet(PushAmounts, PendingInto(a, m)) = 0
      BY <2>1, SumEmpty
  <2>3. gained[<<a, m>>] \in Nat
      BY DEF IInv, TypeOK
  <2> QED BY <2>2, <2>3 DEF PushesInv, PushesAccounted
<1> QED BY <1>1, InitIsGood, NextKeepsIInv, InitPullsInv, NextKeepsPullsInv, InitPushesInv,
           NextKeepsPushesInv, PTL DEF Spec
===============================================================================
