----------------------------- MODULE SettleCodec -----------------------------
(***************************************************************************)
(* How a settlement travels: the client lays its orders out as the data    *)
(* and the account lists of a BeginSettle and a FinalizeSettle, and the    *)
(* program reads them back, the FinalizeSettle twice: by itself, and by    *)
(* BeginSettle through introspection.  Nothing in the bytes says which     *)
(* push belongs to which order; only positions do.                         *)
(*                                                                         *)
(* A solver need not use the client, so between building and reading       *)
(* bytes and accounts are inserted and removed anywhere.                   *)
(***************************************************************************)
EXTENDS ByteLayout

CONSTANTS
    Word,           \* bytes of a u64, 8
    Orders,         \* what settlements are made of, see Order
    Buffer,         \* the canonical buffer of each mint and of NativeSol
    Bump,           \* its bump
    NativeSol,      \* ENCODED_NATIVE_SOL_TRANSFER
    Sysvar,         \* INSTRUCTIONS_SYSVAR_ID
    State,          \* the state PDA
    Other,          \* any other account: the solver, the token programs
    Stray,          \* the accounts that are inserted
    MaxOrders,      \* bound: orders of a settlement
    MaxEdits        \* bound: insertions and removals

MINT_PLACEHOLDER == Sysvar
Encoded == [data: Seq(0..(Byte - 1)), accounts: Seq(Int)]     \* an instruction

(* InitializedIntent and FinalizedIntent: addresses are integers. *)
Order == [pda: Int, sell_token_account: Int, sell_mint: Int,
          buy_token_account: Int, buy_mint: Int, use_transfer_checked: BOOLEAN,
          pulls: Seq([destination: Int, amount: 0..(Power(Word) - 1)]),
          amount: 0..(Power(Word) - 1)]

ASSUME CodecAssumption ==
    /\ Byte \in Nat \ {0, 1}
    /\ Word \in Nat \ {0}
    /\ {Sysvar, State, Other} \cup Stray \subseteq Int
    /\ Orders \subseteq Order
    /\ Sysvar \notin {o.sell_mint : o \in Orders} \cup {o.buy_mint : o \in Orders}
    /\ \A o \in Orders : Buffer[o.buy_mint] \in Int /\ Bump[o.buy_mint] \in 0..(Byte - 1)

VARIABLES
    request,        \* the orders, in the order the caller names them
    begin,          \* the BeginSettle instruction
    finalize,       \* the FinalizeSettle instruction
    stage,          \* "request", or "built" from when the two exist
    edits           \* insertions and removals so far

codec == <<request, begin, finalize, stage, edits>>

-----------------------------------------------------------------------------
Words(amounts) == FlattenSeq([k \in 1..Len(amounts) |-> ToBytes(amounts[k], Word)])

(* sort_by_key, which is stable, by the address of the order. *)
SortedByPda(orders) ==
    LET rank(i) == Cardinality({j \in DOMAIN orders :
                       \/ orders[j].pda < orders[i].pda
                       \/ orders[j].pda = orders[i].pda /\ j <= i})
    IN  [k \in 1..Len(orders) |-> orders[CHOOSE i \in DOMAIN orders : rank(i) = k]]

-----------------------------------------------------------------------------
(* The client and the builders of the interface. *)

FinalizeIndex == 1
BeginIndex == 0
AuctionId == 0

SellMint(o) == IF o.use_transfer_checked THEN o.sell_mint ELSE MINT_PLACEHOLDER

Destinations(o) == [k \in 1..Len(o.pulls) |-> o.pulls[k].destination]
PullAmounts(o) == [k \in 1..Len(o.pulls) |-> o.pulls[k].amount]
OrderAccounts(o) == <<o.pda, o.sell_token_account, SellMint(o)>> \o Destinations(o)

BeginData(orders) ==
    LET s == SortedByPda(orders) IN
    <<0>> \o ToBytes(FinalizeIndex, 2) \o ToBytes(AuctionId, Word)
    \o <<Len(s) % Byte>> \o [k \in 1..Len(s) |-> Len(s[k].pulls) % Byte]
    \o FlattenSeq([k \in 1..Len(s) |-> Words(PullAmounts(s[k]))])

BuildBeginSettle(orders) ==
    LET s == SortedByPda(orders) IN
    [data |-> BeginData(orders),
     accounts |-> <<Other, Sysvar, State, Other, Other>>
                  \o FlattenSeq([k \in 1..Len(s) |-> OrderAccounts(s[k])])]

(* The push of an order; one in native SOL never carries a mint. *)
OrderPush(o) ==
    [source_buffer |-> Buffer[o.buy_mint],
     destination |-> o.buy_token_account,
     mint |-> IF o.use_transfer_checked /\ o.buy_mint # NativeSol
              THEN o.buy_mint ELSE MINT_PLACEHOLDER,
     bump |-> Bump[o.buy_mint],
     amount |-> o.amount]

(* Mutant of PushesOf: the pushes stay in the caller's order. *)
PushesAsGiven(orders) == [k \in 1..Len(orders) |-> OrderPush(orders[k])]

PushesOf(orders) ==
    LET s == SortedByPda(orders) IN [k \in 1..Len(s) |-> OrderPush(s[k])]

BuildFinalizeSettle(orders) ==
    LET p == PushesOf(orders) IN
    [data |-> <<1>> \o ToBytes(BeginIndex, 2) \o [k \in 1..Len(p) |-> p[k].bump]
              \o Words([k \in 1..Len(p) |-> p[k].amount]),
     accounts |-> <<Sysvar, State, Other, Other>>
                  \o FlattenSeq([k \in 1..Len(p) |->
                                   <<p[k].source_buffer, p[k].destination, p[k].mint>>])]

-----------------------------------------------------------------------------
(* The parsers of the interface. *)

(* recover_discriminator and recover_counterpart. *)
HasHeader(ix, discriminator) == Len(ix.data) >= 3 /\ ix.data[1] = discriminator
Body(ix) == SubSeq(ix.data, 4, Len(ix.data))

OrderCount(ix) == Body(ix)[Word + 1]
Counts(ix) == SubSeq(Body(ix), Word + 2, Word + 1 + OrderCount(ix))
AmountBytes(ix) == SubSeq(Body(ix), Word + 2 + OrderCount(ix), Len(Body(ix)))
TransferCount(ix) == Len(AmountBytes(ix)) \div Word
RestOfAccounts(ix, fixed) == SubSeq(ix.accounts, fixed + 1, Len(ix.accounts))
CountsSum(ix, n) == SumFunctionOnSet(Counts(ix), 1..n)

(* Mutant of CountsAddUp: transfers may be left over. *)
NotTooMany(ix) == CountsSum(ix, OrderCount(ix)) <= TransferCount(ix)

CountsAddUp(ix) == CountsSum(ix, OrderCount(ix)) = TransferCount(ix)

(* BeginSettleInput::parse succeeds. *)
BeginParses(ix) ==
    /\ HasHeader(ix, 0)
    /\ Len(ix.accounts) >= 5
    /\ Len(Body(ix)) >= Word + 1
    /\ Len(Body(ix)) >= Word + 1 + OrderCount(ix)
    /\ Len(AmountBytes(ix)) % Word = 0
    /\ Len(ix.accounts) - 5 = 3 * OrderCount(ix) + TransferCount(ix)
    /\ CountsAddUp(ix)

(* SettledOrders::iter: the k-th order takes its accounts and its amounts  *)
(* from where the one before it stopped.                                   *)
SettledOrder(ix, k) ==
    LET accounts == RestOfAccounts(ix, 5)
        taken == CountsSum(ix, k - 1)
        first == 3 * (k - 1) + taken
        count == Counts(ix)[k]
    IN  [pda |-> accounts[first + 1],
         sell_token_account |-> accounts[first + 2],
         sell_mint |-> accounts[first + 3],
         destinations |-> SubSeq(accounts, first + 4, first + 3 + count),
         amounts |-> [j \in 1..count |-> FromBytes(Chunk(AmountBytes(ix), Word, taken + j))]]

SettledOrders(ix) == [k \in 1..OrderCount(ix) |-> SettledOrder(ix, k)]

(* split_push_bytes: bumps, then amounts. *)
PushBytesSplit(ix) == HasHeader(ix, 1) /\ Len(Body(ix)) % (Word + 1) = 0
PushCount(ix) == Len(Body(ix)) \div (Word + 1)
PushBump(ix, k) == Body(ix)[k]
PushAmount(ix, k) == FromBytes(Chunk(SubSeq(Body(ix), PushCount(ix) + 1, Len(Body(ix))), Word, k))

AccountsMatchPushes(ix) == Len(ix.accounts) - 4 = 3 * PushCount(ix)

(* FinalizeSettleInput::parse succeeds, and Pushes::iter. *)
FinalizeParses(ix) ==
    /\ PushBytesSplit(ix)
    /\ Len(ix.accounts) >= 4
    /\ AccountsMatchPushes(ix)

Pushes(ix) ==
    [k \in 1..PushCount(ix) |->
        [source_buffer |-> ix.accounts[4 + 3 * (k - 1) + 1],
         destination |-> ix.accounts[4 + 3 * (k - 1) + 2],
         bump |-> PushBump(ix, k),
         amount |-> PushAmount(ix, k)]]

(* Mutant of DestinationPlace: the mint of each push is forgotten. *)
WithoutMints(k) == 6 + 2 * (k - 1)

(* What BeginSettle makes of the FinalizeSettle: one push for each place   *)
(* where a destination fits in, as long as there are bumps and amounts.    *)
DestinationPlace(k) == 6 + 3 * (k - 1)
Destined(ix) == {k \in 1..Len(ix.accounts) : DestinationPlace(k) <= Len(ix.accounts)}

PairedPushes(ix) ==
    [k \in 1..Min({Cardinality(Destined(ix)), PushCount(ix)}) |->
        [source_buffer |-> ix.accounts[DestinationPlace(k) - 1],
         destination |-> ix.accounts[DestinationPlace(k)],
         bump |-> PushBump(ix, k),
         amount |-> PushAmount(ix, k)]]

-----------------------------------------------------------------------------
NoInstruction == [data |-> <<>>, accounts |-> <<>>]

CodecInit ==
    /\ request = <<>>
    /\ begin = NoInstruction
    /\ finalize = NoInstruction
    /\ stage = "request"
    /\ edits = 0

AddOrder(o) ==
    /\ stage = "request"
    /\ Len(request) < MaxOrders
    /\ request' = Append(request, o)
    /\ UNCHANGED <<begin, finalize, stage, edits>>

Build ==
    /\ stage = "request"
    /\ stage' = "built"
    /\ begin' = BuildBeginSettle(request)
    /\ finalize' = BuildFinalizeSettle(request)
    /\ UNCHANGED <<request, edits>>

(* What a removal or an insertion makes of a sequence. *)
Edited(s, values) ==
    {RemoveAt(s, i) : i \in 1..Len(s)}
    \cup {InsertAt(s, i, v) : i \in 1..(Len(s) + 1), v \in values}

EditsOf(ix) ==
    {[ix EXCEPT !.data = d] : d \in Edited(ix.data, 0..(Byte - 1))}
    \cup {[ix EXCEPT !.accounts = a] : a \in Edited(ix.accounts, Stray)}

EditBegin ==
    /\ stage = "built"
    /\ edits < MaxEdits
    /\ begin' \in EditsOf(begin)
    /\ edits' = edits + 1
    /\ UNCHANGED <<request, finalize, stage>>

EditFinalize ==
    /\ stage = "built"
    /\ edits < MaxEdits
    /\ finalize' \in EditsOf(finalize)
    /\ edits' = edits + 1
    /\ UNCHANGED <<request, begin, stage>>

CodecNext ==
    \/ \E o \in Orders : AddOrder(o)
    \/ Build
    \/ EditBegin
    \/ EditFinalize

CodecSpec == CodecInit /\ [][CodecNext]_codec
-----------------------------------------------------------------------------
(* What the program is to make of an order. *)
Meant(o) ==
    [pda |-> o.pda, sell_token_account |-> o.sell_token_account, sell_mint |-> SellMint(o),
     destinations |-> Destinations(o), amounts |-> PullAmounts(o)]

(* The counts that are narrowed to a byte fit. *)
Fits == Len(request) < Byte /\ \A k \in 1..Len(request) : Len(request[k].pulls) < Byte

(* What the client builds is read back as it was meant: the orders in the  *)
(* order of their addresses, each with its own pulls, and the push of each *)
(* at the same place.  Counts that do not fit into their byte are refused, *)
(* never read as something else.                                           *)
BuiltIsMeant ==
    stage = "built" /\ edits = 0 =>
        LET s == SortedByPda(request) IN
        /\ BeginParses(begin) <=> Fits
        /\ BeginParses(begin) => SettledOrders(begin) = [k \in 1..Len(s) |-> Meant(s[k])]
        /\ FinalizeParses(finalize)
        /\ Len(PairedPushes(finalize)) = Len(s)
        /\ \A k \in 1..Len(s) :
               /\ PairedPushes(finalize)[k].destination = s[k].buy_token_account
               /\ PairedPushes(finalize)[k].source_buffer = Buffer[s[k].buy_mint]
               /\ PairedPushes(finalize)[k].amount = s[k].amount

(* However a BeginSettle was put together, if it is accepted then its      *)
(* orders take every account and every amount of it exactly once, so that  *)
(* no pull is hidden from the checks on orders or counted twice.           *)
NothingLeftOver ==
    stage = "built" /\ BeginParses(begin) =>
        LET s == SettledOrders(begin) IN
        /\ RestOfAccounts(begin, 5) =
             FlattenSeq([k \in 1..Len(s) |->
                 <<s[k].pda, s[k].sell_token_account, s[k].sell_mint>> \o s[k].destinations])
        /\ AmountBytes(begin) = FlattenSeq([k \in 1..Len(s) |-> Words(s[k].amounts)])

(* However a FinalizeSettle was put together, if it accepts itself then    *)
(* the pushes it executes are those that BeginSettle has validated.        *)
ViewsAgree ==
    stage = "built" /\ FinalizeParses(finalize) => PairedPushes(finalize) = Pushes(finalize)
===============================================================================
