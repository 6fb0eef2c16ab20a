----------------------------- MODULE OrderBytes -----------------------------
(***************************************************************************)
(* Intents and order accounts as bytes.  The same bytes are what the owner *)
(* signs, what the program stores, and what the address of the order is    *)
(* derived from; clients decode them.  An address is a sequence of bytes.  *)
(***************************************************************************)
EXTENDS ByteLayout

CONSTANTS
    KeyWidth,           \* bytes of an address, 32
    Word,               \* bytes of a u64, 8
    TimeWidth,          \* bytes of valid_to, 4
    NativeSol,          \* ENCODED_NATIVE_SOL_TRANSFER
    OrderDiscriminator  \* the first byte of an order account, 128

Key == [1..KeyWidth -> 0..(Byte - 1)]

ASSUME BytesAssumption ==
    /\ Byte \in Nat \ (0..12)
    /\ {KeyWidth, Word, TimeWidth} \subseteq Nat \ {0}
    /\ NativeSol \in Key
    /\ OrderDiscriminator \in 1..(Byte - 1)

-----------------------------------------------------------------------------
(* Flags: bit 0 is reserved, bit 1 is the kind, bit 2 says whether partial *)
(* fills are allowed, and the rest is reserved.                            *)
EncodeFlags(flags) ==
    <<(IF flags.kind = "Buy" THEN 2 ELSE 0) + (IF flags.partially_fillable THEN 4 ELSE 0)>>

(* Mutant of FlagsDecode: bit 0 is not looked at. *)
HighBitsClear(byte) == byte < 8

FlagsDecode(byte) == byte % 2 = 0 /\ byte < 8

DecodeFlags(byte) ==
    [kind |-> IF (byte \div 2) % 2 = 1 THEN "Buy" ELSE "Sell",
     partially_fillable |-> (byte \div 4) % 2 = 1]

(* What an order buys: lamports on an account, or tokens. *)
EncodeMint(asset) == IF asset.tag = "Native" THEN NativeSol ELSE asset.mint

DecodeAsset(mint, account) ==
    IF mint = NativeSol
    THEN [tag |-> "Native", account |-> account]
    ELSE [tag |-> "TokenProgram", mint |-> mint, account |-> account]

(* owner, sell_token_account, sell_mint, buy_token_account, buy_mint,      *)
(* sell_amount, buy_amount, valid_to, flags, app_data                      *)
IntentWidths ==
    <<KeyWidth, KeyWidth, KeyWidth, KeyWidth, KeyWidth, Word, Word, TimeWidth, 1, KeyWidth>>
IntentSize == Before(IntentWidths, Len(IntentWidths) + 1)
IntentSlot(bytes, k) == Slot(bytes, IntentWidths, k)

ExtractOwner(bytes) == IntentSlot(bytes, 1)

EncodeIntent(intent) ==
    intent.owner \o intent.sell.token_account \o intent.sell.mint
    \o intent.buy.account \o EncodeMint(intent.buy)
    \o ToBytes(intent.sell_amount, Word) \o ToBytes(intent.buy_amount, Word)
    \o ToBytes(intent.valid_to, TimeWidth) \o EncodeFlags(intent.flags) \o intent.app_data

(* check_bytes: what the program asks of the bytes of an intent. *)
CheckBytes(bytes) ==
    /\ FlagsDecode(IntentSlot(bytes, 9)[1])
    /\ FromBytes(IntentSlot(bytes, 6)) # 0
    /\ FromBytes(IntentSlot(bytes, 7)) # 0

(* TryFrom<&[u8]> for OrderIntent: what a client makes of them. *)
IntentDecodes(bytes) ==
    /\ FromBytes(IntentSlot(bytes, 6)) # 0
    /\ FromBytes(IntentSlot(bytes, 7)) # 0
    /\ FlagsDecode(IntentSlot(bytes, 9)[1])

DecodeIntent(bytes) ==
    [owner |-> IntentSlot(bytes, 1),
     sell |-> [mint |-> IntentSlot(bytes, 3), token_account |-> IntentSlot(bytes, 2)],
     buy |-> DecodeAsset(IntentSlot(bytes, 5), IntentSlot(bytes, 4)),
     sell_amount |-> FromBytes(IntentSlot(bytes, 6)),
     buy_amount |-> FromBytes(IntentSlot(bytes, 7)),
     valid_to |-> FromBytes(IntentSlot(bytes, 8)),
     flags |-> DecodeFlags(IntentSlot(bytes, 9)[1]),
     app_data |-> IntentSlot(bytes, 10)]

-----------------------------------------------------------------------------
(* find_order_pda: SHA-256 is taken to be injective, and the address to be *)
(* different from every key.                                               *)
OrderPda(intent_bytes) == intent_bytes

(* discriminator, bump, cancelled, amount_withdrawn, amount_received,      *)
(* created_by, intent                                                      *)
OrderWidths == <<1, 1, 1, Word, Word, KeyWidth, IntentSize>>
OrderSize == Before(OrderWidths, Len(OrderWidths) + 1)
OrderSlot(body, k) == Slot(body, OrderWidths, k)

(* OrderAccount::initialize *)
InitializeOrder(bump, cancelled, withdrawn, received, created_by, intent_bytes) ==
    <<OrderDiscriminator, bump, IF cancelled THEN 1 ELSE 0>>
    \o ToBytes(withdrawn, Word) \o ToBytes(received, Word) \o created_by \o intent_bytes

(* Mutant of SetAmounts: the two totals are exchanged. *)
SetAmountsSwapped(body, withdrawn, received) ==
    WithSlot(WithSlot(body, OrderWidths, 4, ToBytes(received, Word)),
             OrderWidths, 5, ToBytes(withdrawn, Word))

SetAmounts(body, withdrawn, received) ==
    WithSlot(WithSlot(body, OrderWidths, 4, ToBytes(withdrawn, Word)),
             OrderWidths, 5, ToBytes(received, Word))

SetCancelled(body) == WithSlot(body, OrderWidths, 3, <<1>>)

Bump(body) == OrderSlot(body, 2)[1]
IntentBytes(body) == OrderSlot(body, 7)
CreatedBy(body) == OrderSlot(body, 6)
Cancelled(body) == OrderSlot(body, 3) = <<1>>
AmountWithdrawn(body) == FromBytes(OrderSlot(body, 4))
AmountReceived(body) == FromBytes(OrderSlot(body, 5))

(* OrderAccount::load_from_pda: a whole body, tagged as an order, that     *)
(* lives where its own intent belongs.                                     *)
LoadsFromPda(body, address) ==
    /\ Len(body) = OrderSize
    /\ OrderSlot(body, 1) = <<OrderDiscriminator>>
    /\ address = OrderPda(IntentBytes(body))

(* DecodedOrderAccount: what a client makes of the account. *)
OrderDecodes(body) ==
    /\ Len(body) = OrderSize
    /\ OrderSlot(body, 1) = <<OrderDiscriminator>>
    /\ OrderSlot(body, 3) \in {<<0>>, <<1>>}
    /\ IntentDecodes(IntentBytes(body))

DecodeOrder(body) ==
    [bump |-> Bump(body),
     cancelled |-> Cancelled(body),
     amount_withdrawn |-> AmountWithdrawn(body),
     amount_received |-> AmountReceived(body),
     created_by |-> CreatedBy(body),
     intent |-> DecodeIntent(IntentBytes(body))]

EncodeOrder(d) ==
    InitializeOrder(d.bump, d.cancelled, d.amount_withdrawn, d.amount_received,
                    d.created_by, EncodeIntent(d.intent))
===============================================================================
