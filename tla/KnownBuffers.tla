----------------------------- MODULE KnownBuffers -----------------------------
(***************************************************************************)
(* How the program tells that an account is a buffer of a mint.  The       *)
(* addresses of popular mints are compiled into a table that is looked up  *)
(* by a multiplicative hash; any other address is derived again, from the  *)
(* mint and a bump that the solver sends.                                  *)
(***************************************************************************)
EXTENDS Integers, Sequences, FiniteSetsExt

CONSTANTS
    KeyOf,          \* the leading 8 bytes of each mint, as a number
    SlotCount,      \* 2^SLOT_BITS
    SlotWidth,      \* 2^(64 - SLOT_BITS)
    KNOWN_MINTS,    \* sequence of mints
    NativeSol,      \* ENCODED_NATIVE_SOL_TRANSFER, which stands for a mint
    NativeBuffer,   \* the native SOL buffer
    Derived,        \* address of a mint's buffer with a bump: create_program_address
    CanonicalBump,  \* the bump that find_program_address finds, by mint
    Multipliers     \* SHA-256 of 0, 1, ..., ATTEMPTS - 1

WordSize == SlotCount * SlotWidth
AllMints == DOMAIN KeyOf
Mints == AllMints \ {NativeSol}

ASSUME KnownBuffersAssumption ==
    /\ SlotCount \in Nat \ {0} /\ SlotWidth \in Nat \ {0}
    /\ KeyOf \in [AllMints -> 0..(WordSize - 1)]
    /\ NativeSol \in AllMints
    /\ KNOWN_MINTS \in Seq(Mints)
    /\ CanonicalBump \in [AllMints -> Nat]
    /\ Multipliers \in Seq(0..(WordSize - 1))
    /\ \A m \in Mints : <<m, CanonicalBump[m]>> \in DOMAIN Derived

(* find_buffer_pda and find_native_sol_buffer_pda *)
Buffer == [m \in AllMints |-> IF m = NativeSol THEN NativeBuffer
                                               ELSE Derived[<<m, CanonicalBump[m]>>]]

-----------------------------------------------------------------------------
(* The buffers of the known mints, followed by that of native SOL. *)
KNOWN_BUFFERS ==
    [i \in 1..(Len(KNOWN_MINTS) + 1) |->
        LET mint == IF i <= Len(KNOWN_MINTS) THEN KNOWN_MINTS[i] ELSE NativeSol
        IN  [mint |-> mint, address |-> Buffer[mint]]]

Indices == 1..(Len(KNOWN_MINTS) + 1)

(* The top bits of the wrapping product. *)
Slot(mint, multiplier) ==
    ((KeyOf[mint] * multiplier) % WordSize) \div SlotWidth

HasDistinctSlots(multiplier) ==
    \A i, j \in Indices :
        i # j => Slot(KNOWN_BUFFERS[i].mint, multiplier) # Slot(KNOWN_BUFFERS[j].mint, multiplier)

(* The first of the attempts that works; the build fails if there is none. *)
Attempts == {k \in DOMAIN Multipliers : HasDistinctSlots(Multipliers[k])}
FindSlotMultiplier ==
    Multipliers[CHOOSE k \in Attempts : \A other \in Attempts : k <= other]

KNOWN_BUFFER_MULTIPLIER == FindSlotMultiplier

(* u8::MAX, the index in an empty slot. *)
NoIndex == 0

(* The loop that fills the slots: a later buffer overwrites an earlier one. *)
KNOWN_BUFFER_SLOTS ==
    [s \in 0..(SlotCount - 1) |->
        LET here == {i \in Indices : Slot(KNOWN_BUFFERS[i].mint, KNOWN_BUFFER_MULTIPLIER) = s}
        IN  IF here = {} THEN NoIndex ELSE CHOOSE i \in here : \A j \in here : j <= i]

(* Mutant of KnownBuffer: whatever is in the slot. *)
InSlot(mint) ==
    {KNOWN_BUFFERS[i] : i \in {KNOWN_BUFFER_SLOTS[Slot(mint, KNOWN_BUFFER_MULTIPLIER)]} \ {NoIndex}}

(* The buffer of a known mint, in a set that is empty for any other. *)
KnownBuffer(mint) ==
    {KNOWN_BUFFERS[i] : i \in {k \in Indices :
        /\ k = KNOWN_BUFFER_SLOTS[Slot(mint, KNOWN_BUFFER_MULTIPLIER)]
        /\ KNOWN_BUFFERS[k].mint = mint}}

(* A known mint is compared with its address alone, whatever the bump. *)
ValidateBufferPda(buffer, mint, bump) ==
    \/ \E known \in KnownBuffer(mint) : buffer = known.address
    \/ /\ KnownBuffer(mint) = {}
       /\ <<mint, bump>> \in DOMAIN Derived
       /\ buffer = Derived[<<mint, bump>>]
===============================================================================
