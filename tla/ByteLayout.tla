----------------------------- MODULE ByteLayout -----------------------------
(* Numbers as little-endian bytes, and byte strings cut into slots.          *)
EXTENDS Integers, SequencesExt, FiniteSetsExt

CONSTANT Byte       \* values of a byte, 256

(* Byte to the power of k. *)
Power(k) ==
    LET power[j \in 0..k] == IF j = 0 THEN 1 ELSE Byte * power[j - 1]
    IN  power[k]

(* to_le_bytes and from_le_bytes. *)
ToBytes(v, width) == [k \in 1..width |-> (v \div Power(k - 1)) % Byte]
FromBytes(bytes) ==
    SumFunctionOnSet([k \in DOMAIN bytes |-> bytes[k] * Power(k - 1)], DOMAIN bytes)

(* as_chunks: the k-th chunk of the given width. *)
Chunk(s, width, k) == SubSeq(s, (k - 1) * width + 1, k * width)

(* array_refs: consecutive slots of the given widths. *)
Before(widths, k) == SumFunctionOnSet(widths, 1..(k - 1))
Slot(bytes, widths, k) ==
    SubSeq(bytes, Before(widths, k) + 1, Before(widths, k) + widths[k])

(* mut_array_refs, with one slot written. *)
WithSlot(bytes, widths, k, value) ==
    SubSeq(bytes, 1, Before(widths, k)) \o value
    \o SubSeq(bytes, Before(widths, k + 1) + 1, Len(bytes))
===============================================================================
