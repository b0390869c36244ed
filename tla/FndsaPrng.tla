----------------------------- MODULE FndsaPrng ------------------------------
(***************************************************************************)
(* The generator behind key generation and signing: SHAKE256 with an       *)
(* output buffer from which values of one, two and eight bytes are taken   *)
(* in any order.  A byte is named by its position in the SHAKE256 output,  *)
(* so a buffer that starts at position base holds base, base + 1, ...      *)
(*                                                                         *)
(* base, ptr   position of the first byte of buf; next unread index        *)
(* squeezed    bytes squeezed from the sponge so far                       *)
(* left        bytes a word read byte by byte still lacks                  *)
(* word        bytes of the read under way, or of the last one             *)
(* taken       bytes delivered before that read                            *)
(***************************************************************************)
EXTENDS Integers, Sequences

CONSTANTS
    BufLen,     \* len(r.buf): 136
    Widths,     \* bytes of a read: 1, 2, 8
    MaxStream   \* bound on the bytes squeezed

ASSUME PrngAssumption ==
    /\ BufLen \in Nat \ {0}
    /\ Widths \subseteq Nat \ {0}
    /\ MaxStream \in Nat

VARIABLES base, ptr, squeezed, left, word, taken

vars == <<base, ptr, squeezed, left, word, taken>>

-----------------------------------------------------------------------------
\* newSHAKE256prng: the buffer is empty because ptr is at its end.
Init ==
    /\ base = 0 /\ ptr = BufLen /\ squeezed = 0
    /\ left = 0 /\ word = <<>> /\ taken = 0

Idle == left = 0

\* The word straddles the end of the buffer, or the buffer is empty.
Straddles(w) == ptr >= BufLen - (w - 1)

\* next_u16, next_u64 on a buffer with w bytes left: no refill.
NextBuffered(w) ==
    /\ Idle /\ ~Straddles(w)
    /\ word' = [k \in 1 .. w |-> base + ptr + k - 1]
    /\ taken' = taken + Len(word)
    /\ ptr' = ptr + w
    /\ UNCHANGED <<base, squeezed, left>>

\* next_u8, and next_u16 and next_u64 otherwise: a loop of next_u8.
NextByBytes(w) ==
    /\ Idle /\ Straddles(w)
    /\ left' = w
    /\ word' = <<>>
    /\ taken' = taken + Len(word)
    /\ UNCHANGED <<base, ptr, squeezed>>

\* Variant: the buffer is refilled one byte early.
next_u8Early ==
    /\ left > 0
    /\ IF ptr >= BufLen - 1
       THEN /\ squeezed + BufLen <= MaxStream
            /\ base' = squeezed /\ squeezed' = squeezed + BufLen
            /\ ptr' = 1 /\ word' = Append(word, squeezed)
       ELSE /\ ptr' = ptr + 1 /\ word' = Append(word, base + ptr)
            /\ UNCHANGED <<base, squeezed>>
    /\ left' = left - 1
    /\ UNCHANGED taken

next_u8 ==
    /\ left > 0
    /\ IF ptr = BufLen
       THEN /\ squeezed + BufLen <= MaxStream
            /\ base' = squeezed /\ squeezed' = squeezed + BufLen
            /\ ptr' = 1 /\ word' = Append(word, squeezed)
       ELSE /\ ptr' = ptr + 1 /\ word' = Append(word, base + ptr)
            /\ UNCHANGED <<base, squeezed>>
    /\ left' = left - 1
    /\ UNCHANGED taken

Next == next_u8 \/ \E w \in Widths : NextBuffered(w) \/ NextByBytes(w)

Spec == Init /\ [][Next]_vars

-----------------------------------------------------------------------------
(* Properties.                                                             *)

\* The next index stays within the buffer, so no read is out of its bounds.
TypeOK ==
    /\ base \in Nat /\ squeezed \in Nat /\ left \in Nat /\ taken \in Nat
    /\ ptr \in 0 .. BufLen
    /\ word \in Seq(Nat)

\* The bytes handed out are the bytes of the SHAKE256 output, each once and in
\* order, whatever mix of widths is read and wherever the buffer ends: what a
\* signature computed from a seed depends on.
StreamInOrder == \A k \in 1 .. Len(word) : word[k] = taken + k - 1
=============================================================================
