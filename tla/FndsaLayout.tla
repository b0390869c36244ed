---------------------------- MODULE FndsaLayout -----------------------------
(***************************************************************************)
(* Where solve_NTRU keeps its data: one buffer of 6 * n words, cut up anew *)
(* by every step, with the norms of the deeper levels saved at its end     *)
(* until they are needed again, and two numbers, scale_FG and FGlen, that  *)
(* say which words of F and G are in use.  All of it depends on the degree *)
(* and the depth alone, so the program's own tables are used; the values   *)
(* in the buffer are the subject of FndsaNtru.                             *)
(*                                                                         *)
(* logn_top  logarithm of the degree                                       *)
(* depth     the level                                                     *)
(* sav_off   start of the saved norms                                      *)
(* saved     norms saved in the buffer: depth, first word, number of words *)
(* loaded    what the last level took its norms from                       *)
(* top       words of the buffer in use, counted from its start            *)
(* fxr_top   the same for the buffer of fixed-point numbers                *)
(* FGlen, scale_FG  words in use, and scale of the next quotient           *)
(* pc        the step                                                      *)
(***************************************************************************)
EXTENDS Integers, Sequences, FiniteSets

CONSTANT Degrees        \* logarithms of the degrees: 2 .. 10

VARIABLES logn_top, depth, sav_off, saved, loaded, top, fxr_top, FGlen, scale_FG, pc

vars == <<logn_top, depth, sav_off, saved, loaded, top, fxr_top, FGlen, scale_FG, pc>>

-----------------------------------------------------------------------------
(* The tables, indexed by depth or by degree.                              *)

max_bl_small(d) == <<1, 1, 2, 3, 4, 8, 14, 27, 53, 104, 207>>[d + 1]
max_bl_large(d) == <<1, 2, 3, 6, 11, 21, 40, 78, 155, 308>>[d + 1]
word_win(d) == <<1, 1, 2, 2, 2, 3, 3, 4, 5, 7>>[d + 1]

\* Variant: everything but the deepest level is saved.
min_save_all(l) == 1

min_save_fg(l) == <<0, 0, 1, 2, 2, 2, 2, 2, 2, 3, 3>>[l + 1]

min_logn_fgntt == 4

\* The two buffers KeyGen allocates.
tmp_len == 6 * 2^logn_top
fxr_len == 5 * 2^(logn_top - 1)

larger(a, b) == IF a < b THEN b ELSE a

\* The sizes at a depth.
n(d) == 2^(logn_top - d)
hn(d) == n(d) \div 2
slen == max_bl_small(depth)
llen == max_bl_large(depth)
dlen == max_bl_small(depth + 1)

-----------------------------------------------------------------------------
(* Writing.                                                                *)

Overlap(s, lo, hi) == s.off < hi /\ lo < s.off + s.len

\* The words from lo to hi are written: what was saved there is gone.
Write(lo, hi) ==
    /\ top' = hi
    /\ saved' = {s \in saved : ~Overlap(s, lo, hi)}

Init ==
    /\ logn_top \in Degrees
    /\ depth = 0 /\ sav_off = tmp_len /\ saved = {} /\ loaded = {} /\ top = 0 /\ fxr_top = 0
    /\ FGlen = 0 /\ scale_FG = 0 /\ pc = "zero"

Goto(l) == pc' = l /\ UNCHANGED logn_top

NoScale == UNCHANGED <<FGlen, scale_FG>>

-----------------------------------------------------------------------------
(* The norms.                                                              *)

\* ft, gt and gm.
make_fg_zero ==
    /\ pc = "zero"
    /\ Write(0, 3 * n(0))
    /\ Goto("norms") /\ NoScale
    /\ UNCHANGED <<depth, sav_off, loaded, fxr_top>>

\* Words that the step from depth d uses: outputs, inputs, and the support of
\* the NTT with n words, or the product of the primes.
StepWords(d) ==
    2 * hn(d) * max_bl_small(d + 1) + 2 * n(d) * max_bl_small(d)
    + larger(IF max_bl_small(d) < max_bl_small(d + 1) THEN 2 * n(d) ELSE n(d), max_bl_small(d))

\* Where the norms of depth d are saved.
SaveAt(d) ==
    LET s[e \in min_save_fg(logn_top) - 1 .. d] ==
            IF e < min_save_fg(logn_top) THEN tmp_len
            ELSE s[e - 1] - max_bl_small(e) * 2^(logn_top + 1 - e)
    IN  s[d]

\* A step to the next depth, and its result saved unless it is the deepest or
\* too large.
make_fg_deepest ==
    /\ pc = "norms" /\ depth < logn_top
    /\ top' = StepWords(depth)
    /\ LET d2 == depth + 1
           fglen == 2 * n(d2) * max_bl_small(d2)
           kept == {s \in saved : ~Overlap(s, 0, StepWords(depth))}
       IN  /\ depth' = d2
           /\ IF d2 < logn_top /\ d2 >= min_save_fg(logn_top)
              THEN /\ sav_off' = sav_off - fglen
                   /\ saved' = kept \cup {[depth |-> d2, off |-> sav_off', len |-> fglen]}
              ELSE saved' = kept /\ UNCHANGED sav_off
    /\ Goto("norms") /\ NoScale
    /\ UNCHANGED <<loaded, fxr_top>>

\* F, G, the resultants and 4 numbers for zint_bezout, or the product of the
\* primes.
solve_NTRU_deepest ==
    /\ pc = "norms" /\ depth = logn_top
    /\ Write(0, 8 * max_bl_small(depth))
    /\ depth' = depth - 1
    /\ Goto("load") /\ NoScale
    /\ UNCHANGED <<sav_off, loaded, fxr_top>>

-----------------------------------------------------------------------------
(* One level.                                                              *)

FGd == 2 * hn(depth) * dlen

\* The norms are computed again after F and G of the deeper level.
LoadComputed ==
    /\ pc = "load" /\ depth > 0 /\ depth < min_save_fg(logn_top)
    /\ LET words == {3 * n(0)} \cup {StepWords(d) : d \in 0 .. depth - 1}
       IN  Write(FGd, FGd + (CHOOSE w \in words : \A v \in words : v <= w))
    /\ loaded' = {[depth |-> depth, off |-> FGd, len |-> 2 * slen * n(depth)]}
    /\ Goto("move") /\ NoScale
    /\ UNCHANGED <<depth, sav_off, fxr_top>>

\* They are taken from where they should have been saved.
LoadSaved ==
    /\ pc = "load" /\ depth > 0 /\ depth >= min_save_fg(logn_top)
    /\ loaded' = {s \in saved : s.depth = depth /\ s.off = SaveAt(depth)}
    /\ Write(FGd, FGd + 2 * slen * n(depth))
    /\ Goto("move") /\ NoScale
    /\ UNCHANGED <<depth, sav_off, fxr_top>>

FGt == 2 * n(depth) * llen
fgt == 2 * n(depth) * slen

\* f and g go behind the room for F and G, then F and G of the deeper level
\* behind them, to be converted into the room.
Move ==
    /\ pc = "move"
    /\ Write(0, FGt + fgt + FGd)
    /\ Goto("unreduced") /\ NoScale
    /\ UNCHANGED <<depth, sav_off, loaded, fxr_top>>

\* Ft, Gt, ft, gt, gm, igm, fx and gx, or the product of the primes.
Unreduce ==
    /\ pc = "unreduced"
    /\ Write(0, FGt + fgt + larger(4 * n(depth), llen))
    /\ scale_FG' = 31 * llen
    /\ FGlen' = llen
    /\ Goto("quotient")
    /\ UNCHANGED <<depth, sav_off, loaded, fxr_top>>

use_sub_ntt == depth > 1 /\ logn_top - depth >= min_logn_fgntt
slen_adj == IF use_sub_ntt THEN slen + 1 ELSE slen

\* Where t1 starts, and what it needs: k and t2.
t1 == FGt + 2 * n(depth) * slen_adj

\* f and g are converted for poly_sub_scaled_ntt.
Prepare ==
    /\ pc = "quotient"
    /\ Write(0, IF use_sub_ntt THEN t1 + 2 * n(depth) + slen_adj * n(depth) ELSE t1 + n(depth))
    /\ fxr_top' = 2 * n(depth) + hn(depth)
    /\ Goto("reduce") /\ NoScale
    /\ UNCHANGED <<depth, sav_off, loaded>>

blen == IF word_win(depth) > slen THEN 0 ELSE slen - word_win(depth)
scale_fg == 31 * blen
scale_k == scale_FG - scale_fg

reduce_bits(l) == CASE l = 9 -> 13 [] l = 10 -> 11 [] OTHER -> 16

NextScale == IF scale_FG <= scale_fg + reduce_bits(logn_top) THEN scale_fg
             ELSE scale_FG - reduce_bits(logn_top)

Trimmed(len, scale) ==
    LET fits == {l \in slen .. len : l = slen \/ 31 * (l - slen) <= scale - scale_fg + 30}
    IN  CHOOSE l \in fits : \A o \in fits : o <= l

\* Words for the subtraction, in t2.
SubWords ==
    CASE depth = 1 -> 3 * n(1)
      [] use_sub_ntt -> 2 * n(depth) + (slen + 1) * n(depth) + larger(n(depth), slen + 1)
      [] OTHER -> 0

\* The power of 2 that is left on k after poly_sub_kfg_scaled_depth1 multiplied
\* it with 2^sc, and then with 2^(-sc & 31) and 2^-32 for every 32 bits of sc and
\* for the last product.
Restored(sc) == sc + ((-sc) % 32) - 32 * (sc \div 32) - 32

Reduce ==
    /\ pc = "reduce"
    /\ Write(0, t1 + n(depth) + SubWords)
    /\ fxr_top' = 4 * n(depth)
    /\ IF scale_FG <= scale_fg
       THEN Goto("check") /\ NoScale
       ELSE /\ scale_FG' = NextScale
            /\ FGlen' = Trimmed(FGlen, NextScale)
            /\ Goto("reduce")
    /\ UNCHANGED <<depth, sav_off, loaded>>

\* t1 .. t4, but at depth 1.
Check ==
    /\ pc = "check"
    /\ Write(0, IF depth = 1 THEN 2 * slen * n(1) ELSE t1 + 4 * n(depth))
    /\ depth' = depth - 1
    /\ Goto("load") /\ NoScale
    /\ UNCHANGED <<sav_off, loaded, fxr_top>>

\* Fp, Gp, t1 .. t4 and the fixed-point quotient.
solve_NTRU_depth0 ==
    /\ pc = "load" /\ depth = 0
    /\ Write(0, 6 * n(0))
    /\ fxr_top' = n(0) + hn(0)
    /\ Goto("done") /\ NoScale
    /\ UNCHANGED <<depth, sav_off, loaded>>

Next ==
    \/ make_fg_zero \/ make_fg_deepest \/ solve_NTRU_deepest \/ LoadComputed \/ LoadSaved
    \/ Move \/ Unreduce \/ Prepare \/ Reduce \/ Check \/ solve_NTRU_depth0

Spec == Init /\ [][Next]_vars

-----------------------------------------------------------------------------
(* Properties.                                                             *)

\* No step uses more of the two buffers than there is, for any degree.
InBounds == top <= tmp_len /\ fxr_top <= fxr_len

\* A level finds its norms where it looks for them, and nothing was written
\* over them since they were saved; when they are moved, F and G of the deeper
\* level are not written over either.
NormsAreFound ==
    pc \notin {"zero", "norms", "load", "done"} =>
        /\ \E s \in loaded : s.depth = depth /\ s.len = 2 * slen * n(depth)
        /\ FGd <= FGt

\* A scale as a number of whole words and of bits.
divrem31(x) == LET d == (x * 67651) \div 2^21 IN <<d, x - 31 * d>>

\* The words in use hold an F and a G that the reduction brought down to its
\* scale and the window of f and g, the quotient is taken from them, the scale
\* stays at or above that of f and g, and the division by 31 is exact.
WindowInUse ==
    pc = "reduce" =>
        /\ scale_FG >= scale_fg
        /\ divrem31(scale_FG) = <<scale_FG \div 31, scale_FG % 31>>
        /\ divrem31(scale_FG)[1] <= FGlen
        /\ FGlen = llen \/ 31 * FGlen >= scale_FG + 31 * (slen - blen)

\* At depth 1, with two words, poly_sub_kfg_scaled_depth1 multiplies k with
\* 2^sc for the first prime and takes that factor off again for the second.
FactorComesOff ==
    pc = "reduce" /\ depth = 1 =>
        /\ FGlen \in 1 .. 2
        /\ FGlen = 2 => Restored(scale_k) = 0
=============================================================================
