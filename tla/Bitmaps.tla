------------------------------ MODULE Bitmaps -------------------------------
(***************************************************************************)
(* The bitmaps of lib/kernel/bitmap.c, as values: the words are the sets   *)
(* of their bits that are 1.  The instructions that change a word reach    *)
(* its OpBits lowest bits; the shell, compiled for 64 bits, uses words of  *)
(* 64 with instructions on 32, Pintos 32 for both.                         *)
(***************************************************************************)
EXTENDS Integers, FiniteSetsExt

CONSTANTS ElemBits, OpBits

Word == SUBSET (0 .. ElemBits - 1)
Low == 0 .. OpBits - 1

elem_idx(i) == i \div ElemBits
bit_mask(i) == {i % ElemBits}
elem_cnt(n) == (n + ElemBits - 1) \div ElemBits

bitmap_mark(b, i) == [b EXCEPT !.bits[elem_idx(i)] = @ \cup (bit_mask(i) \cap Low)]
bitmap_reset(b, i) == [b EXCEPT !.bits[elem_idx(i)] = @ \ (bit_mask(i) \cap Low)]
bitmap_flip(b, i) ==
  [b EXCEPT !.bits[elem_idx(i)] =
     LET m == bit_mask(i) \cap Low IN (@ \ m) \cup (m \ @)]
bitmap_set(b, i, value) == IF value THEN bitmap_mark(b, i) ELSE bitmap_reset(b, i)
bitmap_test(b, i) == bit_mask(i) \subseteq b.bits[elem_idx(i)]

Span(start, cnt) == start .. start + cnt - 1

bitmap_set_multiple(b, start, cnt, value) ==
  FoldSet(LAMBDA i, new : bitmap_set(new, i, value), b, Span(start, cnt))
bitmap_set_all(b, value) == bitmap_set_multiple(b, 0, b.bit_cnt, value)

(* junk is what malloc() finds in the words.                               *)
bitmap_create(n, junk) == bitmap_set_all([bit_cnt |-> n, bits |-> junk], FALSE)
Junk(n) == [0 .. elem_cnt(n) - 1 -> Word]

bitmap_count(b, start, cnt, value) ==
  Quantify(Span(start, cnt), LAMBDA i : bitmap_test(b, i) = value)
bitmap_contains(b, start, cnt, value) == \E i \in Span(start, cnt) : bitmap_test(b, i) = value

bitmap_size(b) == b.bit_cnt
bitmap_any(b, start, cnt) == bitmap_contains(b, start, cnt, TRUE)
bitmap_none(b, start, cnt) == ~bitmap_contains(b, start, cnt, TRUE)
bitmap_all(b, start, cnt) == ~bitmap_contains(b, start, cnt, FALSE)

BITMAP_ERROR == -1      \* as a size_t, and as the unsigned the shell prints

bitmap_scan(b, start, cnt, value) ==
  LET fits == {i \in start .. b.bit_cnt - cnt : ~bitmap_contains(b, i, cnt, ~value)}
  IN IF fits = {} THEN BITMAP_ERROR ELSE Min(fits)

bitmap_scan_and_flip(b, start, cnt, value) ==
  LET i == bitmap_scan(b, start, cnt, value)
  IN IF i = BITMAP_ERROR THEN b ELSE bitmap_set_multiple(b, i, cnt, ~value)

(* bitmap_expand() of the shell: a larger copy; the old one is not freed.  *)
bitmap_expand(b, size, junk) ==
  FoldSet(LAMBDA i, new : IF bitmap_test(b, i) THEN bitmap_mark(new, i) ELSE new,
          bitmap_create(b.bit_cnt + size, junk), 0 .. b.bit_cnt - 1)
=============================================================================
