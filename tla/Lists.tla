------------------------------- MODULE Lists --------------------------------
(***************************************************************************)
(* The doubly linked lists of lib/kernel/list.c, pointer by pointer.       *)
(* m holds the next and prev pointers of every cell and the data of every  *)
(* element; a list is its two end cells, Head(l) and Tail(l).              *)
(***************************************************************************)
EXTENDS Integers, Sequences

CONSTANTS NULL

HeadOf(l) == <<"head", l>>
TailOf(l) == <<"tail", l>>

less(m, a, b) == m.data[a] < m.data[b]

list_init(m, l) ==
  [m EXCEPT !.prev[HeadOf(l)] = NULL, !.next[HeadOf(l)] = TailOf(l),
            !.prev[TailOf(l)] = HeadOf(l), !.next[TailOf(l)] = NULL]

list_begin(m, l) == m.next[HeadOf(l)]
list_empty(m, l) == list_begin(m, l) = TailOf(l)

RECURSIVE Walk(_, _, _)
Walk(m, c, n) == IF n = 0 THEN c ELSE Walk(m, m.next[c], n - 1)

(* The elements from cell a to cell b, b excluded: what the loops of       *)
(* list_size(), dumpdata_list() and hash_apply() visit.                    *)
RECURSIVE Visit(_, _, _)
Visit(m, a, b) == IF a = b THEN << >> ELSE <<a>> \o Visit(m, m.next[a], b)
Chain(m, l) == Visit(m, list_begin(m, l), TailOf(l))

(* Variant: the element before is not told of the new one.                 *)
list_insert_half(m, before, e) ==
  [m EXCEPT !.prev[e] = m.prev[before], !.next[e] = before, !.next[m.prev[before]] = e]

list_insert(m, before, e) ==
  [m EXCEPT !.prev[e] = m.prev[before], !.next[e] = before,
            !.next[m.prev[before]] = e, !.prev[before] = e]

list_remove(m, e) == [m EXCEPT !.next[m.prev[e]] = m.next[e], !.prev[m.next[e]] = m.prev[e]]

list_front(m, l) == list_begin(m, l)
list_back(m, l) == m.prev[TailOf(l)]
list_pop_front(m, l) == list_remove(m, list_front(m, l))
list_pop_back(m, l) == list_remove(m, list_back(m, l))

(* Moves first to last (exclusive) before the cell before.                 *)
list_splice(m, before, first, last) ==
  IF first = last THEN m
  ELSE LET end == m.prev[last]
           cut == [m EXCEPT !.next[m.prev[first]] = last, !.prev[last] = m.prev[first]]
       IN [cut EXCEPT !.prev[first] = cut.prev[before], !.next[end] = before,
                      !.next[cut.prev[before]] = first, !.prev[before] = end]

list_push_front(m, l, e) == list_insert(m, list_begin(m, l), e)
list_push_back(m, l, e) == list_insert(m, TailOf(l), e)

Set(s) == {s[i] : i \in DOMAIN s}

list_reverse(m, l) ==
  IF list_empty(m, l) THEN m
  ELSE LET inner == Set(Chain(m, l))
           turned == [m EXCEPT !.next = [c \in DOMAIN @ |-> IF c \in inner THEN m.prev[c] ELSE @[c]],
                               !.prev = [c \in DOMAIN @ |-> IF c \in inner THEN m.next[c] ELSE @[c]]]
           front == turned.prev[TailOf(l)]
           back == turned.next[HeadOf(l)]
       IN [turned EXCEPT !.next[HeadOf(l)] = front, !.prev[TailOf(l)] = back,
                         !.prev[front] = turned.next[back], !.next[back] = turned.prev[front]]

RECURSIVE find_end_of_run(_, _, _)
find_end_of_run(m, a, b) ==
  LET n == m.next[a] IN IF n # b /\ ~less(m, n, m.prev[n]) THEN find_end_of_run(m, n, b) ELSE n

RECURSIVE inplace_merge(_, _, _, _)
inplace_merge(m, a0, a1b0, b1) ==
  IF a0 = a1b0 \/ a1b0 = b1 THEN m
  ELSE IF ~less(m, a1b0, a0) THEN inplace_merge(m, m.next[a0], a1b0, b1)
  ELSE LET n == m.next[a1b0] IN inplace_merge(list_splice(m, a0, a1b0, n), a0, n, b1)

(* One pass over the list: [m, runs].                                      *)
RECURSIVE MergeRuns(_, _, _, _)
MergeRuns(m, l, a0, runs) ==
  IF a0 = TailOf(l) THEN [m |-> m, runs |-> runs]
  ELSE LET a1b0 == find_end_of_run(m, a0, TailOf(l))
       IN IF a1b0 = TailOf(l) THEN [m |-> m, runs |-> runs + 1]
          ELSE LET b1 == find_end_of_run(m, a1b0, TailOf(l))
               IN MergeRuns(inplace_merge(m, a0, a1b0, b1), l, b1, runs + 1)

RECURSIVE list_sort(_, _)
list_sort(m, l) ==
  LET pass == MergeRuns(m, l, list_begin(m, l), 0)
  IN IF pass.runs > 1 THEN list_sort(pass.m, l) ELSE pass.m

(* The first cell from c on whose element is larger than e.                *)
RECURSIVE FirstLarger(_, _, _, _)
FirstLarger(m, l, c, e) ==
  IF c = TailOf(l) \/ less(m, e, c) THEN c ELSE FirstLarger(m, l, m.next[c], e)
list_insert_ordered(m, l, e) == list_insert(m, FirstLarger(m, l, list_begin(m, l), e), e)

Equal(m, a, b) == ~less(m, a, b) /\ ~less(m, b, a)

(* dup is the list the removed elements go to, or NULL.                    *)
RECURSIVE Unique(_, _, _, _)
Unique(m, l, elem, dup) ==
  LET n == m.next[elem]
      out == list_remove(m, n)
  IN IF n = TailOf(l) THEN m
     ELSE IF ~Equal(m, elem, n) THEN Unique(m, l, n, dup)
     ELSE Unique(IF dup = NULL THEN out ELSE list_push_back(out, dup, n), l, elem, dup)
list_unique(m, l, dup) == IF list_empty(m, l) THEN m ELSE Unique(m, l, list_begin(m, l), dup)

RECURSIVE Best(_, _, _, _, _)
Best(m, better(_, _), e, l, best) ==
  IF e = TailOf(l) THEN best
  ELSE Best(m, better, m.next[e], l, IF better(e, best) THEN e ELSE best)
list_max(m, l) ==
  LET b == list_begin(m, l) IN Best(m, LAMBDA e, x : less(m, x, e), m.next[b], l, b)
list_min(m, l) ==
  LET b == list_begin(m, l) IN Best(m, LAMBDA e, x : less(m, e, x), m.next[b], l, b)

list_swap(m, a, b) == [m EXCEPT !.data[a] = m.data[b], !.data[b] = m.data[a]]
=============================================================================
