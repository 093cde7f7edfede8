------------------------------- MODULE Hashes -------------------------------
(***************************************************************************)
(* The chained hash tables of lib/kernel/hash.c, as values: a table is     *)
(* [elem_cnt, bucket_cnt, buckets], a bucket the sequence of the data of   *)
(* its elements.  The lists the buckets are kept in are those of Lists.    *)
(***************************************************************************)
EXTENDS Integers, Sequences, SequencesExt

CONSTANTS
  HashOf,       \* what the hash function of the table gives for each datum
  MinBuckets,   \* 4
  BestElems     \* BEST_ELEMS_PER_BUCKET, 2

Empty(n) == [i \in 0 .. n - 1 |-> << >>]
hash_init == [elem_cnt |-> 0, bucket_cnt |-> MinBuckets, buckets |-> Empty(MinBuckets)]

find_bucket(h, k) == HashOf[k] % h.bucket_cnt
Found(h, k) == {i \in DOMAIN h.buckets[find_bucket(h, k)] : h.buckets[find_bucket(h, k)][i] = k}
find_elem(h, k) == IF Found(h, k) = {} THEN 0
                   ELSE CHOOSE i \in Found(h, k) : \A j \in Found(h, k) : i <= j

insert_elem(h, k) ==
  [h EXCEPT !.elem_cnt = @ + 1, !.buckets[find_bucket(h, k)] = <<k>> \o @]
remove_elem(h, k) ==
  [h EXCEPT !.elem_cnt = @ - 1, !.buckets[find_bucket(h, k)] = RemoveAt(@, find_elem(h, k))]

(* Turning off low bits leaves the largest power of 2 not above n.         *)
PowerOf2(n) == CHOOSE p \in {2 ^ e : e \in 0 .. n} : p <= n /\ 2 * p > n
Ideal(h) == LET n == h.elem_cnt \div BestElems IN PowerOf2(IF n < MinBuckets THEN MinBuckets ELSE n)

Elems(h) == FlattenSeq([i \in 1 .. h.bucket_cnt |-> h.buckets[i - 1]])

(* An iterator is at an element of a bucket, 0 for the head of its list, or *)
(* behind the last bucket.                                                 *)
hash_first == [bucket |-> 0, elem |-> 0]
hash_next(h, i) ==
  LET later == {b \in i.bucket + 1 .. h.bucket_cnt - 1 : h.buckets[b] # << >>}
  IN IF i.elem < Len(h.buckets[i.bucket]) THEN [i EXCEPT !.elem = @ + 1]
     ELSE IF later = {} THEN [bucket |-> h.bucket_cnt, elem |-> 0]
     ELSE [bucket |-> CHOOSE b \in later : \A c \in later : b <= c, elem |-> 1]
hash_cur(h, i) == h.buckets[i.bucket][i.elem]
hash_size(h) == h.elem_cnt
hash_empty(h) == h.elem_cnt = 0

(* The data behind iterator i, as dumpdata_hash() comes to them.           *)
RECURSIVE IteratedFrom(_, _)
IteratedFrom(h, i) ==
  IF i.bucket = h.bucket_cnt THEN << >> ELSE <<hash_cur(h, i)>> \o IteratedFrom(h, hash_next(h, i))
Iterated(h) == IteratedFrom(h, hash_next(h, hash_first))

(* rehash() when the new buckets can be allocated.                         *)
rehash(h) ==
  LET n == Ideal(h)
      bare == [h EXCEPT !.bucket_cnt = n, !.buckets = Empty(n)]
      push(new, k) == [new EXCEPT !.buckets[find_bucket(new, k)] = <<k>> \o @]
  IN IF n = h.bucket_cnt THEN h ELSE FoldLeft(push, bare, Elems(h))

(* The tables a change may leave: the allocation in rehash() may fail.     *)
Rehashed(h) == {h, rehash(h)}

hash_insert(h, k) == Rehashed(IF find_elem(h, k) = 0 THEN insert_elem(h, k) ELSE h)
hash_replace(h, k) == Rehashed(insert_elem(IF find_elem(h, k) = 0 THEN h ELSE remove_elem(h, k), k))
hash_find(h, k) == find_elem(h, k) # 0
hash_delete(h, k) == IF find_elem(h, k) = 0 THEN {h} ELSE Rehashed(remove_elem(h, k))
hash_clear(h) == [h EXCEPT !.elem_cnt = 0, !.buckets = Empty(h.bucket_cnt)]
hash_apply(h, action(_)) ==
  [h EXCEPT !.buckets = [i \in DOMAIN @ |-> [j \in DOMAIN @[i] |-> action(@[i][j])]]]
=============================================================================
