------------------------------- MODULE Shell --------------------------------
(***************************************************************************)
(* The shell of Prj0 (main.c, main.h): commands on named lists, hash       *)
(* tables and bitmaps.  One step is one command; out holds the command     *)
(* line and what it prints.                                                *)
(*                                                                         *)
(* A hash table or a bitmap is kept in its slot, as a value: no two slots  *)
(* point to the same one.  A list is a number, its cells are in m.  An     *)
(* element no list holds any more is Free again (the shell never frees     *)
(* one, and never reaches it again).                                       *)
(*                                                                         *)
(* What a session types is bounded: no eleventh object of a kind, no name  *)
(* twice, no bitmap after its delete, positions inside the list, and no    *)
(* range that contains the place it is moved to.                           *)
(***************************************************************************)
EXTENDS Lists, Hashes, Bitmaps, FiniteSets

CONSTANTS
  ObjName, Data, Key,
  Freed,        \* the pointer to a bitmap that was deleted
  Elem,         \* cells the lists have for their elements
  Slots,        \* 10
  Sizes,        \* sizes a bitmap is created with, and expanded by
  MaxBits,      \* bound: bits of a bitmap
  Mix           \* bound: the numbers of lists, tables and bitmaps a session may have

ASSUME ShellAssumption ==
  /\ Slots \in Nat \ {0} /\ Mix \subseteq (0 .. Slots) \X (0 .. Slots) \X (0 .. Slots)
  /\ OpBits \in 1 .. ElemBits
  /\ MinBuckets \in {2 ^ e : e \in 0 .. 10} /\ BestElems \in Nat \ {0}

VARIABLES
  list_arr, l_cnt,      \* slot -> [name, link]
  hash_arr, h_cnt,
  bit_arr, b_cnt,
  m,                    \* the cells of the lists
  applied,              \* history: hash tables changed by hash_apply()
  running,
  out

lvars == <<list_arr, l_cnt>>
hvars == <<hash_arr, h_cnt, applied>>
bvars == <<bit_arr, b_cnt>>
shellVars == <<lvars, hvars, bvars, m, running, out>>

Slot == 0 .. Slots - 1
Cells == Elem \cup {HeadOf(l) : l \in 1 .. Slots} \cup {TailOf(l) : l \in 1 .. Slots}
Nobody == [name |-> "", link |-> NULL]

ShellInit ==
  /\ list_arr = [i \in Slot |-> Nobody] /\ l_cnt = 0
  /\ hash_arr = [i \in Slot |-> Nobody] /\ h_cnt = 0
  /\ bit_arr = [i \in Slot |-> Nobody] /\ b_cnt = 0
  /\ m = [next |-> [c \in Cells |-> NULL], prev |-> [c \in Cells |-> NULL],
          data |-> [e \in Elem |-> 0]]
  /\ applied = {} /\ running = TRUE
  /\ out = [command |-> "", names |-> <<"">>, args |-> << >>, answer |-> << >>]

Named(arr, cnt, n) == {i \in 0 .. cnt - 1 : arr[i].name = n}
find_idx(arr, cnt, n) == IF Named(arr, cnt, n) = {} THEN cnt ELSE Min(Named(arr, cnt, n))

Used == {list_arr[i].name : i \in Slot} \cup {hash_arr[i].name : i \in Slot}
        \cup {bit_arr[i].name : i \in Slot}

\* A command with the names and the numbers behind it, and what it prints.
Says(command, names, args, answer) ==
  out' = [command |-> command, names |-> names, args |-> args, answer |-> <<answer>>]
Silent(command, names, args) ==
  out' = [command |-> command, names |-> names, args |-> args, answer |-> << >>]

-----------------------------------------------------------------------------
create(n) ==
  /\ n \notin Used
  /\ UNCHANGED <<applied, running>>
  /\ \/ /\ <<l_cnt + 1, h_cnt, b_cnt>> \in Mix
        /\ m' = list_init(m, l_cnt + 1)
        /\ list_arr' = [list_arr EXCEPT ![l_cnt] = [name |-> n, link |-> l_cnt + 1]]
        /\ l_cnt' = l_cnt + 1 /\ Silent("create", <<n>>, << >>)
        /\ UNCHANGED <<hash_arr, h_cnt, bvars>>
     \/ /\ <<l_cnt, h_cnt + 1, b_cnt>> \in Mix
        /\ hash_arr' = [hash_arr EXCEPT ![h_cnt] = [name |-> n, link |-> hash_init]]
        /\ h_cnt' = h_cnt + 1 /\ Silent("create", <<n>>, << >>)
        /\ UNCHANGED <<lvars, bvars, m>>
     \/ /\ <<l_cnt, h_cnt, b_cnt + 1>> \in Mix
        /\ \E s \in Sizes : \E junk \in Junk(s) :
             /\ bit_arr' = [bit_arr EXCEPT ![b_cnt] = [name |-> n, link |-> bitmap_create(s, junk)]]
             /\ Silent("create", <<n>>, <<s>>)
        /\ b_cnt' = b_cnt + 1
        /\ UNCHANGED <<lvars, hash_arr, h_cnt, m>>

(* The loop over the slots ends at the first list or bitmap of that name.  *)
(* A list's slot is closed up and the last slot is left as it was; l_cnt   *)
(* stays.  A bitmap is freed, its slot keeps the name and the pointer.     *)
delete(n) ==
  LET hits == {i \in Slot : list_arr[i].name = n \/ bit_arr[i].name = n}
      i == Min(hits)
  IN /\ hits # {} /\ Silent("delete", <<n>>, << >>)
     /\ IF list_arr[i].name = n
        THEN /\ list_arr' = [j \in Slot |-> IF j < i \/ j = Slots - 1 THEN list_arr[j] ELSE list_arr[j + 1]]
             /\ UNCHANGED bvars
        ELSE /\ bit_arr[i].link # Freed
             /\ bit_arr' = [bit_arr EXCEPT ![i].link = Freed]
             /\ UNCHANGED <<lvars, b_cnt>>
     /\ UNCHANGED <<l_cnt, hvars, m, running>>

Values(l) == LET c == Chain(m, l) IN [i \in DOMAIN c |-> m.data[c[i]]]
BitsOf(b) == [i \in 1 .. b.bit_cnt |-> bitmap_test(b, i - 1)]

dumpdata(n) ==
  LET hits == {i \in Slot : n \in {list_arr[i].name, hash_arr[i].name, bit_arr[i].name}}
      i == Min(hits)
  IN /\ hits # {}
     /\ CASE list_arr[i].name = n -> Says("dumpdata_list", <<n>>, << >>, Values(list_arr[find_idx(list_arr, l_cnt, n)].link))
          [] hash_arr[i].name = n -> Says("dumpdata_hash", <<n>>, << >>, Iterated(hash_arr[i].link))
          [] OTHER -> bit_arr[i].link # Freed /\ Says("dumpdata_bitmap", <<n>>, << >>, BitsOf(bit_arr[i].link))
     /\ UNCHANGED <<lvars, hvars, bvars, m, running>>

(* quit; and what ends the shell: a name it has no object of, an assertion *)
(* of the list functions, the remainder of a division by zero.             *)
quit == running' = FALSE /\ Silent("quit", <<"">>, << >>) /\ UNCHANGED <<lvars, hvars, bvars, m>>
Aborts ==
  /\ \/ \E n \in ObjName, cnt \in {l_cnt, h_cnt, b_cnt} : cnt < Slots /\ n \notin Used
     \/ \E i \in 0 .. l_cnt - 1 : list_arr[i].name # "" /\ list_empty(m, list_arr[i].link)
  /\ quit

-----------------------------------------------------------------------------
(* Commands on the list of a name.                                         *)

ListNames == {n \in ObjName : find_idx(list_arr, l_cnt, n) < l_cnt}
Link(n) == list_arr[find_idx(list_arr, l_cnt, n)].link

Free == {e \in Elem : m.prev[e] = NULL}
Forgotten(n, es) ==
  [n EXCEPT !.next = [c \in DOMAIN @ |-> IF c \in es THEN NULL ELSE @[c]],
            !.prev = [c \in DOMAIN @ |-> IF c \in es THEN NULL ELSE @[c]],
            !.data = [c \in DOMAIN @ |-> IF c \in es THEN 0 ELSE @[c]]]
Kept(n, ls) == UNION {Set(Chain(n, l)) : l \in ls}

AllLists == {list_arr[i].link : i \in Slot} \ {NULL}

(* The command leaves the cells n, less the elements in no list.           *)
Change(command, names, args, n) ==
  Silent(command, names, args) /\ m' = Forgotten(n, Elem \ Kept(n, AllLists))

At(l, i) == Walk(m, list_begin(m, l), i)
list_size(l) == Len(Chain(m, l))
With(e, d) == [m EXCEPT !.data[e] = d]

(* An empty list is known by its tail; then head and tail are set again,   *)
(* as list_push_back() has already set them.                               *)
list_insert_cmd(l, e, i, d) ==
  IF m.prev[TailOf(l)] = HeadOf(l)
  THEN [list_push_back(With(e, d), l, e) EXCEPT !.next[HeadOf(l)] = e, !.prev[TailOf(l)] = e]
  ELSE list_insert(With(e, d), At(l, i), e)

Shuffles(l) ==
  {[m EXCEPT !.data = [e \in DOMAIN @ |-> IF e \in Set(Chain(m, l)) THEN @[p[e]] ELSE @[e]]] :
     p \in {q \in [Set(Chain(m, l)) -> Set(Chain(m, l))] : \A x, y \in DOMAIN q : q[x] = q[y] => x = y}}

ListCommand(name) ==
  LET l == Link(name)
      size == list_size(l)
      Now(command, args, n) == Change(command, <<name>>, args, n)
      Answer(command, a) == Says(command, <<name>>, << >>, a) /\ UNCHANGED m
  IN \/ \E e \in Free, d \in Data :
          \/ \E i \in 0 .. size : Now("list_insert", <<i, d>>, list_insert_cmd(l, e, i, d))
          \/ Now("list_push_front", <<d>>, list_push_front(With(e, d), l, e))
          \/ Now("list_push_back", <<d>>, list_push_back(With(e, d), l, e))
          \/ Now("list_insert_ordered", <<d>>, list_insert_ordered(With(e, d), l, e))
     \/ \E i \in 0 .. size - 1 :
          \/ Now("list_remove", <<i>>, list_remove(m, At(l, i)))
          \/ \E j \in 0 .. size - 1 : Now("list_swap", <<i, j>>, list_swap(m, At(l, i), At(l, j)))
     \/ /\ size > 0
        /\ \/ Now("list_pop_front", << >>, list_pop_front(m, l))
           \/ Now("list_pop_back", << >>, list_pop_back(m, l))
           \/ \E n \in Shuffles(l) : Now("list_shuffle", << >>, n)
           \/ Answer("list_front", m.data[list_front(m, l)])
           \/ Answer("list_back", m.data[list_back(m, l)])
           \/ Answer("list_max", m.data[list_max(m, l)])
           \/ Answer("list_min", m.data[list_min(m, l)])
     \/ Answer("list_size", size)
     \/ Answer("list_empty", list_empty(m, l))
     \/ Now("list_reverse", << >>, list_reverse(m, l))
     \/ Now("list_sort", << >>, list_sort(m, l))
     \/ Now("list_unique", << >>, list_unique(m, l, NULL))

TwoListCommand(name, other) ==
  LET l == Link(name)
      o == Link(other)
      Now(command, args, n) == Change(command, <<name, other>>, args, n)
  IN \/ l # o /\ Now("list_unique", << >>, list_unique(m, l, o))
     \/ \E c \in 0 .. list_size(o), a \in 0 .. list_size(l) : \E b \in 0 .. c :
          /\ l = o => a < b \/ a >= c
          /\ Now("list_splice", <<a, b, c>>, list_splice(m, At(l, a), At(o, b), At(o, c)))

-----------------------------------------------------------------------------
(* Commands on the hash table of slot i, and on the bitmap of slot i.      *)

hash_square(k) == k * k
hash_triple(k) == k * k * k

HashCommand(i) ==
  LET h == hash_arr[i].link
      Becomes(command, args, hs) ==
        /\ Silent(command, <<hash_arr[i].name>>, args)
        /\ \E n \in hs : hash_arr' = [hash_arr EXCEPT ![i].link = n]
        /\ UNCHANGED applied
      Tells(command, args, a) ==
        Says(command, <<hash_arr[i].name>>, args, a) /\ UNCHANGED <<hash_arr, applied>>
      Apply(action(_), power) ==
        /\ \A k \in Set(Elems(h)) : action(k) \in Key
        /\ Silent("hash_apply", <<hash_arr[i].name>>, <<power>>)
        /\ hash_arr' = [hash_arr EXCEPT ![i].link = hash_apply(h, action)]
        /\ applied' = applied \cup {i}
  IN \/ \E k \in Key :
          \/ h.elem_cnt < Cardinality(Key) /\ Becomes("hash_insert", <<k>>, hash_insert(h, k))
          \/ h.elem_cnt < Cardinality(Key) /\ Becomes("hash_replace", <<k>>, hash_replace(h, k))
          \/ Becomes("hash_delete", <<k>>, hash_delete(h, k))
          \/ IF hash_find(h, k) THEN Tells("hash_find", <<k>>, k)
             ELSE Silent("hash_find", <<hash_arr[i].name>>, <<k>>) /\ UNCHANGED <<hash_arr, applied>>
     \/ /\ Silent("hash_clear", <<hash_arr[i].name>>, << >>)
        /\ hash_arr' = [hash_arr EXCEPT ![i].link = hash_clear(h)] /\ applied' = applied \ {i}
     \/ Apply(hash_square, 2)
     \/ Apply(hash_triple, 3)
     \/ Tells("hash_size", << >>, hash_size(h))
     \/ Tells("hash_empty", << >>, hash_empty(h))

BitmapCommand(i) ==
  LET b == bit_arr[i].link
      Becomes(command, args, n) ==
        /\ Silent(command, <<bit_arr[i].name>>, args)
        /\ bit_arr' = [bit_arr EXCEPT ![i].link = n]
      Tells(command, args, a) == Says(command, <<bit_arr[i].name>>, args, a) /\ UNCHANGED bit_arr
  IN \/ \E j \in 0 .. b.bit_cnt - 1 :
          \/ \E v \in BOOLEAN : Becomes("bitmap_set", <<j, v>>, bitmap_set(b, j, v))
          \/ Becomes("bitmap_mark", <<j>>, bitmap_mark(b, j))
          \/ Becomes("bitmap_reset", <<j>>, bitmap_reset(b, j))
          \/ Becomes("bitmap_flip", <<j>>, bitmap_flip(b, j))
          \/ Tells("bitmap_test", <<j>>, bitmap_test(b, j))
     \/ \E v \in BOOLEAN :
          \/ Becomes("bitmap_set_all", <<v>>, bitmap_set_all(b, v))
          \/ \E j \in 0 .. b.bit_cnt : \E c \in 0 .. b.bit_cnt - j :
               \/ Becomes("bitmap_set_multiple", <<j, c, v>>, bitmap_set_multiple(b, j, c, v))
               \/ Tells("bitmap_count", <<j, c, v>>, bitmap_count(b, j, c, v))
               \/ Tells("bitmap_contains", <<j, c, v>>, bitmap_contains(b, j, c, v))
          \/ \E j, c \in 0 .. b.bit_cnt :
               \/ Tells("bitmap_scan", <<j, c, v>>, bitmap_scan(b, j, c, v))
               \/ /\ Says("bitmap_scan_and_flip", <<bit_arr[i].name>>, <<j, c, v>>, bitmap_scan(b, j, c, v))
                  /\ bit_arr' = [bit_arr EXCEPT ![i].link = bitmap_scan_and_flip(b, j, c, v)]
     \/ \E j \in 0 .. b.bit_cnt : \E c \in 0 .. b.bit_cnt - j :
          \/ Tells("bitmap_any", <<j, c>>, bitmap_any(b, j, c))
          \/ Tells("bitmap_none", <<j, c>>, bitmap_none(b, j, c))
          \/ Tells("bitmap_all", <<j, c>>, bitmap_all(b, j, c))
     \/ Tells("bitmap_size", << >>, bitmap_size(b))
     \/ \E s \in Sizes : /\ b.bit_cnt + s <= MaxBits
                         /\ \E junk \in Junk(b.bit_cnt + s) :
                              Becomes("bitmap_expand", <<s>>, bitmap_expand(b, s, junk))

-----------------------------------------------------------------------------
ShellNext ==
  /\ running
  /\ \/ \E n \in ObjName : create(n) \/ delete(n) \/ dumpdata(n)
     \/ quit \/ Aborts
     \/ /\ UNCHANGED <<lvars, hvars, bvars, running>>
        /\ \/ \E n \in ListNames : ListCommand(n)
           \/ \E n, o \in ListNames : TwoListCommand(n, o)
     \/ /\ UNCHANGED <<lvars, h_cnt, bvars, m, running>>
        /\ \E i \in 0 .. h_cnt - 1 : HashCommand(i)
     \/ /\ UNCHANGED <<lvars, hvars, b_cnt, m, running>>
        /\ \E i \in 0 .. b_cnt - 1 : bit_arr[i].link # Freed /\ BitmapCommand(i)

ShellSpec == ShellInit /\ [][ShellNext]_shellVars

-----------------------------------------------------------------------------
(* Until hash_apply() changes its elements, every element of a table is in *)
(* the bucket the hash function gives it now, whatever rehash() did or     *)
(* could not do, no two are equal, and elem_cnt counts them.               *)
HashExact ==
  \A i \in 0 .. h_cnt - 1 :
    LET h == hash_arr[i].link
    IN /\ h.elem_cnt = Len(Elems(h))
       /\ i \notin applied =>
            /\ \A b \in DOMAIN h.buckets : \A k \in Set(h.buckets[b]) : find_bucket(h, k) = b
            /\ Len(Elems(h)) = Cardinality(Set(Elems(h)))

ByName(arr, cnt, Value(_)) ==
  LET known == {n \in ObjName : Named(arr, cnt, n) # {} /\ arr[find_idx(arr, cnt, n)].link # Freed}
  IN [n \in known |-> Value(find_idx(arr, cnt, n))]

Abstract == INSTANCE Collections WITH
  Exact <- OpBits,
  lists <- ByName(list_arr, l_cnt, LAMBDA i : Values(list_arr[i].link)),
  sets <- ByName(hash_arr, h_cnt, LAMBDA i : [keys |-> Set(Elems(hash_arr[i].link)), loose |-> i \in applied]),
  bits <- ByName(bit_arr, b_cnt, LAMBDA i : BitsOf(bit_arr[i].link)),
  room <- Slots - l_cnt

(* The commands do to the pointers, the buckets and the words what they    *)
(* promise to do, with the names and numbers they are given, to a named    *)
(* sequence, set or array of bits, and print what follows from it.  The    *)
(* three exceptions are those at the head of Collections.                  *)
ImplementsCollections == Abstract!CSpec

=============================================================================
