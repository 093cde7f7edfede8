--------------------------- MODULE Memory_proofs ---------------------------
(***************************************************************************)
(* The books of threads/palloc.c and threads/malloc.c agree with what their *)
(* users have, for any number of threads, any memory and any sizes: MInv is *)
(* kept by every step of every thread, and BooksExact follows from it.      *)
(* The argument: own says who has which pages - a piece in use, an arena or *)
(* a thread between two steps - and each page marked has exactly one owner. *)
(* A thread that has set some bits of its run, or cleared some, owns that   *)
(* part, so no step has to undo another's. Of the blocks of an arena each   *)
(* is listed, held or on its way back to the list, and the descriptor's     *)
(* lock keeps a list that malloc() found empty empty until it is refilled.  *)
(* That what callers get is as large as they asked, apart from the rest and *)
(* stays so (ImplementsAllocator) follows from where MInv puts the pieces.  *)
(***************************************************************************)
EXTENDS Memory, FiniteSetTheorems, SequenceTheorems, WellFoundedInduction, TLAPS

-----------------------------------------------------------------------------
(* Natural numbers: least elements, induction, quotients.                   *)

\* Every set of naturals that is not empty has a least element.
LEMMA LeastNat ==
    ASSUME NEW S, S \subseteq Nat, S # {}
    PROVE  \E m \in S : \A n \in S : m <= n
<1>1. \E x \in S : \A y \in S : ~(<<y, x>> \in OpToRel(<, Nat))
  BY NatLessThanWellFounded, WFMin
<1>2. PICK m \in S : \A y \in S : ~(<<y, m>> \in OpToRel(<, Nat))  BY <1>1
<1>3. \A y \in S : ~(y < m)  BY <1>2 DEF OpToRel
<1> QED  BY <1>3

\* A set with 0 and with the successor of each of its naturals has them all.
LEMMA NatSetInduction ==
    ASSUME NEW S, 0 \in S, \A n \in Nat : n \in S => n + 1 \in S
    PROVE  \A n \in Nat : n \in S
<1> SUFFICES ASSUME NEW z \in Nat, z \notin S PROVE FALSE  OBVIOUS
<1> DEFINE T == {n \in Nat : n \notin S}
<1>1. T \subseteq Nat /\ T # {}  OBVIOUS
<1>2. PICK m \in T : \A n \in T : m <= n
  <2> HIDE DEF T
  <2> QED  BY <1>1, LeastNat
<1>3. m \in Nat /\ m # 0 /\ m - 1 \in Nat /\ m - 1 \in S  BY <1>2
<1>4. (m - 1) + 1 \in S  BY <1>3
<1> QED  BY <1>3, <1>4

\* The quotient of a multiple gives the factor back.
LEMMA Quotient ==
    ASSUME NEW x \in Nat, NEW d \in Nat \ {0}
    PROVE  x \div d \in Nat /\ (x * d) \div d = x
OBVIOUS

\* A number that holds the divisor has a quotient of at least one.
LEMMA QuotientPositive ==
    ASSUME NEW x \in Nat, NEW d \in Nat \ {0}, d <= x
    PROVE  x \div d >= 1
OBVIOUS

\* Two multiples of d are apart or the same.
LEMMA SameMultiple ==
    ASSUME NEW i \in Nat, NEW j \in Nat, NEW d \in Nat \ {0}, i * d = j * d
    PROVE  i = j
<1>1. (i * d) \div d = i  BY Quotient
<1>2. (j * d) \div d = j  BY Quotient
<1> QED  BY <1>1, <1>2

-----------------------------------------------------------------------------
(* without(): what the loop of free() leaves of a free list.                *)

\* The lists that are left after each of the first n elements.
kept_until(list, page, f, n) ==
  f = [i \in 0 .. n |-> IF i = 0 THEN <<>>
                        ELSE IF list[i][1] = page THEN f[i - 1] ELSE Append(f[i - 1], list[i])]
kept(list, page) == CHOOSE f : kept_until(list, page, f, Len(list))

\* The recursion of without() has a solution for every list.
LEMMA KeptExists ==
    ASSUME NEW S, NEW list \in Seq(S), NEW page
    PROVE  kept_until(list, page, kept(list, page), Len(list))
<1> DEFINE N == {n \in Nat : \E f : kept_until(list, page, f, n)}
<1>1. 0 \in N
  <2> DEFINE f == [i \in 0 .. 0 |-> <<>>]
  <2>1. f = [i \in 0 .. 0 |-> IF i = 0 THEN <<>>
                              ELSE IF list[i][1] = page THEN f[i - 1] ELSE Append(f[i - 1], list[i])]
    OBVIOUS
  <2> HIDE DEF f
  <2>2. kept_until(list, page, f, 0)  BY <2>1 DEF kept_until
  <2> QED  BY <2>2
<1>2. ASSUME NEW n \in Nat, n \in N PROVE n + 1 \in N
  <2>1. PICK f : kept_until(list, page, f, n)  BY <1>2
  <2> DEFINE g == [i \in 0 .. n + 1 |->
                     IF i = n + 1 THEN IF list[n + 1][1] = page THEN f[n] ELSE Append(f[n], list[n + 1])
                     ELSE f[i]]
  <2>2. \A i \in 0 .. n : g[i] = f[i]  OBVIOUS
  <2>3. \A i \in 0 .. n : f[i] = IF i = 0 THEN <<>>
                                 ELSE IF list[i][1] = page THEN f[i - 1] ELSE Append(f[i - 1], list[i])
    BY <2>1 DEF kept_until
  <2>4. g[n + 1] = IF list[n + 1][1] = page THEN f[n] ELSE Append(f[n], list[n + 1])  OBVIOUS
  <2>5. g = [i \in 0 .. n + 1 |-> g[i]]  OBVIOUS
  <2> HIDE DEF g
  <2>6. \A i \in 0 .. n + 1 : g[i] = IF i = 0 THEN <<>>
                                     ELSE IF list[i][1] = page THEN g[i - 1] ELSE Append(g[i - 1], list[i])
    <3> SUFFICES ASSUME NEW i \in 0 .. n + 1
                 PROVE  g[i] = IF i = 0 THEN <<>>
                               ELSE IF list[i][1] = page THEN g[i - 1] ELSE Append(g[i - 1], list[i])
      OBVIOUS
    <3>1. CASE i = 0  BY <3>1, <2>2, <2>3
    <3>2. CASE i = n + 1
      <4>1. i # 0 /\ i - 1 = n /\ n \in 0 .. n  BY <3>2
      <4>2. g[i - 1] = f[n]  BY <4>1, <2>2
      <4> QED  BY <2>4, <3>2, <4>1, <4>2
    <3>3. CASE i # 0 /\ i # n + 1
      <4>1. i \in 0 .. n /\ i - 1 \in 0 .. n  BY <3>3
      <4>2. g[i] = f[i] /\ g[i - 1] = f[i - 1]  BY <4>1, <2>2
      <4> QED  BY <2>3, <3>3, <4>1, <4>2
    <3> QED  BY <3>1, <3>2, <3>3
  <2>7. kept_until(list, page, g, n + 1)  BY <2>5, <2>6 DEF kept_until
  <2> QED  BY <2>7
<1>3. \A n \in Nat : n \in N
  <2> HIDE DEF N
  <2> QED  BY <1>1, <1>2, NatSetInduction
<1>4. Len(list) \in Nat  BY LenProperties
<1>5. \E f : kept_until(list, page, f, Len(list))  BY <1>3, <1>4
<1> QED  BY <1>5 DEF kept

\* free() takes exactly the given page's blocks off the list, and doubles none.
LEMMA WithoutPage ==
    ASSUME NEW S, NEW list \in Seq(S), NEW page
    PROVE  /\ without(list, page) \in Seq(S)
           /\ ToSet(without(list, page)) = {b \in ToSet(list) : b[1] # page}
           /\ IsInjective(list) => IsInjective(without(list, page))
<1> DEFINE k == kept(list, page)
<1>1. kept_until(list, page, k, Len(list))  BY KeptExists
<1>2. without(list, page) = k[Len(list)]  BY Zenon DEF without, kept, kept_until
<1>3. Len(list) \in Nat /\ DOMAIN list = 1 .. Len(list)  BY LenProperties
<1>4. k[0] = <<>>  BY <1>1, <1>3 DEF kept_until
<1>5. \A n \in 1 .. Len(list) : k[n] = IF list[n][1] = page THEN k[n - 1] ELSE Append(k[n - 1], list[n])
  <2>1. \A n \in 0 .. Len(list) : k[n] = IF n = 0 THEN <<>>
           ELSE IF list[n][1] = page THEN k[n - 1] ELSE Append(k[n - 1], list[n])
    BY <1>1 DEF kept_until
  <2> HIDE DEF k
  <2> QED  BY <1>3, <2>1
<1> HIDE DEF k
<1> DEFINE Before(n) == {list[j] : j \in {i \in 1 .. n : list[i][1] # page}}
           Good(n) == /\ k[n] \in Seq(S) /\ ToSet(k[n]) = Before(n)
                      /\ IsInjective(list) => IsInjective(k[n])
           N == {n \in Nat : n <= Len(list) => Good(n)}
<1>6. 0 \in N
  <2>1. <<>> \in Seq(S) /\ ToSet(<<>>) = {} /\ IsInjective(<<>>)
    BY EmptySeq DEF ToSet, IsInjective
  <2>2. Before(0) = {}  OBVIOUS
  <2> QED  BY <1>4, <2>1, <2>2
<1>7. ASSUME NEW n \in Nat, n \in N PROVE n + 1 \in N
  <2> SUFFICES ASSUME n + 1 <= Len(list) PROVE Good(n + 1)  OBVIOUS
  <2>1. Good(n)  BY <1>3, <1>7
  <2>2. n + 1 \in 1 .. Len(list) /\ (n + 1) - 1 = n /\ list[n + 1] \in S
    BY <1>3, ElementOfSeq
  <2>3. k[n + 1] = IF list[n + 1][1] = page THEN k[n] ELSE Append(k[n], list[n + 1])
    BY <1>5, <2>2
  <2>4. \A j \in 1 .. n + 1 : j \in 1 .. n \/ j = n + 1  OBVIOUS
  <2>5. CASE list[n + 1][1] = page
    <3>1. Before(n + 1) = Before(n)  BY <2>4, <2>5
    <3> QED  BY <2>1, <2>3, <2>5, <3>1
  <2>6. CASE list[n + 1][1] # page
    <3> DEFINE e == list[n + 1]
               s == k[n]
    <3>1. Before(n + 1) = Before(n) \cup {e}  BY <2>4, <2>6
    <3>2. s \in Seq(S) /\ ToSet(s) = Before(n) /\ e \in S  BY <2>1, <2>2
    <3>3. IsInjective(list) => e \notin Before(n)
      BY <1>3, <2>2 DEF IsInjective
    <3>4. IsInjective(list) => IsInjective(s)  BY <2>1
    <3> HIDE DEF e, s, Before
    <3>5. /\ Append(s, e) \in Seq(S) /\ Len(Append(s, e)) = Len(s) + 1 /\ Len(s) \in Nat
          /\ \A i \in 1 .. Len(s) : Append(s, e)[i] = s[i]
          /\ Append(s, e)[Len(s) + 1] = e
          /\ DOMAIN s = 1 .. Len(s) /\ DOMAIN Append(s, e) = 1 .. Len(s) + 1
      BY <3>2, AppendProperties, LenProperties
    <3>6. \A i \in 1 .. Len(s) + 1 : i \in 1 .. Len(s) \/ i = Len(s) + 1  BY <3>5
    <3>7. ToSet(Append(s, e)) = ToSet(s) \cup {e}  BY <3>5, <3>6 DEF ToSet
    <3>8. ASSUME IsInjective(list) PROVE IsInjective(Append(s, e))
      <4>1. \A i \in 1 .. Len(s) : s[i] # e  BY <3>2, <3>3, <3>5, <3>8 DEF ToSet
      <4> QED  BY <3>4, <3>5, <3>6, <3>8, <4>1 DEF IsInjective
    <3>9. k[n + 1] = Append(s, e)  BY <2>3, <2>6 DEF s, e
    <3> QED  BY <3>1, <3>2, <3>5, <3>7, <3>8, <3>9
  <2> QED  BY <2>5, <2>6
<1>8. \A n \in Nat : n \in N
  <2> HIDE DEF N
  <2> QED  BY <1>6, <1>7, NatSetInduction
<1>9. Good(Len(list))
  <2>1. Len(list) \in N  BY <1>3, <1>8
  <2> HIDE DEF Good
  <2> QED  BY <1>3, <2>1
<1>10. Before(Len(list)) = {b \in ToSet(list) : b[1] # page}  BY <1>3 DEF ToSet
<1> QED  BY <1>2, <1>9, <1>10

-----------------------------------------------------------------------------
(* The invariant: what the state is made of.                                *)

\* The pieces a user may hold, where a thread can be, and its locals there.
Block == [page : Nat, off : Nat, want : Int, pages : Nat]
Label == {"idle", "get", "scan", "flip", "pages", "no_pages", "clear", "malloc", "free", "copied"}
Local == [pool : Pool, cnt : Nat, idx : Nat, done : Nat, page : Nat, desc : Nat, want : Int,
          ret : {"pages", "arena", "big"}, old : Block]

\* The types of the variables.
MTyped ==
  /\ used_map \in [Pool -> SUBSET Nat]
  /\ pool_lock \in [Pool -> Thread \cup {NoThread}]
  /\ desc_lock \in [Desc -> Thread \cup {NoThread}]
  /\ free_list \in [Desc -> Seq(Page \X Nat)]
  /\ arena \in [Page -> [desc : Desc \cup {0}, free_cnt : Nat]]
  /\ live \subseteq Block
  /\ stage \in [Thread -> Label]
  /\ work \in [Thread -> Local]

\* Pages from first on that are all of pool k.
Within(k, first, cnt) == pool[k].base <= first /\ first + cnt <= pool[k].base + pool[k].size

(* Who has which pages: Groups, as a function of the owner.                 *)
Owner == ({"live"} \X Block) \cup ({"arena"} \X Page) \cup ({"thread"} \X Thread)
LivePages(b) == IF b \in live THEN Group(b.page, b.pages) ELSE {}
ArenaPages(p) == Group(p, IF arena[p].desc > 0 THEN 1 ELSE arena[p].free_cnt)
ThreadPages(t) ==
  LET l == work[t]
  IN CASE stage[t] = "flip" -> Group(pool[l.pool].base + l.idx, l.done)
       [] stage[t] = "pages" -> Group(l.page, l.cnt)
       [] stage[t] = "clear" -> Group(pool[l.pool].base + l.idx + l.done, l.cnt - l.done)
       [] OTHER -> {}
own == [o \in Owner |->
          CASE o[1] = "live" -> LivePages(o[2])
            [] o[1] = "arena" -> ArenaPages(o[2])
            [] o[1] = "thread" -> ThreadPages(o[2])]
Marked == UNION {{pool[k].base + i : i \in used_map[k]} : k \in Pool}

\* No page has two owners, and exactly those of owners are marked.
Apart(f) == \A o, h \in DOMAIN f : o # h => f[o] \cap f[h] = {}
Covered(f) == UNION {f[o] : o \in DOMAIN f}
PagesExact == Apart(own) /\ Marked = Covered(own)
\* A pool marks bits of its own only.
BitsOK == \A k \in Pool : used_map[k] \subseteq Bits(k)

(* A thread inside the allocators.                                          *)
InPalloc == {"get", "scan", "flip", "pages", "no_pages"}
ThreadAt(t) ==
  LET l == work[t]
  IN /\ stage[t] = "idle" => l = NoWork
     /\ stage[t] \in {"get", "scan", "flip", "pages"} => l.cnt > 0
     /\ stage[t] \in {"get", "scan"} => l.done = 0
     /\ stage[t] \in {"scan", "flip"} => pool_lock[l.pool] = t
     /\ stage[t] = "flip" => /\ l.done < l.cnt /\ l.idx + l.cnt <= pool[l.pool].size
                          /\ \A i \in l.idx + l.done .. l.idx + l.cnt - 1 : i \notin used_map[l.pool]
     /\ stage[t] = "pages" => Within(l.pool, l.page, l.cnt)
     /\ stage[t] = "clear" => l.done < l.cnt /\ l.idx + l.cnt <= pool[l.pool].size
     /\ stage[t] \in InPalloc /\ l.ret = "arena" =>
          /\ l.desc \in Desc /\ desc_lock[l.desc] = t /\ free_list[l.desc] = <<>>
          /\ stage[t] # "no_pages" => l.cnt = 1
     /\ stage[t] = "clear" /\ l.ret = "arena" => l.desc \in Desc /\ desc_lock[l.desc] = t
     /\ stage[t] = "malloc" => l.desc \in Desc
     /\ stage[t] = "free" => /\ l.desc \in Desc /\ l.page \in Page /\ arena[l.page].desc = l.desc
                          /\ l.idx \in 0 .. blocks_per_arena(l.desc) - 1
ThreadsAt == \A t \in Thread : ThreadAt(t)

(* The block a realloc() has copied from, or will.                          *)
OldKept ==
  /\ \A t \in Thread :
       /\ work[t].old # NoBlock => work[t].old \in live /\ work[t].old.pages = 0
       /\ stage[t] \in {"clear", "free"} => work[t].old = NoBlock
       /\ stage[t] = "copied" => work[t].old # NoBlock
  /\ \A t, u \in Thread : work[t].old = work[u].old => t = u \/ work[t].old = NoBlock

(* Where the pieces in use lie.                                             *)
Offset(d, i) == Header + i * d
Placed(b) ==
  /\ b.page \in Page
  /\ \/ arena[b.page].desc = 0 /\ arena[b.page].free_cnt > 0 /\ b.off = Header
     \/ /\ arena[b.page].desc > 0
        /\ \E i \in 0 .. blocks_per_arena(arena[b.page].desc) - 1 : b.off = Offset(arena[b.page].desc, i)
LivePlaced ==
  /\ \A b \in live : IF b.pages > 0 THEN b.off = 0 /\ \E k \in Pool : Within(k, b.page, b.pages)
                     ELSE Placed(b)
  /\ \A b, c \in live : b.pages = 0 /\ c.pages = 0 /\ b.page = c.page /\ b.off = c.off => b = c

ArenasPlaced ==
  \A p \in Page : \/ arena[p] = NoArena
                  \/ \E k \in Pool : Within(k, p, IF arena[p].desc > 0 THEN 1 ELSE arena[p].free_cnt)

(* Each block of an arena is on the free list, or held, or being freed.     *)
Listed(p, i) == <<p, i>> \in ToSet(free_list[arena[p].desc])
Held(p, i) == \E b \in live : b.pages = 0 /\ b.page = p /\ b.off = Offset(arena[p].desc, i)
Freeing(p, i) == \E t \in Thread : stage[t] = "free" /\ work[t].page = p /\ work[t].idx = i
BlockOf(p) == 0 .. blocks_per_arena(arena[p].desc) - 1
ListedOf(p) == {i \in BlockOf(p) : Listed(p, i)}
\* Each block of the arena at p is in exactly one of the three states, and
\* an arena is given back before all of its blocks are listed.
PageBooks(p) ==
  arena[p].desc > 0 =>
    /\ \A i \in BlockOf(p) :
         /\ Listed(p, i) \/ Held(p, i) \/ Freeing(p, i)
         /\ ~(Listed(p, i) /\ Held(p, i)) /\ ~(Listed(p, i) /\ Freeing(p, i)) /\ ~(Held(p, i) /\ Freeing(p, i))
    /\ arena[p].free_cnt = Cardinality(ListedOf(p))
    /\ \E i \in BlockOf(p) : ~Listed(p, i)
\* No two threads free the same block.
FreedOnce ==
  \A t, u \in Thread : stage[t] = "free" /\ stage[u] = "free" /\ work[t].page = work[u].page /\ work[t].idx = work[u].idx => t = u
\* The books of all arenas.
BlocksExact == (\A p \in Page : PageBooks(p)) /\ FreedOnce
\* A descriptor lists blocks of its own arenas, each once.
ListsExact ==
  \A d \in Desc :
    /\ IsInjective(free_list[d])
    /\ \A e \in ToSet(free_list[d]) : arena[e[1]].desc = d /\ e[2] \in 0 .. blocks_per_arena(d) - 1

\* The inductive invariant.
MInv == /\ MTyped /\ BitsOK /\ PagesExact /\ ThreadsAt /\ OldKept
        /\ LivePlaced /\ ArenasPlaced /\ BlocksExact /\ ListsExact

-----------------------------------------------------------------------------
(* The pools: ranges of pages, one behind the other.                        *)

\* What the constants are assumed to be.
LEMMA Constants ==
  /\ NoThread \notin Thread
  /\ FreePages \in Nat /\ user_page_limit \in Nat /\ PageSize \in Nat /\ Header \in Nat
  /\ MinBlock \in Nat /\ SizeT \in Nat /\ SizeT > 0
  /\ Header > 0 /\ 2 * Header <= PageSize /\ MinBlock > 0 /\ PageSize > 0
  /\ PageCounts \subseteq Nat /\ Sizes \subseteq 0 .. SizeT - 1
  /\ Factors \subseteq (0 .. SizeT - 1) \X (0 .. SizeT - 1)
BY MemoryAssumption

\* DIV_ROUND_UP is a natural, whether or not the sum in it wraps.
LEMMA RoundUpType ==
    ASSUME NEW x \in Nat, NEW step \in Nat \ {0}
    PROVE  DIV_ROUND_UP(x, step) \in Nat
<1>1. x + step - 1 \in Nat /\ SizeT \in Nat \ {0}  BY Constants
<1>2. (x + step - 1) % SizeT \in Nat  BY <1>1
<1> QED  BY <1>2, Quotient DEF DIV_ROUND_UP

\* The kernel pool lies below the user pool, and both within the free pages.
LEMMA PoolsAre ==
  /\ Pool = {"kernel", "user"}
  /\ \A k \in Pool : pool[k].base \in Nat /\ pool[k].size \in Int /\ pool[k].base + pool[k].size <= FreePages
  /\ pool["kernel"].base + pool["kernel"].size <= pool["user"].base
<1> USE Constants
<1> DEFINE bitmap(n) == DIV_ROUND_UP(8 + 4 * ((n + 31) \div 32), PageSize)
<1>1. user_pages \in Nat /\ user_pages <= FreePages  BY DEF user_pages
<1>2. \A n \in Nat : bitmap(n) \in Nat
  <2> SUFFICES ASSUME NEW n \in Nat PROVE bitmap(n) \in Nat  OBVIOUS
  <2>1. 8 + 4 * ((n + 31) \div 32) \in Nat  OBVIOUS
  <2> QED  BY <2>1, RoundUpType
<1> DEFINE kernels == FreePages - user_pages
<1>3. kernels \in Nat  BY <1>1
<1>4. bitmap(kernels) \in Nat /\ bitmap(user_pages) \in Nat  BY <1>1, <1>2, <1>3
<1>5. pool = [kernel |-> [base |-> 0 + bitmap(kernels), size |-> kernels - bitmap(kernels)],
              user |-> [base |-> kernels + bitmap(user_pages), size |-> user_pages - bitmap(user_pages)]]
  BY Zenon DEF pool, init_pool
<1> HIDE DEF bitmap
<1>6. Pool = {"kernel", "user"}  BY <1>5 DEF Pool
<1>7. /\ pool["kernel"].base = bitmap(kernels) /\ pool["kernel"].size = kernels - bitmap(kernels)
      /\ pool["user"].base = kernels + bitmap(user_pages)
      /\ pool["user"].size = user_pages - bitmap(user_pages)
  BY <1>4, <1>5
<1> QED  BY <1>1, <1>3, <1>4, <1>6, <1>7

\* A page lies in one pool at most.
LEMMA OnePool ==
    ASSUME NEW k \in Pool, NEW h \in Pool, NEW q \in Int,
           page_from_pool(k, q), page_from_pool(h, q)
    PROVE  k = h
BY PoolsAre DEF page_from_pool, Bits

\* A page is from a pool if it is one of the pool's bits.
LEMMA InPool ==
    ASSUME NEW k \in Pool, NEW q \in Int
    PROVE  page_from_pool(k, q) <=> pool[k].base <= q /\ q < pool[k].base + pool[k].size
BY PoolsAre DEF page_from_pool, Bits

\* A run of pages within a pool is from that pool, and from no other.
LEMMA WithinPool ==
    ASSUME NEW k \in Pool, NEW first \in Int, NEW cnt \in Nat, Within(k, first, cnt)
    PROVE  /\ \A q \in Group(first, cnt) : page_from_pool(k, q) /\ q \in Page
           /\ cnt > 0 => first \in Group(first, cnt) /\ page_from_pool(k, first) /\ first \in Page
                         /\ (CHOOSE h \in Pool : page_from_pool(h, first)) = k
<1>1. \A q \in Group(first, cnt) : q \in Int /\ page_from_pool(k, q) /\ q \in Page
  BY PoolsAre, Constants, InPool DEF Within, Group, Page
<1>2. ASSUME cnt > 0 PROVE first \in Group(first, cnt)  BY <1>2 DEF Group
<1>3. ASSUME cnt > 0 PROVE (CHOOSE h \in Pool : page_from_pool(h, first)) = k
  <2>1. page_from_pool(k, first)  BY <1>1, <1>2, <1>3
  <2>2. \A h \in Pool : page_from_pool(h, first) => h = k  BY <2>1, OnePool
  <2> QED  BY <2>1, <2>2
<1> QED  BY <1>1, <1>2, <1>3

(* The descriptors and their arenas.                                        *)
LEMMA DescIs ==
    ASSUME NEW d \in Desc
    PROVE  d \in Nat /\ d > 0 /\ blocks_per_arena(d) \in Nat /\ blocks_per_arena(d) > 0
<1>1. d \in Nat /\ d > 0 /\ d <= (PageSize \div 2) - 1  BY Constants DEF Desc
<1>2. PageSize - Header \in Nat /\ d <= PageSize - Header  BY <1>1, Constants
<1>3. (PageSize - Header) \div d \in Nat /\ (PageSize - Header) \div d >= 1
  BY <1>1, <1>2, Quotient, QuotientPositive
<1> QED  BY <1>1, <1>3 DEF blocks_per_arena

\* malloc() finds the smallest descriptor that fits.
LEMMA SmallestFit ==
    ASSUME NEW size \in Int,
           NEW fits, fits = {d \in Desc : d >= size}, fits # {}
    PROVE  (CHOOSE d \in fits : \A e \in fits : d <= e) \in Desc
<1>1. fits \subseteq Nat  BY DescIs
<1>2. \E d \in fits : \A e \in fits : d <= e  BY <1>1, LeastNat
<1> QED  BY <1>2

-----------------------------------------------------------------------------
(* Pages and their owners.                                                  *)

\* One owner gives all it has to another that had nothing.
LEMMA PagesMove ==
    ASSUME NEW f, NEW g, DOMAIN g = DOMAIN f, Apart(f),
           NEW a \in DOMAIN f, NEW b \in DOMAIN f, a # b,
           f[b] = {}, g[b] = f[a], g[a] = {},
           \A o \in DOMAIN f : o # a /\ o # b => g[o] = f[o]
    PROVE  Apart(g) /\ Covered(g) = Covered(f)
<1>1. Apart(g)
  <2> SUFFICES ASSUME NEW o \in DOMAIN f, NEW h \in DOMAIN f, o # h PROVE g[o] \cap g[h] = {}
    BY DEF Apart
  <2>1. f[a] \cap f[h] = {} \/ h = a  BY DEF Apart
  <2>2. f[o] \cap f[a] = {} \/ o = a  BY DEF Apart
  <2>3. f[o] \cap f[h] = {}  BY DEF Apart
  <2>4. CASE o = a \/ h = a  BY <2>4
  <2>5. CASE o # a /\ h # a /\ o = b  BY <2>1, <2>5
  <2>6. CASE o # a /\ h # a /\ h = b  BY <2>2, <2>6
  <2>7. CASE o # a /\ h # a /\ o # b /\ h # b  BY <2>3, <2>7
  <2> QED  BY <2>4, <2>5, <2>6, <2>7
<1>2. Covered(g) \subseteq Covered(f)
  <2> SUFFICES ASSUME NEW o \in DOMAIN f, NEW q \in g[o] PROVE \E h \in DOMAIN f : q \in f[h]
    BY DEF Covered
  <2> QED  OBVIOUS
<1>3. Covered(f) \subseteq Covered(g)
  <2> SUFFICES ASSUME NEW o \in DOMAIN f, NEW q \in f[o] PROVE \E h \in DOMAIN f : q \in g[h]
    BY DEF Covered
  <2> QED  OBVIOUS
<1> QED  BY <1>1, <1>2, <1>3

\* One owner gets a page that nobody has.
LEMMA PageAdded ==
    ASSUME NEW f, NEW g, DOMAIN g = DOMAIN f, Apart(f),
           NEW a \in DOMAIN f, NEW q, q \notin Covered(f), g[a] = f[a] \cup {q},
           \A o \in DOMAIN f : o # a => g[o] = f[o]
    PROVE  Apart(g) /\ Covered(g) = Covered(f) \cup {q}
<1>0. \A o \in DOMAIN f : q \notin f[o]  BY DEF Covered
<1>1. Apart(g)
  <2> SUFFICES ASSUME NEW o \in DOMAIN f, NEW h \in DOMAIN f, o # h PROVE g[o] \cap g[h] = {}
    BY DEF Apart
  <2>1. f[o] \cap f[h] = {}  BY DEF Apart
  <2> QED  BY <1>0, <2>1
<1>2. Covered(g) \subseteq Covered(f) \cup {q}
  <2> SUFFICES ASSUME NEW o \in DOMAIN f, NEW x \in g[o], x # q PROVE \E h \in DOMAIN f : x \in f[h]
    BY DEF Covered
  <2> QED  OBVIOUS
<1>3. Covered(f) \cup {q} \subseteq Covered(g)
  <2>1. \A x \in Covered(f) : x \in Covered(g)
    <3> SUFFICES ASSUME NEW o \in DOMAIN f, NEW x \in f[o] PROVE \E h \in DOMAIN f : x \in g[h]
      BY DEF Covered
    <3> QED  OBVIOUS
  <2>2. q \in Covered(g)  BY DEF Covered
  <2> QED  BY <2>1, <2>2
<1> QED  BY <1>1, <1>2, <1>3

\* One owner loses a page.
LEMMA PageTaken ==
    ASSUME NEW f, NEW g, DOMAIN g = DOMAIN f, Apart(f),
           NEW a \in DOMAIN f, NEW q \in f[a], g[a] = f[a] \ {q},
           \A o \in DOMAIN f : o # a => g[o] = f[o]
    PROVE  Apart(g) /\ Covered(g) = Covered(f) \ {q}
<1>0. \A o \in DOMAIN f : o # a => q \notin f[o]  BY DEF Apart
<1>1. Apart(g)
  <2> SUFFICES ASSUME NEW o \in DOMAIN f, NEW h \in DOMAIN f, o # h PROVE g[o] \cap g[h] = {}
    BY DEF Apart
  <2>1. f[o] \cap f[h] = {}  BY DEF Apart
  <2>2. g[o] \subseteq f[o] /\ g[h] \subseteq f[h]  OBVIOUS
  <2> QED  BY <2>1, <2>2
<1>2. Covered(g) \subseteq Covered(f) \ {q}
  <2> SUFFICES ASSUME NEW o \in DOMAIN f, NEW x \in g[o]
               PROVE  x # q /\ \E h \in DOMAIN f : x \in f[h]
    BY DEF Covered
  <2>1. CASE o = a  BY <2>1
  <2>2. CASE o # a  BY <1>0, <2>2
  <2> QED  BY <2>1, <2>2
<1>3. Covered(f) \ {q} \subseteq Covered(g)
  <2> SUFFICES ASSUME NEW o \in DOMAIN f, NEW x \in f[o], x # q PROVE \E h \in DOMAIN f : x \in g[h]
    BY DEF Covered
  <2> QED  OBVIOUS
<1> QED  BY <1>1, <1>2, <1>3

\* own, owner by owner, in this state and in the next.
LEMMA OwnIs ==
  /\ DOMAIN own = Owner /\ DOMAIN own' = Owner
  /\ \A b \in Block : <<"live", b>> \in Owner
                      /\ own[<<"live", b>>] = LivePages(b) /\ own'[<<"live", b>>] = LivePages(b)'
  /\ \A p \in Page : <<"arena", p>> \in Owner
                      /\ own[<<"arena", p>>] = ArenaPages(p) /\ own'[<<"arena", p>>] = ArenaPages(p)'
  /\ \A t \in Thread : <<"thread", t>> \in Owner
                      /\ own[<<"thread", t>>] = ThreadPages(t) /\ own'[<<"thread", t>>] = ThreadPages(t)'
<1>1. DOMAIN own = Owner /\ DOMAIN own' = Owner  BY DEF own
<1>2. ASSUME NEW b \in Block
      PROVE  <<"live", b>> \in Owner
             /\ own[<<"live", b>>] = LivePages(b) /\ own'[<<"live", b>>] = LivePages(b)'
  BY DEF own, Owner
<1>3. ASSUME NEW p \in Page
      PROVE  <<"arena", p>> \in Owner
             /\ own[<<"arena", p>>] = ArenaPages(p) /\ own'[<<"arena", p>>] = ArenaPages(p)'
  BY DEF own, Owner
<1>4. ASSUME NEW t \in Thread
      PROVE  <<"thread", t>> \in Owner
             /\ own[<<"thread", t>>] = ThreadPages(t) /\ own'[<<"thread", t>>] = ThreadPages(t)'
  BY DEF own, Owner
<1> QED  BY <1>1, <1>2, <1>3, <1>4

\* The owners are blocks, arenas and threads.
LEMMA OwnerIs ==
    ASSUME NEW o \in Owner
    PROVE  \/ \E b \in Block : o = <<"live", b>>
           \/ \E p \in Page : o = <<"arena", p>>
           \/ \E t \in Thread : o = <<"thread", t>>
BY DEF Owner

\* What the owners but some have stays as it is.
LEMMA OthersKeep ==
    ASSUME NEW B \in SUBSET Block, \A b \in Block \ B : LivePages(b)' = LivePages(b),
           NEW P \in SUBSET Page, \A p \in Page \ P : ArenaPages(p)' = ArenaPages(p),
           NEW T \in SUBSET Thread, \A t \in Thread \ T : ThreadPages(t)' = ThreadPages(t)
    PROVE  \A o \in DOMAIN own :
             \/ own'[o] = own[o]
             \/ \E b \in B : o = <<"live", b>>
             \/ \E p \in P : o = <<"arena", p>>
             \/ \E t \in T : o = <<"thread", t>>
<1> SUFFICES ASSUME NEW o \in Owner
             PROVE  \/ own'[o] = own[o]
                    \/ \E b \in B : o = <<"live", b>>
                    \/ \E p \in P : o = <<"arena", p>>
                    \/ \E t \in T : o = <<"thread", t>>
  BY OwnIs
<1>1. CASE \E b \in Block : o = <<"live", b>>
  <2>1. PICK b \in Block : o = <<"live", b>>  BY <1>1
  <2>2. CASE b \in B  BY <2>1, <2>2
  <2>3. CASE b \notin B
    <3>1. LivePages(b)' = LivePages(b)  BY <2>3
    <3> QED  BY <2>1, <3>1, OwnIs
  <2> QED  BY <2>2, <2>3
<1>2. CASE \E p \in Page : o = <<"arena", p>>
  <2>1. PICK p \in Page : o = <<"arena", p>>  BY <1>2
  <2>2. CASE p \in P  BY <2>1, <2>2
  <2>3. CASE p \notin P
    <3>1. ArenaPages(p)' = ArenaPages(p)  BY <2>3
    <3> QED  BY <2>1, <3>1, OwnIs
  <2> QED  BY <2>2, <2>3
<1>3. CASE \E t \in Thread : o = <<"thread", t>>
  <2>1. PICK t \in Thread : o = <<"thread", t>>  BY <1>3
  <2>2. CASE t \in T  BY <2>1, <2>2
  <2>3. CASE t \notin T
    <3>1. ThreadPages(t)' = ThreadPages(t)  BY <2>3
    <3> QED  BY <2>1, <3>1, OwnIs
  <2> QED  BY <2>2, <2>3
<1> QED  BY <1>1, <1>2, <1>3, OwnerIs

\* A step that moves no page and marks no bit keeps the books of pages.
LEMMA NobodyMoves ==
    ASSUME PagesExact, used_map' = used_map,
           \A b \in Block : LivePages(b)' = LivePages(b),
           \A p \in Page : ArenaPages(p)' = ArenaPages(p),
           \A t \in Thread : ThreadPages(t)' = ThreadPages(t)
    PROVE  PagesExact'
<1>1. \A o \in DOMAIN own : own'[o] = own[o]
  <2> SUFFICES ASSUME NEW o \in Owner PROVE own'[o] = own[o]  BY OwnIs
  <2> QED  BY OwnIs, OwnerIs
<1>2. DOMAIN own' = DOMAIN own  BY OwnIs
<1>3. Apart(own)' /\ Covered(own)' = Covered(own)
  BY <1>1, <1>2 DEF PagesExact, Apart, Covered
<1>4. Marked' = Marked  BY DEF Marked
<1> QED  BY <1>3, <1>4 DEF PagesExact

-----------------------------------------------------------------------------
(* Steps that leave memory and its books alone.                             *)

\* Thread t goes to a label with new locals, the others stay.
StepsTo(t, label, l) ==
  /\ label \in Label /\ l \in Local
  /\ stage' \in [Thread -> Label] /\ work' \in [Thread -> Local]
  /\ stage'[t] = label /\ work'[t] = l
  /\ \A u \in Thread : u # t => /\ stage'[u] = stage[u] /\ work'[u] = work[u]
                                /\ ThreadPages(u)' = ThreadPages(u)

\* A thread that goes on is at its new place with its new locals, the others where they were.
LEMMA GoSteps ==
    ASSUME NEW t \in Thread, NEW label \in Label, NEW l \in Local, MTyped, Move(t, label, l)
    PROVE  StepsTo(t, label, l)
<1>1. /\ stage' \in [Thread -> Label] /\ work' \in [Thread -> Local]
      /\ stage'[t] = label /\ work'[t] = l
  BY DEF MTyped, Move
<1>2. \A u \in Thread : u # t => stage'[u] = stage[u] /\ work'[u] = work[u]
  BY DEF MTyped, Move
<1>3. \A u \in Thread : u # t => ThreadPages(u)' = ThreadPages(u)
  BY <1>2 DEF ThreadPages
<1> QED  BY <1>1, <1>2, <1>3 DEF StepsTo

\* The locals of an idle thread are locals, and hold no old block.
LEMMA NoLocIs == NoWork \in Local /\ NoBlock \in Block /\ NoWork.old = NoBlock
BY PoolsAre DEF NoWork, Local, NoBlock, Block

\* A call that returns leaves its thread idle.
LEMMA DoneSteps ==
    ASSUME NEW t \in Thread, MTyped, Done(t)
    PROVE  StepsTo(t, "idle", NoWork)
BY GoSteps, NoLocIs DEF Done, Label

\* The locks and lists of thread u are not touched by another's step.
LocksKept(t) ==
  /\ pool_lock' \in [Pool -> Thread \cup {NoThread}]
  /\ desc_lock' \in [Desc -> Thread \cup {NoThread}]
  /\ \A u \in Thread : u # t =>
       /\ \A k \in Pool : pool_lock[k] = u => pool_lock'[k] = u /\ used_map'[k] \subseteq used_map[k]
       /\ \A d \in Desc : desc_lock[d] = u => desc_lock'[d] = u /\ free_list'[d] = free_list[d]
       /\ stage[u] = "free" => arena'[work[u].page].desc = arena[work[u].page].desc

\* A thread stays as described while another takes a step that keeps its locks.
LEMMA OthersAt ==
    ASSUME MTyped, ThreadsAt, NEW t \in Thread, NEW label, NEW l, StepsTo(t, label, l), LocksKept(t)
    PROVE  \A u \in Thread : u # t => ThreadAt(u)'
<1> SUFFICES ASSUME NEW u \in Thread, u # t PROVE ThreadAt(u)'  OBVIOUS
<1>1. stage'[u] = stage[u] /\ work'[u] = work[u] /\ ThreadAt(u) /\ work[u] \in Local
  BY DEF StepsTo, ThreadsAt, MTyped
<1>2. /\ \A k \in Pool : pool_lock[k] = u => pool_lock'[k] = u /\ used_map'[k] \subseteq used_map[k]
      /\ \A d \in Desc : desc_lock[d] = u => desc_lock'[d] = u /\ free_list'[d] = free_list[d]
      /\ stage[u] = "free" => arena'[work[u].page].desc = arena[work[u].page].desc
  BY DEF LocksKept
<1>3. work[u].pool \in Pool  BY <1>1 DEF Local
<1> QED  BY <1>1, <1>2, <1>3 DEF ThreadAt

\* A realloc() keeps the old block, or takes one nobody is resizing.
OldStep(t, label, l) ==
  /\ \/ l.old = NoBlock \/ l.old = work[t].old
     \/ l.old \in live \ InUse /\ l.old.pages = 0
  /\ label \in {"clear", "free"} => l.old = NoBlock
  /\ label = "copied" => l.old # NoBlock

\* The blocks being copied by realloc() stay in use while a step frees none of them.
LEMMA OldStays ==
    ASSUME MTyped, OldKept, NEW t \in Thread, NEW label, NEW l, StepsTo(t, label, l),
           OldStep(t, label, l), 
           \A u \in Thread : work'[u].old # NoBlock /\ work'[u].old \in live => work'[u].old \in live'
    PROVE  OldKept'
<1>1. \A u \in Thread : u # t => stage'[u] = stage[u] /\ work'[u] = work[u]  BY DEF StepsTo
<1>2. stage'[t] = label /\ work'[t] = l  BY DEF StepsTo
<1>3. l.old # NoBlock => l.old \in live /\ l.old.pages = 0
  BY DEF OldStep, OldKept
<1>4. \A u \in Thread : u # t /\ l.old = work[u].old => l.old = NoBlock
  BY DEF OldStep, OldKept, InUse
<1>5. \A u \in Thread : work'[u].old # NoBlock => work'[u].old \in live' /\ work'[u].old.pages = 0
  BY <1>1, <1>2, <1>3 DEF OldKept
<1>6. \A u \in Thread : /\ stage'[u] \in {"clear", "free"} => work'[u].old = NoBlock
                        /\ stage'[u] = "copied" => work'[u].old # NoBlock
  BY <1>1, <1>2 DEF OldKept, OldStep
<1>7. \A u, w \in Thread : work'[u].old = work'[w].old => u = w \/ work'[u].old = NoBlock
  BY <1>1, <1>2, <1>4 DEF OldKept
<1> QED  BY <1>5, <1>6, <1>7 DEF OldKept

\* Only bits, locks and the thread's own place change.
LEMMA BitStep ==
    ASSUME MInv, NEW t \in Thread, NEW label, NEW l, StepsTo(t, label, l),
           UNCHANGED <<free_list, arena, live>>, LocksKept(t),
           used_map' \in [Pool -> SUBSET Nat], BitsOK', PagesExact',
           label # "free", stage[t] # "free", ThreadAt(t)', OldStep(t, label, l)
    PROVE  MInv'
<1> USE DEF MInv
<1>1. MTyped'  BY DEF MTyped, StepsTo, LocksKept
<1>4. ThreadsAt'  BY OthersAt DEF ThreadsAt
<1>5. OldKept'  BY OldStays
<1>6. LivePlaced'  BY DEF LivePlaced, Placed
<1>7. ArenasPlaced'  BY DEF ArenasPlaced
<1>8. BlocksExact'
  <2>1. \A u \in Thread : (stage'[u] = "free" <=> stage[u] = "free") /\ (stage[u] = "free" => work'[u] = work[u])
    BY DEF StepsTo
  <2>2. \A p, i : /\ Listed(p, i)' <=> Listed(p, i)
                  /\ Held(p, i)' <=> Held(p, i)
                  /\ Freeing(p, i)' <=> Freeing(p, i)
    BY <2>1 DEF Listed, Held, Freeing
  <2>3. \A p : BlockOf(p)' = BlockOf(p)  BY DEF BlockOf
  <2>4. \A p : ListedOf(p)' = ListedOf(p)  BY <2>2, <2>3 DEF ListedOf
  <2> QED  BY <2>1, <2>2, <2>3, <2>4 DEF BlocksExact, PageBooks, FreedOnce
<1>9. ListsExact'  BY DEF ListsExact
<1> QED  BY <1>1, <1>4, <1>5, <1>6, <1>7, <1>8, <1>9

\* A step that changes only locks and its own thread keeps the invariant.
LEMMA QuietStep ==
    ASSUME MInv, NEW t \in Thread, NEW label, NEW l, StepsTo(t, label, l),
           UNCHANGED <<used_map, free_list, arena, live>>, LocksKept(t),
           label # "free", stage[t] # "free", ThreadPages(t)' = ThreadPages(t),
           ThreadAt(t)', OldStep(t, label, l)
    PROVE  MInv'
<1>1. BitsOK' /\ used_map' \in [Pool -> SUBSET Nat]  BY DEF MInv, MTyped, BitsOK
<1>2. PagesExact'
  <2>1. \A b \in Block : LivePages(b)' = LivePages(b)  BY DEF LivePages
  <2>2. \A p \in Page : ArenaPages(p)' = ArenaPages(p)  BY DEF ArenaPages
  <2>3. \A u \in Thread : ThreadPages(u)' = ThreadPages(u)  BY DEF StepsTo
  <2> QED  BY <2>1, <2>2, <2>3, NobodyMoves DEF MInv
<1> QED  BY <1>1, <1>2, BitStep

\* palloc.c:80, lock_acquire of the pool.
LEMMA GetLockKeeps == ASSUME MInv, NEW t \in Thread, GetLock(t) PROVE MInv'
<1> USE DEF MInv
<1> DEFINE l == work[t]
<1>1. l \in Local /\ ThreadAt(t) /\ l.pool \in Pool  BY DEF MTyped, ThreadsAt, Local
<1>2. StepsTo(t, "scan", l)  BY <1>1, GoSteps DEF GetLock, Label
<1>3. stage[t] = "get" /\ pool_lock[l.pool] = NoThread
      /\ pool_lock' = [pool_lock EXCEPT ![l.pool] = t]
      /\ UNCHANGED <<used_map, desc_lock, free_list, arena, live>>
  BY DEF GetLock
<1>4. pool_lock'[l.pool] = t /\ \A k \in Pool : pool_lock'[k] = pool_lock[k] \/ pool_lock[k] = NoThread
  BY <1>1, <1>3 DEF MTyped
<1>5. LocksKept(t)
  <2>1. pool_lock' \in [Pool -> Thread \cup {NoThread}]  BY <1>3 DEF MTyped
  <2> QED  BY <1>3, <1>4, <2>1, Constants DEF LocksKept, MTyped
<1>6. stage'[t] = "scan" /\ work'[t] = l  BY <1>2 DEF StepsTo
<1>7. ThreadPages(t)' = ThreadPages(t)  BY <1>3, <1>6 DEF ThreadPages
<1>8. ThreadAt(t)'
  <2>1. l.done = 0  BY <1>1, <1>3 DEF ThreadAt
  <2> QED  BY <1>1, <1>3, <1>4, <1>6, <2>1 DEF ThreadAt, InPalloc
<1>9. OldStep(t, "scan", l)  BY DEF OldStep
<1> QED  BY <1>2, <1>3, <1>5, <1>7, <1>8, <1>9, QuietStep

\* bitmap_scan() under the lock: the bits it finds are clear.
LEMMA ScanKeeps == ASSUME MInv, NEW t \in Thread, Scan(t) PROVE MInv'
<1> USE DEF MInv
<1> DEFINE l == work[t]
<1>1. l \in Local /\ ThreadAt(t) /\ l.pool \in Pool /\ l.idx \in Nat /\ l.cnt \in Nat
  BY DEF MTyped, ThreadsAt, Local
<1>2. stage[t] = "scan" /\ pool_lock[l.pool] = t /\ l.done = 0
      /\ UNCHANGED <<used_map, desc_lock, free_list, arena, live>>
  BY <1>1 DEF Scan, ThreadAt
<1>3. CASE pool_lock' = [pool_lock EXCEPT ![l.pool] = NoThread] /\ Move(t, "no_pages", l)
  <2>1. StepsTo(t, "no_pages", l)  BY <1>1, <1>3, GoSteps DEF Label
  <2>2. \A k \in Pool : pool_lock'[k] = pool_lock[k] \/ pool_lock[k] = t
    BY <1>1, <1>2, <1>3 DEF MTyped
  <2>3. LocksKept(t)
    <3>1. pool_lock' \in [Pool -> Thread \cup {NoThread}]  BY <1>3 DEF MTyped
    <3> QED  BY <1>2, <2>2, <3>1 DEF LocksKept, MTyped
  <2>4. stage'[t] = "no_pages" /\ work'[t] = l  BY <2>1 DEF StepsTo
  <2>5. ThreadPages(t)' = ThreadPages(t)  BY <1>2, <2>4 DEF ThreadPages
  <2>6. ThreadAt(t)'  BY <1>1, <1>2, <2>4 DEF ThreadAt, InPalloc
  <2>7. OldStep(t, "no_pages", l)  BY DEF OldStep
  <2> QED  BY <1>2, <2>1, <2>3, <2>5, <2>6, <2>7, QuietStep
<1>4. CASE l.idx + l.cnt <= pool[l.pool].size /\ ~bitmap_contains(l.pool, l.idx, l.cnt)
           /\ Move(t, "flip", l) /\ UNCHANGED pool_lock
  <2>1. StepsTo(t, "flip", l)  BY <1>1, <1>4, GoSteps DEF Label
  <2>3. LocksKept(t)  BY <1>2, <1>4 DEF LocksKept, MTyped
  <2>4. stage'[t] = "flip" /\ work'[t] = l  BY <2>1 DEF StepsTo
  <2>5. ThreadPages(t)' = ThreadPages(t)
    <3>1. pool[l.pool].base \in Nat  BY <1>1, PoolsAre
    <3>2. Group(pool[l.pool].base + l.idx, l.done) = {}  BY <1>1, <1>2, <3>1 DEF Group
    <3> QED  BY <1>2, <2>4, <3>2 DEF ThreadPages
  <2>6. ThreadAt(t)'
    <3>1. \A i \in l.idx + l.done .. l.idx + l.cnt - 1 : i \notin used_map[l.pool]
      BY <1>1, <1>2, <1>4 DEF bitmap_contains
    <3>2. l.cnt > 0  BY <1>1, <1>2 DEF ThreadAt
    <3> QED  BY <1>1, <1>2, <1>4, <2>4, <3>1, <3>2 DEF ThreadAt, InPalloc
  <2>7. OldStep(t, "flip", l)  BY DEF OldStep
  <2> QED  BY <1>2, <2>1, <2>3, <2>5, <2>6, <2>7, QuietStep
<1>5. CASE Move(t, "scan", [l EXCEPT !.idx = l.idx + 1]) /\ UNCHANGED pool_lock
  <2> DEFINE m == [l EXCEPT !.idx = l.idx + 1]
  <2>0. /\ m \in Local /\ m.pool = l.pool /\ m.cnt = l.cnt /\ m.done = l.done /\ m.desc = l.desc
        /\ m.ret = l.ret /\ m.old = l.old
    BY <1>1 DEF Local
  <2>1. StepsTo(t, "scan", m)  BY <1>5, <2>0, GoSteps DEF Label
  <2> HIDE DEF m
  <2>3. LocksKept(t)  BY <1>2, <1>5 DEF LocksKept, MTyped
  <2>4. stage'[t] = "scan" /\ work'[t] = m  BY <2>1 DEF StepsTo
  <2>5. ThreadPages(t)' = ThreadPages(t)  BY <1>2, <2>4 DEF ThreadPages
  <2>6. ThreadAt(t)'  BY <1>1, <1>2, <1>5, <2>0, <2>4 DEF ThreadAt, InPalloc
  <2>7. OldStep(t, "scan", m)  BY <2>0 DEF OldStep
  <2> QED  BY <1>2, <2>1, <2>3, <2>5, <2>6, <2>7, QuietStep
<1> QED  BY <1>3, <1>4, <1>5 DEF Scan

\* palloc_get_multiple() found nothing, and malloc() gives up.
LEMMA NoPagesKeeps == ASSUME MInv, NEW t \in Thread, NoPages(t) PROVE MInv'
<1> USE DEF MInv
<1>1. work[t] \in Local /\ ThreadAt(t)  BY DEF MTyped, ThreadsAt
<1>2. stage[t] = "no_pages" /\ UNCHANGED <<used_map, pool_lock, free_list, arena, live>> /\ Done(t)
  BY DEF NoPages
<1>3. StepsTo(t, "idle", NoWork)  BY <1>2, DoneSteps
<1>4. /\ desc_lock' \in [Desc -> Thread \cup {NoThread}]
      /\ \A d \in Desc : desc_lock'[d] = desc_lock[d] \/ desc_lock[d] = t
  <2>1. CASE work[t].ret = "arena"
    <3>1. desc_lock[work[t].desc] = t /\ desc_lock' = [desc_lock EXCEPT ![work[t].desc] = NoThread]
      BY <1>1, <1>2, <2>1 DEF ThreadAt, InPalloc, NoPages
    <3> QED  BY <3>1 DEF MTyped
  <2>2. CASE work[t].ret # "arena"  BY <2>2 DEF NoPages, MTyped
  <2> QED  BY <2>1, <2>2
<1>5. LocksKept(t)  BY <1>2, <1>4 DEF LocksKept, MTyped
<1>6. stage'[t] = "idle" /\ work'[t] = NoWork  BY <1>3 DEF StepsTo
<1>7. ThreadPages(t)' = ThreadPages(t)  BY <1>2, <1>6 DEF ThreadPages
<1>8. ThreadAt(t)'  BY <1>6 DEF ThreadAt, InPalloc
<1>9. OldStep(t, "idle", NoWork)  BY NoLocIs DEF OldStep
<1> QED  BY <1>2, <1>3, <1>5, <1>7, <1>8, <1>9, QuietStep

(* The ways into the page allocator.                                        *)

\* palloc_get_multiple(): what the thread goes on with.
LEMMA GetMultiple ==
    ASSUME MTyped, NEW t \in Thread, NEW l \in Local, NEW k \in Pool, NEW cnt \in Nat,
           palloc_get_multiple(t, l, k, cnt)
    PROVE  \E m \in Local :
             /\ StepsTo(t, IF cnt = 0 THEN "no_pages" ELSE "get", m)
             /\ m.pool = k /\ m.cnt = cnt /\ m.idx = 0 /\ m.done = 0
             /\ m.desc = l.desc /\ m.ret = l.ret /\ m.old = l.old
<1> DEFINE m == [l EXCEPT !.pool = k, !.cnt = cnt, !.idx = 0, !.done = 0]
           label == IF cnt = 0 THEN "no_pages" ELSE "get"
<1>1. /\ m \in Local
      /\ m.pool = k /\ m.cnt = cnt /\ m.idx = 0 /\ m.done = 0
      /\ m.desc = l.desc /\ m.ret = l.ret /\ m.old = l.old
  BY DEF Local
<1>2. Move(t, label, m) /\ label \in Label  BY DEF palloc_get_multiple, Label
<1> HIDE DEF m, label
<1>3. StepsTo(t, label, m)  BY <1>1, <1>2, GoSteps
<1> QED  BY <1>1, <1>3 DEF label

\* A thread that holds no descriptor's lock asks for pages.
LEMMA AsksForPages ==
    ASSUME MInv, NEW t \in Thread, NEW l \in Local, NEW k \in Pool, NEW cnt \in Nat,
           palloc_get_multiple(t, l, k, cnt), stage[t] = "idle", l.ret # "arena",
           UNCHANGED <<memory, live>>,
           l.old = NoBlock \/ (l.old \in live \ InUse /\ l.old.pages = 0)
    PROVE  MInv'
<1> USE DEF MInv
<1> DEFINE label == IF cnt = 0 THEN "no_pages" ELSE "get"
<1>1. PICK m \in Local : /\ StepsTo(t, label, m)
                         /\ m.pool = k /\ m.cnt = cnt /\ m.idx = 0 /\ m.done = 0
                         /\ m.desc = l.desc /\ m.ret = l.ret /\ m.old = l.old
  BY GetMultiple
<1>2. UNCHANGED <<used_map, pool_lock, desc_lock, free_list, arena, live>>  BY DEF memory
<1>3. LocksKept(t)  BY <1>2 DEF LocksKept, MTyped
<1>4. stage'[t] = label /\ work'[t] = m /\ label \in {"no_pages", "get"} /\ (label = "get" => cnt > 0)
  BY <1>1 DEF StepsTo
<1> HIDE DEF label
<1>5. ThreadPages(t)' = ThreadPages(t)  BY <1>4 DEF ThreadPages
<1>6. ThreadAt(t)'  BY <1>1, <1>4 DEF ThreadAt, InPalloc
<1>7. OldStep(t, label, m)  BY <1>1, <1>4 DEF OldStep
<1> QED  BY <1>1, <1>2, <1>3, <1>4, <1>5, <1>6, <1>7, QuietStep

\* A call of palloc_get_multiple().
LEMMA GetPagesKeeps == ASSUME MInv, NEW t \in Thread, GetPages(t) PROVE MInv'
<1>1. PICK k \in Pool, n \in PageCounts : palloc_get_multiple(t, NoWork, k, n)  BY DEF GetPages
<1>2. n \in Nat  BY Constants
<1>3. NoWork \in Local /\ NoWork.ret # "arena" /\ NoWork.old = NoBlock  BY NoLocIs DEF NoWork
<1> QED  BY <1>1, <1>2, <1>3, AsksForPages DEF GetPages

\* A call of malloc() takes no page and no block yet.
LEMMA MallocSteps ==
    ASSUME MInv, NEW t \in Thread, NEW l \in Local, NEW size \in Nat, malloc(t, size, l), stage[t] = "idle",
           UNCHANGED <<memory, live>>,
           l.old = NoBlock \/ (l.old \in live \ InUse /\ l.old.pages = 0)
    PROVE  MInv'
<1> USE DEF MInv
<1> DEFINE fits == {d \in Desc : d >= size}
           d == CHOOSE x \in fits : \A e \in fits : x <= e
<1>0. UNCHANGED <<used_map, pool_lock, desc_lock, free_list, arena, live>>  BY DEF memory
<1>k. LocksKept(t)  BY <1>0 DEF LocksKept, MTyped
<1>1. CASE size = 0
  <2>1. StepsTo(t, "idle", NoWork)  BY <1>1, DoneSteps DEF malloc
  <2>2. stage'[t] = "idle" /\ work'[t] = NoWork  BY <2>1 DEF StepsTo
  <2>3. ThreadPages(t)' = ThreadPages(t)  BY <2>2 DEF ThreadPages
  <2>4. ThreadAt(t)'  BY <2>2 DEF ThreadAt, InPalloc
  <2>5. OldStep(t, "idle", NoWork)  BY NoLocIs DEF OldStep
  <2> QED  BY <1>0, <1>k, <2>1, <2>3, <2>4, <2>5, QuietStep
<1>2. CASE size # 0 /\ fits = {}
  <2> DEFINE big == [l EXCEPT !.ret = "big"]
             cnt == DIV_ROUND_UP(size + Header, PageSize)
  <2>1. palloc_get_multiple(t, big, "kernel", cnt)  BY <1>2 DEF malloc
  <2>2. big \in Local /\ big.ret # "arena" /\ big.old = l.old  BY DEF Local
  <2>3. cnt \in Nat
    <3>1. size + Header \in Nat /\ PageSize \in Nat \ {0}  BY Constants
    <3> QED  BY <3>1, RoundUpType
  <2>4. "kernel" \in Pool  BY PoolsAre
  <2> HIDE DEF big, cnt
  <2> QED  BY <2>1, <2>2, <2>3, <2>4, AsksForPages
<1>3. CASE size # 0 /\ fits # {}
  <2>1. d \in Desc
    <3> HIDE DEF fits
    <3>1. fits = {x \in Desc : x >= size}  BY DEF fits
    <3> QED  BY ONLY <1>3, <3>1, SmallestFit, size \in Nat
  <2> DEFINE m == [l EXCEPT !.desc = d]
  <2>2. Move(t, "malloc", m)  BY <1>3 DEF malloc
  <2> HIDE DEF d, fits
  <2>3. m \in Local /\ m.old = l.old /\ m.desc = d  BY <2>1, DescIs DEF Local
  <2> HIDE DEF m
  <2>4. StepsTo(t, "malloc", m)  BY <2>2, <2>3, GoSteps DEF Label
  <2>5. stage'[t] = "malloc" /\ work'[t] = m  BY <2>4 DEF StepsTo
  <2>6. ThreadPages(t)' = ThreadPages(t)  BY <2>5 DEF ThreadPages
  <2>7. ThreadAt(t)'  BY <2>1, <2>3, <2>5 DEF ThreadAt, InPalloc
  <2>8. OldStep(t, "malloc", m)  BY <2>3 DEF OldStep
  <2> QED  BY <1>0, <1>k, <2>4, <2>6, <2>7, <2>8, QuietStep
<1> QED  BY <1>1, <1>2, <1>3

\* The locals of realloc() while it waits for its new block.
LEMMA ResizedLocal ==
    ASSUME NEW l \in Local, NEW n \in Int, NEW b \in Block
    PROVE  [l EXCEPT !.want = n, !.old = b] \in Local /\ [l EXCEPT !.want = n, !.old = b].old = b
BY DEF Local

\* Calls of malloc(), calloc() and realloc().
LEMMA CallsMalloc ==
    ASSUME MInv, NEW t \in Thread, Malloc(t) \/ Calloc(t) \/ Realloc(t)
    PROVE  MInv'
<1> USE Constants
<1>0. UNCHANGED <<memory, live>> /\ stage[t] = "idle"  BY DEF Malloc, Calloc, Realloc
<1>1. CASE Malloc(t)
  <2>1. PICK n \in Sizes : malloc(t, n, [NoWork EXCEPT !.want = n])  BY <1>1 DEF Malloc
  <2> DEFINE l == [NoWork EXCEPT !.want = n]
  <2>2. n \in Nat  OBVIOUS
  <2>3. l \in Local /\ l.old = NoBlock  BY <2>2, NoLocIs DEF Local
  <2> HIDE DEF l
  <2> QED  BY <1>0, <2>1, <2>2, <2>3, MallocSteps DEF l
<1>2. CASE Calloc(t)
  <2>1. PICK f \in Factors : malloc(t, (f[1] * f[2]) % SizeT, [NoWork EXCEPT !.want = f[1] * f[2]])
    BY <1>2 DEF Calloc
  <2> DEFINE l == [NoWork EXCEPT !.want = f[1] * f[2]]
  <2>2. f[1] \in Nat /\ f[2] \in Nat  OBVIOUS
  <2>3. f[1] * f[2] \in Nat  BY <2>2
  <2>4. (f[1] * f[2]) % SizeT \in Nat  BY <2>3
  <2>5. l \in Local /\ l.old = NoBlock  BY <2>3, NoLocIs DEF Local
  <2> HIDE DEF l
  <2> QED  BY <1>0, <2>1, <2>4, <2>5, MallocSteps DEF l
<1>3. CASE Realloc(t)
  <2>1. PICK b \in live \ InUse, n \in Sizes \ {0} :
          b.pages = 0 /\ malloc(t, n, [NoWork EXCEPT !.want = n, !.old = b])
    BY <1>3 DEF Realloc
  <2> DEFINE l == [NoWork EXCEPT !.want = n, !.old = b]
  <2>2. n \in Nat /\ b \in Block
    <3>1. live \subseteq Block  BY DEF MInv, MTyped
    <3>2. Sizes \subseteq 0 .. SizeT - 1 /\ SizeT \in Nat  OBVIOUS
    <3>3. n \in 0 .. SizeT - 1 /\ b \in live  BY <3>2
    <3> QED  BY <3>1, <3>2, <3>3
  <2>3. l \in Local /\ l.old = b
    <3>1. n \in Int  BY <2>2
    <3> QED  BY ONLY <2>2, <3>1, NoLocIs, ResizedLocal DEF l
  <2> HIDE DEF l
  <2> QED  BY <1>0, <2>1, <2>2, <2>3, MallocSteps DEF l
<1> QED  BY <1>1, <1>2, <1>3

-----------------------------------------------------------------------------
(* The page allocator sets and clears bits.                                 *)

\* A page is marked if and only if its bit is.
LEMMA MarkedIs ==
    ASSUME MTyped, BitsOK, NEW k \in Pool, NEW i \in Bits(k)
    PROVE  pool[k].base + i \in Marked <=> i \in used_map[k]
<1>1. i \in used_map[k] => pool[k].base + i \in Marked  BY DEF Marked
<1>2. ASSUME pool[k].base + i \in Marked PROVE i \in used_map[k]
  <2>0. PICK h \in Pool : \E j \in used_map[h] : pool[h].base + j = pool[k].base + i
    BY <1>2 DEF Marked
  <2>1. PICK j \in used_map[h] : pool[h].base + j = pool[k].base + i  BY <2>0
  <2>2. j \in Bits(h) /\ i \in Int /\ j \in Int  BY DEF BitsOK, Bits
  <2>3. pool[h].base \in Nat /\ pool[k].base \in Nat  BY PoolsAre
  <2> DEFINE q == pool[k].base + i
  <2>4. q \in Int /\ q - pool[k].base = i /\ q - pool[h].base = j  BY <2>1, <2>2, <2>3
  <2>5. page_from_pool(k, q) /\ page_from_pool(h, q)  BY <2>2, <2>4 DEF page_from_pool
  <2> HIDE DEF q
  <2>6. h = k  BY <2>4, <2>5, OnePool
  <2> QED  BY <2>4, <2>6
<1> QED  BY <1>1, <1>2

\* Setting or clearing one bit marks or unmarks one page.
LEMMA BitSet ==
    ASSUME MTyped, BitsOK, NEW k \in Pool, NEW i \in Bits(k),
           used_map' = [used_map EXCEPT ![k] = @ \cup {i}]
    PROVE  /\ used_map' \in [Pool -> SUBSET Nat] /\ BitsOK'
           /\ Marked' = Marked \cup {pool[k].base + i}
           /\ \A h \in Pool : h # k => used_map'[h] = used_map[h]
           /\ used_map'[k] = used_map[k] \cup {i}
<1>1. i \in Nat  BY DEF Bits
<1>2. /\ used_map' \in [Pool -> SUBSET Nat]
      /\ \A h \in Pool : h # k => used_map'[h] = used_map[h]
      /\ used_map'[k] = used_map[k] \cup {i}
  BY <1>1 DEF MTyped
<1>3. BitsOK'  BY <1>2 DEF BitsOK
<1>4. Marked' = Marked \cup {pool[k].base + i}
  <2>1. \A x \in Marked : x \in Marked'  BY <1>2 DEF Marked
  <2>2. \A x \in Marked' : x \in Marked \/ x = pool[k].base + i  BY <1>2 DEF Marked
  <2>3. pool[k].base + i \in Marked'  BY <1>2 DEF Marked
  <2> QED  BY <2>1, <2>2, <2>3
<1> QED  BY <1>2, <1>3, <1>4

\* Clearing one bit of a pool takes one page off the marked ones.
LEMMA BitClear ==
    ASSUME MTyped, BitsOK, NEW k \in Pool, NEW i \in Bits(k),
           used_map' = [used_map EXCEPT ![k] = @ \ {i}]
    PROVE  /\ used_map' \in [Pool -> SUBSET Nat] /\ BitsOK'
           /\ Marked' = Marked \ {pool[k].base + i}
           /\ \A h \in Pool : used_map'[h] \subseteq used_map[h]
<1>2. /\ used_map' \in [Pool -> SUBSET Nat]
      /\ \A h \in Pool : h # k => used_map'[h] = used_map[h]
      /\ used_map'[k] = used_map[k] \ {i}
  BY DEF MTyped
<1>3. BitsOK'  BY <1>2 DEF BitsOK
<1>5. MTyped /\ BitsOK /\ pool[k].base \in Nat  BY PoolsAre
<1>4. Marked' = Marked \ {pool[k].base + i}
  <2>1. \A x \in Marked : x # pool[k].base + i => x \in Marked'
    <3> SUFFICES ASSUME NEW h \in Pool, NEW j \in used_map[h], pool[h].base + j # pool[k].base + i
                 PROVE  \E g \in Pool : \E n \in used_map'[g] : pool[h].base + j = pool[g].base + n
      BY DEF Marked
    <3>1. j \in used_map'[h]  BY <1>2
    <3> QED  BY <3>1
  <2>2. \A x \in Marked' : x \in Marked  BY <1>2 DEF Marked
  <2>3. pool[k].base + i \notin Marked'
    <3> SUFFICES ASSUME NEW h \in Pool, NEW j \in used_map'[h], pool[h].base + j = pool[k].base + i
                 PROVE  FALSE
      BY DEF Marked
    <3>1. j \in used_map[h] /\ j \in Bits(h)  BY <1>2 DEF BitsOK
    <3>2. j \in Int /\ i \in Int /\ pool[h].base \in Nat  BY <3>1, PoolsAre DEF Bits
    <3> DEFINE q == pool[k].base + i
    <3>3. q \in Int /\ q - pool[k].base = i /\ q - pool[h].base = j  BY <1>5, <3>2
    <3>4. page_from_pool(k, q) /\ page_from_pool(h, q)  BY <3>1, <3>3 DEF page_from_pool
    <3> HIDE DEF q
    <3>5. h = k  BY <3>3, <3>4, OnePool
    <3> QED  BY <1>2, <3>3, <3>5
  <2> QED  BY <2>1, <2>2, <2>3
<1> QED  BY <1>2, <1>3, <1>4

\* bitmap_set_multiple(): one more bit of the run is set, and its page is the thread's.
LEMMA FlipKeeps == ASSUME MInv, NEW t \in Thread, Flip(t) PROVE MInv'
<1> USE DEF MInv
<1> DEFINE l == work[t]
           i == l.idx + l.done
           q == pool[l.pool].base + i
<1>1. /\ l \in Local /\ ThreadAt(t) /\ l.pool \in Pool /\ l.idx \in Nat /\ l.cnt \in Nat /\ l.done \in Nat
      /\ l.desc \in Nat
  BY DEF MTyped, ThreadsAt, Local
<1>2. /\ stage[t] = "flip" /\ pool_lock[l.pool] = t /\ l.cnt > 0
      /\ l.done < l.cnt /\ l.idx + l.cnt <= pool[l.pool].size
      /\ \A j \in i .. l.idx + l.cnt - 1 : j \notin used_map[l.pool]
      /\ UNCHANGED <<desc_lock, free_list, arena, live>>
      /\ used_map' = [used_map EXCEPT ![l.pool] = @ \cup {i}]
      /\ l.ret = "arena" => /\ l.desc \in Desc /\ desc_lock[l.desc] = t /\ free_list[l.desc] = <<>>
                            /\ l.cnt = 1
  BY <1>1 DEF Flip, ThreadAt, InPalloc
<1>3. pool[l.pool].base \in Nat /\ pool[l.pool].size \in Int  BY <1>1, PoolsAre
<1>4. i \in Bits(l.pool) /\ i \notin used_map[l.pool] /\ i \in Nat /\ q \in Nat
  <2>1. i \in Nat /\ i \in i .. l.idx + l.cnt - 1 /\ i \in 0 .. pool[l.pool].size - 1
    <3>1. /\ l.idx \in Nat /\ l.cnt \in Nat /\ l.done \in Nat /\ l.done < l.cnt
          /\ l.idx + l.cnt <= pool[l.pool].size /\ pool[l.pool].size \in Int
      BY <1>1, <1>2, <1>3
    <3> HIDE DEF l, MInv
    <3> QED  BY ONLY <3>1 DEF i
  <2> QED  BY <1>2, <1>3, <2>1 DEF Bits
<1>5. q \notin Marked
  <2> HIDE DEF l, i
  <2> QED  BY <1>1, <1>4, MarkedIs
<1>6. /\ used_map' \in [Pool -> SUBSET Nat] /\ BitsOK' /\ Marked' = Marked \cup {q}
      /\ \A h \in Pool : h # l.pool => used_map'[h] = used_map[h]
      /\ used_map'[l.pool] = used_map[l.pool] \cup {i}
  <2> HIDE DEF l, i
  <2> QED  BY <1>1, <1>2, <1>4, BitSet
<1>7. ThreadPages(t) = Group(pool[l.pool].base + l.idx, l.done)  BY <1>2 DEF ThreadPages
<1>8. Group(pool[l.pool].base + l.idx, l.done + 1) = Group(pool[l.pool].base + l.idx, l.done) \cup {q}
  BY <1>1, <1>3 DEF Group
<1>9. ASSUME NEW label, NEW m, StepsTo(t, label, m), label # "free",
             ThreadPages(t)' = Group(pool[l.pool].base + l.idx, l.done + 1)
      PROVE  PagesExact'
  <2>1. \A b \in Block : LivePages(b)' = LivePages(b)  BY <1>2 DEF LivePages
  <2>2. \A p \in Page : ArenaPages(p)' = ArenaPages(p)  BY <1>2 DEF ArenaPages
  <2>3. \A u \in Thread : u # t => ThreadPages(u)' = ThreadPages(u)  BY <1>9 DEF StepsTo
  <2> DEFINE a == <<"thread", t>>
  <2>4. a \in DOMAIN own /\ own[a] = ThreadPages(t) /\ own'[a] = ThreadPages(t)'  BY OwnIs
  <2>5. \A o \in DOMAIN own : o # a => own'[o] = own[o]
    <3>1. \A x \in Thread \ {t} : ThreadPages(x)' = ThreadPages(x)  BY <2>3
    <3>2. \A o \in DOMAIN own : \/ own'[o] = own[o]
                                \/ \E b \in {} : o = <<"live", b>>
                                \/ \E p \in {} : o = <<"arena", p>>
                                \/ \E x \in {t} : o = <<"thread", x>>
      <4>1. /\ {} \in SUBSET Block /\ {} \in SUBSET Page /\ {t} \in SUBSET Thread
            /\ \A b \in Block \ {} : LivePages(b)' = LivePages(b)
            /\ \A p \in Page \ {} : ArenaPages(p)' = ArenaPages(p)
        BY <2>1, <2>2
      <4> QED  BY ONLY <3>1, <4>1, OthersKeep
    <3> QED  BY <3>2
  <2>6. DOMAIN own' = DOMAIN own  BY OwnIs
  <2>7. own'[a] = own[a] \cup {q}  BY <1>7, <1>8, <1>9, <2>4
  <2>8. Apart(own) /\ Covered(own) = Marked  BY DEF PagesExact
  <2> HIDE DEF a, q, i, l
  <2> DEFINE g == own'
  <2>9. DOMAIN g = DOMAIN own /\ g[a] = own[a] \cup {q} /\ \A o \in DOMAIN own : o # a => g[o] = own[o]
    BY <2>5, <2>6, <2>7
  <2>10. q \notin Covered(own)  BY <1>5, <2>8
  <2> HIDE DEF g
  <2>11. Apart(g) /\ Covered(g) = Covered(own) \cup {q}
    BY ONLY <2>4, <2>8, <2>9, <2>10, PageAdded
  <2>12. Apart(own') /\ Covered(own') = Marked \cup {q}  BY <2>8, <2>11 DEF g
  <2> QED  BY <1>6, <2>12 DEF PagesExact, Apart, Covered
<1>10. CASE l.done + 1 < l.cnt
  <2> DEFINE m == [l EXCEPT !.done = l.done + 1]
  <2>0. /\ m \in Local /\ m.pool = l.pool /\ m.cnt = l.cnt /\ m.done = l.done + 1 /\ m.desc = l.desc
        /\ m.ret = l.ret /\ m.old = l.old /\ m.idx = l.idx
    BY <1>1 DEF Local
  <2>1. Move(t, "flip", m) /\ UNCHANGED pool_lock  BY <1>10 DEF Flip
  <2>2. StepsTo(t, "flip", m)  BY <2>0, <2>1, GoSteps DEF Label
  <2> HIDE DEF m
  <2>3. LocksKept(t)  BY <1>1, <1>2, <1>6, <2>1 DEF LocksKept, MTyped
  <2>4. stage'[t] = "flip" /\ work'[t] = m  BY <2>2 DEF StepsTo
  <2>5. ThreadPages(t)' = Group(pool[l.pool].base + l.idx, l.done + 1)  BY <2>0, <2>4 DEF ThreadPages
  <2>6. PagesExact'
    <3> HIDE DEF l
    <3> QED  BY <1>9, <2>2, <2>5
  <2>7. ThreadAt(t)'
    <3>1. \A j \in m.idx + m.done .. m.idx + m.cnt - 1 : j \notin used_map'[m.pool]
      <4> SUFFICES ASSUME NEW j \in l.idx + (l.done + 1) .. l.idx + l.cnt - 1 PROVE j \notin used_map'[l.pool]
        BY <2>0
      <4>1. j \in i .. l.idx + l.cnt - 1 /\ j # i  BY <1>1
      <4> QED  BY <1>2, <1>6, <4>1
    <3> QED  BY <1>1, <1>2, <1>10, <2>0, <2>1, <2>4, <3>1 DEF ThreadAt, InPalloc
  <2>8. OldStep(t, "flip", m)  BY <2>0 DEF OldStep
  <2> QED  BY <1>2, <1>6, <2>2, <2>3, <2>6, <2>7, <2>8, BitStep
<1>11. CASE ~(l.done + 1 < l.cnt)
  <2> DEFINE first == pool[l.pool].base + l.idx
             m == [l EXCEPT !.page = first]
  <2>x. first \in Nat  BY <1>1, <1>3
  <2>0. /\ m \in Local /\ m.pool = l.pool /\ m.cnt = l.cnt /\ m.page = first /\ m.desc = l.desc
        /\ m.ret = l.ret /\ m.old = l.old
    BY <1>1, <2>x DEF Local
  <2>1. Move(t, "pages", m) /\ pool_lock' = [pool_lock EXCEPT ![l.pool] = NoThread]  BY <1>11 DEF Flip
  <2>2. StepsTo(t, "pages", m)  BY <2>0, <2>1, GoSteps DEF Label
  <2> HIDE DEF m
  <2>9. \A k \in Pool : pool_lock'[k] = pool_lock[k] \/ pool_lock[k] = t
    BY <1>1, <1>2, <2>1 DEF MTyped
  <2>3. LocksKept(t)
    <3>1. pool_lock' \in [Pool -> Thread \cup {NoThread}]  BY <2>1 DEF MTyped
    <3> QED  BY <1>1, <1>2, <1>6, <2>9, <3>1 DEF LocksKept, MTyped
  <2>4. stage'[t] = "pages" /\ work'[t] = m /\ l.cnt = l.done + 1  BY <1>1, <1>2, <1>11, <2>2 DEF StepsTo
  <2>5. ThreadPages(t)' = Group(pool[l.pool].base + l.idx, l.done + 1)
    <3>1. ThreadPages(t)' = Group(m.page, m.cnt)  BY <2>4 DEF ThreadPages
    <3> QED  BY <2>0, <2>4, <3>1
  <2>6. PagesExact'
    <3> HIDE DEF l
    <3> QED  BY <1>9, <2>2, <2>5
  <2>7. ThreadAt(t)'
    <3>1. Within(m.pool, m.page, m.cnt)  BY <1>1, <1>2, <1>3, <2>0 DEF Within
    <3> QED  BY <1>1, <1>2, <2>0, <2>4, <3>1 DEF ThreadAt, InPalloc
  <2>8. OldStep(t, "pages", m)  BY <2>0 DEF OldStep
  <2> QED  BY <1>2, <1>6, <2>2, <2>3, <2>6, <2>7, <2>8, BitStep
<1> QED  BY <1>10, <1>11

\* palloc_free_multiple(): one more bit is cleared, and its page is nobody's.
LEMMA ClearKeeps == ASSUME MInv, NEW t \in Thread, Clear(t) PROVE MInv'
<1> USE DEF MInv
<1> DEFINE l == work[t]
           i == l.idx + l.done
           q == pool[l.pool].base + i
           rest == Group(pool[l.pool].base + l.idx + (l.done + 1), l.cnt - (l.done + 1))
<1>1. /\ l \in Local /\ ThreadAt(t) /\ l.pool \in Pool /\ l.idx \in Nat /\ l.cnt \in Nat /\ l.done \in Nat
      /\ l.desc \in Nat /\ l.old = NoBlock
  BY DEF MTyped, ThreadsAt, Local, Clear, OldKept
<1>2. /\ stage[t] = "clear" /\ l.done < l.cnt /\ l.idx + l.cnt <= pool[l.pool].size
      /\ UNCHANGED <<pool_lock, free_list, arena, live>>
      /\ used_map' = [used_map EXCEPT ![l.pool] = @ \ {i}]
      /\ l.ret = "arena" => l.desc \in Desc /\ desc_lock[l.desc] = t
  BY <1>1 DEF Clear, ThreadAt, InPalloc
<1>3. pool[l.pool].base \in Nat /\ pool[l.pool].size \in Int  BY <1>1, PoolsAre
<1>4. i \in Bits(l.pool) /\ q \in Nat
  <2>1. /\ l.idx \in Nat /\ l.cnt \in Nat /\ l.done \in Nat /\ l.done < l.cnt
        /\ l.idx + l.cnt <= pool[l.pool].size /\ pool[l.pool].size \in Int /\ pool[l.pool].base \in Nat
    BY <1>1, <1>2, <1>3
  <2> HIDE DEF l, MInv
  <2> QED  BY ONLY <2>1 DEF i, q, Bits
<1>6. /\ used_map' \in [Pool -> SUBSET Nat] /\ BitsOK' /\ Marked' = Marked \ {q}
      /\ \A h \in Pool : used_map'[h] \subseteq used_map[h]
  <2> HIDE DEF l, i
  <2> QED  BY <1>1, <1>2, <1>4, BitClear
<1>7. ThreadPages(t) = Group(q, l.cnt - l.done)  BY <1>1, <1>2, <1>3 DEF ThreadPages
<1>8. q \in Group(q, l.cnt - l.done) /\ rest = Group(q, l.cnt - l.done) \ {q}
  <2>1. /\ l.idx \in Nat /\ l.cnt \in Nat /\ l.done \in Nat /\ l.done < l.cnt /\ pool[l.pool].base \in Nat
    BY <1>1, <1>2, <1>3
  <2> HIDE DEF l, MInv
  <2> QED  BY ONLY <2>1 DEF i, q, rest, Group
<1>9. ASSUME NEW label, NEW m, StepsTo(t, label, m), label # "free", ThreadPages(t)' = rest
      PROVE  PagesExact'
  <2>1. \A b \in Block : LivePages(b)' = LivePages(b)  BY <1>2 DEF LivePages
  <2>2. \A p \in Page : ArenaPages(p)' = ArenaPages(p)  BY <1>2 DEF ArenaPages
  <2>3. \A u \in Thread : u # t => ThreadPages(u)' = ThreadPages(u)  BY <1>9, SMT DEF StepsTo
  <2> DEFINE a == <<"thread", t>>
  <2>4. a \in DOMAIN own /\ own[a] = ThreadPages(t) /\ own'[a] = ThreadPages(t)'  BY OwnIs
  <2>5. \A o \in DOMAIN own : o # a => own'[o] = own[o]
    <3>1. \A x \in Thread \ {t} : ThreadPages(x)' = ThreadPages(x)  BY <2>3
    <3>2. \A o \in DOMAIN own : \/ own'[o] = own[o]
                                \/ \E b \in {} : o = <<"live", b>>
                                \/ \E p \in {} : o = <<"arena", p>>
                                \/ \E x \in {t} : o = <<"thread", x>>
      <4>1. /\ {} \in SUBSET Block /\ {} \in SUBSET Page /\ {t} \in SUBSET Thread
            /\ \A b \in Block \ {} : LivePages(b)' = LivePages(b)
            /\ \A p \in Page \ {} : ArenaPages(p)' = ArenaPages(p)
        BY <2>1, <2>2
      <4> QED  BY ONLY <3>1, <4>1, OthersKeep
    <3> QED  BY <3>2
  <2>6. DOMAIN own' = DOMAIN own  BY OwnIs
  <2>7. own'[a] = own[a] \ {q} /\ q \in own[a]  BY <1>7, <1>8, <1>9, <2>4
  <2>8. Apart(own) /\ Covered(own) = Marked  BY DEF PagesExact
  <2> HIDE DEF a, q, i, l
  <2> DEFINE g == own'
  <2>9. /\ DOMAIN g = DOMAIN own /\ g[a] = own[a] \ {q} /\ q \in own[a]
        /\ \A o \in DOMAIN own : o # a => g[o] = own[o]
    BY <2>5, <2>6, <2>7
  <2> HIDE DEF g
  <2>11. Apart(g) /\ Covered(g) = Covered(own) \ {q}
    BY ONLY <2>4, <2>8, <2>9, PageTaken
  <2>12. Apart(own') /\ Covered(own') = Marked \ {q}  BY <2>8, <2>11 DEF g
  <2> QED  BY <1>6, <2>12 DEF PagesExact, Apart, Covered
<1>10. CASE l.done + 1 < l.cnt
  <2> DEFINE m == [l EXCEPT !.done = l.done + 1]
  <2>0. /\ m \in Local /\ m.pool = l.pool /\ m.cnt = l.cnt /\ m.done = l.done + 1 /\ m.desc = l.desc
        /\ m.ret = l.ret /\ m.old = l.old /\ m.idx = l.idx
    BY <1>1 DEF Local
  <2>1. Move(t, "clear", m) /\ UNCHANGED desc_lock  BY <1>10 DEF Clear
  <2>2. StepsTo(t, "clear", m)  BY <2>0, <2>1, GoSteps DEF Label
  <2> HIDE DEF m
  <2>3. LocksKept(t)  BY <1>1, <1>2, <1>6, <2>1 DEF LocksKept, MTyped
  <2>4. stage'[t] = "clear" /\ work'[t] = m  BY <2>2 DEF StepsTo
  <2>5. ThreadPages(t)' = rest  BY <2>0, <2>4 DEF ThreadPages
  <2>6. PagesExact'
    <3> HIDE DEF l, rest
    <3> QED  BY <1>9, <2>2, <2>5
  <2>7. ThreadAt(t)'  BY <1>1, <1>2, <1>10, <2>0, <2>1, <2>4 DEF ThreadAt, InPalloc
  <2>8. OldStep(t, "clear", m)  BY <1>1, <2>0 DEF OldStep
  <2> QED  BY <1>2, <1>6, <2>2, <2>3, <2>6, <2>7, <2>8, BitStep
<1>11. CASE ~(l.done + 1 < l.cnt)
  <2>1. Done(t)  BY <1>11 DEF Clear
  <2>2. StepsTo(t, "idle", NoWork)  BY <2>1, DoneSteps
  <2>9. /\ desc_lock' \in [Desc -> Thread \cup {NoThread}]
        /\ \A d \in Desc : desc_lock'[d] = desc_lock[d] \/ desc_lock[d] = t
    <3>1. CASE l.ret = "arena"
      <4>1. desc_lock' = [desc_lock EXCEPT ![l.desc] = NoThread]  BY <1>11, <3>1 DEF Clear
      <4> QED  BY <1>2, <3>1, <4>1 DEF MTyped
    <3>2. CASE l.ret # "arena"  BY <1>11, <3>2 DEF Clear, MTyped
    <3> QED  BY <3>1, <3>2
  <2>3. LocksKept(t)  BY <1>1, <1>2, <1>6, <2>9 DEF LocksKept, MTyped
  <2>4. stage'[t] = "idle" /\ work'[t] = NoWork  BY <2>2 DEF StepsTo
  <2>5. ThreadPages(t)' = rest
    <3>1. ThreadPages(t)' = {}  BY <2>4 DEF ThreadPages
    <3>2. /\ l.idx \in Nat /\ l.cnt \in Nat /\ l.done \in Nat /\ pool[l.pool].base \in Nat
          /\ ~(l.done + 1 < l.cnt)
      BY <1>1, <1>3, <1>11
    <3> HIDE DEF l, MInv
    <3>3. rest = {}  BY ONLY <3>2 DEF rest, Group
    <3> QED  BY <3>1, <3>3
  <2>6. PagesExact'
    <3> HIDE DEF l, rest
    <3> QED  BY <1>9, <2>2, <2>5
  <2>7. ThreadAt(t)'  BY <2>4 DEF ThreadAt, InPalloc
  <2>8. OldStep(t, "idle", NoWork)  BY NoLocIs DEF OldStep
  <2> QED  BY <1>2, <1>6, <2>2, <2>3, <2>6, <2>7, <2>8, BitStep
<1> QED  BY <1>10, <1>11
-----------------------------------------------------------------------------
(* Free lists, and who has which block.                                     *)

\* list_pop_front() of a list without doubles.
LEMMA HeadTaken ==
    ASSUME NEW S, NEW list \in Seq(S), list # <<>>
    PROVE  /\ Head(list) \in S /\ Tail(list) \in Seq(S)
           /\ Head(list) \in ToSet(list)
           /\ ToSet(list) = {Head(list)} \cup ToSet(Tail(list))
           /\ IsInjective(list) => IsInjective(Tail(list)) /\ Head(list) \notin ToSet(Tail(list))
<1> DEFINE n == Len(list)
           rest == Tail(list)
<1>1. n \in Nat /\ n > 0 /\ DOMAIN list = 1 .. n /\ \A i \in 1 .. n : list[i] \in S
  BY LenProperties, EmptySeq, ElementOfSeq
<1>2. /\ Head(list) = list[1] /\ rest \in Seq(S) /\ Len(rest) = n - 1
      /\ DOMAIN rest = 1 .. n - 1 /\ \A i \in 1 .. n - 1 : rest[i] = list[i + 1]
  BY <1>1, HeadTailProperties, LenProperties
<1> HIDE DEF n, rest
<1>3. ToSet(list) = {list[1]} \cup ToSet(rest)
  <2>1. \A i \in 1 .. n : i = 1 \/ (i - 1 \in 1 .. n - 1 /\ list[i] = rest[i - 1])
    BY <1>1, <1>2
  <2>2. \A i \in 1 .. n - 1 : i + 1 \in 1 .. n  BY <1>1
  <2>3. 1 \in 1 .. n  BY <1>1
  <2>4. \A e \in ToSet(list) : e = list[1] \/ e \in ToSet(rest)
    <3> SUFFICES ASSUME NEW i \in 1 .. n PROVE list[i] = list[1] \/ list[i] \in ToSet(rest)
      BY <1>1 DEF ToSet
    <3>1. CASE i = 1  BY <3>1
    <3>2. CASE i - 1 \in 1 .. n - 1 /\ list[i] = rest[i - 1]  BY <1>2, <3>2 DEF ToSet
    <3> QED  BY <2>1, <3>1, <3>2
  <2>5. \A e \in ToSet(rest) : e \in ToSet(list)  BY <1>1, <1>2, <2>2 DEF ToSet
  <2>6. list[1] \in ToSet(list)  BY <1>1, <2>3 DEF ToSet
  <2> QED  BY <2>4, <2>5, <2>6
<1>4. ASSUME IsInjective(list) PROVE IsInjective(rest) /\ list[1] \notin ToSet(rest)
  <2>1. \A i, j \in 1 .. n : list[i] = list[j] => i = j  BY <1>1, <1>4 DEF IsInjective
  <2>2. \A i \in 1 .. n - 1 : i + 1 \in 1 .. n /\ i + 1 # 1 /\ 1 \in 1 .. n  BY <1>1
  <2>3. \A i \in 1 .. n - 1 : rest[i] # list[1]  BY <1>2, <2>1, <2>2
  <2>4. \A i, j \in 1 .. n - 1 : rest[i] = rest[j] => i + 1 = j + 1  BY <1>2, <2>1, <2>2
  <2>5. \A i, j \in 1 .. n - 1 : rest[i] = rest[j] => i = j  BY <2>4
  <2> QED  BY <1>2, <2>3, <2>5 DEF IsInjective, ToSet
<1>5. list[1] \in S  BY <1>1
<1> QED  BY <1>2, <1>3, <1>4, <1>5 DEF rest

\* list_push_front() of an element that is not on the list.
LEMMA FrontAdded ==
    ASSUME NEW S, NEW list \in Seq(S), NEW e \in S
    PROVE  /\ <<e>> \o list \in Seq(S)
           /\ ToSet(<<e>> \o list) = {e} \cup ToSet(list)
           /\ IsInjective(list) /\ e \notin ToSet(list) => IsInjective(<<e>> \o list)
<1> DEFINE n == Len(list)
           all == <<e>> \o list
<1>1. n \in Nat /\ DOMAIN list = 1 .. n  BY LenProperties
<1>2. <<e>> \in Seq(S) /\ Len(<<e>>) = 1 /\ <<e>>[1] = e  OBVIOUS
<1>3. /\ all \in Seq(S) /\ DOMAIN all = 1 .. n + 1 /\ all[1] = e
      /\ \A i \in 1 .. n + 1 : i # 1 => all[i] = list[i - 1]
  BY <1>1, <1>2, ConcatProperties, LenProperties
<1> HIDE DEF n, all
<1>4. \A i \in 1 .. n + 1 : i = 1 \/ (i - 1 \in 1 .. n /\ all[i] = list[i - 1])  BY <1>1, <1>3
<1>5. \A i \in 1 .. n : i + 1 \in 1 .. n + 1 /\ all[i + 1] = list[i]
  <2> TAKE i \in 1 .. n
  <2>1. i + 1 \in 1 .. n + 1 /\ i + 1 # 1 /\ (i + 1) - 1 = i  BY <1>1
  <2> QED  BY <1>3, <2>1
<1>6. 1 \in 1 .. n + 1  BY <1>1
<1>7. ToSet(all) = {e} \cup ToSet(list)
  <2>1. \A x \in ToSet(all) : x = e \/ x \in ToSet(list)  BY <1>1, <1>3, <1>4 DEF ToSet
  <2>2. \A x \in ToSet(list) : x \in ToSet(all)  BY <1>1, <1>3, <1>5 DEF ToSet
  <2>3. e \in ToSet(all)  BY <1>3, <1>6 DEF ToSet
  <2> QED  BY <2>1, <2>2, <2>3
<1>8. ASSUME IsInjective(list), e \notin ToSet(list) PROVE IsInjective(all)
  <2>1. \A i, j \in 1 .. n : list[i] = list[j] => i = j  BY <1>1, <1>8 DEF IsInjective
  <2>2. \A i \in 1 .. n : list[i] # e  BY <1>1, <1>8 DEF ToSet
  <2> SUFFICES ASSUME NEW i \in 1 .. n + 1, NEW j \in 1 .. n + 1, all[i] = all[j] PROVE i = j
    BY <1>3 DEF IsInjective
  <2>3. CASE i = 1  BY <1>3, <1>4, <2>2, <2>3
  <2>4. CASE j = 1  BY <1>3, <1>4, <2>2, <2>4
  <2>5. CASE i # 1 /\ j # 1
    <3>1. i - 1 \in 1 .. n /\ j - 1 \in 1 .. n /\ list[i - 1] = list[j - 1]  BY <1>4, <2>5
    <3>2. i - 1 = j - 1  BY <2>1, <3>1
    <3> QED  BY <1>1, <3>2
  <2> QED  BY <2>3, <2>4, <2>5
<1> QED  BY <1>3, <1>7, <1>8 DEF all

\* The books of an arena that no step touches.
LEMMA PageStays ==
    ASSUME NEW p \in Page, PageBooks(p), arena'[p] = arena[p],
           arena[p].desc > 0 =>
             \A i : <<p, i>> \in ToSet(free_list'[arena[p].desc]) <=> <<p, i>> \in ToSet(free_list[arena[p].desc]),
           \A b \in Block : b.pages = 0 /\ b.page = p => (b \in live' <=> b \in live),
           live \subseteq Block, live' \subseteq Block,
           \A u \in Thread : /\ (stage'[u] = "free" /\ work'[u].page = p) <=> (stage[u] = "free" /\ work[u].page = p)
                             /\ stage[u] = "free" /\ work[u].page = p => work'[u].idx = work[u].idx
    PROVE  PageBooks(p)'
<1>1. CASE arena[p].desc > 0
  <2>1. \A i : Listed(p, i)' <=> Listed(p, i)  BY <1>1 DEF Listed
  <2>2. \A i : Held(p, i)' <=> Held(p, i)  BY DEF Held
  <2>3. \A i : Freeing(p, i)' <=> Freeing(p, i)  BY DEF Freeing
  <2>4. BlockOf(p)' = BlockOf(p)  BY DEF BlockOf
  <2>5. ListedOf(p)' = ListedOf(p)  BY <2>1, <2>4 DEF ListedOf
  <2> QED  BY <2>1, <2>2, <2>3, <2>4, <2>5 DEF PageBooks
<1>2. CASE ~(arena[p].desc > 0)  BY <1>2 DEF PageBooks
<1> QED  BY <1>1, <1>2

\* A page with an owner other than its arena has no arena.
LEMMA NoArenaAt ==
    ASSUME MTyped, PagesExact, ArenasPlaced, NEW p \in Page, NEW o \in Owner, o # <<"arena", p>>, p \in own[o]
    PROVE  arena[p] = NoArena
<1>1. own[<<"arena", p>>] = ArenaPages(p) /\ <<"arena", p>> \in Owner /\ DOMAIN own = Owner  BY OwnIs
<1>2. p \notin ArenaPages(p)  BY <1>1 DEF PagesExact, Apart
<1> SUFFICES ASSUME arena[p] # NoArena PROVE FALSE  OBVIOUS
<1>3. arena[p] \in [desc : Desc \cup {0}, free_cnt : Nat]  BY DEF MTyped
<1>4. arena[p].desc \in Nat /\ arena[p].free_cnt \in Nat  BY <1>3, DescIs
<1>5. arena[p].desc = 0 => arena[p].free_cnt # 0
  BY <1>3 DEF NoArena
<1>6. p \in Nat  BY DEF Page
<1> QED  BY <1>2, <1>4, <1>5, <1>6 DEF ArenaPages, Group

\* The two fields of an arena, and when there is none.
LEMMA ArenaFields ==
    ASSUME MTyped, NEW p \in Page
    PROVE  /\ arena[p].desc \in Nat /\ arena[p].free_cnt \in Nat
           /\ arena[p].desc > 0 <=> arena[p].desc \in Desc
           /\ arena[p] = [desc |-> arena[p].desc, free_cnt |-> arena[p].free_cnt]
           /\ arena[p] = NoArena <=> arena[p].desc = 0 /\ arena[p].free_cnt = 0
<1>1. arena[p] \in [desc : Desc \cup {0}, free_cnt : Nat]  BY DEF MTyped
<1>2. arena[p].desc \in Nat /\ (arena[p].desc > 0 <=> arena[p].desc \in Desc)  BY <1>1, DescIs
<1> QED  BY <1>1, <1>2 DEF NoArena

\* Nothing of the block allocator lies on a page without an arena.
LEMMA UnusedPage ==
    ASSUME MInv, NEW p \in Page, arena[p] = NoArena
    PROVE  /\ \A b \in live : b.pages = 0 => b.page # p
           /\ \A u \in Thread : stage[u] = "free" => work[u].page # p
           /\ \A d \in Desc : \A e \in ToSet(free_list[d]) : e[1] # p
<1> USE DEF MInv
<1>1. arena[p].desc = 0 /\ arena[p].free_cnt = 0  BY DEF NoArena
<1>2. \A b \in live : b.pages = 0 => b.page # p
  BY <1>1 DEF LivePlaced, Placed
<1>3. \A u \in Thread : stage[u] = "free" => work[u].page # p
  BY <1>1, DescIs DEF ThreadsAt, ThreadAt
<1>4. \A d \in Desc : \A e \in ToSet(free_list[d]) : e[1] # p
  BY <1>1, DescIs DEF ListsExact
<1> QED  BY <1>2, <1>3, <1>4

\* The pages of one owner become those of another.
LEMMA OwnMoves ==
    ASSUME PagesExact, used_map' = used_map, NEW a \in Owner, NEW b \in Owner, a # b,
           own[b] = {}, own'[b] = own[a], own'[a] = {},
           \A o \in Owner : o # a /\ o # b => own'[o] = own[o]
    PROVE  PagesExact'
<1> DEFINE f == own
           g == own'
<1>1. DOMAIN f = Owner /\ DOMAIN g = Owner  BY OwnIs
<1>2. Apart(f) /\ Marked = Covered(f)  BY DEF PagesExact
<1> HIDE DEF f, g
<1>3. Apart(g) /\ Covered(g) = Covered(f)
  <2>1. DOMAIN g = DOMAIN f /\ a \in DOMAIN f /\ b \in DOMAIN f /\ f[b] = {} /\ g[b] = f[a] /\ g[a] = {}
        /\ \A o \in DOMAIN f : o # a /\ o # b => g[o] = f[o]
    BY <1>1 DEF f, g
  <2> QED  BY ONLY <1>2, <2>1, a # b, PagesMove
<1>4. Marked' = Marked  BY DEF Marked
<1> QED  BY <1>2, <1>3, <1>4 DEF PagesExact, Apart, Covered, f, g

\* Listed blocks lie in pages.
LEMMA ListedPages ==
    ASSUME MTyped
    PROVE  \A d \in Desc : \A e \in ToSet(free_list[d]) : e[1] \in Page
<1> SUFFICES ASSUME NEW d \in Desc PROVE \A e \in ToSet(free_list[d]) : e[1] \in Page  OBVIOUS
<1>1. free_list[d] \in Seq(Page \X Nat)  BY DEF MTyped
<1>2. \A n \in DOMAIN free_list[d] : free_list[d][n] \in Page \X Nat  BY <1>1
<1> QED  BY <1>2 DEF ToSet
-----------------------------------------------------------------------------
(* malloc() takes a block off a free list.                                  *)

\* Pages keep what they are used for; only the counts of free blocks change.
DescsKept == \A q \in Page : /\ arena'[q].desc = arena[q].desc
                             /\ arena[q].desc = 0 => arena'[q] = arena[q]

\* A step that changes no descriptor of an arena moves no page and no block.
LEMMA DescsKeep ==
    ASSUME MTyped, DescsKept
    PROVE  /\ \A q \in Page : ArenaPages(q)' = ArenaPages(q)
           /\ \A b : Placed(b) => Placed(b)'
           /\ ArenasPlaced => ArenasPlaced'
<1>1. \A q \in Page : /\ arena'[q].desc = arena[q].desc
                      /\ arena[q].desc = 0 => arena'[q] = arena[q]
                      /\ arena[q].desc \in Nat
                      /\ arena[q] = NoArena => arena[q].desc = 0
  BY ArenaFields DEF DescsKept
<1>2. \A q \in Page : ArenaPages(q)' = ArenaPages(q)  BY <1>1 DEF ArenaPages
<1>3. \A b : Placed(b) => Placed(b)'
  <2> SUFFICES ASSUME NEW b, Placed(b) PROVE Placed(b)'  OBVIOUS
  <2>1. b.page \in Page  BY DEF Placed
  <2> QED  BY <1>1, <2>1 DEF Placed
<1>4. ArenasPlaced => ArenasPlaced'
  <2> SUFFICES ASSUME ArenasPlaced, NEW q \in Page
               PROVE  \/ arena'[q] = NoArena
                      \/ \E k \in Pool : Within(k, q, IF arena'[q].desc > 0 THEN 1 ELSE arena'[q].free_cnt)
    BY DEF ArenasPlaced
  <2>1. CASE arena[q] = NoArena  BY <1>1, <2>1
  <2>2. CASE \E k \in Pool : Within(k, q, IF arena[q].desc > 0 THEN 1 ELSE arena[q].free_cnt)
    BY <1>1, <2>2
  <2> QED  BY <2>1, <2>2 DEF ArenasPlaced
<1> QED  BY <1>2, <1>3, <1>4

\* Who has obtained a block returns it, or copies.
LEMMA ObtainedSteps ==
    ASSUME MTyped, NEW t \in Thread, NEW b, Obtained(t, b)
    PROVE  /\ live' = live \cup {b}
           /\ \E label \in {"idle", "copied"}, l \in Local :
                StepsTo(t, label, l) /\ OldStep(t, label, l)
           /\ ThreadPages(t)' = {} /\ ThreadAt(t)' /\ stage'[t] \in {"idle", "copied"}
<1>1. live' = live \cup {b}  BY DEF Obtained
<1>2. work[t] \in Local  BY DEF MTyped
<1>3. CASE work[t].old = NoBlock
  <2>1. StepsTo(t, "idle", NoWork)  BY <1>3, DoneSteps DEF Obtained
  <2>2. OldStep(t, "idle", NoWork)  BY NoLocIs DEF OldStep
  <2>3. stage'[t] = "idle" /\ work'[t] = NoWork  BY <2>1 DEF StepsTo
  <2>4. ThreadPages(t)' = {} /\ ThreadAt(t)'  BY <2>3 DEF ThreadPages, ThreadAt, InPalloc
  <2> QED  BY <1>1, <2>1, <2>2, <2>3, <2>4, NoLocIs
<1>4. CASE work[t].old # NoBlock
  <2>1. StepsTo(t, "copied", work[t])  BY <1>2, <1>4, GoSteps DEF Obtained, Label
  <2>2. OldStep(t, "copied", work[t])  BY <1>4 DEF OldStep
  <2>3. stage'[t] = "copied" /\ work'[t] = work[t]  BY <2>1 DEF StepsTo
  <2>4. ThreadPages(t)' = {} /\ ThreadAt(t)'  BY <2>3 DEF ThreadPages, ThreadAt, InPalloc
  <2> QED  BY <1>1, <1>2, <2>1, <2>2, <2>3, <2>4
<1> QED  BY <1>3, <1>4

\* The free list is empty: one page is asked for, with the lock held.
LEMMA AsksForArena ==
    ASSUME MInv, NEW t \in Thread, LockDesc(t), free_list[work[t].desc] = <<>>
    PROVE  MInv'
<1> USE DEF MInv
<1> DEFINE l == work[t]
           ask == [l EXCEPT !.ret = "arena"]
<1>1. l \in Local /\ ThreadAt(t) /\ stage[t] = "malloc" /\ l.desc \in Desc
  BY DEF MTyped, ThreadsAt, ThreadAt, LockDesc
<1>2. /\ desc_lock[l.desc] = NoThread /\ desc_lock' = [desc_lock EXCEPT ![l.desc] = t]
      /\ palloc_get_multiple(t, ask, "kernel", 1)
      /\ UNCHANGED <<used_map, pool_lock, free_list, arena, live>>
  BY DEF LockDesc
<1>3. ask \in Local /\ ask.desc = l.desc /\ ask.ret = "arena" /\ ask.old = l.old  BY <1>1 DEF Local
<1>4. "kernel" \in Pool  BY PoolsAre
<1> HIDE DEF ask
<1>5. PICK m \in Local : /\ StepsTo(t, "get", m)
                         /\ m.pool = "kernel" /\ m.cnt = 1 /\ m.idx = 0 /\ m.done = 0
                         /\ m.desc = l.desc /\ m.ret = "arena" /\ m.old = l.old
  <2>1. \E m \in Local : /\ StepsTo(t, IF 1 = 0 THEN "no_pages" ELSE "get", m)
                         /\ m.pool = "kernel" /\ m.cnt = 1 /\ m.idx = 0 /\ m.done = 0
                         /\ m.desc = ask.desc /\ m.ret = ask.ret /\ m.old = ask.old
    <3>1. MTyped /\ 1 \in Nat  BY DEF MInv
    <3> QED  BY ONLY <1>2, <1>3, <1>4, <3>1, t \in Thread, GetMultiple
  <2> QED  BY <1>3, <2>1
<1>6. /\ desc_lock' \in [Desc -> Thread \cup {NoThread}] /\ desc_lock'[l.desc] = t
      /\ \A d \in Desc : desc_lock'[d] = desc_lock[d] \/ desc_lock[d] = NoThread
  BY <1>1, <1>2 DEF MTyped
<1>7. LocksKept(t)  BY <1>2, <1>6, Constants DEF LocksKept, MTyped
<1>8. stage'[t] = "get" /\ work'[t] = m  BY <1>5 DEF StepsTo
<1>9. ThreadPages(t)' = ThreadPages(t)  BY <1>1, <1>8 DEF ThreadPages
<1>10. ThreadAt(t)'  BY <1>1, <1>2, <1>5, <1>6, <1>8 DEF ThreadAt, InPalloc
<1>11. OldStep(t, "get", m)  BY <1>5 DEF OldStep
<1> QED  BY <1>1, <1>2, <1>5, <1>7, <1>9, <1>10, <1>11, QuietStep

\* malloc() pops a block off a list that is not empty.
LEMMA TakesBlock ==
    ASSUME MInv, NEW t \in Thread, LockDesc(t), free_list[work[t].desc] # <<>>
    PROVE  MInv'
<1> USE DEF MInv
<1>0. PICK d, list, p, i, b :
        /\ d = work[t].desc /\ list = free_list[d] /\ p = Head(list)[1] /\ i = Head(list)[2]
        /\ b = [page |-> p, off |-> Offset(d, i), want |-> work[t].want, pages |-> 0]
  OBVIOUS
<1>1. work[t] \in Local /\ ThreadAt(t) /\ stage[t] = "malloc" /\ d \in Desc /\ work[t].want \in Int
  BY <1>0, Zenon DEF MTyped, ThreadsAt, ThreadAt, LockDesc, Local
<1>2. /\ desc_lock[d] = NoThread /\ free_list' = [free_list EXCEPT ![d] = Tail(list)]
      /\ arena' = [arena EXCEPT ![p].free_cnt = arena[p].free_cnt - 1]
      /\ Obtained(t, b)
      /\ UNCHANGED <<used_map, pool_lock, desc_lock>>
  BY <1>0 DEF LockDesc, Offset
<1>3. list \in Seq(Page \X Nat) /\ IsInjective(list)  BY <1>0, <1>1 DEF MTyped, ListsExact
<1>4. /\ Head(list) \in Page \X Nat /\ Tail(list) \in Seq(Page \X Nat) /\ Head(list) \in ToSet(list)
      /\ ToSet(list) = {Head(list)} \cup ToSet(Tail(list))
      /\ IsInjective(Tail(list)) /\ Head(list) \notin ToSet(Tail(list))
  <2>1. list # <<>>  BY <1>0
  <2> QED  BY ONLY <1>3, <2>1, HeadTaken
<1>5. /\ p \in Page /\ i \in Nat /\ Head(list) = <<p, i>>
      /\ arena[p].desc = d /\ i \in 0 .. blocks_per_arena(d) - 1
  <2>1. p \in Page /\ i \in Nat /\ Head(list) = <<p, i>>  BY <1>0, <1>4
  <2>2. Head(list) \in ToSet(free_list[d])  BY <1>0, <1>4
  <2>3. /\ arena[Head(list)[1]].desc = d
        /\ Head(list)[2] \in 0 .. blocks_per_arena(d) - 1
    BY <1>1, <2>2 DEF ListsExact
  <2> QED  BY <1>0, <2>1, <2>3
<1>6. d \in Nat /\ d > 0 /\ Header \in Nat /\ p \in Nat  BY <1>1, <1>5, DescIs, Constants DEF Page
<1>7. b \in Block
  <2>1. Offset(d, i) \in Nat  BY <1>5, <1>6 DEF Offset
  <2> QED  BY <1>0, <1>1, <1>6, <2>1 DEF Block
<1>8. /\ b.page = p /\ b.pages = 0 /\ b.off = Offset(d, i)  BY <1>0
<1>9. /\ <<p, i>> \in ToSet(list) /\ \A e : e \in ToSet(Tail(list)) <=> e \in ToSet(list) /\ e # <<p, i>>
  BY <1>4, <1>5
<1>10. free_list'[d] = Tail(list) /\ (\A e \in Desc : e # d => free_list'[e] = free_list[e])
       /\ free_list' \in [Desc -> Seq(Page \X Nat)]
  BY <1>0, <1>1, <1>2, <1>4 DEF MTyped
<1>11. arena[p].free_cnt = Cardinality(ListedOf(p)) /\ i \in ListedOf(p) /\ PageBooks(p) /\ Listed(p, i)
       /\ BlockOf(p) = 0 .. blocks_per_arena(d) - 1
  <2>1. PageBooks(p) /\ BlockOf(p) = 0 .. blocks_per_arena(d) - 1  BY <1>5, Zenon DEF BlocksExact, BlockOf
  <2>2. Listed(p, i)  BY <1>0, <1>5, <1>9 DEF Listed
  <2> QED  BY <1>5, <1>6, <2>1, <2>2 DEF PageBooks, ListedOf
<1>12. /\ IsFiniteSet(ListedOf(p)) /\ Cardinality(ListedOf(p) \ {i}) = arena[p].free_cnt - 1
       /\ arena[p].free_cnt - 1 \in Nat
  <2>1. blocks_per_arena(d) \in Nat  BY <1>1, DescIs
  <2>2. IsFiniteSet(BlockOf(p))  BY <1>11, <2>1, FS_Interval
  <2>3. ListedOf(p) \subseteq BlockOf(p)  BY DEF ListedOf
  <2>4. IsFiniteSet(ListedOf(p))  BY <2>2, <2>3, FS_Subset
  <2>5. /\ IsFiniteSet(ListedOf(p) \ {i})
        /\ Cardinality(ListedOf(p) \ {i}) = Cardinality(ListedOf(p)) - 1
    BY <1>11, <2>4, FS_RemoveElement
  <2>6. Cardinality(ListedOf(p) \ {i}) \in Nat  BY <2>5, FS_CardinalityType
  <2> QED  BY <1>11, <2>4, <2>5, <2>6
<1>13. /\ \A q \in Page : q # p => arena'[q] = arena[q]
       /\ arena'[p].desc = d /\ arena'[p].free_cnt = arena[p].free_cnt - 1
       /\ arena' \in [Page -> [desc : Desc \cup {0}, free_cnt : Nat]]
  <2>1. arena \in [Page -> [desc : Desc \cup {0}, free_cnt : Nat]]  BY DEF MTyped
  <2>2. /\ \A q \in Page : q # p => arena'[q] = arena[q]
        /\ arena'[p] = [arena[p] EXCEPT !.free_cnt = arena[p].free_cnt - 1]
        /\ DOMAIN arena' = Page /\ arena' = [q \in Page |-> arena'[q]]
    BY <1>2, <1>5, <2>1
  <2>3. arena'[p] \in [desc : Desc \cup {0}, free_cnt : Nat]
        /\ arena'[p].desc = arena[p].desc /\ arena'[p].free_cnt = arena[p].free_cnt - 1
    BY <1>5, <1>12, <2>1, <2>2
  <2>4. \A q \in Page : arena'[q] \in [desc : Desc \cup {0}, free_cnt : Nat]  BY <2>1, <2>2, <2>3
  <2> QED  BY <1>5, <2>2, <2>3, <2>4
<1>14. DescsKept  BY <1>5, <1>6, <1>13 DEF DescsKept
<1>15. /\ live' = live \cup {b}
       /\ ThreadPages(t)' = {} /\ ThreadAt(t)' /\ stage'[t] \in {"idle", "copied"}
       /\ \E label \in {"idle", "copied"}, l \in Local : StepsTo(t, label, l) /\ OldStep(t, label, l)
  BY <1>2, ObtainedSteps
<1>16. PICK label \in {"idle", "copied"}, l \in Local : StepsTo(t, label, l) /\ OldStep(t, label, l)
  BY <1>15
<1>17. b \notin live /\ \A c \in live : c.pages = 0 /\ c.page = p => c.off # Offset(d, i)
  <2>1. ~Held(p, i)  BY <1>5, <1>6, <1>11 DEF PageBooks
  <2> QED  BY <1>5, <1>8, <2>1 DEF Held
<1>18. MTyped'
  <2>1. live' \subseteq Block  BY <1>7, <1>15 DEF MTyped
  <2> QED  BY <1>2, <1>10, <1>13, <1>16, <2>1 DEF MTyped, StepsTo
<1>19. BitsOK'  BY <1>2 DEF BitsOK
<1>20. PagesExact'
  <2>1. \A c \in Block : LivePages(c)' = LivePages(c)
    <3>1. Group(p, 0) = {}  BY <1>6 DEF Group
    <3>2. LivePages(b)' = LivePages(b)  BY <1>8, <1>15, <1>17, <3>1 DEF LivePages
    <3> QED  BY <1>15, <3>2 DEF LivePages
  <2>2. \A q \in Page : ArenaPages(q)' = ArenaPages(q)  BY <1>14, DescsKeep
  <2>3. \A u \in Thread : ThreadPages(u)' = ThreadPages(u)
    <3>1. ThreadPages(t) = {}  BY <1>1 DEF ThreadPages
    <3> QED  BY <1>15, <1>16, <3>1 DEF StepsTo
  <2> QED  BY <1>2, <2>1, <2>2, <2>3, NobodyMoves
<1>21. ThreadsAt'
  <2>1. LocksKept(t)
    <3>1. \A u \in Thread : stage[u] = "free" => arena'[work[u].page].desc = arena[work[u].page].desc
      BY <1>14 DEF ThreadsAt, ThreadAt, DescsKept
    <3>2. \A e \in Desc : \A u \in Thread : desc_lock[e] = u => free_list'[e] = free_list[e]
      BY <1>2, <1>10, Constants
    <3> QED  BY <1>2, <3>1, <3>2 DEF LocksKept, MTyped
  <2> QED  BY <1>15, <1>16, <2>1, OthersAt DEF ThreadsAt
<1>22. OldKept'
  <2>1. \A u \in Thread : work'[u].old # NoBlock /\ work'[u].old \in live => work'[u].old \in live'  BY <1>15
  <2> QED  BY <1>16, <2>1, OldStays
<1>23. LivePlaced'
  <2>1. \A c : Placed(c) => Placed(c)'  BY <1>14, DescsKeep
  <2>2. Placed(b)'
    <3>1. arena'[p].desc > 0 /\ i \in 0 .. blocks_per_arena(arena'[p].desc) - 1
          /\ b.off = Offset(arena'[p].desc, i)
      BY <1>5, <1>6, <1>8, <1>13
    <3> QED  BY <1>5, <1>8, <3>1 DEF Placed
  <2>3. \A c \in live' : IF c.pages > 0 THEN c.off = 0 /\ \E k \in Pool : Within(k, c.page, c.pages)
                         ELSE Placed(c)'
    <3> SUFFICES ASSUME NEW c \in live'
                 PROVE  IF c.pages > 0 THEN c.off = 0 /\ \E k \in Pool : Within(k, c.page, c.pages)
                        ELSE Placed(c)'
      OBVIOUS
    <3>1. CASE c \in live  BY <2>1, <3>1 DEF LivePlaced
    <3>2. CASE c = b  BY <1>8, <2>2, <3>2
    <3> QED  BY <1>15, <3>1, <3>2
  <2>4. \A c, e \in live' : c.pages = 0 /\ e.pages = 0 /\ c.page = e.page /\ c.off = e.off => c = e
    BY <1>8, <1>15, <1>17 DEF LivePlaced
  <2> QED  BY <2>3, <2>4 DEF LivePlaced
<1>24. ArenasPlaced'  BY <1>14, DescsKeep
<1>25. BlocksExact'
  <2>0. /\ \A u \in Thread : stage'[u] = "free" <=> stage[u] = "free"
        /\ \A u \in Thread : stage[u] = "free" => work'[u] = work[u]
    BY <1>1, <1>15, <1>16 DEF StepsTo
  <2>1. ASSUME NEW q \in Page, q # p PROVE PageBooks(q)'
    <3>1. PageBooks(q) /\ arena'[q] = arena[q]  BY <1>13, <2>1 DEF BlocksExact
    <3>2. arena[q].desc > 0 =>
            \A j : <<q, j>> \in ToSet(free_list'[arena[q].desc]) <=> <<q, j>> \in ToSet(free_list[arena[q].desc])
      <4>1. arena[q].desc > 0 => arena[q].desc \in Desc  BY ArenaFields
      <4> QED  BY <1>0, <1>9, <1>10, <2>1, <4>1
    <3>3. \A c \in Block : c.pages = 0 /\ c.page = q => (c \in live' <=> c \in live)  BY <1>8, <1>15, <2>1
    <3>4. live \subseteq Block /\ live' \subseteq Block  BY <1>18 DEF MTyped
    <3>5. \A u \in Thread : /\ (stage'[u] = "free" /\ work'[u].page = q) <=> (stage[u] = "free" /\ work[u].page = q)
                            /\ stage[u] = "free" /\ work[u].page = q => work'[u].idx = work[u].idx
      BY <2>0
    <3> QED  BY ONLY <3>1, <3>2, <3>3, <3>4, <3>5, q \in Page, PageStays
  <2>2. PageBooks(p)'
    <3>1. \A j : Listed(p, j)' <=> Listed(p, j) /\ j # i  BY <1>0, <1>5, <1>9, <1>10, <1>13 DEF Listed
    <3>2. \A j \in Nat : Held(p, j)' <=> Held(p, j) \/ j = i
      <4> SUFFICES ASSUME NEW j \in Nat
                   PROVE  (\E c \in live' : c.pages = 0 /\ c.page = p /\ c.off = Offset(d, j))
                            <=> Held(p, j) \/ j = i
        BY <1>13 DEF Held
      <4>1. Offset(d, i) = Offset(d, j) => i = j
        <5>1. Header + i * d = Header + j * d => i * d = j * d  BY <1>5, <1>6
        <5>2. d \in Nat \ {0}  BY <1>6
        <5> QED  BY <1>5, <5>1, <5>2, SameMultiple DEF Offset
      <4> QED  BY <1>5, <1>8, <1>15, <4>1 DEF Held
    <3>3. \A j : Freeing(p, j)' <=> Freeing(p, j)  BY <2>0 DEF Freeing
    <3>4. BlockOf(p)' = BlockOf(p) /\ BlockOf(p) \subseteq Nat  BY <1>5, <1>11, <1>13 DEF BlockOf
    <3>5. ListedOf(p)' = ListedOf(p) \ {i}  BY <3>1, <3>4 DEF ListedOf
    <3>6. /\ \A j \in BlockOf(p) :
              /\ Listed(p, j) \/ Held(p, j) \/ Freeing(p, j)
              /\ ~(Listed(p, j) /\ Held(p, j)) /\ ~(Listed(p, j) /\ Freeing(p, j))
              /\ ~(Held(p, j) /\ Freeing(p, j))
      BY <1>5, <1>6, <1>11 DEF PageBooks
    <3>7. i \in BlockOf(p)  BY <1>5, <1>11
    <3> QED  BY <1>11, <1>12, <1>13, <3>1, <3>2, <3>3, <3>4, <3>5, <3>6, <3>7, SMT DEF PageBooks
  <2>3. FreedOnce'  BY <2>0 DEF BlocksExact, FreedOnce
  <2> QED  BY <2>1, <2>2, <2>3 DEF BlocksExact
<1>26. ListsExact'
  <2> SUFFICES ASSUME NEW e \in Desc
               PROVE  /\ IsInjective(free_list'[e])
                      /\ \A x \in ToSet(free_list'[e]) : /\ arena'[x[1]].desc = e
                                                         /\ x[2] \in 0 .. blocks_per_arena(e) - 1
    BY DEF ListsExact
  <2>1. \A x \in ToSet(free_list[e]) : arena'[x[1]].desc = e
    <3>1. \A x \in ToSet(free_list[e]) : arena[x[1]].desc = e /\ x[1] \in Page
      <4>1. free_list[e] \in Seq(Page \X Nat)  BY DEF MTyped
      <4>2. \A n \in DOMAIN free_list[e] : free_list[e][n] \in Page \X Nat  BY <4>1
      <4> QED  BY <4>2 DEF ListsExact, ToSet
    <3> QED  BY <1>14, <3>1 DEF DescsKept
  <2>2. ToSet(free_list'[e]) \subseteq ToSet(free_list[e])  BY <1>0, <1>9, <1>10
  <2>3. IsInjective(free_list'[e])  BY <1>4, <1>10 DEF ListsExact
  <2> QED  BY <2>1, <2>2, <2>3 DEF ListsExact
<1> QED  BY <1>18, <1>19, <1>20, <1>21, <1>22, <1>23, <1>24, <1>25, <1>26

\* malloc() under the lock of its descriptor, malloc.c:122.
LEMMA LockDescKeeps == ASSUME MInv, NEW t \in Thread, LockDesc(t) PROVE MInv'
BY AsksForArena, TakesBlock
-----------------------------------------------------------------------------
(* malloc() makes an arena, or a big block, of pages it got.                *)

\* The pages palloc has handed to a thread hold no arena.
LEMMA PagesGot ==
    ASSUME MInv, NEW t \in Thread, stage[t] = "pages", NEW p, p = work[t].page, NEW cnt, cnt = work[t].cnt
    PROVE  /\ p \in Page /\ cnt \in Nat /\ cnt > 0 /\ ThreadPages(t) = Group(p, cnt)
           /\ \E k \in Pool : Within(k, p, cnt)
           /\ \A q \in Group(p, cnt) : q \in Page /\ arena[q] = NoArena
<1> USE DEF MInv
<1>1. work[t] \in Local /\ ThreadAt(t)  BY DEF MTyped, ThreadsAt
<1>2. p \in Nat /\ cnt \in Nat /\ cnt > 0 /\ work[t].pool \in Pool /\ Within(work[t].pool, p, cnt)
  BY <1>1 DEF Local, ThreadAt
<1>3. (\A q \in Group(p, cnt) : q \in Page) /\ p \in Page /\ p \in Group(p, cnt)  BY <1>2, WithinPool
<1>4. ThreadPages(t) = Group(p, cnt)  BY DEF ThreadPages
<1>5. ASSUME NEW q \in Group(p, cnt) PROVE arena[q] = NoArena
  <2> DEFINE o == <<"thread", t>>
  <2>1. o \in Owner /\ own[o] = ThreadPages(t) /\ o # <<"arena", q>>  BY OwnIs
  <2>2. MTyped /\ PagesExact /\ ArenasPlaced /\ q \in Page /\ q \in own[o]  BY <1>3, <1>4, <1>5, <2>1
  <2> HIDE DEF o
  <2> QED  BY ONLY <2>1, <2>2, NoArenaAt
<1> QED  BY <1>2, <1>3, <1>4, <1>5

\* malloc() turns its new page into an arena or a big block and returns a piece of it.
LEMMA ArenaFilled ==
    ASSUME MInv, NEW t \in Thread, stage[t] = "pages", NEW p, p = work[t].page,
           NEW a \in [desc : Desc \cup {0}, free_cnt : Nat], arena' = [arena EXCEPT ![p] = a],
           (a.desc > 0 /\ work[t].cnt = 1) \/ (a.desc = 0 /\ a.free_cnt = work[t].cnt),
           NEW b, b = [page |-> p, off |-> Header, want |-> work[t].want, pages |-> 0],
           Obtained(t, b), UNCHANGED used_map,
           free_list' \in [Desc -> Seq(Page \X Nat)], LocksKept(t),
           \A e \in Desc : \A q, i : q # p =>
             (<<q, i>> \in ToSet(free_list'[e]) <=> <<q, i>> \in ToSet(free_list[e])),
           PageBooks(p)', ListsExact'
    PROVE  MInv'
<1> USE DEF MInv
<1>1. /\ p \in Page /\ p \in Nat /\ work[t].cnt \in Nat /\ work[t].cnt > 0
      /\ ThreadPages(t) = Group(p, work[t].cnt)
      /\ (\E k \in Pool : Within(k, p, work[t].cnt)) /\ arena[p] = NoArena
  <2>1. p \in Group(p, work[t].cnt)  BY PagesGot DEF Group, Page
  <2> QED  BY <2>1, PagesGot DEF Page
<1>2. /\ \A c \in live : c.pages = 0 => c.page # p
      /\ \A u \in Thread : stage[u] = "free" => work[u].page # p
      /\ \A d \in Desc : \A e \in ToSet(free_list[d]) : e[1] # p
  BY <1>1, UnusedPage
<1>3. /\ arena'[p] = a /\ \A q \in Page : q # p => arena'[q] = arena[q]
      /\ arena' \in [Page -> [desc : Desc \cup {0}, free_cnt : Nat]]
  BY <1>1 DEF MTyped
<1>4. a.desc \in Nat /\ a.free_cnt \in Nat /\ (a.desc > 0 => a.desc \in Desc)  BY DescIs
<1>5. /\ live' = live \cup {b}
      /\ ThreadPages(t)' = {} /\ ThreadAt(t)' /\ stage'[t] \in {"idle", "copied"}
      /\ \E label \in {"idle", "copied"}, l \in Local : StepsTo(t, label, l) /\ OldStep(t, label, l)
  BY ObtainedSteps
<1>6. PICK label \in {"idle", "copied"}, l \in Local : StepsTo(t, label, l) /\ OldStep(t, label, l)
  BY <1>5
<1>7. b.page = p /\ b.pages = 0 /\ b.off = Header /\ b \in Block
  <2>1. work[t] \in Local  BY DEF MTyped
  <2>2. work[t].want \in Int  BY <2>1 DEF Local
  <2> QED  BY <1>1, <2>2, Constants DEF Block
<1>8. MTyped'
  <2>1. live' \subseteq Block  BY <1>5, <1>7 DEF MTyped
  <2> QED  BY <1>3, <1>6, <2>1 DEF MTyped, StepsTo, LocksKept
<1>9. BitsOK'  BY DEF BitsOK
<1>10. PagesExact'
  <2> DEFINE from == <<"thread", t>>
             to == <<"arena", p>>
  <2>1. /\ from \in Owner /\ to \in Owner /\ from # to
        /\ own[from] = ThreadPages(t) /\ own'[from] = ThreadPages(t)'
        /\ own[to] = ArenaPages(p) /\ own'[to] = ArenaPages(p)'
    BY <1>1, OwnIs
  <2>2. ArenaPages(p) = {}  BY <1>1 DEF ArenaPages, NoArena, Group
  <2>3. ArenaPages(p)' = Group(p, work[t].cnt)  BY <1>3, <1>4 DEF ArenaPages
  <2>4. \A c \in Block \ {} : LivePages(c)' = LivePages(c)
    <3>1. Group(p, 0) = {}  BY <1>1 DEF Group
    <3>2. LivePages(b)' = {} /\ LivePages(b) = {}  BY <1>5, <1>7, <3>1 DEF LivePages
    <3>3. \A c \in Block : c # b => LivePages(c)' = LivePages(c)  BY <1>5 DEF LivePages
    <3> QED  BY <3>2, <3>3
  <2>5. \A q \in Page \ {p} : ArenaPages(q)' = ArenaPages(q)  BY <1>3 DEF ArenaPages
  <2>6. \A u \in Thread \ {t} : ThreadPages(u)' = ThreadPages(u)  BY <1>6 DEF StepsTo
  <2>7. \A o \in Owner : o # from /\ o # to => own'[o] = own[o]
    <3>1. \A o \in DOMAIN own : \/ own'[o] = own[o]
                                \/ \E c \in {} : o = <<"live", c>>
                                \/ \E q \in {p} : o = <<"arena", q>>
                                \/ \E x \in {t} : o = <<"thread", x>>
      <4>1. {} \in SUBSET Block /\ {p} \in SUBSET Page /\ {t} \in SUBSET Thread  BY <1>1
      <4> QED  BY ONLY <2>4, <2>5, <2>6, <4>1, OthersKeep
    <3> QED  BY <3>1, OwnIs
  <2> HIDE DEF from, to
  <2>8. own[to] = {} /\ own'[to] = own[from] /\ own'[from] = {}  BY <1>1, <1>5, <2>1, <2>2, <2>3
  <2>9. PagesExact /\ used_map' = used_map  OBVIOUS
  <2> QED  BY ONLY <2>1, <2>7, <2>8, <2>9, OwnMoves
<1>11. ThreadsAt'  BY <1>5, <1>6, OthersAt DEF ThreadsAt
<1>12. OldKept'
  <2>1. \A u \in Thread : work'[u].old # NoBlock /\ work'[u].old \in live => work'[u].old \in live'  BY <1>5
  <2> QED  BY <1>6, <2>1, OldStays
<1>13. LivePlaced'
  <2>1. Placed(b)'
    <3>1. CASE a.desc > 0
      <4>1. Header = Offset(a.desc, 0)  BY <1>4, Constants DEF Offset
      <4>2. 0 \in 0 .. blocks_per_arena(a.desc) - 1  BY <1>4, <3>1, DescIs
      <4> QED  BY <1>1, <1>3, <1>7, <3>1, <4>1, <4>2 DEF Placed
    <3>2. CASE ~(a.desc > 0)  BY <1>1, <1>3, <1>4, <1>7, <3>2 DEF Placed
    <3> QED  BY <3>1, <3>2
  <2>2. ASSUME NEW c \in live
        PROVE  IF c.pages > 0 THEN c.off = 0 /\ \E k \in Pool : Within(k, c.page, c.pages) ELSE Placed(c)'
    <3>1. c.pages \in Nat  BY DEF MTyped, Block
    <3>2. CASE c.pages > 0  BY <3>2 DEF LivePlaced
    <3>3. CASE ~(c.pages > 0)
      <4>1. Placed(c) /\ c.page # p  BY <1>2, <3>1, <3>3 DEF LivePlaced
      <4>2. c.page \in Page /\ arena'[c.page] = arena[c.page]  BY <1>3, <4>1 DEF Placed
      <4> QED  BY <3>3, <4>1, <4>2 DEF Placed
    <3> QED  BY <3>2, <3>3
  <2>3. \A c \in live' : IF c.pages > 0 THEN c.off = 0 /\ \E k \in Pool : Within(k, c.page, c.pages)
                         ELSE Placed(c)'
    <3> SUFFICES ASSUME NEW c \in live'
                 PROVE  IF c.pages > 0 THEN c.off = 0 /\ \E k \in Pool : Within(k, c.page, c.pages)
                        ELSE Placed(c)'
      OBVIOUS
    <3>1. CASE c \in live  BY <2>2, <3>1
    <3>2. CASE c = b  BY <1>7, <2>1, <3>2
    <3> QED  BY <1>5, <3>1, <3>2
  <2>4. \A c, e \in live' : c.pages = 0 /\ e.pages = 0 /\ c.page = e.page /\ c.off = e.off => c = e
    BY <1>2, <1>5, <1>7 DEF LivePlaced
  <2> QED  BY <2>3, <2>4 DEF LivePlaced
<1>14. ArenasPlaced'
  <2>1. \E k \in Pool : Within(k, p, IF a.desc > 0 THEN 1 ELSE a.free_cnt)  BY <1>1, <1>4
  <2> QED  BY <1>3, <2>1 DEF ArenasPlaced
<1>15. BlocksExact'
  <2>0. /\ \A u \in Thread : stage'[u] = "free" <=> stage[u] = "free"
        /\ \A u \in Thread : stage[u] = "free" => work'[u] = work[u]
    BY <1>5, <1>6 DEF StepsTo
  <2>1. ASSUME NEW q \in Page, q # p PROVE PageBooks(q)'
    <3>1. PageBooks(q) /\ arena'[q] = arena[q]  BY <1>3, <2>1 DEF BlocksExact
    <3>2. arena[q].desc > 0 =>
            \A j : <<q, j>> \in ToSet(free_list'[arena[q].desc]) <=> <<q, j>> \in ToSet(free_list[arena[q].desc])
      <4>1. arena[q].desc > 0 => arena[q].desc \in Desc  BY ArenaFields
      <4> QED  BY <2>1, <4>1
    <3>3. \A c \in Block : c.pages = 0 /\ c.page = q => (c \in live' <=> c \in live)  BY <1>5, <1>7, <2>1
    <3>4. live \subseteq Block /\ live' \subseteq Block  BY <1>8 DEF MTyped
    <3>5. \A u \in Thread : /\ (stage'[u] = "free" /\ work'[u].page = q) <=> (stage[u] = "free" /\ work[u].page = q)
                            /\ stage[u] = "free" /\ work[u].page = q => work'[u].idx = work[u].idx
      BY <2>0
    <3> QED  BY ONLY <3>1, <3>2, <3>3, <3>4, <3>5, q \in Page, PageStays
  <2>3. FreedOnce'
    <3>1. FreedOnce  BY DEF BlocksExact
    <3> QED  BY ONLY <2>0, <3>1 DEF FreedOnce
  <2> QED  BY <2>1, <2>3 DEF BlocksExact
<1> QED  BY <1>8, <1>9, <1>10, <1>11, <1>12, <1>13, <1>14, <1>15

\* malloc.c:114, a block of whole pages.
LEMMA BigBlockKeeps == ASSUME MInv, NEW t \in Thread, BigBlock(t) PROVE MInv'
<1> USE DEF MInv
<1>0. PICK p, a, b :
        /\ p = work[t].page /\ a = [desc |-> 0, free_cnt |-> work[t].cnt]
        /\ b = [page |-> p, off |-> Header, want |-> work[t].want, pages |-> 0]
  OBVIOUS
<1>1. /\ stage[t] = "pages" /\ arena' = [arena EXCEPT ![p] = a] /\ Obtained(t, b)
      /\ UNCHANGED <<used_map, pool_lock, desc_lock, free_list>>
  BY <1>0 DEF BigBlock
<1>2. p \in Page /\ work[t].cnt \in Nat /\ arena[p] = NoArena
  <2>1. p \in Page /\ work[t].cnt \in Nat /\ work[t].cnt > 0
        /\ \A q \in Group(p, work[t].cnt) : arena[q] = NoArena
    BY <1>0, <1>1, PagesGot
  <2>2. p \in Group(p, work[t].cnt)  BY <2>1 DEF Group, Page
  <2> QED  BY <2>1, <2>2
<1>3. a \in [desc : Desc \cup {0}, free_cnt : Nat] /\ a.desc = 0 /\ a.free_cnt = work[t].cnt
  BY <1>0, <1>2
<1>4. arena'[p] = a /\ \A q \in Page : q # p => arena'[q] = arena[q]
  BY <1>1, <1>2 DEF MTyped
<1>5. /\ \A u \in Thread : stage[u] = "free" => work[u].page # p
      /\ \A d \in Desc : \A e \in ToSet(free_list[d]) : e[1] # p
  BY <1>2, UnusedPage
<1>6. LocksKept(t)
  <2>1. \A u \in Thread : stage[u] = "free" => arena'[work[u].page].desc = arena[work[u].page].desc
    BY <1>4, <1>5 DEF ThreadsAt, ThreadAt
  <2> QED  BY <1>1, <2>1 DEF LocksKept, MTyped
<1>7. free_list' \in [Desc -> Seq(Page \X Nat)]  BY <1>1 DEF MTyped
<1>8. PageBooks(p)'  BY <1>3, <1>4 DEF PageBooks
<1>9. ListsExact'
  <2>1. \A d \in Desc : \A e \in ToSet(free_list[d]) : e[1] \in Page  BY ListedPages
  <2> QED  BY <1>1, <1>4, <1>5, <2>1 DEF ListsExact
<1> QED  BY <1>0, <1>1, <1>3, <1>6, <1>7, <1>8, <1>9, ArenaFilled

\* malloc.c:137, a page becomes an arena and all its blocks but the first are listed.
LEMMA NewArenaKeeps == ASSUME MInv, NEW t \in Thread, NewArena(t) PROVE MInv'
<1> USE DEF MInv
<1>0. PICK d, n, p, a, b, list :
        /\ d = work[t].desc /\ n = blocks_per_arena(d)
        /\ p = work[t].page /\ a = [desc |-> d, free_cnt |-> n - 1]
        /\ list = [i \in 1 .. n - 1 |-> <<p, i>>]
        /\ b = [page |-> p, off |-> Header, want |-> work[t].want, pages |-> 0]
  OBVIOUS
<1>1. /\ stage[t] = "pages" /\ work[t].ret = "arena"
      /\ arena' = [arena EXCEPT ![p] = a] /\ Obtained(t, b)
      /\ free_list' = [free_list EXCEPT ![d] = list]
      /\ desc_lock' = [desc_lock EXCEPT ![d] = NoThread]
      /\ UNCHANGED <<used_map, pool_lock>>
  BY <1>0 DEF NewArena
<1>a. d \in Desc /\ desc_lock[d] = t /\ free_list[d] = <<>> /\ work[t].cnt = 1
  BY <1>0, <1>1 DEF ThreadsAt, ThreadAt, InPalloc
<1>b. d \in Nat /\ d > 0 /\ n \in Nat /\ n > 0 /\ Header \in Nat  BY <1>0, <1>a, DescIs, Constants
<1>2. p \in Page /\ p \in Nat /\ arena[p] = NoArena
  <2>1. p \in Page /\ \A q \in Group(p, work[t].cnt) : arena[q] = NoArena
    BY <1>0, <1>1, PagesGot
  <2>2. p \in Group(p, work[t].cnt)  BY <1>a, <2>1 DEF Group, Page
  <2> QED  BY <2>1, <2>2 DEF Page
<1>3. a \in [desc : Desc \cup {0}, free_cnt : Nat] /\ a.desc = d /\ a.free_cnt = n - 1
  BY <1>0, <1>a, <1>b
<1>4. arena'[p] = a /\ \A q \in Page : q # p => arena'[q] = arena[q]
  BY <1>1, <1>2 DEF MTyped
<1>5. /\ \A c \in live : c.pages = 0 => c.page # p
      /\ \A u \in Thread : stage[u] = "free" => work[u].page # p
      /\ \A e \in Desc : \A x \in ToSet(free_list[e]) : x[1] # p
  BY <1>2, UnusedPage
<1>c. /\ list \in Seq(Page \X Nat) /\ DOMAIN list = 1 .. n - 1
      /\ \A i \in 1 .. n - 1 : list[i] = <<p, i>>
  <2>1. \A i \in 1 .. n - 1 : <<p, i>> \in Page \X Nat  BY <1>2
  <2>2. n - 1 \in Nat  BY <1>b
  <2> QED  BY <1>0, <2>1, <2>2, Z3T(30)
<1>d. (\A q, i : <<q, i>> \in ToSet(list) <=> q = p /\ i \in 1 .. n - 1) /\ IsInjective(list)
  BY <1>c DEF ToSet, IsInjective
<1>e. /\ free_list' \in [Desc -> Seq(Page \X Nat)] /\ free_list'[d] = list
      /\ \A e \in Desc : e # d => free_list'[e] = free_list[e]
  BY <1>1, <1>a, <1>c DEF MTyped
<1>6. LocksKept(t)
  <2>1. \A u \in Thread : stage[u] = "free" => arena'[work[u].page].desc = arena[work[u].page].desc
    BY <1>4, <1>5 DEF ThreadsAt, ThreadAt
  <2>2. /\ desc_lock' \in [Desc -> Thread \cup {NoThread}]
        /\ \A e \in Desc : e # d => desc_lock'[e] = desc_lock[e]
    BY <1>1, <1>a DEF MTyped
  <2> QED  BY <1>1, <1>a, <1>e, <2>1, <2>2 DEF LocksKept, MTyped
<1>7. \A e \in Desc : \A q, i : q # p =>
        (<<q, i>> \in ToSet(free_list'[e]) <=> <<q, i>> \in ToSet(free_list[e]))
  <2>1. \A x : x \notin ToSet(free_list[d])  BY <1>a DEF ToSet
  <2> QED  BY <1>d, <1>e, <2>1
<1>8. PageBooks(p)'
  <2>1. live' = live \cup {b} /\ b.page = p /\ b.pages = 0 /\ b.off = Header  BY <1>0, <1>1, ObtainedSteps
  <2>2. \A u \in Thread : stage'[u] = "free" => work'[u].page # p
    <3>1. PICK label \in {"idle", "copied"}, l \in Local : StepsTo(t, label, l)
      BY <1>1, ObtainedSteps
    <3> QED  BY <1>5, <3>1 DEF StepsTo
  <2>3. \A i : Listed(p, i)' <=> i \in 1 .. n - 1  BY <1>3, <1>4, <1>d, <1>e DEF Listed
  <2>4. \A i \in Nat : Held(p, i)' <=> i = 0
    <3> SUFFICES ASSUME NEW i \in Nat
                 PROVE  (\E c \in live' : c.pages = 0 /\ c.page = p /\ c.off = Offset(d, i)) <=> i = 0
      BY <1>3, <1>4 DEF Held
    <3>1. Offset(d, i) = Header <=> i = 0
      <4>1. Header + i * d = Header => i * d = 0 * d  BY <1>b
      <4>2. d \in Nat \ {0} /\ 0 \in Nat  BY <1>b
      <4>3. i * d = 0 * d => i = 0  BY <4>2, SameMultiple
      <4>4. Offset(d, 0) = Header  BY <1>b DEF Offset
      <4> QED  BY <4>1, <4>3, <4>4 DEF Offset
    <3> QED  BY <1>5, <2>1, <3>1
  <2>5. \A i : ~Freeing(p, i)'  BY <2>2 DEF Freeing
  <2>6. BlockOf(p)' = 0 .. n - 1  BY <1>0, <1>3, <1>4 DEF BlockOf
  <2>7. ListedOf(p)' = 1 .. n - 1  BY <1>b, <2>3, <2>6 DEF ListedOf
  <2>8. Cardinality(1 .. n - 1) = n - 1  BY <1>b, FS_Interval
  <2>9. \A i \in 0 .. n - 1 : i \in Nat /\ (i \in 1 .. n - 1 <=> i # 0)  BY <1>b
  <2>10. 0 \in 0 .. n - 1  BY <1>b
  <2> QED  BY <1>3, <1>4, <2>3, <2>4, <2>5, <2>6, <2>7, <2>8, <2>9, <2>10 DEF PageBooks
<1>9. ListsExact'
  <2>1. \A e \in Desc : \A x \in ToSet(free_list[e]) : x[1] \in Page  BY ListedPages
  <2>2. ASSUME NEW e \in Desc
        PROVE  /\ IsInjective(free_list'[e])
               /\ \A x \in ToSet(free_list'[e]) : arena'[x[1]].desc = e /\ x[2] \in 0 .. blocks_per_arena(e) - 1
    <3>1. CASE e = d
      <4>2. \A i \in 1 .. n - 1 : i \in 0 .. n - 1  BY <1>b
      <4>1. \A x \in ToSet(list) : x[1] = p /\ x[2] \in 0 .. n - 1
        <5> SUFFICES ASSUME NEW i \in 1 .. n - 1 PROVE list[i][1] = p /\ list[i][2] \in 0 .. n - 1
          BY <1>c DEF ToSet
        <5> QED  BY <1>c, <4>2
      <4>3. arena'[p].desc = d /\ n = blocks_per_arena(d)  BY <1>0, <1>3, <1>4
      <4>4. free_list'[d] = list /\ IsInjective(list)  BY <1>d, <1>e
      <4> QED  BY ONLY <3>1, <4>1, <4>3, <4>4
    <3>2. CASE e # d
      <4>1. free_list'[e] = free_list[e]  BY <1>e, <3>2
      <4>2. \A x \in ToSet(free_list[e]) : x[1] \in Page /\ x[1] # p  BY <1>5, <2>1
      <4>3. \A x \in ToSet(free_list[e]) : arena'[x[1]] = arena[x[1]]  BY <1>4, <4>2
      <4> QED  BY <4>1, <4>3 DEF ListsExact
    <3> QED  BY <3>1, <3>2
  <2> QED  BY <2>2 DEF ListsExact
<1> QED
  <2>1. (a.desc > 0 /\ work[t].cnt = 1) \/ (a.desc = 0 /\ a.free_cnt = work[t].cnt)  BY <1>3, <1>a, <1>b
  <2> QED  BY <1>0, <1>1, <1>3, <1>6, <1>7, <1>8, <1>9, <1>e, <2>1, ArenaFilled
-----------------------------------------------------------------------------
(* Pages go back to the page allocator.                                     *)

\* palloc_free_multiple() hands its pages to the thread that will clear their bits.
LEMMA FreesPages ==
    ASSUME MTyped, NEW t \in Thread, NEW l \in Local, NEW page \in Nat, NEW cnt \in Nat, cnt > 0,
           NEW k \in Pool, Within(k, page, cnt), palloc_free_multiple(t, l, page, cnt)
    PROVE  /\ \A q \in Page : arena'[q] = IF q \in Group(page, cnt) THEN NoArena ELSE arena[q]
           /\ arena' \in [Page -> [desc : Desc \cup {0}, free_cnt : Nat]]
           /\ ThreadPages(t)' = Group(page, cnt)
           /\ \E m \in Local : /\ StepsTo(t, "clear", m)
                               /\ m.pool = k /\ m.cnt = cnt /\ m.done = 0 /\ m.idx + cnt <= pool[k].size
                               /\ m.ret = l.ret /\ m.desc = l.desc /\ m.old = l.old
<1> DEFINE h == CHOOSE h \in Pool : page_from_pool(h, page)
           m == [l EXCEPT !.pool = h, !.idx = page - pool[h].base, !.cnt = cnt, !.done = 0]
<1>1. h = k
  <2> HIDE DEF h
  <2>1. (CHOOSE x \in Pool : page_from_pool(x, page)) = k  BY WithinPool
  <2> QED  BY <2>1 DEF h
<1>2. /\ arena' = [p \in Page |-> IF p \in page .. page + cnt - 1 THEN NoArena ELSE arena[p]]
      /\ Move(t, "clear", m)
  BY DEF palloc_free_multiple
<1>3. pool[k].base \in Nat /\ pool[k].size \in Int /\ page - pool[k].base \in Nat
      /\ (page - pool[k].base) + cnt <= pool[k].size
      /\ pool[k].base + (page - pool[k].base) + 0 = page
  BY PoolsAre DEF Within
<1> HIDE DEF h
<1>4. /\ m \in Local /\ m.pool = k /\ m.cnt = cnt /\ m.done = 0 /\ m.idx = page - pool[k].base
      /\ m.ret = l.ret /\ m.desc = l.desc /\ m.old = l.old
  BY <1>1, <1>3 DEF Local
<1> HIDE DEF m
<1>5. StepsTo(t, "clear", m)  BY <1>2, <1>4, GoSteps DEF Label
<1>6. ThreadPages(t)' = Group(page, cnt)
  <2>1. stage'[t] = "clear" /\ work'[t] = m  BY <1>5 DEF StepsTo
  <2>2. cnt - 0 = cnt  OBVIOUS
  <2>3. ThreadPages(t)' = Group(pool[m.pool].base + m.idx + m.done, m.cnt - m.done)
    BY <2>1 DEF ThreadPages
  <2> QED  BY <1>3, <1>4, <2>2, <2>3
<1>7. \A q \in Page : arena'[q] = IF q \in Group(page, cnt) THEN NoArena ELSE arena[q]
  BY <1>2 DEF Group
<1>8. arena' \in [Page -> [desc : Desc \cup {0}, free_cnt : Nat]]
  <2>1. NoArena \in [desc : Desc \cup {0}, free_cnt : Nat]  BY DEF NoArena
  <2> QED  BY <1>2, <2>1 DEF MTyped
<1> QED  BY <1>3, <1>4, <1>5, <1>6, <1>7, <1>8

\* Who has no pages.
LEMMA IdleThread ==
    ASSUME NEW t \in Thread, stage[t] \in {"idle", "copied", "free", "malloc"}
    PROVE  ThreadPages(t) = {}
BY DEF ThreadPages

\* free() of pages or of a big block.
LEMMA GivesBack ==
    ASSUME MInv, NEW t \in Thread, stage[t] \in {"idle", "copied"}, NEW b \in live, live' = live \ {b},
           \A u \in Thread : u # t => work[u].old # b,
           NEW l \in Local, l.old = NoBlock, l.ret # "arena", NEW n,
           \/ b.pages > 0 /\ n = b.pages
           \/ b.pages = 0 /\ arena[b.page].desc = 0 /\ n = arena[b.page].free_cnt,
           palloc_free_multiple(t, l, b.page, n), UNCHANGED <<used_map, pool_lock, desc_lock, free_list>>
    PROVE  MInv'
<1> USE DEF MInv
<1>1. b \in Block /\ b.page \in Nat /\ b.pages \in Nat  BY DEF MTyped, Block
\* The owner so far.
<1>2. PICK o \in Owner, k \in Pool :
        /\ own[o] = Group(b.page, n) /\ n \in Nat /\ n > 0 /\ Within(k, b.page, n)
        /\ \/ o = <<"live", b>> /\ b.pages > 0
           \/ o = <<"arena", b.page>> /\ b.pages = 0 /\ b.off = Header /\ arena[b.page].desc = 0 /\ b.page \in Page
              /\ arena[b.page].free_cnt = n
  <2>1. CASE b.pages > 0 /\ n = b.pages
    <3>1. \E k \in Pool : Within(k, b.page, b.pages)  BY <2>1 DEF LivePlaced
    <3>2. <<"live", b>> \in Owner /\ own[<<"live", b>>] = Group(b.page, b.pages)
      BY <1>1, OwnIs DEF LivePages
    <3> QED  BY <1>1, <2>1, <3>1, <3>2
  <2>2. CASE b.pages = 0 /\ arena[b.page].desc = 0 /\ n = arena[b.page].free_cnt
    <3>1. Placed(b)  BY <1>1, <2>2 DEF LivePlaced
    <3>2. b.page \in Page /\ b.off = Header /\ n > 0 /\ n \in Nat
      <4>1. b.page \in Page  BY <3>1 DEF Placed
      <4>0. MTyped  OBVIOUS
      <4>2. ~(arena[b.page].desc > 0) /\ arena[b.page].free_cnt \in Nat
        <5>1. PICK p : p = b.page  OBVIOUS
        <5>2. p \in Page  BY <4>1, <5>1
        <5>3. arena[p].desc \in Nat /\ arena[p].free_cnt \in Nat  BY ONLY <4>0, <5>2, ArenaFields
        <5> QED  BY <2>2, <5>1, <5>3
      <4>3. b.off = Header /\ arena[b.page].free_cnt > 0  BY <3>1, <4>2 DEF Placed
      <4> QED  BY <2>2, <4>1, <4>2, <4>3
    <3>3. arena[b.page] # NoArena  BY <2>2, <3>2 DEF NoArena
    <3>4. \E k \in Pool : Within(k, b.page, n)  BY <2>2, <3>2, <3>3 DEF ArenasPlaced
    <3>5. <<"arena", b.page>> \in Owner /\ own[<<"arena", b.page>>] = Group(b.page, n)
      BY <2>2, <3>2, OwnIs DEF ArenaPages
    <3> QED  BY <2>2, <3>2, <3>4, <3>5
  <2> QED  BY <2>1, <2>2
<1>3. /\ \A q \in Page : arena'[q] = IF q \in Group(b.page, n) THEN NoArena ELSE arena[q]
      /\ arena' \in [Page -> [desc : Desc \cup {0}, free_cnt : Nat]]
      /\ ThreadPages(t)' = Group(b.page, n)
      /\ \E m \in Local : /\ StepsTo(t, "clear", m)
                          /\ m.pool = k /\ m.cnt = n /\ m.done = 0 /\ m.idx + n <= pool[k].size
                          /\ m.ret = l.ret /\ m.desc = l.desc /\ m.old = l.old
  BY <1>1, <1>2, FreesPages
<1>4. PICK m \in Local : /\ StepsTo(t, "clear", m)
                         /\ m.pool = k /\ m.cnt = n /\ m.done = 0 /\ m.idx + n <= pool[k].size
                         /\ m.ret = l.ret /\ m.desc = l.desc /\ m.old = l.old
  BY <1>3
<1>5. b.page \in Group(b.page, n) /\ b.page \in Page /\ \A q \in Group(b.page, n) : q \in Page
  BY <1>1, <1>2, WithinPool
<1>6. \A q \in Group(b.page, n) : q # b.page \/ b.pages > 0 => arena[q] = NoArena
  <2> SUFFICES ASSUME NEW q \in Group(b.page, n), q # b.page \/ b.pages > 0 PROVE arena[q] = NoArena
    OBVIOUS
  <2>1. o # <<"arena", q>>  BY <1>2
  <2>2. q \in Page /\ q \in own[o]  BY <1>2, <1>5
  <2> QED  BY ONLY MInv, o \in Owner, <2>1, <2>2, NoArenaAt DEF MInv
<1>7. \A q \in Group(b.page, n) : arena[q].desc = 0
  BY <1>2, <1>6 DEF NoArena
<1>8. \A q \in Page : arena'[q].desc = arena[q].desc
  BY <1>3, <1>7 DEF NoArena
<1>9. \A q \in Page : arena[q].desc > 0 => q \notin Group(b.page, n) /\ arena'[q] = arena[q] /\ q # b.page
  BY <1>3, <1>5, <1>7
<1>10. MTyped'
  BY <1>3, <1>4 DEF MTyped, StepsTo
<1>11. BitsOK'  BY DEF BitsOK
<1>12. PagesExact'
  <2> DEFINE to == <<"thread", t>>
  <2>1. /\ to \in Owner /\ o # to
        /\ own[to] = ThreadPages(t) /\ own'[to] = ThreadPages(t)'
    BY <1>2, OwnIs
  <2>2. own[to] = {} /\ own'[to] = own[o]  BY <1>2, <1>3, <2>1, IdleThread
  <2>3. \A c \in Block : c # b => LivePages(c)' = LivePages(c)  BY DEF LivePages
  <2>4. \A q \in Page : <<"arena", q>> # o => ArenaPages(q)' = ArenaPages(q)
    <3> SUFFICES ASSUME NEW q \in Page, <<"arena", q>> # o PROVE ArenaPages(q)' = ArenaPages(q)  OBVIOUS
    <3>1. arena'[q] = arena[q]  BY <1>2, <1>3, <1>6
    <3> QED  BY <3>1 DEF ArenaPages
  <2>5. \A u \in Thread \ {t} : ThreadPages(u)' = ThreadPages(u)  BY <1>4 DEF StepsTo
  <2>6. CASE o = <<"live", b>> /\ b.pages > 0
    <3>1. own'[o] = {}
      <4>1. own'[<<"live", b>>] = LivePages(b)'  BY <1>1, OwnIs
      <4>2. LivePages(b)' = {}  BY DEF LivePages
      <4> QED  BY <2>6, <4>1, <4>2
    <3>2. \A x \in Owner : x # o /\ x # to => own'[x] = own[x]
      <4>1. /\ {b} \in SUBSET Block /\ {} \in SUBSET Page /\ {t} \in SUBSET Thread
            /\ \A c \in Block \ {b} : LivePages(c)' = LivePages(c)
            /\ \A q \in Page \ {} : ArenaPages(q)' = ArenaPages(q)
        BY <1>1, <2>3, <2>4, <2>6
      <4>2. \A x \in DOMAIN own : \/ own'[x] = own[x]
                                  \/ \E c \in {b} : x = <<"live", c>>
                                  \/ \E q \in {} : x = <<"arena", q>>
                                  \/ \E y \in {t} : x = <<"thread", y>>
        BY ONLY <2>5, <4>1, OthersKeep
      <4> QED  BY <2>6, <4>2, OwnIs
    <3> HIDE DEF to
    <3> QED  BY ONLY MInv, used_map' = used_map, o \in Owner, <2>1, <2>2, <3>1, <3>2, OwnMoves DEF MInv
  <2>7. CASE o = <<"arena", b.page>> /\ b.pages = 0
    <3>1. own'[o] = {}
      <4>1. own'[<<"arena", b.page>>] = ArenaPages(b.page)'  BY <1>5, OwnIs
      <4>2. arena'[b.page] = NoArena  BY <1>3, <1>5
      <4>3. ArenaPages(b.page)' = {}  BY <1>1, <4>2 DEF ArenaPages, NoArena, Group
      <4> QED  BY <2>7, <4>1, <4>3
    <3>2. \A x \in Owner : x # o /\ x # to => own'[x] = own[x]
      <4>0. \A c \in Block : LivePages(c)' = LivePages(c)
        <5>1. Group(b.page, 0) = {}  BY <1>1 DEF Group
        <5>2. LivePages(b)' = {} /\ LivePages(b) = {}  BY <2>7, <5>1 DEF LivePages
        <5> QED  BY <2>3, <5>2
      <4>1. /\ {} \in SUBSET Block /\ {b.page} \in SUBSET Page /\ {t} \in SUBSET Thread
            /\ \A c \in Block \ {} : LivePages(c)' = LivePages(c)
            /\ \A q \in Page \ {b.page} : ArenaPages(q)' = ArenaPages(q)
        BY <1>5, <2>4, <2>7, <4>0
      <4>2. \A x \in DOMAIN own : \/ own'[x] = own[x]
                                  \/ \E c \in {} : x = <<"live", c>>
                                  \/ \E q \in {b.page} : x = <<"arena", q>>
                                  \/ \E y \in {t} : x = <<"thread", y>>
        BY ONLY <2>5, <4>1, OthersKeep
      <4> QED  BY <2>7, <4>2, OwnIs
    <3> HIDE DEF to
    <3> QED  BY ONLY MInv, used_map' = used_map, o \in Owner, <2>1, <2>2, <3>1, <3>2, OwnMoves DEF MInv
  <2> QED  BY <1>2, <2>6, <2>7
<1>13. ThreadsAt'
  <2>1. LocksKept(t)
    <3>1. \A u \in Thread : stage[u] = "free" => arena'[work[u].page].desc = arena[work[u].page].desc
      BY <1>8 DEF ThreadsAt, ThreadAt
    <3> QED  BY <3>1 DEF LocksKept, MTyped
  <2>2. ThreadAt(t)'
    <3>1. stage'[t] = "clear" /\ work'[t] = m  BY <1>4 DEF StepsTo
    <3> QED  BY <1>2, <1>4, <3>1 DEF ThreadAt, InPalloc
  <2> QED  BY <1>4, <2>1, <2>2, OthersAt DEF ThreadsAt
<1>14. OldKept'
  <2>1. \A u \in Thread : work'[u].old # NoBlock /\ work'[u].old \in live => work'[u].old \in live'
    BY <1>4 DEF StepsTo
  <2>2. OldStep(t, "clear", m)  BY <1>4 DEF OldStep
  <2> QED  BY <1>4, <2>1, <2>2, OldStays
<1>15. LivePlaced'
  <2>1. ASSUME NEW c \in live, c # b
        PROVE  IF c.pages > 0 THEN c.off = 0 /\ \E h \in Pool : Within(h, c.page, c.pages) ELSE Placed(c)'
    <3>1. c.pages \in Nat  BY DEF MTyped, Block
    <3>2. CASE c.pages > 0  BY <3>2 DEF LivePlaced
    <3>3. CASE ~(c.pages > 0)
      <4>1. Placed(c) /\ c.pages = 0  BY <3>1, <3>3 DEF LivePlaced
      <4>2. c.page \in Page  BY <4>1 DEF Placed
      <4>3. c.page \notin Group(b.page, n)
        <5> SUFFICES ASSUME c.page \in Group(b.page, n) PROVE FALSE  OBVIOUS
        <5>1. arena[c.page] # NoArena  BY <4>1 DEF Placed, NoArena
        <5>2. c.page = b.page /\ ~(b.pages > 0)  BY <1>6, <5>1
        <5>3. b.pages = 0 /\ b.off = Header /\ arena[b.page].desc = 0  BY <1>2, <5>2
        <5>4. c.off = Header  BY <4>1, <5>2, <5>3 DEF Placed
        <5> QED  BY <2>1, <4>1, <5>2, <5>3, <5>4 DEF LivePlaced
      <4>4. arena'[c.page] = arena[c.page]  BY <1>3, <4>2, <4>3
      <4> QED  BY <3>3, <4>1, <4>2, <4>4 DEF Placed
    <3> QED  BY <3>2, <3>3
  <2> QED  BY <2>1 DEF LivePlaced
<1>16. ArenasPlaced'
  <2> SUFFICES ASSUME NEW q \in Page
               PROVE  \/ arena'[q] = NoArena
                      \/ \E h \in Pool : Within(h, q, IF arena'[q].desc > 0 THEN 1 ELSE arena'[q].free_cnt)
    BY DEF ArenasPlaced
  <2>1. arena'[q] = NoArena \/ arena'[q] = arena[q]  BY <1>3
  <2> QED  BY <2>1 DEF ArenasPlaced
<1>17. BlocksExact'
  <2>0. /\ \A u \in Thread : stage'[u] = "free" <=> stage[u] = "free"
        /\ \A u \in Thread : stage[u] = "free" => work'[u] = work[u]
    BY <1>4 DEF StepsTo
  <2>1. ASSUME NEW q \in Page PROVE PageBooks(q)'
    <3>a. CASE ~(arena[q].desc > 0)  BY <1>8, <3>a DEF PageBooks
    <3>b. CASE arena[q].desc > 0
      <4>1. PageBooks(q) /\ arena'[q] = arena[q] /\ q # b.page  BY <1>9, <3>b DEF BlocksExact
      <4>2. arena[q].desc > 0 =>
              \A j : <<q, j>> \in ToSet(free_list'[arena[q].desc]) <=> <<q, j>> \in ToSet(free_list[arena[q].desc])
        OBVIOUS
      <4>3. \A c \in Block : c.pages = 0 /\ c.page = q => (c \in live' <=> c \in live)  BY <4>1
      <4>4. live \subseteq Block /\ live' \subseteq Block  BY <1>10 DEF MTyped
      <4>5. \A u \in Thread : /\ (stage'[u] = "free" /\ work'[u].page = q) <=> (stage[u] = "free" /\ work[u].page = q)
                              /\ stage[u] = "free" /\ work[u].page = q => work'[u].idx = work[u].idx
        BY <2>0
      <4> QED  BY ONLY <4>1, <4>2, <4>3, <4>4, <4>5, q \in Page, PageStays
    <3> QED  BY <3>a, <3>b
  <2>3. FreedOnce'
    <3>1. FreedOnce  BY DEF BlocksExact
    <3> QED  BY ONLY <2>0, <3>1 DEF FreedOnce
  <2> QED  BY <2>1, <2>3 DEF BlocksExact
<1>18. ListsExact'
  <2>1. \A d \in Desc : \A e \in ToSet(free_list[d]) : e[1] \in Page  BY ListedPages
  <2> QED  BY <1>8, <2>1 DEF ListsExact
<1> QED  BY <1>10, <1>11, <1>12, <1>13, <1>14, <1>15, <1>16, <1>17, <1>18

\* A call of palloc_free_multiple().
LEMMA FreePagesOfKeeps == ASSUME MInv, NEW t \in Thread, FreePagesOf(t) PROVE MInv'
<1>1. PICK b \in live : b.pages > 0 /\ live' = live \ {b} /\ palloc_free_multiple(t, NoWork, b.page, b.pages)
  BY DEF FreePagesOf
<1>2. stage[t] = "idle" /\ UNCHANGED <<used_map, pool_lock, desc_lock, free_list>>  BY DEF FreePagesOf
<1>3. \A u \in Thread : work[u].old # b
  <2> SUFFICES ASSUME NEW u \in Thread, work[u].old = b PROVE FALSE  OBVIOUS
  <2>1. b # NoBlock  BY <1>1 DEF NoBlock
  <2> QED  BY <1>1, <2>1 DEF MInv, OldKept
<1>4. NoWork \in Local /\ NoWork.old = NoBlock /\ NoWork.ret # "arena"  BY NoLocIs DEF NoWork
<1> QED  BY <1>1, <1>2, <1>3, <1>4, GivesBack

-----------------------------------------------------------------------------
(* free(): a small block leaves its user, then joins the free list.         *)

\* The locals of a thread that frees block i of page p.
ToFree(l, p, i, d) == [l EXCEPT !.page = p, !.idx = i, !.desc = d]

\* free() of a block of an arena, before it has the lock of the descriptor.
LEMMA FreeingStarts ==
    ASSUME MInv, NEW t \in Thread, stage[t] \in {"idle", "copied"}, NEW b \in live, b.pages = 0,
           \A u \in Thread : u # t => work[u].old # b,
           live' = live \ {b}, arena[b.page].desc # 0,
           Move(t, "free", [NoWork EXCEPT !.page = b.page, !.idx = (b.off - Header) \div arena[b.page].desc,
                                       !.desc = arena[b.page].desc]),
           UNCHANGED <<used_map, pool_lock, desc_lock, free_list, arena>>
    PROVE  MInv'
<1> USE DEF MInv
<1>0. PICK p, d : p = b.page /\ d = arena[p].desc  OBVIOUS
<1>1. Placed(b)  BY DEF LivePlaced
<1>2. p \in Page /\ p \in Nat /\ d \in Nat /\ d > 0 /\ d \in Desc
  <2>1. p \in Page  BY <1>0, <1>1 DEF Placed
  <2>2. MTyped  OBVIOUS
  <2>3. d \in Nat /\ (d > 0 <=> d \in Desc)  BY ONLY <1>0, <2>1, <2>2, ArenaFields
  <2>4. d # 0  BY <1>0
  <2> QED  BY <2>1, <2>3, <2>4 DEF Page
<1>3. PICK i \in 0 .. blocks_per_arena(d) - 1 : b.off = Offset(d, i)
  BY <1>0, <1>1, <1>2 DEF Placed
<1>4. i \in Nat /\ (b.off - Header) \div d = i
  <2>1. i \in Nat /\ d \in Nat \ {0} /\ Header \in Nat  BY <1>2, Constants
  <2>2. b.off - Header = i * d  BY <1>3, <2>1 DEF Offset
  <2> QED  BY <2>1, <2>2, Quotient
<1>5. PICK l : l = ToFree(NoWork, p, i, d)  OBVIOUS
<1>6. l \in Local /\ l.page = p /\ l.idx = i /\ l.desc = d /\ l.old = NoBlock
  <2>1. NoWork \in Local /\ NoWork.old = NoBlock  BY NoLocIs
  <2>2. p \in Nat /\ i \in Nat /\ d \in Nat  BY <1>2, <1>4
  <2>3. l = [NoWork EXCEPT !.page = p, !.idx = i, !.desc = d]  BY ONLY <1>5 DEF ToFree
  <2>4. l \in Local  BY ONLY <2>1, <2>2, <2>3 DEF Local
  <2> QED  BY ONLY <2>1, <2>2, <2>3, <2>4 DEF Local
<1>7. Move(t, "free", l)  BY <1>0, <1>4, <1>5 DEF ToFree
<1>8. StepsTo(t, "free", l)  BY <1>6, <1>7, GoSteps DEF Label
<1>9. stage'[t] = "free" /\ work'[t] = l  BY <1>8 DEF StepsTo
<1>10. MTyped'  BY <1>8 DEF MTyped, StepsTo
<1>11. BitsOK'  BY DEF BitsOK
<1>12. PagesExact'
  <2>1. \A c \in Block : LivePages(c)' = LivePages(c)
    <3>1. Group(p, 0) = {}  BY <1>2 DEF Group
    <3>2. LivePages(b)' = LivePages(b)  BY <1>0, <3>1 DEF LivePages
    <3> QED  BY <3>2 DEF LivePages
  <2>2. \A q \in Page : ArenaPages(q)' = ArenaPages(q)  BY DEF ArenaPages
  <2>3. \A u \in Thread : ThreadPages(u)' = ThreadPages(u)
    <3>1. ThreadPages(t) = {}  BY IdleThread
    <3>2. ThreadPages(t)' = {}  BY <1>9 DEF ThreadPages
    <3> QED  BY <1>8, <3>1, <3>2 DEF StepsTo
  <2> QED  BY <2>1, <2>2, <2>3, NobodyMoves
<1>13. ThreadsAt'
  <2>1. LocksKept(t)  BY DEF LocksKept, MTyped
  <2>2. ThreadAt(t)'  BY <1>0, <1>2, <1>3, <1>6, <1>9 DEF ThreadAt, InPalloc
  <2> QED  BY <1>8, <2>1, <2>2, OthersAt DEF ThreadsAt
<1>14. OldKept'
  <2>1. \A u \in Thread : work'[u].old # NoBlock /\ work'[u].old \in live => work'[u].old \in live'
    BY <1>6, <1>8 DEF StepsTo
  <2>2. OldStep(t, "free", l)  BY <1>6 DEF OldStep
  <2> QED  BY <1>8, <2>1, <2>2, OldStays
<1>15. LivePlaced'
  <2>1. \A c : Placed(c)' <=> Placed(c)  BY DEF Placed
  <2> QED  BY <2>1 DEF LivePlaced
<1>16. ArenasPlaced'  BY DEF ArenasPlaced
<1>17. BlocksExact'
  <2>0. \A u \in Thread : u # t => stage'[u] = stage[u] /\ work'[u] = work[u]  BY <1>8 DEF StepsTo
  <2>x. \A j : ~(j = i /\ Freeing(p, i)) /\ Held(p, i)
    <3>1. Held(p, i)  BY <1>0, <1>3 DEF Held
    <3>2. ~Freeing(p, i)  BY <1>0, <1>2, <1>3, <3>1 DEF BlocksExact, PageBooks, BlockOf
    <3> QED  BY <3>1, <3>2
  <2>1. ASSUME NEW q \in Page, q # p PROVE PageBooks(q)'
    <3>1. PageBooks(q) /\ arena'[q] = arena[q]  BY DEF BlocksExact
    <3>2. arena[q].desc > 0 =>
            \A j : <<q, j>> \in ToSet(free_list'[arena[q].desc]) <=> <<q, j>> \in ToSet(free_list[arena[q].desc])
      OBVIOUS
    <3>3. \A c \in Block : c.pages = 0 /\ c.page = q => (c \in live' <=> c \in live)  BY <1>0, <2>1
    <3>4. live \subseteq Block /\ live' \subseteq Block  BY <1>10 DEF MTyped
    <3>5. \A u \in Thread : /\ (stage'[u] = "free" /\ work'[u].page = q) <=> (stage[u] = "free" /\ work[u].page = q)
                            /\ stage[u] = "free" /\ work[u].page = q => work'[u].idx = work[u].idx
      BY <1>6, <1>9, <2>0, <2>1
    <3> QED  BY ONLY <3>1, <3>2, <3>3, <3>4, <3>5, q \in Page, PageStays
  <2>2. PageBooks(p)'
    <3>1. \A j : Listed(p, j)' <=> Listed(p, j)  BY DEF Listed
    <3>2. \A j \in Nat : Held(p, j)' <=> Held(p, j) /\ j # i
      <4> SUFFICES ASSUME NEW j \in Nat
                   PROVE  (\E c \in live' : c.pages = 0 /\ c.page = p /\ c.off = Offset(d, j))
                            <=> (\E c \in live : c.pages = 0 /\ c.page = p /\ c.off = Offset(d, j)) /\ j # i
        BY <1>0 DEF Held
      <4>1. Offset(d, i) = Offset(d, j) => i = j
        <5>1. Header + i * d = Header + j * d => i * d = j * d  BY <1>2, <1>4, Constants
        <5>2. d \in Nat \ {0}  BY <1>2
        <5> QED  BY <1>4, <5>1, <5>2, SameMultiple DEF Offset
      <4>2. \A c \in live : c.pages = 0 /\ c.page = p /\ c.off = Offset(d, i) => c = b
        BY <1>0, <1>3 DEF LivePlaced
      <4> QED  BY <1>0, <1>3, <4>1, <4>2
    <3>3. \A j : Freeing(p, j)' <=> Freeing(p, j) \/ j = i
      BY <1>6, <1>9, <2>0 DEF Freeing
    <3>4. BlockOf(p)' = BlockOf(p) /\ BlockOf(p) = 0 .. blocks_per_arena(d) - 1  BY <1>0 DEF BlockOf
    <3>5. ListedOf(p)' = ListedOf(p)  BY <3>1, <3>4 DEF ListedOf
    <3>6. PageBooks(p) /\ arena'[p] = arena[p] /\ \A j \in BlockOf(p) : j \in Nat  BY <1>2, <3>4 DEF BlocksExact
    <3> QED  BY <1>0, <1>2, <1>3, <2>x, <3>1, <3>2, <3>3, <3>4, <3>5, <3>6 DEF PageBooks
  <2>3. FreedOnce'
    <3>1. FreedOnce  BY DEF BlocksExact
    <3>2. \A u \in Thread : ~(stage[u] = "free" /\ work[u].page = p /\ work[u].idx = i)
      BY <2>x DEF Freeing
    <3> QED  BY ONLY <1>6, <1>9, <2>0, <3>1, <3>2 DEF FreedOnce
  <2> QED  BY <2>1, <2>2, <2>3 DEF BlocksExact
<1>18. ListsExact'  BY DEF ListsExact
<1> QED  BY <1>10, <1>11, <1>12, <1>13, <1>14, <1>15, <1>16, <1>17, <1>18

\* free() of a block nobody else is resizing.
LEMMA FreeKeeps ==
    ASSUME MInv, NEW t \in Thread, stage[t] \in {"idle", "copied"}, NEW b \in live, b.pages = 0,
           \A u \in Thread : u # t => work[u].old # b,
           free(t, b), UNCHANGED <<used_map, pool_lock, desc_lock, free_list>>
    PROVE  MInv'
<1>1. live' = live \ {b}  BY DEF free
<1>2. CASE arena[b.page].desc = 0
  <2> DEFINE l == [NoWork EXCEPT !.ret = "big"]
  <2>1. palloc_free_multiple(t, l, b.page, arena[b.page].free_cnt)  BY <1>2 DEF free
  <2>2. l \in Local /\ l.old = NoBlock /\ l.ret # "arena"
    <3>1. NoWork \in Local /\ NoWork.old = NoBlock  BY NoLocIs
    <3> HIDE DEF NoWork, NoBlock
    <3> QED  BY <3>1 DEF Local
  <2> HIDE DEF l
  <2> QED  BY <1>1, <1>2, <2>1, <2>2, GivesBack
<1>3. CASE arena[b.page].desc # 0
  <2>1. /\ Move(t, "free", [NoWork EXCEPT !.page = b.page, !.idx = (b.off - Header) \div arena[b.page].desc,
                                       !.desc = arena[b.page].desc])
        /\ UNCHANGED arena
    BY <1>3 DEF free
  <2> QED  BY <1>1, <1>3, <2>1, FreeingStarts, ZenonT(30)
<1> QED  BY <1>2, <1>3

\* Calls of free(), also those of realloc().
LEMMA CallsFree ==
    ASSUME MInv, NEW t \in Thread, Free(t) \/ ReallocFree(t)
    PROVE  MInv'
<1>1. CASE Free(t)
  <2>1. PICK b \in live \ InUse : b.pages = 0 /\ free(t, b)  BY <1>1 DEF Free
  <2>2. stage[t] = "idle" /\ UNCHANGED <<used_map, pool_lock, desc_lock, free_list>>  BY <1>1 DEF Free
  <2>3. \A u \in Thread : work[u].old # b  BY DEF InUse
  <2> QED  BY <2>1, <2>2, <2>3, FreeKeeps
<1>2. CASE ReallocFree(t)
  <2>1. stage[t] = "copied" /\ free(t, work[t].old)
        /\ UNCHANGED <<used_map, pool_lock, desc_lock, free_list>>
    BY <1>2 DEF ReallocFree
  <2>2. PICK b : b = work[t].old  OBVIOUS
  <2>3. b \in live /\ b.pages = 0 /\ b # NoBlock /\ \A u \in Thread : u # t => work[u].old # b
    BY <2>1, <2>2 DEF MInv, OldKept
  <2> QED  BY <2>1, <2>2, <2>3, FreeKeeps
<1> QED  BY <1>1, <1>2

-----------------------------------------------------------------------------
(* A caller of the page allocator has its pages.                            *)

\* palloc_get_multiple() returns, to malloc() or to its caller.
LEMMA GotPagesKeeps == ASSUME MInv, NEW t \in Thread, GotPages(t) PROVE MInv'
<1> USE DEF MInv
<1>0. PICK p, n, b :
        /\ p = work[t].page /\ n = work[t].cnt
        /\ b = [page |-> p, off |-> 0, want |-> n * PageSize, pages |-> n]
  OBVIOUS
<1>1. /\ stage[t] = "pages" /\ live' = live \cup {b} /\ Done(t)
      /\ UNCHANGED <<used_map, pool_lock, desc_lock, free_list, arena>>
  BY <1>0 DEF GotPages, memory
<1>2. /\ p \in Page /\ n \in Nat /\ n > 0 /\ ThreadPages(t) = Group(p, n)
      /\ \E k \in Pool : Within(k, p, n)
  BY <1>0, <1>1, PagesGot
<1>3. b \in Block /\ b.page = p /\ b.off = 0 /\ b.pages = n
  <2>1. p \in Nat /\ n * PageSize \in Int  BY <1>2, Constants DEF Page
  <2> QED  BY <1>0, <1>2, <2>1 DEF Block
<1>4. StepsTo(t, "idle", NoWork)  BY <1>1, DoneSteps
<1>5. stage'[t] = "idle" /\ work'[t] = NoWork  BY <1>4 DEF StepsTo
<1>6. ThreadPages(t)' = {}  BY <1>5 DEF ThreadPages
<1>7. b \notin live
  <2> SUFFICES ASSUME b \in live PROVE FALSE  OBVIOUS
  <2>1. /\ <<"live", b>> \in Owner /\ <<"thread", t>> \in Owner /\ DOMAIN own = Owner
        /\ own[<<"live", b>>] = LivePages(b) /\ own[<<"thread", t>>] = ThreadPages(t)
    BY <1>3, OwnIs
  <2>2. LivePages(b) = Group(p, n)  BY <1>3 DEF LivePages
  <2>3. p \in Group(p, n)  BY <1>2 DEF Group, Page
  <2>4. <<"live", b>> # <<"thread", t>>  OBVIOUS
  <2> QED  BY <1>2, <2>1, <2>2, <2>3, <2>4 DEF PagesExact, Apart
<1>8. MTyped'
  <2>1. live' \subseteq Block  BY <1>1, <1>3 DEF MTyped
  <2> QED  BY <1>1, <1>4, <2>1 DEF MTyped, StepsTo
<1>9. BitsOK'  BY <1>1 DEF BitsOK
<1>10. PagesExact'
  <2> DEFINE from == <<"thread", t>>
             to == <<"live", b>>
  <2>1. /\ from \in Owner /\ to \in Owner /\ from # to
        /\ own[from] = ThreadPages(t) /\ own'[from] = ThreadPages(t)'
        /\ own[to] = LivePages(b) /\ own'[to] = LivePages(b)'
    BY <1>3, OwnIs
  <2>2. LivePages(b) = {} /\ LivePages(b)' = Group(p, n)  BY <1>1, <1>3, <1>7 DEF LivePages
  <2>3. \A c \in Block \ {b} : LivePages(c)' = LivePages(c)  BY <1>1 DEF LivePages
  <2>4. \A q \in Page \ {} : ArenaPages(q)' = ArenaPages(q)  BY <1>1 DEF ArenaPages
  <2>5. \A u \in Thread \ {t} : ThreadPages(u)' = ThreadPages(u)  BY <1>4 DEF StepsTo
  <2>6. \A o \in Owner : o # from /\ o # to => own'[o] = own[o]
    <3>1. \A o \in DOMAIN own : \/ own'[o] = own[o]
                                \/ \E c \in {b} : o = <<"live", c>>
                                \/ \E q \in {} : o = <<"arena", q>>
                                \/ \E x \in {t} : o = <<"thread", x>>
      <4>1. {b} \in SUBSET Block /\ {} \in SUBSET Page /\ {t} \in SUBSET Thread  BY <1>3
      <4> QED  BY ONLY <2>3, <2>4, <2>5, <4>1, OthersKeep
    <3> QED  BY <3>1, OwnIs
  <2> HIDE DEF from, to
  <2>7. own[to] = {} /\ own'[to] = own[from] /\ own'[from] = {}  BY <1>2, <1>6, <2>1, <2>2
  <2>8. PagesExact /\ used_map' = used_map  BY <1>1
  <2> QED  BY ONLY <2>1, <2>6, <2>7, <2>8, OwnMoves
<1>11. ThreadsAt'
  <2>1. LocksKept(t)  BY <1>1 DEF LocksKept, MTyped
  <2>2. ThreadAt(t)'  BY <1>5 DEF ThreadAt, InPalloc
  <2> QED  BY <1>4, <2>1, <2>2, OthersAt DEF ThreadsAt
<1>12. OldKept'
  <2>1. \A u \in Thread : work'[u].old # NoBlock /\ work'[u].old \in live => work'[u].old \in live'
    BY <1>1
  <2>2. OldStep(t, "idle", NoWork)  BY NoLocIs DEF OldStep
  <2> QED  BY <1>4, <2>1, <2>2, OldStays
<1>13. LivePlaced'
  <2>1. \A c : Placed(c)' <=> Placed(c)  BY <1>1 DEF Placed
  <2>2. \A c \in live' : IF c.pages > 0 THEN c.off = 0 /\ \E k \in Pool : Within(k, c.page, c.pages)
                         ELSE Placed(c)'
    BY <1>1, <1>2, <1>3, <2>1 DEF LivePlaced
  <2>3. \A c, e \in live' : c.pages = 0 /\ e.pages = 0 /\ c.page = e.page /\ c.off = e.off => c = e
    BY <1>1, <1>2, <1>3 DEF LivePlaced
  <2> QED  BY <2>2, <2>3 DEF LivePlaced
<1>14. ArenasPlaced'  BY <1>1 DEF ArenasPlaced
<1>15. BlocksExact'
  <2>0. /\ \A u \in Thread : stage'[u] = "free" <=> stage[u] = "free"
        /\ \A u \in Thread : stage[u] = "free" => work'[u] = work[u]
    BY <1>1, <1>4 DEF StepsTo
  <2>1. ASSUME NEW q \in Page PROVE PageBooks(q)'
    <3>1. PageBooks(q) /\ arena'[q] = arena[q]  BY <1>1 DEF BlocksExact
    <3>2. arena[q].desc > 0 =>
            \A j : <<q, j>> \in ToSet(free_list'[arena[q].desc]) <=> <<q, j>> \in ToSet(free_list[arena[q].desc])
      BY <1>1
    <3>3. \A c \in Block : c.pages = 0 /\ c.page = q => (c \in live' <=> c \in live)
      BY <1>1, <1>2, <1>3
    <3>4. live \subseteq Block /\ live' \subseteq Block  BY <1>8 DEF MTyped
    <3>5. \A u \in Thread : /\ (stage'[u] = "free" /\ work'[u].page = q) <=> (stage[u] = "free" /\ work[u].page = q)
                            /\ stage[u] = "free" /\ work[u].page = q => work'[u].idx = work[u].idx
      BY <2>0
    <3> QED  BY ONLY <3>1, <3>2, <3>3, <3>4, <3>5, q \in Page, PageStays
  <2>2. FreedOnce'
    <3>1. FreedOnce  BY DEF BlocksExact
    <3> QED  BY ONLY <2>0, <3>1 DEF FreedOnce
  <2> QED  BY <2>1, <2>2 DEF BlocksExact
<1>16. ListsExact'  BY <1>1 DEF ListsExact
<1> QED  BY <1>8, <1>9, <1>10, <1>11, <1>12, <1>13, <1>14, <1>15, <1>16

-----------------------------------------------------------------------------
(* The second half of free(), under the lock of the descriptor.             *)

\* Where the thread is, and what its block's arena counts.
FreesBlock(t, p, i, d) == stage[t] = "free" /\ p = work[t].page /\ i = work[t].idx /\ d = work[t].desc
BlockFreed(p, i, d) ==
  /\ p \in Page /\ d \in Desc /\ d > 0 /\ i \in Nat /\ i \in 0 .. blocks_per_arena(d) - 1
  /\ arena[p].desc = d /\ BlockOf(p) = 0 .. blocks_per_arena(d) - 1
  /\ PageBooks(p) /\ ~Listed(p, i) /\ ~Held(p, i) /\ Freeing(p, i)
  /\ IsFiniteSet(BlockOf(p)) /\ Cardinality(BlockOf(p)) = blocks_per_arena(d)
  /\ ListedOf(p) \cup {i} \subseteq BlockOf(p)
  /\ IsFiniteSet(ListedOf(p) \cup {i}) /\ Cardinality(ListedOf(p) \cup {i}) = arena[p].free_cnt + 1

\* The block a thread frees is one of its arena's, neither listed nor held.
LEMMA FreesOne ==
    ASSUME MInv, NEW t \in Thread, NEW p, NEW i, NEW d, FreesBlock(t, p, i, d)
    PROVE  BlockFreed(p, i, d)
<1> USE DEF FreesBlock
<1> USE DEF MInv
<1>1. p \in Page /\ d \in Desc /\ arena[p].desc = d /\ i \in 0 .. blocks_per_arena(d) - 1
  BY DEF ThreadsAt, ThreadAt
<1>2. d > 0 /\ blocks_per_arena(d) \in Nat /\ i \in Nat  BY <1>1, DescIs
<1>3. BlockOf(p) = 0 .. blocks_per_arena(d) - 1 /\ PageBooks(p)  BY <1>1 DEF BlockOf, BlocksExact
<1>4. Freeing(p, i)  BY DEF Freeing
<1>5. ~Listed(p, i) /\ ~Held(p, i)  BY <1>1, <1>2, <1>3, <1>4 DEF PageBooks
<1>6. /\ IsFiniteSet(BlockOf(p)) /\ Cardinality(BlockOf(p)) = blocks_per_arena(d)
  BY <1>2, <1>3, FS_Interval
<1>7. ListedOf(p) \subseteq BlockOf(p) /\ i \notin ListedOf(p)  BY <1>5 DEF ListedOf
<1>8. IsFiniteSet(ListedOf(p))  BY <1>6, <1>7, FS_Subset
<1>9. /\ IsFiniteSet(ListedOf(p) \cup {i})
      /\ Cardinality(ListedOf(p) \cup {i}) = Cardinality(ListedOf(p)) + 1
  BY <1>7, <1>8, FS_AddElement
<1>10. arena[p].free_cnt = Cardinality(ListedOf(p))  BY <1>1, <1>2, <1>3 DEF PageBooks
<1> QED  BY <1>1, <1>2, <1>3, <1>4, <1>5, <1>6, <1>7, <1>8, <1>9, <1>10 DEF BlockFreed

\* free() puts the block in front of the list; its arena stays.
LEMMA JoinsList ==
    ASSUME MInv, NEW t \in Thread, FreeBlock(t),
           ~(arena[work[t].page].free_cnt + 1 >= blocks_per_arena(work[t].desc))
    PROVE  MInv'
<1>0. PICK p, i, d, list :
        /\ p = work[t].page /\ i = work[t].idx /\ d = work[t].desc /\ list = <<<<p, i>>>> \o free_list[d]
  OBVIOUS
<1>1. /\ stage[t] = "free" /\ desc_lock[d] = NoThread /\ ~(arena[p].free_cnt + 1 >= blocks_per_arena(d))
      /\ free_list' = [free_list EXCEPT ![d] = list]
      /\ arena' = [arena EXCEPT ![p].free_cnt = arena[p].free_cnt + 1]
      /\ Done(t) /\ UNCHANGED <<used_map, pool_lock, desc_lock, live>>
  BY <1>0 DEF FreeBlock
<1>2. /\ p \in Page /\ d \in Desc /\ d > 0 /\ i \in Nat /\ i \in 0 .. blocks_per_arena(d) - 1
      /\ arena[p].desc = d /\ BlockOf(p) = 0 .. blocks_per_arena(d) - 1
      /\ PageBooks(p) /\ ~Listed(p, i) /\ ~Held(p, i) /\ Freeing(p, i)
      /\ IsFiniteSet(BlockOf(p)) /\ Cardinality(BlockOf(p)) = blocks_per_arena(d)
      /\ ListedOf(p) \cup {i} \subseteq BlockOf(p)
      /\ Cardinality(ListedOf(p) \cup {i}) = arena[p].free_cnt + 1
  <2>1. FreesBlock(t, p, i, d)  BY <1>0, <1>1 DEF FreesBlock
  <2>2. BlockFreed(p, i, d)  BY ONLY MInv, t \in Thread, <2>1, FreesOne
  <2> QED  BY ONLY <2>2 DEF BlockFreed
<1> USE DEF MInv
<1>3. free_list[d] \in Seq(Page \X Nat) /\ <<p, i>> \in Page \X Nat /\ IsInjective(free_list[d])
      /\ <<p, i>> \notin ToSet(free_list[d])
  BY <1>2 DEF MTyped, ListsExact, Listed
<1>4. list \in Seq(Page \X Nat) /\ ToSet(list) = {<<p, i>>} \cup ToSet(free_list[d]) /\ IsInjective(list)
  <2>1. PICK S, e, rest : S = Page \X Nat /\ e = <<p, i>> /\ rest = free_list[d]  OBVIOUS
  <2>2. e \in S /\ rest \in Seq(S) /\ IsInjective(rest) /\ e \notin ToSet(rest)  BY <1>3, <2>1
  <2>3. <<e>> \o rest \in Seq(S) /\ ToSet(<<e>> \o rest) = {e} \cup ToSet(rest) /\ IsInjective(<<e>> \o rest)
    BY ONLY <2>2, FrontAdded
  <2>4. list = <<e>> \o rest  BY ONLY <1>0, <2>1, Zenon
  <2> QED  BY ONLY <2>1, <2>3, <2>4, Zenon
<1>5. free_list'[d] = list /\ (\A e \in Desc : e # d => free_list'[e] = free_list[e])
      /\ free_list' \in [Desc -> Seq(Page \X Nat)]
  BY <1>1, <1>2, <1>4 DEF MTyped
<1>6. /\ \A q \in Page : q # p => arena'[q] = arena[q]
      /\ arena'[p].desc = d /\ arena'[p].free_cnt = arena[p].free_cnt + 1
      /\ arena' \in [Page -> [desc : Desc \cup {0}, free_cnt : Nat]]
  <2>1. arena \in [Page -> [desc : Desc \cup {0}, free_cnt : Nat]]  BY DEF MTyped
  <2>2. /\ \A q \in Page : q # p => arena'[q] = arena[q]
        /\ arena'[p] = [arena[p] EXCEPT !.free_cnt = arena[p].free_cnt + 1]
        /\ DOMAIN arena' = Page /\ arena' = [q \in Page |-> arena'[q]]
    BY <1>1, <1>2, <2>1
  <2>3. arena[p].free_cnt + 1 \in Nat  BY <1>2, <2>1
  <2>4. arena'[p] \in [desc : Desc \cup {0}, free_cnt : Nat]
        /\ arena'[p].desc = arena[p].desc /\ arena'[p].free_cnt = arena[p].free_cnt + 1
    BY <1>2, <2>1, <2>2, <2>3
  <2>5. \A q \in Page : arena'[q] \in [desc : Desc \cup {0}, free_cnt : Nat]  BY <2>1, <2>2, <2>4
  <2> QED  BY <1>2, <2>2, <2>4, <2>5
<1>7. DescsKept  BY <1>2, <1>6 DEF DescsKept
<1>8. StepsTo(t, "idle", NoWork)  BY <1>1, DoneSteps
<1>9. stage'[t] = "idle" /\ work'[t] = NoWork  BY <1>8 DEF StepsTo
<1>10. MTyped'  BY <1>1, <1>5, <1>6, <1>8 DEF MTyped, StepsTo
<1>11. BitsOK'  BY <1>1 DEF BitsOK
<1>12. PagesExact'
  <2>1. \A c \in Block : LivePages(c)' = LivePages(c)  BY <1>1 DEF LivePages
  <2>2. \A q \in Page : ArenaPages(q)' = ArenaPages(q)  BY <1>7, DescsKeep
  <2>3. \A u \in Thread : ThreadPages(u)' = ThreadPages(u)
    <3>1. ThreadPages(t) = {}  BY <1>1, IdleThread
    <3>2. ThreadPages(t)' = {}  BY <1>9 DEF ThreadPages
    <3> QED  BY <1>8, <3>1, <3>2 DEF StepsTo
  <2> QED  BY <1>1, <2>1, <2>2, <2>3, NobodyMoves
<1>13. ThreadsAt'
  <2>1. LocksKept(t)
    <3>1. \A u \in Thread : stage[u] = "free" => arena'[work[u].page].desc = arena[work[u].page].desc
      BY <1>7 DEF ThreadsAt, ThreadAt, DescsKept
    <3>2. \A e \in Desc : \A u \in Thread : desc_lock[e] = u => free_list'[e] = free_list[e]
      BY <1>1, <1>5, Constants
    <3> QED  BY <1>1, <3>1, <3>2 DEF LocksKept, MTyped
  <2>2. ThreadAt(t)'  BY <1>9 DEF ThreadAt, InPalloc
  <2> QED  BY <1>8, <2>1, <2>2, OthersAt DEF ThreadsAt
<1>14. OldKept'
  <2>1. \A u \in Thread : work'[u].old # NoBlock /\ work'[u].old \in live => work'[u].old \in live'  BY <1>1
  <2>2. OldStep(t, "idle", NoWork)  BY NoLocIs DEF OldStep
  <2> QED  BY <1>8, <2>1, <2>2, OldStays
<1>15. LivePlaced'
  <2>1. \A c : Placed(c) => Placed(c)'  BY <1>7, DescsKeep
  <2> QED  BY <1>1, <2>1 DEF LivePlaced
<1>16. ArenasPlaced'  BY <1>7, DescsKeep
<1>17. BlocksExact'
  <2>0. \A u \in Thread : u # t => stage'[u] = stage[u] /\ work'[u] = work[u]  BY <1>8 DEF StepsTo
  <2>x. \A u \in Thread : stage[u] = "free" /\ work[u].page = p /\ work[u].idx = i => u = t
    BY <1>0, <1>1 DEF BlocksExact, FreedOnce
  <2>1. ASSUME NEW q \in Page, q # p PROVE PageBooks(q)'
    <3>1. PageBooks(q) /\ arena'[q] = arena[q]  BY <1>6, <2>1 DEF BlocksExact
    <3>2. arena[q].desc > 0 =>
            \A j : <<q, j>> \in ToSet(free_list'[arena[q].desc]) <=> <<q, j>> \in ToSet(free_list[arena[q].desc])
      <4>1. arena[q].desc > 0 => arena[q].desc \in Desc  BY ArenaFields
      <4> QED  BY <1>4, <1>5, <2>1, <4>1
    <3>3. \A c \in Block : c.pages = 0 /\ c.page = q => (c \in live' <=> c \in live)  BY <1>1
    <3>4. live \subseteq Block /\ live' \subseteq Block  BY <1>10 DEF MTyped
    <3>5. \A u \in Thread : /\ (stage'[u] = "free" /\ work'[u].page = q) <=> (stage[u] = "free" /\ work[u].page = q)
                            /\ stage[u] = "free" /\ work[u].page = q => work'[u].idx = work[u].idx
      BY <1>0, <1>9, <2>0, <2>1
    <3> QED  BY ONLY <3>1, <3>2, <3>3, <3>4, <3>5, q \in Page, PageStays
  <2>2. PageBooks(p)'
    <3>1. \A j : Listed(p, j)' <=> Listed(p, j) \/ j = i  BY <1>2, <1>4, <1>5, <1>6 DEF Listed
    <3>2. \A j : Held(p, j)' <=> Held(p, j)  BY <1>1, <1>2, <1>6 DEF Held
    <3>3. \A j : Freeing(p, j)' <=> Freeing(p, j) /\ j # i
      BY <1>0, <1>9, <2>0, <2>x DEF Freeing
    <3>4. BlockOf(p)' = BlockOf(p)  BY <1>2, <1>6 DEF BlockOf
    <3>5. ListedOf(p)' = ListedOf(p) \cup {i}  BY <1>2, <3>1, <3>4 DEF ListedOf
    <3>6. \E j \in BlockOf(p) : j \notin ListedOf(p) \cup {i}
      <4>1. ListedOf(p) \cup {i} # BlockOf(p)
        <5>1. arena[p].free_cnt + 1 \in Nat /\ blocks_per_arena(d) \in Nat
          <6>1. arena[p].free_cnt \in Nat  BY <1>2 DEF MTyped
          <6> QED  BY <1>2, <6>1, DescIs
        <5>2. arena[p].free_cnt + 1 # blocks_per_arena(d)  BY <1>1, <5>1
        <5> QED  BY <1>2, <5>2
      <4> QED  BY <1>2, <4>1
    <3>7. \E j \in BlockOf(p) : ~Listed(p, j)'
      <4>1. PICK j \in BlockOf(p) : j \notin ListedOf(p) \cup {i}  BY <3>6
      <4>2. ~Listed(p, j)'  BY <3>1, <4>1 DEF ListedOf
      <4> QED  BY <4>2
    <3>8. /\ \A j \in BlockOf(p) :
              /\ Listed(p, j) \/ Held(p, j) \/ Freeing(p, j)
              /\ ~(Listed(p, j) /\ Held(p, j)) /\ ~(Listed(p, j) /\ Freeing(p, j))
              /\ ~(Held(p, j) /\ Freeing(p, j))
      BY <1>2 DEF PageBooks
    <3> QED  BY <1>2, <1>6, <3>1, <3>2, <3>3, <3>4, <3>5, <3>7, <3>8 DEF PageBooks
  <2>3. FreedOnce'
    <3>1. FreedOnce  BY DEF BlocksExact
    <3> QED  BY ONLY <1>9, <2>0, <3>1 DEF FreedOnce
  <2> QED  BY <2>1, <2>2, <2>3 DEF BlocksExact
<1>18. ListsExact'
  <2> SUFFICES ASSUME NEW e \in Desc
               PROVE  /\ IsInjective(free_list'[e])
                      /\ \A x \in ToSet(free_list'[e]) : /\ arena'[x[1]].desc = e
                                                         /\ x[2] \in 0 .. blocks_per_arena(e) - 1
    BY DEF ListsExact
  <2>1. \A x \in ToSet(free_list[e]) : arena'[x[1]].desc = e /\ x[2] \in 0 .. blocks_per_arena(e) - 1
    <3>1. \A x \in ToSet(free_list[e]) : x[1] \in Page  BY ListedPages
    <3> QED  BY <1>7, <3>1 DEF DescsKept, ListsExact
  <2>2. CASE e = d
    <3>1. \A x \in ToSet(list) : x \in ToSet(free_list[e]) \/ (x[1] = p /\ x[2] = i)  BY <1>4, <2>2
    <3> QED  BY <1>2, <1>4, <1>5, <1>6, <2>1, <2>2, <3>1
  <2>3. CASE e # d  BY <1>5, <2>1, <2>3 DEF ListsExact
  <2> QED  BY <2>2, <2>3
<1> QED  BY <1>10, <1>11, <1>12, <1>13, <1>14, <1>15, <1>16, <1>17, <1>18

\* No block of the arena is in use: all leave the list, and the page goes back.
LEMMA GivesArenaBack ==
    ASSUME MInv, NEW t \in Thread, FreeBlock(t),
           arena[work[t].page].free_cnt + 1 >= blocks_per_arena(work[t].desc)
    PROVE  MInv'
<1>0. PICK p, i, d, l, list :
        /\ p = work[t].page /\ i = work[t].idx /\ d = work[t].desc
        /\ l = [work[t] EXCEPT !.ret = "arena"]
        /\ list = <<<<p, i>>>> \o free_list[d]
  OBVIOUS
<1>1. /\ stage[t] = "free" /\ desc_lock[d] = NoThread /\ arena[p].free_cnt + 1 >= blocks_per_arena(d)
      /\ free_list' = [free_list EXCEPT ![d] = without(list, p)]
      /\ desc_lock' = [desc_lock EXCEPT ![d] = t]
      /\ palloc_free_multiple(t, l, p, 1)
      /\ UNCHANGED <<used_map, pool_lock, live>>
  BY <1>0 DEF FreeBlock
<1>2. /\ p \in Page /\ d \in Desc /\ d > 0 /\ i \in Nat /\ i \in 0 .. blocks_per_arena(d) - 1
      /\ arena[p].desc = d /\ BlockOf(p) = 0 .. blocks_per_arena(d) - 1
      /\ PageBooks(p) /\ ~Listed(p, i) /\ ~Held(p, i) /\ Freeing(p, i)
      /\ IsFiniteSet(BlockOf(p)) /\ Cardinality(BlockOf(p)) = blocks_per_arena(d)
      /\ ListedOf(p) \cup {i} \subseteq BlockOf(p)
      /\ IsFiniteSet(ListedOf(p) \cup {i}) /\ Cardinality(ListedOf(p) \cup {i}) = arena[p].free_cnt + 1
  <2>1. FreesBlock(t, p, i, d)  BY <1>0, <1>1 DEF FreesBlock
  <2>2. BlockFreed(p, i, d)  BY ONLY MInv, t \in Thread, <2>1, FreesOne
  <2> QED  BY ONLY <2>2 DEF BlockFreed
<1> USE DEF MInv
<1>3. ListedOf(p) \cup {i} = BlockOf(p)
  <2>1. arena[p].free_cnt \in Nat /\ blocks_per_arena(d) \in Nat  BY <1>2, DescIs DEF MTyped
  <2>2. PICK S, T : S = ListedOf(p) \cup {i} /\ T = BlockOf(p)  OBVIOUS
  <2>3. IsFiniteSet(T) /\ S \subseteq T /\ Cardinality(S) >= Cardinality(T)  BY <1>1, <1>2, <2>1, <2>2
  <2>4. S = T
    <3>1. S # T => Cardinality(S) < Cardinality(T)
      <4>1. Cardinality(S) <= Cardinality(T) /\ (Cardinality(S) = Cardinality(T) => S = T)
        BY ONLY <2>3, FS_Subset
      <4>2. Cardinality(S) \in Nat /\ Cardinality(T) \in Nat
        BY ONLY <2>3, FS_Subset, FS_CardinalityType
      <4> QED  BY <4>1, <4>2
    <3>2. Cardinality(S) \in Nat /\ Cardinality(T) \in Nat
      BY ONLY <2>3, FS_Subset, FS_CardinalityType
    <3> QED  BY <2>3, <3>1, <3>2
  <2> QED  BY <2>2, <2>4
\* So nobody else has a block of this arena.
<1>4. \A j \in BlockOf(p) : ~Held(p, j) /\ (Freeing(p, j) => j = i)
  BY <1>2, <1>3 DEF ListedOf, PageBooks
<1>5. \A c \in live : c.pages = 0 => c.page # p
  <2> SUFFICES ASSUME NEW c \in live, c.pages = 0, c.page = p PROVE FALSE  OBVIOUS
  <2>1. Placed(c)  BY DEF LivePlaced
  <2>2. PICK j \in 0 .. blocks_per_arena(d) - 1 : c.off = Offset(d, j)
    BY <1>2, <2>1 DEF Placed
  <2>3. Held(p, j)  BY <1>2, <2>2 DEF Held
  <2> QED  BY <1>2, <1>4, <2>2, <2>3
<1>6. \A u \in Thread : u # t /\ stage[u] = "free" => work[u].page # p
  <2> SUFFICES ASSUME NEW u \in Thread, u # t, stage[u] = "free", work[u].page = p PROVE FALSE  OBVIOUS
  <2>1. ThreadAt(u)  BY DEF ThreadsAt
  <2>2. work[u].idx \in BlockOf(p)  BY <1>2, <2>1 DEF ThreadAt
  <2>3. Freeing(p, work[u].idx)  BY DEF Freeing
  <2>4. work[u].idx = i  BY <1>4, <2>2, <2>3
  <2> QED  BY <1>0, <1>1, <2>4 DEF BlocksExact, FreedOnce
<1>7. /\ without(list, p) \in Seq(Page \X Nat) /\ IsInjective(without(list, p))
      /\ ToSet(without(list, p)) = {e \in ToSet(free_list[d]) : e[1] # p}
  <2>1. free_list[d] \in Seq(Page \X Nat) /\ <<p, i>> \in Page \X Nat /\ IsInjective(free_list[d])
        /\ <<p, i>> \notin ToSet(free_list[d])
    BY <1>2 DEF MTyped, ListsExact, Listed
  <2>2. PICK S, e, rest : S = Page \X Nat /\ e = <<p, i>> /\ rest = free_list[d]  OBVIOUS
  <2>3. e \in S /\ rest \in Seq(S) /\ IsInjective(rest) /\ e \notin ToSet(rest) /\ e[1] = p  BY <2>1, <2>2
  <2>4. <<e>> \o rest \in Seq(S) /\ ToSet(<<e>> \o rest) = {e} \cup ToSet(rest) /\ IsInjective(<<e>> \o rest)
    BY ONLY <2>3, FrontAdded
  <2>5. list = <<e>> \o rest  BY ONLY <1>0, <2>2, Zenon
  <2>6. list \in Seq(S) /\ ToSet(list) = {e} \cup ToSet(rest) /\ IsInjective(list)
    BY ONLY <2>4, <2>5, Zenon
  <2>7. /\ without(list, p) \in Seq(S) /\ IsInjective(without(list, p))
        /\ ToSet(without(list, p)) = {x \in ToSet(list) : x[1] # p}
    BY ONLY <2>6, WithoutPage
  <2>8. {x \in ToSet(list) : x[1] # p} = {x \in ToSet(rest) : x[1] # p}  BY ONLY <2>3, <2>6
  <2> QED  BY ONLY <2>2, <2>7, <2>8
<1>8. free_list'[d] = without(list, p) /\ (\A e \in Desc : e # d => free_list'[e] = free_list[e])
      /\ free_list' \in [Desc -> Seq(Page \X Nat)]
  BY <1>1, <1>2, <1>7 DEF MTyped
<1>9. PICK k \in Pool : Within(k, p, 1)
  <2>1. arena[p] # NoArena  BY <1>2 DEF NoArena
  <2> QED  BY <1>2, <2>1 DEF ArenasPlaced
<1>10. l \in Local /\ l.ret = "arena" /\ l.desc = d /\ l.old = NoBlock
  <2>1. work[t] \in Local /\ work[t].old = NoBlock  BY <1>1 DEF MTyped, OldKept
  <2> QED  BY <1>0, <2>1 DEF Local
<1>11. /\ \A q \in Page : arena'[q] = IF q \in Group(p, 1) THEN NoArena ELSE arena[q]
       /\ arena' \in [Page -> [desc : Desc \cup {0}, free_cnt : Nat]]
       /\ ThreadPages(t)' = Group(p, 1)
       /\ \E m \in Local : /\ StepsTo(t, "clear", m)
                           /\ m.pool = k /\ m.cnt = 1 /\ m.done = 0 /\ m.idx + 1 <= pool[k].size
                           /\ m.ret = l.ret /\ m.desc = l.desc /\ m.old = l.old
  <2>1. p \in Nat /\ 1 \in Nat /\ 1 > 0 /\ MTyped  BY <1>2 DEF Page
  <2>2. palloc_free_multiple(t, l, p, 1)  BY <1>1
  <2> QED  BY ONLY t \in Thread, k \in Pool, <1>9, <1>10, <2>1, <2>2, FreesPages
<1>12. PICK m \in Local : /\ StepsTo(t, "clear", m)
                          /\ m.pool = k /\ m.cnt = 1 /\ m.done = 0 /\ m.idx + 1 <= pool[k].size
                          /\ m.ret = "arena" /\ m.desc = d /\ m.old = NoBlock
  BY <1>10, <1>11
<1>13. Group(p, 1) = {p} /\ arena'[p] = NoArena /\ \A q \in Page : q # p => arena'[q] = arena[q]
  <2>1. Group(p, 1) = {p}  BY <1>2 DEF Group, Page
  <2> QED  BY <1>2, <1>11, <2>1
<1>14. stage'[t] = "clear" /\ work'[t] = m  BY <1>12 DEF StepsTo
<1>15. /\ desc_lock' \in [Desc -> Thread \cup {NoThread}] /\ desc_lock'[d] = t
       /\ \A e \in Desc : desc_lock'[e] = desc_lock[e] \/ desc_lock[e] = NoThread
  BY <1>1, <1>2 DEF MTyped
<1>16. MTyped'  BY <1>1, <1>8, <1>11, <1>12, <1>15 DEF MTyped, StepsTo
<1>17. BitsOK'  BY <1>1 DEF BitsOK
<1>18. PagesExact'
  <2> DEFINE from == <<"arena", p>>
             to == <<"thread", t>>
  <2>1. /\ from \in Owner /\ to \in Owner /\ from # to
        /\ own[from] = ArenaPages(p) /\ own'[from] = ArenaPages(p)'
        /\ own[to] = ThreadPages(t) /\ own'[to] = ThreadPages(t)'
    BY <1>2, OwnIs
  <2>2. ArenaPages(p) = Group(p, 1)  BY <1>2 DEF ArenaPages
  <2>3. ArenaPages(p)' = {}  BY <1>2, <1>13 DEF ArenaPages, NoArena, Group, Page
  <2>4. \A c \in Block \ {} : LivePages(c)' = LivePages(c)  BY <1>1 DEF LivePages
  <2>5. \A q \in Page \ {p} : ArenaPages(q)' = ArenaPages(q)  BY <1>13 DEF ArenaPages
  <2>6. \A u \in Thread \ {t} : ThreadPages(u)' = ThreadPages(u)  BY <1>12 DEF StepsTo
  <2>7. \A o \in Owner : o # from /\ o # to => own'[o] = own[o]
    <3>1. \A o \in DOMAIN own : \/ own'[o] = own[o]
                                \/ \E c \in {} : o = <<"live", c>>
                                \/ \E q \in {p} : o = <<"arena", q>>
                                \/ \E x \in {t} : o = <<"thread", x>>
      <4>1. {} \in SUBSET Block /\ {p} \in SUBSET Page /\ {t} \in SUBSET Thread  BY <1>2
      <4> QED  BY ONLY <2>4, <2>5, <2>6, <4>1, OthersKeep
    <3> QED  BY <3>1, OwnIs
  <2>8. ThreadPages(t) = {}  BY <1>1, IdleThread
  <2> HIDE DEF from, to
  <2>9. own[to] = {} /\ own'[to] = own[from] /\ own'[from] = {}  BY <1>11, <2>1, <2>2, <2>3, <2>8
  <2>10. PagesExact /\ used_map' = used_map  BY <1>1
  <2> QED  BY ONLY <2>1, <2>7, <2>9, <2>10, OwnMoves
<1>19. ThreadsAt'
  <2>1. LocksKept(t)
    <3>1. \A u \in Thread : u # t /\ stage[u] = "free" => arena'[work[u].page].desc = arena[work[u].page].desc
      BY <1>6, <1>13 DEF ThreadsAt, ThreadAt
    <3>2. \A e \in Desc : \A u \in Thread : desc_lock[e] = u => free_list'[e] = free_list[e] /\ desc_lock'[e] = u
      BY <1>1, <1>8, <1>15, Constants
    <3> QED  BY <1>1, <1>15, <3>1, <3>2 DEF LocksKept, MTyped
  <2>2. ThreadAt(t)'  BY <1>2, <1>12, <1>14, <1>15 DEF ThreadAt, InPalloc
  <2> QED  BY <1>12, <2>1, <2>2, OthersAt DEF ThreadsAt
<1>20. OldKept'
  <2>1. \A u \in Thread : work'[u].old # NoBlock /\ work'[u].old \in live => work'[u].old \in live'  BY <1>1
  <2>2. OldStep(t, "clear", m)  BY <1>12 DEF OldStep
  <2> QED  BY <1>12, <2>1, <2>2, OldStays
<1>21. LivePlaced'
  <2>1. \A c \in live : IF c.pages > 0 THEN c.off = 0 /\ \E h \in Pool : Within(h, c.page, c.pages)
                        ELSE Placed(c)'
    <3> SUFFICES ASSUME NEW c \in live
                 PROVE  IF c.pages > 0 THEN c.off = 0 /\ \E h \in Pool : Within(h, c.page, c.pages)
                        ELSE Placed(c)'
      OBVIOUS
    <3>1. CASE c.pages > 0  BY <3>1 DEF LivePlaced
    <3>2. CASE ~(c.pages > 0)
      <4>1. Placed(c)  BY <3>2 DEF LivePlaced
      <4>2. c.pages \in Nat  BY DEF MTyped, Block
      <4>3. c.page \in Page /\ c.page # p  BY <1>5, <3>2, <4>1, <4>2 DEF Placed
      <4>4. arena'[c.page] = arena[c.page]  BY <1>13, <4>3
      <4> QED  BY <3>2, <4>1, <4>4 DEF Placed
    <3> QED  BY <3>1, <3>2
  <2> QED  BY <1>1, <2>1 DEF LivePlaced
<1>22. ArenasPlaced'
  <2> SUFFICES ASSUME NEW q \in Page
               PROVE  \/ arena'[q] = NoArena
                      \/ \E h \in Pool : Within(h, q, IF arena'[q].desc > 0 THEN 1 ELSE arena'[q].free_cnt)
    BY DEF ArenasPlaced
  <2>1. arena'[q] = NoArena \/ arena'[q] = arena[q]  BY <1>13
  <2> QED  BY <2>1 DEF ArenasPlaced
<1>23. BlocksExact'
  <2>0. \A u \in Thread : u # t => stage'[u] = stage[u] /\ work'[u] = work[u]  BY <1>12 DEF StepsTo
  <2>1. ASSUME NEW q \in Page, q # p PROVE PageBooks(q)'
    <3>1. PageBooks(q) /\ arena'[q] = arena[q]  BY <1>13, <2>1 DEF BlocksExact
    <3>2. arena[q].desc > 0 =>
            \A j : <<q, j>> \in ToSet(free_list'[arena[q].desc]) <=> <<q, j>> \in ToSet(free_list[arena[q].desc])
      <4>1. arena[q].desc > 0 => arena[q].desc \in Desc  BY ArenaFields
      <4>2. \A j : <<q, j>> \in ToSet(without(list, p)) <=> <<q, j>> \in ToSet(free_list[d])
        BY <1>7, <2>1
      <4> QED  BY <1>8, <4>1, <4>2
    <3>3. \A c \in Block : c.pages = 0 /\ c.page = q => (c \in live' <=> c \in live)  BY <1>1
    <3>4. live \subseteq Block /\ live' \subseteq Block  BY <1>16 DEF MTyped
    <3>5. \A u \in Thread : /\ (stage'[u] = "free" /\ work'[u].page = q) <=> (stage[u] = "free" /\ work[u].page = q)
                            /\ stage[u] = "free" /\ work[u].page = q => work'[u].idx = work[u].idx
      BY <1>0, <1>14, <2>0, <2>1
    <3> QED  BY ONLY <3>1, <3>2, <3>3, <3>4, <3>5, q \in Page, PageStays
  <2>2. PageBooks(p)'  BY <1>13 DEF PageBooks, NoArena
  <2>3. FreedOnce'
    <3>1. FreedOnce  BY DEF BlocksExact
    <3> QED  BY ONLY <1>14, <2>0, <3>1 DEF FreedOnce
  <2> QED  BY <2>1, <2>2, <2>3 DEF BlocksExact
<1>24. ListsExact'
  <2> SUFFICES ASSUME NEW e \in Desc
               PROVE  /\ IsInjective(free_list'[e])
                      /\ \A x \in ToSet(free_list'[e]) : /\ arena'[x[1]].desc = e
                                                         /\ x[2] \in 0 .. blocks_per_arena(e) - 1
    BY DEF ListsExact
  <2>1. \A x \in ToSet(free_list[e]) : /\ x[1] \in Page /\ arena[x[1]].desc = e
                                       /\ x[2] \in 0 .. blocks_per_arena(e) - 1
    BY ListedPages DEF ListsExact
  <2>2. CASE e = d
    <3>1. \A x \in ToSet(without(list, p)) : x \in ToSet(free_list[e]) /\ x[1] # p  BY <1>7, <2>2
    <3>2. \A x \in ToSet(without(list, p)) : arena'[x[1]] = arena[x[1]]  BY <1>13, <2>1, <3>1
    <3> QED  BY <1>7, <1>8, <2>1, <2>2, <3>1, <3>2
  <2>3. CASE e # d
    <3>1. \A x \in ToSet(free_list[e]) : x[1] # p  BY <1>2, <2>1, <2>3
    <3>2. \A x \in ToSet(free_list[e]) : arena'[x[1]] = arena[x[1]]  BY <1>13, <2>1, <3>1
    <3> QED  BY <1>8, <2>1, <2>3, <3>2 DEF ListsExact
  <2> QED  BY <2>2, <2>3
<1> QED  BY <1>16, <1>17, <1>18, <1>19, <1>20, <1>21, <1>22, <1>23, <1>24

\* free() under the lock of the descriptor, malloc.c:236.
LEMMA FreeBlockKeeps == ASSUME MInv, NEW t \in Thread, FreeBlock(t) PROVE MInv'
BY JoinsList, GivesArenaBack

-----------------------------------------------------------------------------
(* The theorems.                                                            *)

\* The invariant holds at the start.
LEMMA MInvStart == MInit => MInv
<1> SUFFICES ASSUME MInit PROVE MInv  OBVIOUS
<1> USE DEF MInit
<1>1. MTyped
  <2>1. used_map \in [Pool -> SUBSET Nat]  OBVIOUS
  <2>2. NoArena \in [desc : Desc \cup {0}, free_cnt : Nat]  BY DEF NoArena
  <2>3. <<>> \in Seq(Page \X Nat)  OBVIOUS
  <2>4. "idle" \in Label /\ NoWork \in Local  BY NoLocIs DEF Label
  <2>5. stage \in [Thread -> Label] /\ work \in [Thread -> Local]  BY <2>4
  <2>6. arena \in [Page -> [desc : Desc \cup {0}, free_cnt : Nat]]  BY <2>2
  <2>7. free_list \in [Desc -> Seq(Page \X Nat)]  BY <2>3
  <2>8. live \subseteq Block  OBVIOUS
  <2>9. /\ pool_lock \in [Pool -> Thread \cup {NoThread}]
        /\ desc_lock \in [Desc -> Thread \cup {NoThread}]
    OBVIOUS
  <2> QED  BY <2>1, <2>5, <2>6, <2>7, <2>8, <2>9 DEF MTyped
<1>2. BitsOK  BY DEF BitsOK
<1>3. PagesExact
  <2>1. \A o \in Owner : own[o] = {}
    <3> SUFFICES ASSUME NEW o \in Owner PROVE own[o] = {}  OBVIOUS
    <3>1. \A b \in Block : LivePages(b) = {}  BY DEF LivePages
    <3>2. \A p \in Page : ArenaPages(p) = {}  BY DEF ArenaPages, NoArena, Group, Page
    <3>3. \A t \in Thread : ThreadPages(t) = {}  BY DEF ThreadPages
    <3> QED  BY <3>1, <3>2, <3>3, OwnIs, OwnerIs
  <2>2. DOMAIN own = Owner  BY OwnIs
  <2>3. Apart(own)  BY <2>1, <2>2 DEF Apart
  <2>4. Covered(own) = {}  BY <2>1, <2>2 DEF Covered
  <2>5. Marked = {}  BY DEF Marked
  <2> QED  BY <2>3, <2>4, <2>5 DEF PagesExact
<1>4. ThreadsAt  BY DEF ThreadsAt, ThreadAt, InPalloc
<1>5. OldKept
  <2>1. \A t \in Thread : stage[t] = "idle" /\ work[t].old = NoBlock  BY NoLocIs
  <2> QED  BY <2>1 DEF OldKept
<1>6. LivePlaced  BY DEF LivePlaced
<1>7. ArenasPlaced  BY DEF ArenasPlaced
<1>8. BlocksExact
  <2>1. \A p \in Page : PageBooks(p)  BY DEF PageBooks, NoArena
  <2>2. FreedOnce  BY DEF FreedOnce
  <2> QED  BY <2>1, <2>2 DEF BlocksExact
<1>9. ListsExact  BY DEF ListsExact, ToSet, IsInjective
<1> QED  BY <1>1, <1>2, <1>3, <1>4, <1>5, <1>6, <1>7, <1>8, <1>9 DEF MInv

\* Every step keeps the invariant.
LEMMA MInvKept == MInv /\ [MNext]_memoryVars => MInv'
<1>1. ASSUME MInv, NEW t \in Thread, ThreadStep(t) PROVE MInv'
  <2>1. CASE GetLock(t)  BY <1>1, <2>1, GetLockKeeps
  <2>2. CASE Scan(t)  BY <1>1, <2>2, ScanKeeps
  <2>3. CASE Flip(t)  BY <1>1, <2>3, FlipKeeps
  <2>4. CASE Clear(t)  BY <1>1, <2>4, ClearKeeps
  <2>5. CASE LockDesc(t)  BY <1>1, <2>5, LockDescKeeps
  <2>6. CASE NewArena(t)  BY <1>1, <2>6, NewArenaKeeps
  <2>7. CASE BigBlock(t)  BY <1>1, <2>7, BigBlockKeeps
  <2>8. CASE GotPages(t)  BY <1>1, <2>8, GotPagesKeeps
  <2>9. CASE NoPages(t)  BY <1>1, <2>9, NoPagesKeeps
  <2>10. CASE ReallocFree(t)  BY <1>1, <2>10, CallsFree
  <2>11. CASE FreeBlock(t)  BY <1>1, <2>11, FreeBlockKeeps
  <2> QED  BY <1>1, <2>1, <2>2, <2>3, <2>4, <2>5, <2>6, <2>7, <2>8, <2>9, <2>10, <2>11 DEF ThreadStep
<1>2. ASSUME MInv, NEW t \in Thread,
             GetPages(t) \/ FreePagesOf(t) \/ Malloc(t) \/ Calloc(t) \/ Realloc(t) \/ Free(t)
      PROVE  MInv'
  <2>1. CASE GetPages(t)  BY <1>2, <2>1, GetPagesKeeps
  <2>2. CASE FreePagesOf(t)  BY <1>2, <2>2, FreePagesOfKeeps
  <2>3. CASE Malloc(t) \/ Calloc(t) \/ Realloc(t)  BY <1>2, <2>3, CallsMalloc
  <2>4. CASE Free(t)  BY <1>2, <2>4, CallsFree
  <2> QED  BY <1>2, <2>1, <2>2, <2>3, <2>4
<1>3. ASSUME MInv, UNCHANGED memoryVars PROVE MInv'
  <2> USE <1>3 DEF memoryVars, MInv
  <2>1. MTyped' /\ BitsOK' /\ OldKept'  BY DEF MTyped, BitsOK, OldKept
  <2>2. \A b, p, t : /\ LivePages(b)' = LivePages(b) /\ ArenaPages(p)' = ArenaPages(p)
                     /\ ThreadPages(t)' = ThreadPages(t)
    BY DEF LivePages, ArenaPages, ThreadPages
  <2>3. PagesExact'  BY <2>2, NobodyMoves
  <2>4. ThreadsAt'  BY DEF ThreadsAt, ThreadAt
  <2>5. LivePlaced' /\ ArenasPlaced'  BY DEF LivePlaced, Placed, ArenasPlaced
  <2>6. BlocksExact'
    <3>1. \A p \in Page : PageBooks(p)'
      <4> SUFFICES ASSUME NEW p \in Page PROVE PageBooks(p)'  OBVIOUS
      <4>1. \A i : /\ Listed(p, i)' <=> Listed(p, i)
                   /\ Held(p, i)' <=> Held(p, i)
                   /\ Freeing(p, i)' <=> Freeing(p, i)
        BY DEF Listed, Held, Freeing
      <4>2. BlockOf(p)' = BlockOf(p)  BY DEF BlockOf
      <4>3. ListedOf(p)' = ListedOf(p)  BY <4>1, <4>2 DEF ListedOf
      <4> QED  BY <4>1, <4>2, <4>3 DEF BlocksExact, PageBooks
    <3>2. FreedOnce'  BY DEF BlocksExact, FreedOnce
    <3> QED  BY <3>1, <3>2 DEF BlocksExact
  <2>7. ListsExact'  BY DEF ListsExact
  <2> QED  BY <2>1, <2>3, <2>4, <2>5, <2>6, <2>7
<1> QED  BY <1>1, <1>2, <1>3 DEF MNext

(* The inductive invariant: at every step of every thread each page has    *)
(* at most one owner and is marked if it has one, each thread inside       *)
(* palloc.c or malloc.c holds the locks it took and its locals still       *)
(* describe the state, and each block of an arena is on the free list, or  *)
(* held, or on its way back, and is only one of these.                     *)
THEOREM MemoryInvariant == MSpec => []MInv
<1>1. MInit => MInv  BY MInvStart
<1>2. MInv /\ [MNext]_memoryVars => MInv'  BY MInvKept
<1> QED  BY <1>1, <1>2, PTL DEF MSpec

\* The groups of MarkedExact are what the owners have.
LEMMA GroupsAre ==
    ASSUME MTyped
    PROVE  /\ \A g \in Groups : g[1] \in Owner /\ g[2] = own[g[1]] /\ g = <<g[1], g[2]>>
           /\ \A o \in Owner : own[o] # {} => \E g \in Groups : g[2] = own[o]
<1> DEFINE Lives == {<<<<"live", b>>, Group(b.page, b.pages)>> : b \in {c \in live : c.pages > 0}}
           Arenas == {<<<<"arena", p>>, Group(p, IF arena[p].desc > 0 THEN 1 ELSE arena[p].free_cnt)>> : p \in Page}
           Threads == {<<<<"thread", t>>, ThreadPages(t)>> : t \in Thread}
<1>1. Groups = Lives \cup Arenas \cup Threads  BY Zenon DEF Groups, ThreadPages
<1>2. ASSUME NEW g \in Lives PROVE g[1] \in Owner /\ g[2] = own[g[1]] /\ g = <<g[1], g[2]>>
  <2>1. PICK b \in live : b.pages > 0 /\ g = <<<<"live", b>>, Group(b.page, b.pages)>>  BY <1>2
  <2>2. b \in Block  BY DEF MTyped
  <2> QED  BY <2>1, <2>2, OwnIs DEF LivePages
<1>3. ASSUME NEW g \in Arenas PROVE g[1] \in Owner /\ g[2] = own[g[1]] /\ g = <<g[1], g[2]>>
  <2>1. PICK p \in Page : g = <<<<"arena", p>>, ArenaPages(p)>>  BY <1>3 DEF ArenaPages
  <2> QED  BY <2>1, OwnIs
<1>4. ASSUME NEW g \in Threads PROVE g[1] \in Owner /\ g[2] = own[g[1]] /\ g = <<g[1], g[2]>>
  <2>1. PICK t \in Thread : g = <<<<"thread", t>>, ThreadPages(t)>>  BY <1>4
  <2> QED  BY <2>1, OwnIs
<1>5. ASSUME NEW o \in Owner, own[o] # {} PROVE \E g \in Lives \cup Arenas \cup Threads : g[2] = own[o]
  <2>1. CASE \E b \in Block : o = <<"live", b>>
    <3>1. PICK b \in Block : o = <<"live", b>>  BY <2>1
    <3>2. own[o] = LivePages(b) /\ b.pages \in Nat /\ b.page \in Nat  BY <3>1, OwnIs DEF Block
    <3>3. b \in live /\ own[o] = Group(b.page, b.pages)  BY <1>5, <3>2 DEF LivePages
    <3>4. b.pages > 0  BY <1>5, <3>2, <3>3 DEF Group
    <3>5. <<<<"live", b>>, Group(b.page, b.pages)>> \in Lives  BY <3>3, <3>4
    <3> HIDE DEF Lives, Arenas, Threads
    <3> QED  BY <3>3, <3>5
  <2>2. CASE \E p \in Page : o = <<"arena", p>>
    <3>1. PICK p \in Page : o = <<"arena", p>>  BY <2>2
    <3>2. <<<<"arena", p>>, ArenaPages(p)>> \in Arenas  BY DEF ArenaPages
    <3>3. own[o] = ArenaPages(p)  BY <3>1, OwnIs
    <3> HIDE DEF Lives, Arenas, Threads
    <3> QED  BY <3>2, <3>3
  <2>3. CASE \E t \in Thread : o = <<"thread", t>>
    <3>1. PICK t \in Thread : o = <<"thread", t>>  BY <2>3
    <3>2. <<<<"thread", t>>, ThreadPages(t)>> \in Threads  OBVIOUS
    <3>3. own[o] = ThreadPages(t)  BY <3>1, OwnIs
    <3> HIDE DEF Lives, Arenas, Threads
    <3> QED  BY <3>2, <3>3
  <2> QED  BY <2>1, <2>2, <2>3, OwnerIs
<1> HIDE DEF Lives, Arenas, Threads
<1> QED  BY <1>1, <1>2, <1>3, <1>4, <1>5

\* The bitmaps mark exactly the pages in use.
LEMMA MarkedFollows == MInv => MarkedExact
<1> SUFFICES ASSUME MInv PROVE MarkedExact  OBVIOUS
<1> USE DEF MInv
<1>1. /\ \A g \in Groups : g[1] \in Owner /\ g[2] = own[g[1]] /\ g = <<g[1], g[2]>>
      /\ \A o \in Owner : own[o] # {} => \E g \in Groups : g[2] = own[o]
  BY GroupsAre
<1>2. DOMAIN own = Owner /\ Apart(own) /\ Marked = Covered(own)  BY OwnIs DEF PagesExact
<1>3. UNION {g[2] : g \in Groups} = Covered(own)
  <2>1. ASSUME NEW g \in Groups, NEW q \in g[2] PROVE q \in Covered(own)  BY <1>1, <1>2, <2>1 DEF Covered
  <2>2. ASSUME NEW o \in Owner, NEW q \in own[o] PROVE \E g \in Groups : q \in g[2]
    <3>1. own[o] # {}  OBVIOUS
    <3>2. PICK g \in Groups : g[2] = own[o]  BY <1>1, <3>1
    <3> QED  BY <3>2
  <2> QED  BY <1>2, <2>1, <2>2 DEF Covered
<1>4. ASSUME NEW g \in Groups, NEW h \in Groups, g # h PROVE g[2] \cap h[2] = {}
  <2>1. g[1] # h[1]  BY <1>1, <1>4
  <2> QED  BY <1>1, <1>2, <2>1 DEF Apart
<1> QED  BY <1>2, <1>3, <1>4 DEF MarkedExact, Marked

\* Which blocks of an arena are on the list of its descriptor d, and which are not.
FreeIn(p, d) == {i \in 0 .. blocks_per_arena(d) - 1 : <<p, i>> \in ToSet(free_list[d])}
TakenIn(p, d) == {(b.off - Header) \div d : b \in {c \in live : c.page = p}}
                   \cup {work[t].idx : t \in {u \in Thread : stage[u] = "free" /\ work[u].page = p}}

\* Lists and counts of the arenas agree with the blocks in use.
LEMMA ArenasFollow == MInv => ArenaExact
<1> SUFFICES ASSUME MInv PROVE ArenaExact  OBVIOUS
<1> USE DEF MInv
<1>1. ASSUME NEW d \in Desc
      PROVE  /\ IsInjective(free_list[d])
             /\ \A i \in DOMAIN free_list[d] : arena[free_list[d][i][1]].desc = d
  BY <1>1 DEF ListsExact, ToSet
<1>2. ASSUME NEW p \in Page, arena[p].desc > 0,
             NEW d, d = arena[p].desc,
             NEW blocks, blocks = FreeIn(p, d), NEW taken, taken = TakenIn(p, d)
      PROVE  /\ arena[p].free_cnt = Cardinality(blocks)
             /\ blocks # 0 .. blocks_per_arena(d) - 1
             /\ blocks \cap taken = {} /\ blocks \cup taken = 0 .. blocks_per_arena(d) - 1
  <2>1. d \in Desc /\ d \in Nat /\ d > 0 /\ PageBooks(p) /\ BlockOf(p) = 0 .. blocks_per_arena(d) - 1
    BY <1>2, ArenaFields, DescIs DEF BlocksExact, BlockOf
  <2>2. blocks = ListedOf(p)  BY <1>2, <2>1 DEF ListedOf, Listed, FreeIn
  <2>3. \A i \in BlockOf(p) : i \in blocks <=> Listed(p, i)  BY <2>2 DEF ListedOf
  <2>4. \A c \in live : c.page = p => c.pages = 0
    <3> SUFFICES ASSUME NEW c \in live, c.page = p, c.pages # 0 PROVE FALSE  OBVIOUS
    <3>1. c \in Block /\ c.pages \in Nat /\ p \in Nat  BY DEF MTyped, Block, Page
    <3>2. /\ <<"live", c>> \in Owner /\ <<"arena", p>> \in Owner /\ DOMAIN own = Owner
          /\ own[<<"live", c>>] = LivePages(c) /\ own[<<"arena", p>>] = ArenaPages(p)
      BY <3>1, OwnIs
    <3>3. p \in LivePages(c)  BY <3>1 DEF LivePages, Group
    <3>4. p \in ArenaPages(p)  BY <1>2, <3>1 DEF ArenaPages, Group
    <3>5. <<"live", c>> # <<"arena", p>>  OBVIOUS
    <3> QED  BY <3>2, <3>3, <3>4, <3>5 DEF PagesExact, Apart
  <2>5. \A i \in BlockOf(p) : Header \in Nat /\ i \in Nat /\ (Offset(d, i) - Header) \div d = i
    <3> SUFFICES ASSUME NEW i \in BlockOf(p) PROVE Header \in Nat /\ i \in Nat /\ (Offset(d, i) - Header) \div d = i
      OBVIOUS
    <3>1. i \in Nat /\ d \in Nat \ {0} /\ Header \in Nat  BY <2>1, Constants
    <3>2. Offset(d, i) - Header = i * d  BY <3>1 DEF Offset
    <3> QED  BY <3>1, <3>2, Quotient
  <2>6. \A i : i \in taken => i \in BlockOf(p) /\ (Held(p, i) \/ Freeing(p, i))
    <3> SUFFICES ASSUME NEW i \in taken PROVE i \in BlockOf(p) /\ (Held(p, i) \/ Freeing(p, i))
      OBVIOUS
    <3>1. CASE \E c \in live : c.page = p /\ i = (c.off - Header) \div d
      <4>1. PICK c \in live : c.page = p /\ i = (c.off - Header) \div d  BY <3>1
      <4>2. Placed(c) /\ c.pages = 0  BY <2>4, <4>1 DEF LivePlaced
      <4>3. PICK j \in BlockOf(p) : c.off = Offset(d, j)  BY <1>2, <2>1, <4>1, <4>2 DEF Placed
      <4>4. i = j  BY <2>5, <4>1, <4>3
      <4>5. Held(p, i)  BY <1>2, <4>1, <4>2, <4>3, <4>4 DEF Held
      <4> QED  BY <4>3, <4>4, <4>5
    <3>2. CASE \E u \in Thread : stage[u] = "free" /\ work[u].page = p /\ i = work[u].idx
      <4>1. PICK u \in Thread : stage[u] = "free" /\ work[u].page = p /\ i = work[u].idx  BY <3>2
      <4>2. ThreadAt(u)  BY DEF ThreadsAt
      <4>3. i \in BlockOf(p)  BY <1>2, <2>1, <4>1, <4>2 DEF ThreadAt
      <4>4. Freeing(p, i)  BY <4>1 DEF Freeing
      <4> QED  BY <4>3, <4>4
    <3> QED  BY <1>2, <3>1, <3>2 DEF TakenIn
  <2>7. \A i \in BlockOf(p) : Held(p, i) \/ Freeing(p, i) => i \in taken
    <3> SUFFICES ASSUME NEW i \in BlockOf(p), Held(p, i) \/ Freeing(p, i) PROVE i \in taken  OBVIOUS
    <3>1. CASE Held(p, i)
      <4>1. PICK c \in live : c.page = p /\ c.off = Offset(d, i)  BY <1>2, <3>1 DEF Held
      <4>2. (c.off - Header) \div d = i  BY <2>5, <4>1
      <4> QED  BY <1>2, <4>1, <4>2 DEF TakenIn
    <3>2. CASE Freeing(p, i)
      <4>1. PICK u \in Thread : stage[u] = "free" /\ work[u].page = p /\ work[u].idx = i  BY <3>2 DEF Freeing
      <4> QED  BY <1>2, <4>1 DEF TakenIn
    <3> QED  BY <3>1, <3>2
  <2>8. /\ \A i \in BlockOf(p) :
            /\ Listed(p, i) \/ Held(p, i) \/ Freeing(p, i)
            /\ ~(Listed(p, i) /\ Held(p, i)) /\ ~(Listed(p, i) /\ Freeing(p, i))
        /\ arena[p].free_cnt = Cardinality(ListedOf(p))
        /\ \E i \in BlockOf(p) : ~Listed(p, i)
    BY <1>2, <2>1 DEF PageBooks
  <2>9. blocks \subseteq BlockOf(p)  BY <2>2 DEF ListedOf
  <2>10. arena[p].free_cnt = Cardinality(blocks)  BY <2>2, <2>8
  <2>11. blocks # BlockOf(p)  BY <2>3, <2>8
  <2>12. blocks \cap taken = {}  BY <2>3, <2>6, <2>8
  <2>13. blocks \cup taken = BlockOf(p)
    <3>1. \A i \in BlockOf(p) : i \in blocks \/ i \in taken  BY <2>3, <2>7, <2>8
    <3> QED  BY <2>6, <2>9, <3>1
  <2> QED  BY <2>1, <2>10, <2>11, <2>12, <2>13
<1>3. ASSUME NEW p \in Page, arena[p].desc > 0
      PROVE  LET d == arena[p].desc
                 blocks == FreeIn(p, d)
                 taken == TakenIn(p, d)
             IN  /\ arena[p].free_cnt = Cardinality(blocks)
                 /\ blocks # 0 .. blocks_per_arena(d) - 1
                 /\ blocks \cap taken = {} /\ blocks \cup taken = 0 .. blocks_per_arena(d) - 1
  BY ONLY p \in Page, arena[p].desc > 0, <1>2
<1> QED  BY <1>1, <1>3 DEF ArenaExact, FreeIn, TakenIn

(* The books of both allocators agree with what their users have at every  *)
(* step, whatever the size of memory and of pages, the number of threads   *)
(* and the sizes they ask for (threads/palloc.c, threads/malloc.c).        *)
THEOREM BooksKept == MSpec => []BooksExact
<1>1. MInv => BooksExact  BY MarkedFollows, ArenasFollow DEF BooksExact
<1> QED  BY <1>1, MemoryInvariant, PTL

-----------------------------------------------------------------------------
(* The allocator's promise.                                                 *)

(* The sizes asked for leave room for what malloc() adds before it rounds   *)
(* up (malloc.c:109), and so do calloc()'s products, those set aside that    *)
(* it refuses since they wrap to less than a factor (malloc.c:166).  Nothing *)
(* in malloc.c refuses the others: their blocks would be too small.          *)
Roomy(n) == n + Header + PageSize - 1 < SizeT
Refused(f) == (f[1] * f[2]) % SizeT < f[1] \/ (f[1] * f[2]) % SizeT < f[2]
NoWrap ==
  /\ \A n \in Sizes : Roomy(n)
  /\ \A f \in Factors : Refused(f) \/ Roomy(f[1] * f[2])

\* What a thread has asked for fits the pages or the block it is waiting for.
AsksEnough(t) ==
  LET l == work[t]
      asks == stage[t] \in {"get", "scan", "flip", "pages"}
  IN /\ stage[t] = "malloc" \/ (asks /\ l.ret = "arena") => l.want <= l.desc
     /\ asks /\ l.ret = "big" => l.want + Header <= l.cnt * PageSize
AllAskEnough == \A t \in Thread : AsksEnough(t)

\* A thread asks for what its locals say, the others as before.
LEMMA AskSteps ==
    ASSUME AllAskEnough, NEW t \in Thread, NEW label, NEW l, StepsTo(t, label, l), AsksEnough(t)'
    PROVE  AllAskEnough'
BY DEF AllAskEnough, AsksEnough, StepsTo

\* The quotient rounded up covers the number.
LEMMA RoundUpCovers ==
    ASSUME NEW x \in Nat, NEW step \in Nat \ {0}, x + step - 1 < SizeT
    PROVE  x <= DIV_ROUND_UP(x, step) * step
<1>1. SizeT \in Nat \ {0} /\ x + step - 1 \in 0 .. SizeT - 1  BY Constants
<1>2. PICK y \in Nat : y = x + step - 1  BY <1>1
<1>3. y % SizeT = y  BY <1>1, <1>2
<1>4. DIV_ROUND_UP(x, step) = y \div step  BY <1>2, <1>3 DEF DIV_ROUND_UP
<1>5. (y % step) \in 0 .. step - 1 /\ y \div step \in Nat  BY <1>2
<1>6. y = step * (y \div step) + (y % step)  BY <1>2, SMTT(30)
<1>7. PICK q \in Nat : q = y \div step  BY <1>5
<1>8. PICK z \in Nat : z = step * q /\ z = q * step  BY <1>7
<1> QED  BY <1>2, <1>4, <1>5, <1>6, <1>7, <1>8

\* malloc() picks a descriptor, or as many pages, that the size fits in.
LEMMA MallocAsks ==
    ASSUME MInv, AllAskEnough, NEW t \in Thread, NEW l \in Local, NEW size \in Nat, malloc(t, size, l),
           l.want = size, size + Header + PageSize - 1 < SizeT
    PROVE  AllAskEnough'
<1> DEFINE fits == {d \in Desc : d >= size}
           d == CHOOSE x \in fits : \A e \in fits : x <= e
<1>0. MTyped  BY DEF MInv
<1>1. CASE size = 0
  <2>1. StepsTo(t, "idle", NoWork)  BY <1>0, <1>1, DoneSteps DEF malloc
  <2>2. stage'[t] = "idle"  BY <2>1 DEF StepsTo
  <2>3. AsksEnough(t)'  BY <2>2 DEF AsksEnough
  <2> QED  BY <2>1, <2>3, AskSteps
<1>2. CASE size # 0 /\ fits = {}
  <2> DEFINE cnt == DIV_ROUND_UP(size + Header, PageSize)
             m == [[l EXCEPT !.ret = "big"] EXCEPT !.pool = "kernel", !.cnt = cnt, !.idx = 0, !.done = 0]
             label == IF cnt = 0 THEN "no_pages" ELSE "get"
  <2>1. Move(t, label, m)  BY <1>2 DEF malloc, palloc_get_multiple
  <2>2. size + Header \in Nat /\ PageSize \in Nat \ {0}  BY Constants
  <2>3. cnt \in Nat /\ size + Header <= cnt * PageSize
    <3>1. (size + Header) + PageSize - 1 < SizeT  BY <2>2
    <3> QED  BY ONLY <2>2, <3>1, RoundUpType, RoundUpCovers
  <2>4. "kernel" \in Pool  BY PoolsAre
  <2> HIDE DEF cnt
  <2>5. m \in Local /\ m.cnt = cnt /\ m.want = size /\ m.ret = "big"  BY <2>3, <2>4 DEF Local
  <2>6. label \in {"no_pages", "get"} /\ label \in Label  BY DEF Label
  <2> HIDE DEF m, label
  <2>7. StepsTo(t, label, m)  BY <1>0, <2>1, <2>5, <2>6, GoSteps
  <2>8. stage'[t] = label /\ work'[t] = m  BY <2>7 DEF StepsTo
  <2>9. AsksEnough(t)'  BY <2>3, <2>5, <2>6, <2>8 DEF AsksEnough
  <2> QED  BY <2>7, <2>9, AskSteps
<1>3. CASE size # 0 /\ fits # {}
  <2>1. d \in fits
    <3>1. fits \subseteq Nat  BY DescIs
    <3>2. \E x \in fits : \A e \in fits : x <= e
      <4> HIDE DEF fits
      <4> QED  BY <1>3, <3>1, LeastNat
    <3> HIDE DEF fits
    <3> QED  BY <3>2
  <2> DEFINE m == [l EXCEPT !.desc = d]
  <2>2. Move(t, "malloc", m)  BY <1>3 DEF malloc
  <2>3. d \in Desc /\ d >= size /\ d \in Nat  BY <2>1, DescIs
  <2> HIDE DEF d, fits
  <2>4. m \in Local /\ m.want = size /\ m.desc = d  BY <2>3 DEF Local
  <2> HIDE DEF m
  <2>5. StepsTo(t, "malloc", m)  BY <1>0, <2>2, <2>4, GoSteps DEF Label
  <2>6. stage'[t] = "malloc" /\ work'[t] = m  BY <2>5 DEF StepsTo
  <2>7. AsksEnough(t)'  BY <2>3, <2>4, <2>6 DEF AsksEnough
  <2> QED  BY <2>5, <2>7, AskSteps
<1> QED  BY <1>1, <1>2, <1>3

\* malloc(), calloc() and realloc() ask for what their caller wants.
LEMMA CallsAsk ==
    ASSUME NoWrap, MInv, AllAskEnough, NEW t \in Thread, Malloc(t) \/ Calloc(t) \/ Realloc(t)
    PROVE  AllAskEnough'
<1> USE Constants
<1>1. CASE Malloc(t)
  <2>1. PICK n \in Sizes : malloc(t, n, [NoWork EXCEPT !.want = n])  BY <1>1 DEF Malloc
  <2> DEFINE l == [NoWork EXCEPT !.want = n]
  <2>2. n \in Nat /\ n + Header + PageSize - 1 < SizeT  BY DEF NoWrap, Roomy
  <2>3. l \in Local /\ l.want = n  BY <2>2, NoLocIs DEF Local
  <2> HIDE DEF l
  <2>4. malloc(t, n, l)  BY <2>1 DEF l
  <2> QED  BY ONLY MInv, AllAskEnough, t \in Thread, <2>2, <2>3, <2>4, MallocAsks
<1>2. CASE Calloc(t)
  <2>1. PICK f \in Factors :
          /\ (f[1] * f[2]) % SizeT >= f[1] /\ (f[1] * f[2]) % SizeT >= f[2]
          /\ malloc(t, (f[1] * f[2]) % SizeT, [NoWork EXCEPT !.want = f[1] * f[2]])
    BY <1>2 DEF Calloc
  <2>2. PICK n : n = f[1] * f[2]  OBVIOUS
  <2>3. n \in Nat /\ f[1] \in Nat /\ f[2] \in Nat
    <3>1. f[1] \in Nat /\ f[2] \in Nat  OBVIOUS
    <3> QED  BY <2>2, <3>1
  <2>4. n + Header + PageSize - 1 < SizeT
    <3>1. PICK m : m = n % SizeT  OBVIOUS
    <3>2. m \in Nat  BY <2>3, <3>1
    <3>3. ~Refused(f)  BY <2>1, <2>2, <2>3, <3>1, <3>2 DEF Refused
    <3> QED  BY <2>2, <3>3 DEF NoWrap, Roomy
  <2>5. n % SizeT = n  BY <2>3, <2>4
  <2> DEFINE l == [NoWork EXCEPT !.want = n]
  <2>6. malloc(t, n, l)  BY <2>1, <2>2, <2>5
  <2>7. l \in Local /\ l.want = n  BY <2>3, NoLocIs DEF Local
  <2> HIDE DEF l
  <2> QED  BY ONLY MInv, AllAskEnough, t \in Thread, <2>3, <2>4, <2>6, <2>7, MallocAsks
<1>3. CASE Realloc(t)
  <2>1. PICK b \in live \ InUse, n \in Sizes \ {0} :
          b.pages = 0 /\ malloc(t, n, [NoWork EXCEPT !.want = n, !.old = b])
    BY <1>3 DEF Realloc
  <2> DEFINE l == [NoWork EXCEPT !.want = n, !.old = b]
  <2>2. n \in Nat /\ n + Header + PageSize - 1 < SizeT  BY DEF NoWrap, Roomy
  <2>3. b \in Block  BY DEF MInv, MTyped
  <2>4. l \in Local /\ l.want = n
    <3>1. n \in Int  BY <2>2
    <3>2. l \in Local  BY ONLY <2>3, <3>1, NoLocIs, ResizedLocal DEF l
    <3>3. l.want = n  BY DEF NoWork
    <3> QED  BY <3>2, <3>3
  <2> HIDE DEF l
  <2>5. malloc(t, n, l)  BY <2>1 DEF l
  <2> QED  BY ONLY MInv, AllAskEnough, t \in Thread, <2>2, <2>4, <2>5, MallocAsks
<1> QED  BY <1>1, <1>2, <1>3

\* On its way through the allocators a thread's request still fits.
LEMMA AskKept == NoWrap /\ MInv /\ AllAskEnough /\ [MNext]_memoryVars => AllAskEnough'
<1> SUFFICES ASSUME NoWrap, MInv, AllAskEnough, [MNext]_memoryVars PROVE AllAskEnough'  OBVIOUS
<1>0. MTyped /\ ThreadsAt  BY DEF MInv
<1>1. ASSUME NEW t \in Thread, GetLock(t) \/ Scan(t) \/ Flip(t) PROVE AllAskEnough'
  <2>0. work[t] \in Local /\ AsksEnough(t) /\ stage[t] \in {"get", "scan", "flip"}
    BY <1>0, <1>1 DEF MTyped, AllAskEnough, GetLock, Scan, Flip
  <2>1. PICK label \in {"scan", "flip", "pages", "no_pages"}, l \in Local :
          Move(t, label, l) /\ l.cnt = work[t].cnt /\ l.want = work[t].want /\ l.desc = work[t].desc /\ l.ret = work[t].ret
    <3>1. CASE GetLock(t)  BY <2>0, <3>1 DEF GetLock
    <3>2. CASE Scan(t)
      <4> DEFINE m == [work[t] EXCEPT !.idx = @ + 1]
      <4>1. m \in Local /\ m.cnt = work[t].cnt /\ m.want = work[t].want /\ m.desc = work[t].desc /\ m.ret = work[t].ret
        BY <2>0 DEF Local
      <4>2. Move(t, "no_pages", work[t]) \/ Move(t, "flip", work[t]) \/ Move(t, "scan", m)  BY <3>2 DEF Scan
      <4> HIDE DEF m
      <4> QED  BY <2>0, <4>1, <4>2
    <3>3. CASE Flip(t)
      <4> DEFINE m == [work[t] EXCEPT !.done = @ + 1]
                 n == [work[t] EXCEPT !.page = pool[work[t].pool].base + work[t].idx]
      <4>1. m \in Local /\ m.cnt = work[t].cnt /\ m.want = work[t].want /\ m.desc = work[t].desc /\ m.ret = work[t].ret
        BY <2>0 DEF Local
      <4>2. n \in Local /\ n.cnt = work[t].cnt /\ n.want = work[t].want /\ n.desc = work[t].desc /\ n.ret = work[t].ret
        <5>1. pool[work[t].pool].base + work[t].idx \in Nat  BY <2>0, PoolsAre DEF Local
        <5> QED  BY <2>0, <5>1 DEF Local
      <4>3. Move(t, "flip", m) \/ Move(t, "pages", n)  BY <3>3 DEF Flip
      <4> HIDE DEF m, n
      <4> QED  BY <4>1, <4>2, <4>3
    <3> QED  BY <1>1, <3>1, <3>2, <3>3
  <2>2. StepsTo(t, label, l)  BY <1>0, <2>1, GoSteps DEF Label
  <2>3. stage'[t] = label /\ work'[t] = l  BY <2>2 DEF StepsTo
  <2>4. AsksEnough(t)'  BY <2>0, <2>1, <2>3 DEF AsksEnough
  <2> QED  BY <2>2, <2>4, AskSteps
<1>2. ASSUME NEW t \in Thread, LockDesc(t) PROVE AllAskEnough'
  <2>0. work[t] \in Local /\ AsksEnough(t) /\ stage[t] = "malloc"
    BY <1>0, <1>2 DEF MTyped, AllAskEnough, LockDesc
  <2>1. CASE free_list[work[t].desc] = <<>>
    <3> DEFINE ask == [work[t] EXCEPT !.ret = "arena"]
               m == [ask EXCEPT !.pool = "kernel", !.cnt = 1, !.idx = 0, !.done = 0]
    <3>1. Move(t, "get", m)  BY <1>2, <2>1 DEF LockDesc, palloc_get_multiple
    <3>2. m \in Local /\ m.desc = work[t].desc /\ m.want = work[t].want /\ m.ret = "arena"
      BY <2>0, PoolsAre DEF Local
    <3> HIDE DEF m
    <3>3. StepsTo(t, "get", m)  BY <1>0, <3>1, <3>2, GoSteps DEF Label
    <3>4. stage'[t] = "get" /\ work'[t] = m  BY <3>3 DEF StepsTo
    <3>5. AsksEnough(t)'  BY <2>0, <3>2, <3>4 DEF AsksEnough
    <3> QED  BY <3>3, <3>5, AskSteps
  <2>2. CASE free_list[work[t].desc] # <<>>
    <3>1. \E b : Obtained(t, b)  BY <1>2, <2>2 DEF LockDesc
    <3>2. PICK label, l : StepsTo(t, label, l) /\ stage'[t] \in {"idle", "copied"}  BY <1>0, <3>1, ObtainedSteps
    <3>3. AsksEnough(t)'  BY <3>2 DEF AsksEnough
    <3> QED  BY <3>2, <3>3, AskSteps
  <2> QED  BY <2>1, <2>2
<1>3. ASSUME NEW t \in Thread, NewArena(t) \/ BigBlock(t) PROVE AllAskEnough'
  <2>1. \E b : Obtained(t, b)  BY <1>3 DEF NewArena, BigBlock
  <2>2. PICK label, l : StepsTo(t, label, l) /\ stage'[t] \in {"idle", "copied"}  BY <1>0, <2>1, ObtainedSteps
  <2>3. AsksEnough(t)'  BY <2>2 DEF AsksEnough
  <2> QED  BY <2>2, <2>3, AskSteps
\* Steps that end where nothing is asked for.
<1>4. ASSUME NEW t \in Thread,
             \E label \in {"idle", "clear", "free", "no_pages"} : \E l : stage' = [stage EXCEPT ![t] = label] /\ work' = [work EXCEPT ![t] = l]
      PROVE  AllAskEnough'
  <2>1. stage \in [Thread -> Label] /\ work \in [Thread -> Local]  BY <1>0 DEF MTyped
  <2>2. stage'[t] \in {"idle", "clear", "free", "no_pages"}  BY <1>4, <2>1
  <2>3. \A u \in Thread : u # t => stage'[u] = stage[u] /\ work'[u] = work[u]  BY <1>4, <2>1
  <2> QED  BY <2>2, <2>3 DEF AllAskEnough, AsksEnough
<1>5. ASSUME NEW t \in Thread,
             GotPages(t) \/ NoPages(t) \/ Clear(t) \/ ReallocFree(t) \/ FreeBlock(t) \/ FreePagesOf(t) \/ Free(t)
      PROVE  AllAskEnough'
  <2> SUFFICES \E label \in {"idle", "clear", "free", "no_pages"} : \E l : stage' = [stage EXCEPT ![t] = label] /\ work' = [work EXCEPT ![t] = l]
    BY <1>4
  <2>1. CASE GotPages(t) \/ NoPages(t)  BY <2>1 DEF GotPages, NoPages, Done, Move
  <2>2. CASE Clear(t)
    <3>1. stage[t] = "clear" /\ stage \in [Thread -> Label]  BY <1>0, <2>2 DEF Clear, MTyped
    <3> QED  BY <2>2, <3>1 DEF Clear, Done, Move
  <2>3. CASE ReallocFree(t) \/ Free(t)
    <3>1. \E b : free(t, b)  BY <2>3 DEF ReallocFree, Free
    <3> QED  BY <3>1 DEF free, palloc_free_multiple, Move
  <2>4. CASE FreeBlock(t)  BY <2>4 DEF FreeBlock, palloc_free_multiple, Move, Done
  <2>5. CASE FreePagesOf(t)  BY <2>5 DEF FreePagesOf, palloc_free_multiple, Move
  <2> QED  BY <1>5, <2>1, <2>2, <2>3, <2>4, <2>5
<1>6. ASSUME NEW t \in Thread, GetPages(t) PROVE AllAskEnough'
  <2>1. PICK k \in Pool, n \in PageCounts : palloc_get_multiple(t, NoWork, k, n)  BY <1>6 DEF GetPages
  <2>2. n \in Nat  BY Constants
  <2> DEFINE m == [NoWork EXCEPT !.pool = k, !.cnt = n, !.idx = 0, !.done = 0]
             label == IF n = 0 THEN "no_pages" ELSE "get"
  <2>3. Move(t, label, m)  BY <2>1 DEF palloc_get_multiple
  <2>4. m \in Local /\ m.ret = "pages"  BY <2>2, NoLocIs DEF Local, NoWork
  <2>5. label \in {"no_pages", "get"} /\ label \in Label  BY DEF Label
  <2> HIDE DEF m, label
  <2>6. StepsTo(t, label, m)  BY <1>0, <2>3, <2>4, <2>5, GoSteps
  <2>7. stage'[t] = label /\ work'[t] = m  BY <2>6 DEF StepsTo
  <2>8. AsksEnough(t)'  BY <2>4, <2>5, <2>7 DEF AsksEnough
  <2> QED  BY <2>6, <2>8, AskSteps
<1>7. CASE UNCHANGED memoryVars  BY <1>7 DEF memoryVars, AllAskEnough, AsksEnough
<1> QED  BY <1>1, <1>2, <1>3, <1>5, <1>6, <1>7, CallsAsk DEF MNext, ThreadStep

-----------------------------------------------------------------------------
(* The pieces: where they are, and what a step does to them.                *)

\* A piece as the abstract allocator sees it.
Piece(b) == [start |-> PageSize * b.page + b.off, size |-> block_size(b), want |-> b.want]
Bytes(r) == r.start .. r.start + r.size - 1

\* A product grows with its factors.
LEMMA TimesGrows ==
    ASSUME NEW i \in Nat, NEW j \in Nat, NEW d \in Nat, i <= j
    PROVE  i * d <= j * d /\ d * i <= d * j /\ i * d \in Nat /\ d * i \in Nat
<1>1. PICK k \in Nat : j = i + k
  <2>1. j - i \in Nat /\ j = i + (j - i)  OBVIOUS
  <2> QED  BY <2>1
<1>2. j * d = i * d + k * d /\ d * j = d * i + d * k /\ k * d >= 0 /\ d * k >= 0  BY <1>1
<1> QED  BY <1>2

\* The pages a piece lies on, and how far into them it reaches.
LEMMA PieceLies ==
    ASSUME MInv, NEW b \in live
    PROVE  \E o \in Owner, n \in Nat \ {0} :
             /\ o = (IF b.pages > 0 THEN <<"live", b>> ELSE <<"arena", b.page>>)
             /\ own[o] = Group(b.page, n) /\ b.page \in Nat /\ b.off \in Nat /\ block_size(b) \in Nat \ {0}
             /\ b.off + block_size(b) <= PageSize * n
<1> USE DEF MInv
<1>1. b \in Block /\ b.page \in Nat /\ b.off \in Nat /\ b.pages \in Nat  BY DEF MTyped, Block
<1>2. PageSize \in Nat \ {0} /\ Header \in Nat \ {0} /\ 2 * Header <= PageSize  BY Constants
<1>3. CASE b.pages > 0
  <2>1. <<"live", b>> \in Owner /\ own[<<"live", b>>] = Group(b.page, b.pages)
    BY <1>1, OwnIs DEF LivePages
  <2>2. b.off = 0  BY <1>3 DEF LivePlaced
  <2>3. PICK n \in Nat \ {0} : n = b.pages  BY <1>1, <1>3
  <2>4. block_size(b) = PageSize * n  BY <1>3, <2>3 DEF block_size
  <2>5. PageSize * n \in Nat \ {0}
    <3>1. PageSize * 1 <= PageSize * n  BY <1>2, TimesGrows
    <3> QED  BY <1>2, <3>1, TimesGrows
  <2> QED  BY <1>1, <1>3, <2>1, <2>2, <2>3, <2>4, <2>5
<1>4. CASE b.pages = 0
  <2>1. Placed(b)  BY <1>4 DEF LivePlaced
  <2>2. PICK p \in Page : p = b.page  BY <2>1 DEF Placed
  <2>3. <<"arena", p>> \in Owner /\ own[<<"arena", p>>] = ArenaPages(p)  BY OwnIs
  <2>4. PICK d, n : d = arena[p].desc /\ n = arena[p].free_cnt  OBVIOUS
  <2>5. d \in Nat /\ n \in Nat /\ (d > 0 <=> d \in Desc)  BY <2>4, ArenaFields
  <2>6. CASE d = 0
    <3>1. n > 0 /\ b.off = Header  BY <2>1, <2>2, <2>4, <2>6 DEF Placed
    <3>2. block_size(b) = PageSize * n - Header  BY <1>4, <2>2, <2>4, <2>6, <3>1 DEF block_size
    <3>3. PageSize * 1 <= PageSize * n /\ PageSize * n \in Nat  BY <1>2, <2>5, <3>1, TimesGrows
    <3>4. own[<<"arena", p>>] = Group(p, n)  BY <2>3, <2>4, <2>6 DEF ArenaPages
    <3> QED  BY <1>1, <1>2, <1>4, <2>2, <2>3, <2>5, <3>1, <3>2, <3>3, <3>4
  <2>7. CASE d > 0
    <3>1. d \in Desc /\ d \in Nat \ {0}  BY <2>5, <2>7
    <3>2. PICK i \in 0 .. blocks_per_arena(d) - 1 : b.off = Offset(d, i)
      BY <2>1, <2>2, <2>4, <2>7 DEF Placed
    <3>3. block_size(b) = d  BY <1>4, <2>2, <2>4, <2>7 DEF block_size
    <3>4. PICK n1 \in Nat : n1 = blocks_per_arena(d)  BY <3>1, DescIs
    <3>5. d * n1 <= PageSize - Header
      <4>1. PICK x \in Nat : x = PageSize - Header  BY <1>2
      <4>2. n1 = x \div d  BY <3>4, <4>1 DEF blocks_per_arena
      <4>3. (x % d) \in 0 .. d - 1 /\ d * n1 \in Nat  BY <3>1, <4>1
      <4>4. x = d * (x \div d) + (x % d)  BY <3>1, <4>1, SMTT(30)
      <4>5. x = d * n1 + (x % d)  BY <4>2, <4>4
      <4> QED  BY <4>1, <4>3, <4>5
    <3>6. i \in Nat /\ i + 1 <= n1  BY <3>2, <3>4
    <3>7. d * (i + 1) <= d * n1  BY <3>1, <3>6, TimesGrows
    <3>8. d * (i + 1) = i * d + d /\ i * d \in Nat  BY <3>1, <3>6
    <3>9. b.off = Header + i * d  BY <3>2 DEF Offset
    <3>10. own[<<"arena", p>>] = Group(p, 1)  BY <2>3, <2>4, <2>7 DEF ArenaPages
    <3>11. b.off + block_size(b) <= PageSize * 1
      <4>1. PICK x \in Nat : x = i * d  BY <3>8
      <4>2. PICK y \in Int : y = d * n1  BY <3>1
      <4>3. d * (i + 1) = x + d  BY <3>8, <4>1
      <4> HIDE <3>8
      <4> QED  BY <1>2, <3>1, <3>3, <3>5, <3>7, <3>9, <4>1, <4>2, <4>3
    <3> QED  BY <1>1, <1>4, <2>2, <2>3, <3>1, <3>3, <3>10, <3>11
  <2> QED  BY <2>5, <2>6, <2>7
<1> QED  BY <1>1, <1>3, <1>4

\* Two groups of pages that share none lie one behind the other, and so do the bytes on them.
LEMMA GroupsApart ==
    ASSUME NEW p \in Nat, NEW n \in Nat \ {0}, NEW q \in Nat, NEW m \in Nat \ {0}, Group(p, n) \cap Group(q, m) = {}
    PROVE  PageSize * p + PageSize * n <= PageSize * q \/ PageSize * q + PageSize * m <= PageSize * p
<1>1. p + n <= q \/ q + m <= p
  <2> SUFFICES ASSUME p + n > q, q + m > p PROVE FALSE  OBVIOUS
  <2>1. p \in Group(q, m) \/ q \in Group(p, n)  BY DEF Group
  <2>2. p \in Group(p, n) /\ q \in Group(q, m)  BY DEF Group
  <2> QED  BY <2>1, <2>2
<1>2. PageSize \in Nat  BY Constants
<1>3. PageSize * (p + n) = PageSize * p + PageSize * n /\ PageSize * (q + m) = PageSize * q + PageSize * m
  BY <1>2
<1>4. p + n <= q => PageSize * (p + n) <= PageSize * q  BY <1>2, TimesGrows
<1>5. q + m <= p => PageSize * (q + m) <= PageSize * p  BY <1>2, TimesGrows
<1> QED  BY <1>1, <1>3, <1>4, <1>5

\* Two pieces share no byte, and none is empty.
LEMMA PiecesApart ==
    ASSUME MInv, NEW b \in live, NEW c \in live, b # c
    PROVE  Bytes(Piece(b)) \cap Bytes(Piece(c)) = {} /\ Bytes(Piece(b)) # {}
<1> USE DEF MInv
<1>1. PICK o \in Owner, n \in Nat \ {0} :
        /\ o = (IF b.pages > 0 THEN <<"live", b>> ELSE <<"arena", b.page>>)
        /\ own[o] = Group(b.page, n) /\ b.page \in Nat /\ b.off \in Nat /\ block_size(b) \in Nat \ {0}
        /\ b.off + block_size(b) <= PageSize * n
  BY PieceLies
<1>2. PICK h \in Owner, m \in Nat \ {0} :
        /\ h = (IF c.pages > 0 THEN <<"live", c>> ELSE <<"arena", c.page>>)
        /\ own[h] = Group(c.page, m) /\ c.page \in Nat /\ c.off \in Nat /\ block_size(c) \in Nat \ {0}
        /\ c.off + block_size(c) <= PageSize * m
  BY PieceLies
<1>3. PICK x, y : x = PageSize * b.page /\ y = PageSize * c.page  OBVIOUS
<1>4. x \in Nat /\ y \in Nat  BY <1>1, <1>2, <1>3, Constants
<1>5. PICK v \in Int, w \in Int : v = PageSize * n /\ w = PageSize * m  BY <1>1, <1>2, Constants
<1>6. /\ Bytes(Piece(b)) = x + b.off .. x + b.off + block_size(b) - 1
      /\ Bytes(Piece(c)) = y + c.off .. y + c.off + block_size(c) - 1
  BY <1>3 DEF Piece, Bytes
<1>7. Bytes(Piece(b)) # {}
  <2>1. x + b.off \in Bytes(Piece(b))  BY <1>1, <1>4, <1>6
  <2> QED  BY <2>1
<1>8. CASE o # h
  <2>1. own[o] \cap own[h] = {}  BY <1>8, OwnIs DEF PagesExact, Apart
  <2>2. Group(b.page, n) \cap Group(c.page, m) = {}  BY <1>1, <1>2, <2>1
  <2>3. x + v <= y \/ y + w <= x
    <3>1. PageSize * b.page + PageSize * n <= PageSize * c.page \/ PageSize * c.page + PageSize * m <= PageSize * b.page
      BY ONLY <1>1, <1>2, <2>2, GroupsApart
    <3> QED  BY <1>3, <1>5, <3>1
  <2>4. b.off + block_size(b) <= v /\ c.off + block_size(c) <= w  BY <1>1, <1>2, <1>5
  <2>5. PICK e \in Nat, f \in Nat \ {0}, g \in Nat, k \in Nat \ {0} :
          e = x + b.off /\ f = block_size(b) /\ g = y + c.off /\ k = block_size(c)
    BY <1>1, <1>2, <1>4
  <2>6. e + f <= g \/ g + k <= e  BY <1>1, <1>2, <1>4, <2>3, <2>4, <2>5
  <2>7. (e .. e + f - 1) \cap (g .. g + k - 1) = {}  BY <2>5, <2>6
  <2> QED  BY <1>6, <1>7, <2>5, <2>7
<1>9. CASE o = h
  <2>1. b.pages = 0 /\ c.pages = 0 /\ b.page = c.page
    <3>1. b.pages \in Nat /\ c.pages \in Nat  BY DEF MTyped, Block
    <3>2. <<"live", b>> # <<"live", c>> /\ "live" # "arena"  OBVIOUS
    <3> QED  BY <1>1, <1>2, <1>9, <3>1, <3>2
  <2>2. Placed(b) /\ Placed(c) /\ b.off # c.off  BY <2>1 DEF LivePlaced
  <2>3. PICK p, d : p = b.page /\ p = c.page /\ d = arena[p].desc /\ p \in Page  BY <2>1, <2>2 DEF Placed
  <2>4. d \in Nat /\ (d > 0 <=> d \in Desc)  BY <2>3, ArenaFields
  <2>5. d > 0  BY <2>2, <2>3, <2>4 DEF Placed
  <2>6. PICK i \in 0 .. blocks_per_arena(d) - 1 : b.off = Offset(d, i)  BY <2>2, <2>3, <2>5 DEF Placed
  <2>7. PICK j \in 0 .. blocks_per_arena(d) - 1 : c.off = Offset(d, j)  BY <2>2, <2>3, <2>5 DEF Placed
  <2>8. i \in Nat /\ j \in Nat /\ i # j /\ Header \in Nat
    BY <2>2, <2>4, <2>5, <2>6, <2>7, DescIs, Constants
  <2>9. block_size(b) = d /\ block_size(c) = d  BY <2>1, <2>3, <2>5 DEF block_size
  <2>10. PICK r \in Nat, s \in Nat : r = i * d /\ s = j * d  BY <2>4, <2>8
  <2>11. r + d <= s \/ s + d <= r
    <3>1. (i + 1) * d = r + d /\ (j + 1) * d = s + d  BY <2>4, <2>8, <2>10
    <3>2. i + 1 <= j => (i + 1) * d <= j * d  BY <2>4, <2>8, TimesGrows
    <3>3. j + 1 <= i => (j + 1) * d <= i * d  BY <2>4, <2>8, TimesGrows
    <3>4. i + 1 <= j \/ j + 1 <= i  BY <2>8
    <3> QED  BY <2>10, <3>1, <3>2, <3>3, <3>4
  <2>12. b.off = Header + r /\ c.off = Header + s  BY <2>6, <2>7, <2>10 DEF Offset
  <2>13. x = y  BY <1>3, <2>1
  <2> QED  BY <1>4, <1>6, <1>7, <2>4, <2>8, <2>9, <2>10, <2>11, <2>12, <2>13
<1> QED  BY <1>8, <1>9

\* All pieces in use are apart, and none is empty.
AllApart ==
  \A b, c \in live : b # c => Bytes(Piece(b)) \cap Bytes(Piece(c)) = {} /\ Bytes(Piece(b)) # {}
LEMMA ApartFollows == MInv => AllApart
BY PiecesApart DEF AllApart
LEMMA ApartNext == MInv' => AllApart'
BY ApartFollows, PTL

\* A page's arena is made or given back, or keeps the size of its blocks.
ArenasMove ==
  \A p \in Page : \/ arena'[p] = arena[p] \/ arena[p] = NoArena \/ arena'[p] = NoArena
                  \/ arena[p].desc > 0 /\ arena'[p].desc = arena[p].desc

\* A piece that stays in use keeps its place and its size.
LEMMA PieceKept ==
    ASSUME MInv, MInv', ArenasMove, NEW b, b \in live, b \in live'
    PROVE  Piece(b)' = Piece(b)
<1> SUFFICES block_size(b)' = block_size(b)  BY DEF Piece
<1>1. b.pages \in Nat  BY DEF MInv, MTyped, Block
<1>2. CASE b.pages > 0  BY <1>2 DEF block_size
<1>3. CASE b.pages = 0
  <2>1. Placed(b) /\ Placed(b)'  BY <1>3 DEF MInv, LivePlaced
  <2>2. PICK p \in Page : p = b.page  BY <2>1 DEF Placed
  <2>3. arena[p] # NoArena /\ arena'[p] # NoArena  BY <2>1, <2>2 DEF Placed, NoArena
  <2>4. arena'[p] = arena[p] \/ (arena[p].desc > 0 /\ arena'[p].desc = arena[p].desc)  BY <2>3 DEF ArenasMove
  <2> QED  BY <1>3, <2>2, <2>4 DEF block_size
<1> QED  BY <1>1, <1>2, <1>3

Pieces == {Piece(b) : b \in live}

\* A block is freed: its piece goes, the others stay.
LEMMA PieceGone ==
    ASSUME MInv, MInv', ArenasMove, NEW b \in live, live' = live \ {b}
    PROVE  Piece(b) \in Pieces /\ Pieces' = Pieces \ {Piece(b)}
<1>1. \A c \in live' : Piece(c)' = Piece(c)  BY PieceKept
<1>2. Pieces' = {Piece(c) : c \in live'}  BY <1>1 DEF Pieces
<1>3. \A c \in live : c # b => Piece(c) # Piece(b)  BY PiecesApart
<1> QED  BY <1>2, <1>3 DEF Pieces

\* Nothing is obtained or freed: the pieces stay.
LEMMA PiecesStay == ASSUME MInv, MInv', ArenasMove, live' = live PROVE Pieces' = Pieces
<1>1. \A c \in live' : Piece(c)' = Piece(c)  BY PieceKept
<1> QED  BY <1>1 DEF Pieces

\* A block is obtained: its piece is new, large enough and apart from the others.
LEMMA PieceNew ==
    ASSUME MInv, MInv', ArenasMove, NEW b, live' = live \cup {b}, block_size(b)' >= b.want
    PROVE  \/ Pieces' = Pieces
           \/ \E r \in Pieces' : /\ r \notin Pieces /\ Pieces' = Pieces \cup {r} /\ r.size >= r.want
                                 /\ \A s \in Pieces : Bytes(s) \cap Bytes(r) = {}
<1>1. \A c \in live : Piece(c)' = Piece(c)  BY PieceKept
<1>2. CASE b \in live
  <2>1. live' = live  BY <1>2
  <2> QED  BY <2>1, PiecesStay
<1>3. CASE b \notin live
  <2> DEFINE r == Piece(b)'
  <2>1. Pieces' = Pieces \cup {r} /\ r \in Pieces'
    <3>1. Pieces' = {Piece(c)' : c \in live'}  BY DEF Pieces
    <3> QED  BY <1>1, <3>1 DEF Pieces
  <2>2. r.size >= r.want  BY DEF Piece
  <2>3. \A c \in live : (Bytes(Piece(b)) \cap Bytes(Piece(c)) = {} /\ Bytes(Piece(b)) # {})'
    <3> SUFFICES ASSUME NEW c \in live PROVE (Bytes(Piece(b)) \cap Bytes(Piece(c)) = {} /\ Bytes(Piece(b)) # {})'
      OBVIOUS
    <3>1. b \in live' /\ c \in live' /\ b # c  BY <1>3
    <3> QED  BY <3>1, ApartNext DEF AllApart
  <2>4. \A s \in Pieces : Bytes(s) \cap Bytes(r) = {} /\ s # r
    <3> SUFFICES ASSUME NEW c \in live PROVE Bytes(Piece(c)) \cap Bytes(r) = {} /\ Piece(c) # r  BY DEF Pieces
    <3>1. (Bytes(Piece(b)) \cap Bytes(Piece(c)))' = {} /\ Bytes(Piece(b))' # {}  BY <2>3
    <3>2. Bytes(Piece(b))' = Bytes(r) /\ Bytes(Piece(c))' = Bytes(Piece(c))  BY <1>1 DEF Bytes
    <3> HIDE DEF r, Bytes, Piece
    <3> QED  BY <3>1, <3>2
  <2> HIDE DEF r
  <2> QED  BY <2>1, <2>2, <2>4
<1> QED  BY <1>2, <1>3

-----------------------------------------------------------------------------
(* Each step is one of the abstract allocator's, or none.                   *)

\* What a step may do to the pieces in use.
PiecesStep ==
  \/ Pieces' = Pieces
  \/ \E r \in Pieces : Pieces' = Pieces \ {r}
  \/ \E r \in Pieces' : /\ r \notin Pieces /\ Pieces' = Pieces \cup {r} /\ r.size >= r.want
                        /\ \A s \in Pieces : Bytes(s) \cap Bytes(r) = {}

\* malloc() hands out a block of a list: its arena counts one less.
LEMMA TakesPiece == ASSUME MInv, MInv', AllAskEnough, NEW t \in Thread, LockDesc(t) PROVE PiecesStep
<1>1. CASE free_list[work[t].desc] = <<>>
  <2>1. live' = live /\ arena' = arena  BY <1>1 DEF LockDesc
  <2> QED  BY <2>1, PiecesStay DEF ArenasMove, PiecesStep
<1>2. CASE free_list[work[t].desc] # <<>>
  <2>0. PICK d, list, p, b :
          /\ d = work[t].desc /\ list = free_list[d] /\ p = Head(list)[1]
          /\ b = [page |-> p, off |-> Header + Head(list)[2] * d, want |-> work[t].want, pages |-> 0]
    OBVIOUS
  <2>1. /\ stage[t] = "malloc" /\ arena' = [arena EXCEPT ![p].free_cnt = @ - 1]
        /\ live' = live \cup {b}
    BY <1>2, <2>0 DEF LockDesc, Obtained
  <2>2. d \in Desc /\ d > 0 /\ work[t].want <= d
    BY <2>0, <2>1, DescIs DEF MInv, ThreadsAt, ThreadAt, AllAskEnough, AsksEnough
  <2>3. p \in Page /\ arena[p].desc = d
    <3>1. list \in Seq(Page \X Nat) /\ list # <<>>  BY <1>2, <2>0, <2>2 DEF MInv, MTyped
    <3>2. Head(list) \in ToSet(list) /\ Head(list) \in Page \X Nat  BY <3>1, HeadTaken
    <3> QED  BY <2>0, <2>2, <3>2 DEF MInv, ListsExact
  <2>4. arena[p] \in [desc : Desc \cup {0}, free_cnt : Nat] /\ arena \in [Page -> [desc : Desc \cup {0}, free_cnt : Nat]]
    BY <2>3 DEF MInv, MTyped
  <2>5. arena'[p].desc = d /\ \A q \in Page : q # p => arena'[q] = arena[q]  BY <2>1, <2>3, <2>4
  <2>6. ArenasMove  BY <2>2, <2>3, <2>5 DEF ArenasMove
  <2>7. block_size(b)' = d /\ b.want = work[t].want
    <3>1. b.page = p /\ b.pages = 0 /\ b.want = work[t].want /\ ~(b.pages > 0)  BY <2>0
    <3> QED  BY ONLY <2>2, <2>5, <3>1 DEF block_size
  <2>8. block_size(b)' >= b.want  BY <2>2, <2>7, DescIs
  <2> QED  BY <2>1, <2>6, <2>8, PieceNew DEF PiecesStep
<1> QED  BY <1>1, <1>2

\* malloc() makes an arena or a big block of pages and hands out its piece.
LEMMA FillsPiece ==
    ASSUME MInv, MInv', AllAskEnough, NEW t \in Thread, NewArena(t) \/ BigBlock(t) PROVE PiecesStep
<1>0. PICK p, d, b :
        /\ p = work[t].page /\ d = work[t].desc
        /\ b = [page |-> p, off |-> Header, want |-> work[t].want, pages |-> 0]
  OBVIOUS
<1>1. stage[t] = "pages" /\ work[t] \in Local /\ AsksEnough(t)
  BY DEF NewArena, BigBlock, MInv, MTyped, AllAskEnough
<1>2. p \in Page /\ work[t].cnt \in Nat /\ work[t].cnt > 0 /\ arena[p] = NoArena
  <2>1. p \in Page /\ work[t].cnt \in Nat /\ work[t].cnt > 0
        /\ \A q \in Group(p, work[t].cnt) : arena[q] = NoArena
    BY <1>0, <1>1, PagesGot
  <2>2. p \in Group(p, work[t].cnt)  BY <2>1 DEF Group, Page
  <2> QED  BY <2>1, <2>2
<1>3. arena \in [Page -> [desc : Desc \cup {0}, free_cnt : Nat]]  BY DEF MInv, MTyped
<1>4. CASE NewArena(t)
  <2>1. live' = live \cup {b} /\ arena' = [arena EXCEPT ![p] = [desc |-> d, free_cnt |-> blocks_per_arena(d) - 1]]
    BY <1>0, <1>4 DEF NewArena, Obtained
  <2>2. arena'[p].desc = d /\ \A q \in Page : q # p => arena'[q] = arena[q]  BY <1>2, <1>3, <2>1
  <2>3. d \in Desc /\ d > 0
    <3>1. work[t].ret = "arena"  BY <1>4 DEF NewArena
    <3> QED  BY <1>0, <1>1, <3>1, DescIs DEF MInv, ThreadsAt, ThreadAt, InPalloc
  <2>4. work[t].want <= d  BY <1>0, <1>1, <1>4 DEF NewArena, AsksEnough
  <2>5. ArenasMove  BY <1>2, <2>2 DEF ArenasMove
  <2>6. block_size(b)' = d /\ b.want = work[t].want  BY <1>0, <2>2, <2>3 DEF block_size
  <2>7. block_size(b)' >= b.want  BY <2>3, <2>4, <2>6, DescIs DEF Local
  <2> QED  BY <2>1, <2>5, <2>7, PieceNew DEF PiecesStep
<1>5. CASE BigBlock(t)
  <2>1. live' = live \cup {b} /\ arena' = [arena EXCEPT ![p] = [desc |-> 0, free_cnt |-> work[t].cnt]]
    BY <1>0, <1>5 DEF BigBlock, Obtained
  <2>2. arena'[p].desc = 0 /\ arena'[p].free_cnt = work[t].cnt /\ \A q \in Page : q # p => arena'[q] = arena[q]
    BY <1>2, <1>3, <2>1
  <2>3. PICK n \in Nat, w \in Int : n = work[t].cnt /\ w = work[t].want  BY <1>1, <1>2 DEF Local
  <2>4. w + Header <= n * PageSize  BY <1>1, <1>5, <2>3 DEF BigBlock, AsksEnough
  <2>5. n * PageSize = PageSize * n /\ n * PageSize \in Nat /\ Header \in Nat  BY Constants
  <2>6. ArenasMove  BY <1>2, <2>2 DEF ArenasMove
  <2>7. block_size(b)' = PageSize * n - Header /\ b.want = w  BY <1>0, <2>2, <2>3 DEF block_size
  <2>8. block_size(b)' >= b.want
    <3>1. PICK x \in Nat : x = n * PageSize  BY <2>5
    <3> QED  BY <2>3, <2>4, <2>5, <2>7, <3>1
  <2> QED  BY <2>1, <2>6, <2>8, PieceNew DEF PiecesStep
<1> QED  BY <1>4, <1>5

\* Whole pages are handed out.
LEMMA PagesPiece == ASSUME MInv, MInv', NEW t \in Thread, GotPages(t) PROVE PiecesStep
<1>0. PICK n, b :
        n = work[t].cnt /\ b = [page |-> work[t].page, off |-> 0, want |-> n * PageSize, pages |-> n]
  OBVIOUS
<1>1. live' = live \cup {b} /\ arena' = arena /\ stage[t] = "pages"  BY <1>0 DEF GotPages, memory
<1>2. n \in Nat /\ n > 0  BY <1>0, <1>1, PagesGot
<1>3. block_size(b)' = PageSize * n /\ b.want = n * PageSize  BY <1>0, <1>2 DEF block_size
<1>4. PageSize * n = n * PageSize /\ n * PageSize \in Nat  BY <1>2, Constants
<1>5. block_size(b)' >= b.want  BY <1>3, <1>4
<1>6. ArenasMove  BY <1>1 DEF ArenasMove
<1> QED  BY <1>1, <1>5, <1>6, PieceNew DEF PiecesStep

\* Pages given back have no arena any more, the others keep theirs.
LEMMA GivenBackMove ==
    ASSUME NEW t, NEW l, NEW page, NEW cnt, palloc_free_multiple(t, l, page, cnt)
    PROVE  ArenasMove
<1>1. arena' = [p \in Page |-> IF p \in page .. page + cnt - 1 THEN NoArena ELSE arena[p]]
  BY DEF palloc_free_multiple
<1> QED  BY <1>1 DEF ArenasMove

\* free(): a piece leaves its user.
LEMMA FreesPiece ==
    ASSUME MInv, MInv', NEW t \in Thread, FreePagesOf(t) \/ Free(t) \/ ReallocFree(t) PROVE PiecesStep
<1>1. PICK b \in live : live' = live \ {b} /\ ArenasMove
  <2>1. CASE FreePagesOf(t)  BY <2>1, GivenBackMove DEF FreePagesOf
  <2>2. ASSUME NEW b \in live, free(t, b) PROVE live' = live \ {b} /\ ArenasMove
    <3>1. arena' = arena => ArenasMove  BY DEF ArenasMove
    <3> QED  BY <2>2, <3>1, GivenBackMove DEF free
  <2>3. CASE Free(t)  BY <2>2, <2>3 DEF Free
  <2>4. CASE ReallocFree(t)
    <3>1. work[t].old \in live  BY <2>4 DEF MInv, OldKept, ReallocFree
    <3> QED  BY <2>2, <2>4, <3>1 DEF ReallocFree
  <2> QED  BY <2>1, <2>3, <2>4
<1> QED  BY <1>1, PieceGone DEF PiecesStep

\* A block joins the free list, or its arena's page goes back: no piece changes.
LEMMA FreeBlockPiece == ASSUME MInv, MInv', NEW t \in Thread, FreeBlock(t) PROVE PiecesStep
<1>1. live' = live  BY DEF FreeBlock
<1>2. ArenasMove
  <2>1. CASE arena[work[t].page].free_cnt + 1 >= blocks_per_arena(work[t].desc)
    BY <2>1, GivenBackMove DEF FreeBlock
  <2>2. CASE ~(arena[work[t].page].free_cnt + 1 >= blocks_per_arena(work[t].desc))
    <3>1. PICK p : p = work[t].page  OBVIOUS
    <3>2. p \in Page /\ arena[p].desc > 0
      <4>1. stage[t] = "free"  BY DEF FreeBlock
      <4> QED  BY <3>1, <4>1, DescIs DEF MInv, ThreadsAt, ThreadAt
    <3>3. arena \in [Page -> [desc : Desc \cup {0}, free_cnt : Nat]]  BY DEF MInv, MTyped
    <3>4. \E n : arena' = [arena EXCEPT ![p].free_cnt = n]  BY <2>2, <3>1 DEF FreeBlock
    <3>5. arena'[p].desc = arena[p].desc /\ \A q \in Page : q # p => arena'[q] = arena[q]
      BY <3>2, <3>3, <3>4
    <3> QED  BY <3>2, <3>5 DEF ArenasMove
  <2> QED  BY <2>1, <2>2
<1> QED  BY <1>1, <1>2, PiecesStay DEF PiecesStep

\* Every step is a step of the pieces.
LEMMA EveryPiece ==
    ASSUME MInv, MInv', AllAskEnough, [MNext]_memoryVars PROVE PiecesStep
<1>1. ASSUME live' = live, arena' = arena PROVE PiecesStep
  BY <1>1, PiecesStay DEF ArenasMove, PiecesStep
<1>2. CASE UNCHANGED memoryVars  BY <1>1, <1>2 DEF memoryVars
<1>3. ASSUME NEW t \in Thread, ThreadStep(t) PROVE PiecesStep
  <2>1. CASE GetLock(t) \/ Scan(t) \/ Flip(t) \/ Clear(t) \/ NoPages(t)
    BY <1>1, <2>1 DEF GetLock, Scan, Flip, Clear, NoPages
  <2> QED  BY <1>3, <2>1, TakesPiece, FillsPiece, PagesPiece, FreesPiece, FreeBlockPiece DEF ThreadStep
<1>4. ASSUME NEW t \in Thread, GetPages(t) \/ Malloc(t) \/ Calloc(t) \/ Realloc(t) PROVE PiecesStep
  BY <1>1, <1>4 DEF GetPages, Malloc, Calloc, Realloc, memory
<1> QED  BY <1>2, <1>3, <1>4, FreesPiece DEF MNext

(* The page allocator and the block allocator implement the abstract one:   *)
(* what malloc(), calloc(), realloc() and palloc_get_multiple() return is   *)
(* as large as asked, overlaps nothing in use, and stays where it is, and   *)
(* as large as it is, until it is freed - for any number of threads, any    *)
(* memory and any sizes but those whose sums and products wrap unnoticed.   *)
THEOREM MemoryAllocates == NoWrap => (MSpec => ImplementsAllocator)
<1> SUFFICES ASSUME NoWrap PROVE MSpec => ImplementsAllocator  OBVIOUS
<1> USE DEF AbstractAllocator!Obtain, AbstractAllocator!Release, AbstractAllocator!Bytes
<1>1. MInit => AllAskEnough
  BY DEF MInit, AllAskEnough, AsksEnough
<1>2. MInv /\ AllAskEnough /\ [MNext]_memoryVars => AllAskEnough'  BY AskKept
<1>3. MInit => AbstractAllocator!AInit  BY DEF MInit, AbstractAllocator!AInit
<1>4. MInv /\ MInv' /\ AllAskEnough /\ [MNext]_memoryVars
        => [AbstractAllocator!Obtain \/ AbstractAllocator!Release]_Pieces
  <2> SUFFICES ASSUME MInv, MInv', AllAskEnough, [MNext]_memoryVars
               PROVE  [AbstractAllocator!Obtain \/ AbstractAllocator!Release]_Pieces
    OBVIOUS
  <2>1. PiecesStep  BY EveryPiece
  <2> QED  BY <2>1 DEF PiecesStep, Pieces, Piece, Bytes
<1> QED  BY <1>1, <1>2, <1>3, <1>4, MemoryInvariant, PTL
         DEF MSpec, ImplementsAllocator, AbstractAllocator!ASpec, Pieces, Piece
=============================================================================
