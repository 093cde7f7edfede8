------------------------------- MODULE Memory -------------------------------
(***************************************************************************)
(* The page allocator (threads/palloc.c) and the block allocator on top of *)
(* it (threads/malloc.c), used by several threads at once.                 *)
(*                                                                         *)
(* palloc_get_multiple() scans and marks the bits of a pool under the      *)
(* pool's lock, one bit after the other; palloc_free_multiple() clears     *)
(* them without the lock.  What malloc() and free() do while they hold the *)
(* lock of a descriptor, up to the call of the page allocator, is one      *)
(* step: nobody else looks at the descriptor or its arenas meanwhile.      *)
(***************************************************************************)
EXTENDS Integers, Sequences, FiniteSets, SequencesExt

CONSTANTS
  Thread, NoThread,
  FreePages, user_page_limit,     \* pages of memory; most of them for users
  PageSize, Header, MinBlock,     \* PGSIZE, sizeof (struct arena), 16
  SizeT,                          \* 2 ^ 32: sizes are computed modulo this
  Sizes, PageCounts, Factors      \* what callers ask for

ASSUME MemoryAssumption ==
  /\ NoThread \notin Thread
  /\ {FreePages, user_page_limit, PageSize, Header, MinBlock, SizeT} \subseteq Nat
  /\ Header > 0 /\ 2 * Header <= PageSize /\ MinBlock > 0 /\ 2 * PageSize < SizeT
  /\ Sizes \subseteq 0 .. SizeT - 1 /\ PageCounts \subseteq Nat
  /\ Factors \subseteq (0 .. SizeT - 1) \X (0 .. SizeT - 1)

DIV_ROUND_UP(x, step) == ((x + step - 1) % SizeT) \div step

(* The two pools.  The bitmap of a pool lies in its first pages.           *)
user_pages == IF FreePages \div 2 > user_page_limit THEN user_page_limit ELSE FreePages \div 2

init_pool(base, page_cnt) ==
  LET bm_pages == DIV_ROUND_UP(8 + 4 * ((page_cnt + 31) \div 32), PageSize)
  IN [base |-> base + bm_pages, size |-> page_cnt - bm_pages]

pool == [kernel |-> init_pool(0, FreePages - user_pages),
         user |-> init_pool(FreePages - user_pages, user_pages)]

Pool == DOMAIN pool
Bits(k) == 0 .. pool[k].size - 1
Page == 0 .. FreePages - 1

page_from_pool(k, page) == page - pool[k].base \in Bits(k)

(* The descriptors, named by their block size.                             *)
Desc == {MinBlock * 2 ^ i : i \in 0 .. 9} \cap 1 .. (PageSize \div 2) - 1
blocks_per_arena(d) == (PageSize - Header) \div d

NoArena == [desc |-> 0, free_cnt |-> 0]
NoBlock == [page |-> 0, off |-> 0, want |-> 0, pages |-> 0]

VARIABLES
  used_map,    \* the marked bits of each pool
  pool_lock, desc_lock,
  free_list,   \* of each descriptor: blocks as <<page, idx>>
  arena,       \* the header at the start of each page, if it is one
  live,        \* what callers hold: blocks, and pages they got from palloc
  stage, work  \* where each thread is, and its locals

memoryVars == <<used_map, pool_lock, desc_lock, free_list, arena, live, stage, work>>
memory == <<used_map, pool_lock, desc_lock, free_list, arena>>

NoWork == [pool |-> "kernel", cnt |-> 0, idx |-> 0, done |-> 0, page |-> 0, desc |-> 0,
          want |-> 0, ret |-> "pages", old |-> NoBlock]

MInit ==
  /\ used_map = [k \in Pool |-> {}]
  /\ pool_lock = [k \in Pool |-> NoThread]
  /\ desc_lock = [d \in Desc |-> NoThread]
  /\ free_list = [d \in Desc |-> <<>>]
  /\ arena = [p \in Page |-> NoArena]
  /\ live = {}
  /\ stage = [t \in Thread |-> "idle"]
  /\ work = [t \in Thread |-> NoWork]
-----------------------------------------------------------------------------
Move(t, label, l) == stage' = [stage EXCEPT ![t] = label] /\ work' = [work EXCEPT ![t] = l]

Done(t) == Move(t, "idle", NoWork)

InUse == {work[t].old : t \in Thread}   \* what a realloc() is copying from

(* The bytes a caller may use: what block_size() computes, or whole pages. *)
block_size(b) ==
  IF b.pages > 0 THEN PageSize * b.pages
  ELSE LET a == arena[b.page] IN IF a.desc > 0 THEN a.desc ELSE PageSize * a.free_cnt - b.off
-----------------------------------------------------------------------------
(* The page allocator.  work.ret says who called it.                        *)

palloc_get_multiple(t, l, k, page_cnt) ==
  Move(t, IF page_cnt = 0 THEN "no_pages" ELSE "get", [l EXCEPT !.pool = k, !.cnt = page_cnt, !.idx = 0, !.done = 0])

(* Mutant: the pool is scanned without its lock.                           *)
GetLock_unlocked(t) ==
  /\ stage[t] = "get" /\ Move(t, "scan", work[t])
  /\ UNCHANGED <<used_map, pool_lock, desc_lock, free_list, arena, live>>

GetLock(t) ==
  /\ stage[t] = "get" /\ pool_lock[work[t].pool] = NoThread
  /\ pool_lock' = [pool_lock EXCEPT ![work[t].pool] = t]
  /\ Move(t, "scan", work[t])
  /\ UNCHANGED <<used_map, desc_lock, free_list, arena, live>>

(* Whether one of cnt bits from start on is marked.                        *)
bitmap_contains(k, start, cnt) == (start .. start + cnt - 1) \cap used_map[k] # {}

(* bitmap_scan() looks at one place after the other.                       *)
Scan(t) ==
  LET l == work[t]
  IN /\ stage[t] = "scan"
     /\ \/ /\ l.idx + l.cnt > pool[l.pool].size
           /\ pool_lock' = [pool_lock EXCEPT ![l.pool] = NoThread]
           /\ Move(t, "no_pages", l)
        \/ /\ l.idx + l.cnt <= pool[l.pool].size
           /\ IF ~bitmap_contains(l.pool, l.idx, l.cnt) THEN Move(t, "flip", l)
              ELSE Move(t, "scan", [l EXCEPT !.idx = @ + 1])
           /\ UNCHANGED pool_lock
     /\ UNCHANGED <<used_map, desc_lock, free_list, arena, live>>

(* One bit is marked; the last one gives up the lock.                      *)
Flip(t) ==
  LET l == work[t]
  IN /\ stage[t] = "flip"
     /\ used_map' = [used_map EXCEPT ![l.pool] = @ \cup {l.idx + l.done}]
     /\ IF l.done + 1 < l.cnt
        THEN Move(t, "flip", [l EXCEPT !.done = @ + 1]) /\ UNCHANGED pool_lock
        ELSE /\ pool_lock' = [pool_lock EXCEPT ![l.pool] = NoThread]
             /\ Move(t, "pages", [l EXCEPT !.page = pool[l.pool].base + l.idx])
     /\ UNCHANGED <<desc_lock, free_list, arena, live>>

(* The pages are overwritten with 0xcc before their bits are cleared.      *)
palloc_free_multiple(t, l, page, page_cnt) ==
  LET k == CHOOSE k \in Pool : page_from_pool(k, page)
  IN /\ arena' = [p \in Page |-> IF p \in page .. page + page_cnt - 1 THEN NoArena ELSE arena[p]]
     /\ Move(t, "clear", [l EXCEPT !.pool = k, !.idx = page - pool[k].base, !.cnt = page_cnt, !.done = 0])

Clear(t) ==
  LET l == work[t]
  IN /\ stage[t] = "clear"
     /\ used_map' = [used_map EXCEPT ![l.pool] = @ \ {l.idx + l.done}]
     /\ IF l.done + 1 < l.cnt THEN Move(t, "clear", [l EXCEPT !.done = @ + 1]) /\ UNCHANGED desc_lock
        ELSE /\ Done(t)
             /\ IF l.ret = "arena" THEN desc_lock' = [desc_lock EXCEPT ![l.desc] = NoThread]
                ELSE UNCHANGED desc_lock
     /\ UNCHANGED <<pool_lock, free_list, arena, live>>
-----------------------------------------------------------------------------
(* malloc(size), called by a user or by realloc() with the old block in l. *)
malloc(t, size, l) ==
  LET fits == {d \in Desc : d >= size}
      d == CHOOSE d \in fits : \A e \in fits : d <= e
  IN IF size = 0 THEN Done(t)
     ELSE IF fits = {} THEN palloc_get_multiple(t, [l EXCEPT !.ret = "big"], "kernel", DIV_ROUND_UP(size + Header, PageSize))
     ELSE Move(t, "malloc", [l EXCEPT !.desc = d])

(* free(): a big block goes to the page allocator at once.                 *)
free(t, b) ==
  /\ live' = live \ {b}
  /\ IF arena[b.page].desc = 0
     THEN palloc_free_multiple(t, [NoWork EXCEPT !.ret = "big"], b.page, arena[b.page].free_cnt)
     ELSE /\ Move(t, "free", [NoWork EXCEPT !.page = b.page, !.idx = (b.off - Header) \div arena[b.page].desc,
                                         !.desc = arena[b.page].desc])
          /\ UNCHANGED arena

(* malloc() has a block: its caller has it, or realloc() copies and frees  *)
(* the old one.                                                            *)
Obtained(t, b) ==
  /\ live' = live \cup {b}
  /\ IF work[t].old = NoBlock THEN Done(t) ELSE Move(t, "copied", work[t])

LockDesc(t) ==
  LET l == work[t]
  IN /\ stage[t] = "malloc" /\ desc_lock[l.desc] = NoThread
     /\ \/ /\ free_list[l.desc] = <<>>
           /\ desc_lock' = [desc_lock EXCEPT ![l.desc] = t]
           /\ palloc_get_multiple(t, [l EXCEPT !.ret = "arena"], "kernel", 1)
           /\ UNCHANGED <<free_list, arena, live>>
        \/ LET b == Head(free_list[l.desc])
           IN /\ free_list[l.desc] # <<>>
              /\ free_list' = [free_list EXCEPT ![l.desc] = Tail(@)]
              /\ arena' = [arena EXCEPT ![b[1]].free_cnt = @ - 1]
              /\ Obtained(t, [page |-> b[1], off |-> Header + b[2] * l.desc, want |-> l.want, pages |-> 0])
              /\ UNCHANGED desc_lock
     /\ UNCHANGED <<used_map, pool_lock>>

(* A new arena: its first block is taken, the others are listed.           *)
NewArena(t) ==
  LET l == work[t]
      n == blocks_per_arena(l.desc)
  IN /\ stage[t] = "pages" /\ l.ret = "arena"
     /\ arena' = [arena EXCEPT ![l.page] = [desc |-> l.desc, free_cnt |-> n - 1]]
     /\ free_list' = [free_list EXCEPT ![l.desc] = [i \in 1 .. n - 1 |-> <<l.page, i>>]]
     /\ desc_lock' = [desc_lock EXCEPT ![l.desc] = NoThread]
     /\ Obtained(t, [page |-> l.page, off |-> Header, want |-> l.want, pages |-> 0])
     /\ UNCHANGED <<used_map, pool_lock>>

BigBlock(t) ==
  LET l == work[t]
  IN /\ stage[t] = "pages" /\ l.ret = "big"
     /\ arena' = [arena EXCEPT ![l.page] = [desc |-> 0, free_cnt |-> l.cnt]]
     /\ Obtained(t, [page |-> l.page, off |-> Header, want |-> l.want, pages |-> 0])
     /\ UNCHANGED <<used_map, pool_lock, desc_lock, free_list>>

(* palloc_get_multiple() called from outside.                              *)
GotPages(t) ==
  LET l == work[t]
  IN /\ stage[t] = "pages" /\ l.ret = "pages"
     /\ live' = live \cup {[page |-> l.page, off |-> 0, want |-> l.cnt * PageSize, pages |-> l.cnt]}
     /\ Done(t)
     /\ UNCHANGED memory

(* A null pointer is returned; realloc() leaves the old block alone.       *)
NoPages(t) ==
  /\ stage[t] = "no_pages"
  /\ IF work[t].ret = "arena" THEN desc_lock' = [desc_lock EXCEPT ![work[t].desc] = NoThread] ELSE UNCHANGED desc_lock
  /\ Done(t)
  /\ UNCHANGED <<used_map, pool_lock, free_list, arena, live>>

ReallocFree(t) ==
  /\ stage[t] = "copied" /\ free(t, work[t].old)
  /\ UNCHANGED <<used_map, pool_lock, desc_lock, free_list>>

(* The blocks of an arena leave the list, the others keep their order.      *)
without(list, page) ==
  LET kept[i \in 0 .. Len(list)] ==
        IF i = 0 THEN <<>>
        ELSE IF list[i][1] = page THEN kept[i - 1] ELSE Append(kept[i - 1], list[i])
  IN kept[Len(list)]

(* A block goes to the front of the free list.  If its arena is unused now *)
(* all its blocks leave the list and the page goes back.                   *)
FreeBlock(t) ==
  LET l == work[t]
      free_cnt == arena[l.page].free_cnt + 1
      list == <<<<l.page, l.idx>>>> \o free_list[l.desc]
  IN /\ stage[t] = "free" /\ desc_lock[l.desc] = NoThread
     /\ IF free_cnt >= blocks_per_arena(l.desc)
        THEN /\ free_list' = [free_list EXCEPT ![l.desc] = without(list, l.page)]
             /\ desc_lock' = [desc_lock EXCEPT ![l.desc] = t]
             /\ palloc_free_multiple(t, [l EXCEPT !.ret = "arena"], l.page, 1)
        ELSE /\ free_list' = [free_list EXCEPT ![l.desc] = list]
             /\ arena' = [arena EXCEPT ![l.page].free_cnt = free_cnt]
             /\ Done(t) /\ UNCHANGED desc_lock
     /\ UNCHANGED <<used_map, pool_lock, live>>
-----------------------------------------------------------------------------
(* What callers do.  A block is freed or resized once, by any thread.      *)
GetPages(t) ==
  /\ stage[t] = "idle"
  /\ \E k \in Pool, n \in PageCounts : palloc_get_multiple(t, NoWork, k, n)
  /\ UNCHANGED <<memory, live>>

FreePagesOf(t) ==
  /\ stage[t] = "idle"
  /\ \E b \in live : /\ b.pages > 0 /\ live' = live \ {b}
                     /\ palloc_free_multiple(t, NoWork, b.page, b.pages)
  /\ UNCHANGED <<used_map, pool_lock, desc_lock, free_list>>

Malloc(t) ==
  /\ stage[t] = "idle"
  /\ \E n \in Sizes : malloc(t, n, [NoWork EXCEPT !.want = n])
  /\ UNCHANGED <<memory, live>>

(* Mutant: calloc() does not look for overflow.                            *)
Calloc_unchecked(t) ==
  /\ stage[t] = "idle"
  /\ \E f \in Factors : malloc(t, (f[1] * f[2]) % SizeT, [NoWork EXCEPT !.want = f[1] * f[2]])
  /\ UNCHANGED <<memory, live>>

(* calloc() looks for overflow by comparing the product with the factors.  *)
Calloc(t) ==
  /\ stage[t] = "idle"
  /\ \E f \in Factors :
       LET size == (f[1] * f[2]) % SizeT
       IN /\ size >= f[1] /\ size >= f[2]
          /\ malloc(t, size, [NoWork EXCEPT !.want = f[1] * f[2]])
  /\ UNCHANGED <<memory, live>>

Realloc(t) ==
  /\ stage[t] = "idle"
  /\ \E b \in live \ InUse, n \in Sizes \ {0} :
       b.pages = 0 /\ malloc(t, n, [NoWork EXCEPT !.want = n, !.old = b])
  /\ UNCHANGED <<memory, live>>

Free(t) ==
  /\ stage[t] = "idle"
  /\ \E b \in live \ InUse : b.pages = 0 /\ free(t, b)
  /\ UNCHANGED <<used_map, pool_lock, desc_lock, free_list>>

ThreadStep(t) ==
  \/ GetLock(t) \/ Scan(t) \/ Flip(t) \/ Clear(t)
  \/ LockDesc(t) \/ NewArena(t) \/ BigBlock(t) \/ GotPages(t) \/ NoPages(t)
  \/ ReallocFree(t) \/ FreeBlock(t)

MNext ==
  \E t \in Thread :
    ThreadStep(t) \/ GetPages(t) \/ FreePagesOf(t) \/ Malloc(t) \/ Calloc(t) \/ Realloc(t) \/ Free(t)

MSpec == MInit /\ [][MNext]_memoryVars
-----------------------------------------------------------------------------
Loc == [pool : Pool, cnt : 0 .. SizeT - 1, idx : 0 .. FreePages + PageSize, done : 0 .. FreePages, page : Page,
        desc : Desc \cup {0}, want : Nat, ret : {"pages", "arena", "big"},
        old : [page : Page, off : 0 .. PageSize, want : Nat, pages : 0 .. FreePages]]

(* Types of the state.                                                     *)
MTypeOK ==
  /\ used_map \in [Pool -> SUBSET Page] /\ \A k \in Pool : used_map[k] \subseteq Bits(k)
  /\ pool_lock \in [Pool -> Thread \cup {NoThread}]
  /\ desc_lock \in [Desc -> Thread \cup {NoThread}]
  /\ \A d \in Desc : free_list[d] \in Seq(Page \X (0 .. blocks_per_arena(d) - 1))
  /\ arena \in [Page -> [desc : Desc \cup {0}, free_cnt : 0 .. FreePages + PageSize]]
  /\ live \subseteq [page : Page, off : 0 .. PageSize, want : Nat, pages : 0 .. FreePages]
  /\ stage \in [Thread -> {"idle", "get", "scan", "flip", "pages", "no_pages", "clear", "malloc", "free", "copied"}]
  /\ work \in [Thread -> Loc]

(* The groups of pages somebody has: callers, arenas, big blocks, and      *)
(* threads on their way through the page allocator.                        *)
Group(first, cnt) == first .. first + cnt - 1
Groups ==
  {<<<<"live", b>>, Group(b.page, b.pages)>> : b \in {c \in live : c.pages > 0}}
    \cup {<<<<"arena", p>>, Group(p, IF arena[p].desc > 0 THEN 1 ELSE arena[p].free_cnt)>> : p \in Page}
    \cup {<<<<"thread", t>>, LET l == work[t] IN
               CASE stage[t] = "flip" -> Group(pool[l.pool].base + l.idx, l.done)
                 [] stage[t] = "pages" -> Group(l.page, l.cnt)
                 [] stage[t] = "clear" -> Group(pool[l.pool].base + l.idx + l.done, l.cnt - l.done)
                 [] OTHER -> {}>> : t \in Thread}

(* The bitmaps mark exactly the pages somebody has, and no page has two    *)
(* owners, although palloc_free_multiple() takes no lock: bits are changed *)
(* one by one, and only a holder of the lock sets any.                     *)
MarkedExact ==
  /\ UNION {{pool[k].base + i : i \in used_map[k]} : k \in Pool} = UNION {g[2] : g \in Groups}
  /\ \A g \in Groups : g[2] # {} => \A h \in Groups : g # h => g[2] \cap h[2] = {}

(* free_cnt of an arena is the number of its blocks on the free list; an   *)
(* arena with no block in use goes back at once and takes all its blocks   *)
(* off the list; a block is never both free and in use (free(), malloc()). *)
ArenaExact ==
  /\ \A d \in Desc :
       /\ IsInjective(free_list[d])
       /\ \A i \in DOMAIN free_list[d] : arena[free_list[d][i][1]].desc = d
  /\ \A p \in Page : arena[p].desc > 0 =>
       LET d == arena[p].desc
           blocks == {i \in 0 .. blocks_per_arena(d) - 1 : <<p, i>> \in ToSet(free_list[d])}
           taken == {(b.off - Header) \div d : b \in {c \in live : c.page = p}}
                      \cup {work[t].idx : t \in {u \in Thread : stage[u] = "free" /\ work[u].page = p}}
       IN /\ arena[p].free_cnt = Cardinality(blocks)
          /\ blocks # 0 .. blocks_per_arena(d) - 1
          /\ blocks \cap taken = {} /\ blocks \cup taken = 0 .. blocks_per_arena(d) - 1

(* The books of both allocators agree with what their users have, at every *)
(* step of either: pages marked, blocks listed, blocks counted.            *)
BooksExact == MarkedExact /\ ArenaExact

(* malloc(), realloc(), free() and palloc implement the allocator: what is *)
(* returned is large enough and overlaps nothing in use, and a piece keeps *)
(* its place and size until it is freed.                                   *)
AbstractAllocator ==
  INSTANCE Allocator WITH live <- {[start |-> PageSize * b.page + b.off, size |-> block_size(b), want |-> b.want] : b \in live}
ImplementsAllocator == AbstractAllocator!ASpec
=============================================================================
