--------------------------- MODULE Loader_proofs ---------------------------
(***************************************************************************)
(* The pages of loading processes (userprog/process.c, userprog/pagedir.c): *)
(* for any number of processes, any programs, any pools and any page size,  *)
(* each page in use is the directory or a table of one process, is mapped   *)
(* at one place of one process, or is being filled by one (PagesOwned).     *)
(* The argument: kown and uown say which page each role has - each          *)
(* directory, table, entry and each page being filled -, no page has two    *)
(* roles, and a segment under load lies within the user's addresses.        *)
(***************************************************************************)
EXTENDS Loader, FiniteSetTheorems, WellFoundedInduction, TLAPS

-----------------------------------------------------------------------------
(* Numbers.                                                                 *)

\* What the constants are assumed to be.
LEMMA Constants ==
    /\ PGSIZE \in Nat \ {0} /\ PTSPAN \in Nat \ {0} /\ PHYS_BASE \in Nat \ {0} /\ AddressSpace \in Nat \ {0}
    /\ PHYS_BASE < AddressSpace
    /\ \A name \in DOMAIN Programs : Programs[name] \in Elf32_Ehdr
    /\ KernelPages \subseteq Nat \ {0} /\ UserPages \subseteq Nat \ {0}
    /\ Absent \notin [page : Nat, writable : BOOLEAN]
BY LoaderAssumption

\* Every set of naturals that is not empty has a least element.
LEMMA LeastNat ==
    ASSUME NEW S, S \subseteq Nat, S # {}
    PROVE  Min(S) \in S
<1>1. \E x \in S : \A y \in S : ~(<<y, x>> \in OpToRel(<, Nat))
  BY NatLessThanWellFounded, WFMin
<1>2. PICK m \in S : \A y \in S : ~(<<y, m>> \in OpToRel(<, Nat))  BY <1>1
<1>3. \A y \in S : ~(y < m)  BY <1>2 DEF OpToRel
<1>4. \A y \in S : m <= y  BY <1>3
<1> QED  BY <1>4 DEF Min

\* Quotient and remainder are the only two numbers that divide.
LEMMA Divided ==
    ASSUME NEW x \in Nat, NEW d \in Nat \ {0}
    PROVE  /\ (x \div d) \in Nat /\ (x % d) \in 0 .. d - 1 /\ x = d * (x \div d) + (x % d)
           /\ d * (x \div d) \in Nat
<1>1. (x \div d) \in Nat /\ (x % d) \in 0 .. d - 1  OBVIOUS
<1>2. x = d * (x \div d) + (x % d)  BY SMTT(30)
<1> QED  BY <1>1, <1>2

\* A product grows with its factor.
LEMMA TimesGrows ==
    ASSUME NEW i \in Nat, NEW j \in Nat, NEW d \in Nat, i <= j
    PROVE  d * i <= d * j /\ d * i \in Nat /\ d * j \in Nat
<1>1. PICK k \in Nat : j = i + k
  <2>1. j - i \in Nat /\ j = i + (j - i)  OBVIOUS
  <2> QED  BY <2>1
<1>2. d * j = d * i + d * k /\ d * k \in Nat /\ d * i \in Nat  BY <1>1
<1> QED  BY <1>2

\* What is below a multiple has a smaller quotient.
LEMMA TimesOrder ==
    ASSUME NEW i \in Nat, NEW j \in Nat, NEW d \in Nat \ {0}, d * i < d * j
    PROVE  i < j
<1> SUFFICES ASSUME j <= i PROVE FALSE  OBVIOUS
<1>1. d * j <= d * i  BY TimesGrows
<1>2. d * j \in Nat /\ d * i \in Nat  OBVIOUS
<1> QED  BY <1>1, <1>2

LEMMA DividedOnce ==
    ASSUME NEW q \in Nat, NEW d \in Nat \ {0}, NEW r \in 0 .. d - 1
    PROVE  (d * q + r) \div d = q /\ (d * q + r) % d = r
<1>1. PICK x \in Nat : x = d * q + r  OBVIOUS
<1>2. PICK p \in Nat : p = x \div d  BY <1>1, Divided
<1>3. PICK s \in 0 .. d - 1 : s = x % d  BY <1>1, Divided
<1>4. x = d * p + s  BY <1>1, <1>2, <1>3, Divided
<1>5. d * (q + 1) = d * q + d /\ d * (p + 1) = d * p + d /\ d * q \in Nat /\ d * p \in Nat  OBVIOUS
<1>6. d * p < d * (q + 1) /\ d * q < d * (p + 1)
  <2>1. PICK y \in Nat, z \in Nat : y = d * q /\ z = d * p  BY <1>5
  <2>2. z + s = y + r  BY <1>1, <1>4, <2>1
  <2>3. z < y + d /\ y < z + d  BY <2>2
  <2> QED  BY <1>5, <2>1, <2>3
<1>7. p < q + 1 /\ q < p + 1  BY <1>6, TimesOrder
<1>8. p = q  BY <1>7
<1>9. s = r
  <2>1. PICK y \in Nat : y = d * q  BY <1>5
  <2> QED  BY <1>1, <1>4, <1>8, <2>1
<1> QED  BY <1>1, <1>2, <1>3, <1>8, <1>9

\* The user's addresses are whole tables of whole pages: page n is entry
\* n % Spt of table n \div Spt.
Spt == PTSPAN \div PGSIZE
Tabs == PHYS_BASE \div PTSPAN

LEMMA Layout ==
    /\ Spt \in Nat \ {0} /\ Tabs \in Nat \ {0}
    /\ PTSPAN = PGSIZE * Spt /\ PHYS_BASE = PTSPAN * Tabs /\ PHYS_BASE = PGSIZE * (Spt * Tabs)
    /\ DirEntries = 0 .. Tabs - 1 /\ TableEntries = 0 .. Spt - 1
<1> USE Constants
<1>1. PTSPAN % PGSIZE = 0 /\ PHYS_BASE % PTSPAN = 0  BY LoaderAssumption
<1>2. Spt \in Nat /\ Tabs \in Nat  BY Divided DEF Spt, Tabs
<1>3. PTSPAN = PGSIZE * Spt + (PTSPAN % PGSIZE)  BY Divided DEF Spt
<1>4. PHYS_BASE = PTSPAN * Tabs + (PHYS_BASE % PTSPAN)  BY Divided DEF Tabs
<1>5. PTSPAN = PGSIZE * Spt /\ PHYS_BASE = PTSPAN * Tabs
  <2>1. PGSIZE * Spt \in Nat /\ PTSPAN * Tabs \in Nat  BY <1>2
  <2> QED  BY <1>1, <1>3, <1>4, <2>1
<1>6. Spt # 0 /\ Tabs # 0
  <2>1. PGSIZE * 0 = 0 /\ PTSPAN * 0 = 0  OBVIOUS
  <2> QED  BY <1>5, <2>1
<1>7. PHYS_BASE = PGSIZE * (Spt * Tabs)
  <2>1. (PGSIZE * Spt) * Tabs = PGSIZE * (Spt * Tabs)  BY <1>2
  <2> QED  BY <1>5, <2>1
<1> QED  BY <1>2, <1>5, <1>6, <1>7 DEF DirEntries, TableEntries, Spt, Tabs

\* Page n of the user's addresses: where the page tables have it.
LEMMA WherePage ==
    ASSUME NEW n \in 0 .. Spt * Tabs - 1
    PROVE  /\ PdNo(PGSIZE * n) = n \div Spt /\ PtNo(PGSIZE * n) = n % Spt
           /\ n \div Spt \in DirEntries /\ n % Spt \in TableEntries
<1> USE Constants, Layout
<1>1. n \in Nat /\ Spt * Tabs \in Nat  OBVIOUS
<1>2. PICK e \in Nat, s \in 0 .. Spt - 1 : e = n \div Spt /\ s = n % Spt /\ n = Spt * e + s
  <2>1. /\ (n \div Spt) \in Nat /\ (n % Spt) \in 0 .. Spt - 1
        /\ n = Spt * (n \div Spt) + (n % Spt)
    <3>1. Spt \in Nat \ {0}  OBVIOUS
    <3> QED  BY ONLY <1>1, <3>1, Divided
  <2> QED  BY ONLY <2>1, Zenon
<1>3. PGSIZE * n = PTSPAN * e + PGSIZE * s
  <2>1. PGSIZE \in Nat /\ Spt \in Nat /\ e \in Nat /\ s \in Nat  BY <1>2
  <2>2. PGSIZE * (Spt * e + s) = (PGSIZE * Spt) * e + PGSIZE * s  BY ONLY <2>1
  <2> QED  BY <1>2, <2>2, Layout
<1>4. PGSIZE * s \in 0 .. PTSPAN - 1
  <2>1. PGSIZE * (s + 1) <= PGSIZE * Spt  BY <1>2, TimesGrows
  <2>2. PGSIZE * (s + 1) = PGSIZE * s + PGSIZE /\ PGSIZE * s \in Nat  BY <1>2
  <2> QED  BY <2>1, <2>2
<1>5. PdNo(PGSIZE * n) = e /\ (PGSIZE * n) % PTSPAN = PGSIZE * s
  <2>1. PICK r \in 0 .. PTSPAN - 1 : r = PGSIZE * s  BY <1>4
  <2>2. PTSPAN \in Nat \ {0} /\ e \in Nat  BY <1>2
  <2>3. (PTSPAN * e + r) \div PTSPAN = e /\ (PTSPAN * e + r) % PTSPAN = r
    BY ONLY <2>2, r \in 0 .. PTSPAN - 1, DividedOnce
  <2> QED  BY <1>3, <2>1, <2>3 DEF PdNo
<1>6. PtNo(PGSIZE * n) = s
  <2>1. (PGSIZE * s + 0) \div PGSIZE = s  BY <1>2, DividedOnce
  <2>2. PGSIZE * s + 0 = PGSIZE * s  BY <1>2
  <2> QED  BY <1>5, <2>1, <2>2 DEF PtNo
<1>7. e < Tabs
  <2>1. Spt * e < Spt * Tabs
    <3>1. PICK x \in Nat, y \in Nat : x = Spt * e /\ y = Spt * Tabs  BY <1>1, <1>2
    <3>2. n < y  BY <3>1
    <3>3. n = x + s /\ s \in Nat  BY <1>2, <3>1
    <3> QED  BY ONLY <3>1, <3>2, <3>3, n \in Nat
  <2> QED  BY <1>2, <2>1, TimesOrder
<1> QED  BY <1>2, <1>5, <1>6, <1>7

-----------------------------------------------------------------------------
(* Pages and their roles.                                                   *)

\* No page has two roles, and exactly the pages of D have one.
Exactly(f, D) ==
    /\ \A a, b \in DOMAIN f : f[a] = f[b] => a = b \/ f[a] = NoPage
    /\ D = {f[a] : a \in DOMAIN f} \ {NoPage}

\* A page that had no role gets one.
LEMMA RoleAdded ==
    ASSUME NEW f, NEW D, Exactly(f, D), NEW g, DOMAIN g = DOMAIN f, NEW a \in DOMAIN f, f[a] = NoPage,
           g[a] # NoPage, g[a] \notin D, \A b \in DOMAIN f : b # a => g[b] = f[b]
    PROVE  Exactly(g, D \cup {g[a]})
<1>1. \A b \in DOMAIN f : f[b] \in D \cup {NoPage}  BY DEF Exactly
<1>2. \A b \in DOMAIN f : b # a => g[b] # g[a]  BY <1>1
<1>3. D \cup {g[a]} = {g[b] : b \in DOMAIN g} \ {NoPage}  BY <1>1 DEF Exactly
<1> QED  BY <1>2, <1>3 DEF Exactly

\* Roles end: their pages have none any more.
LEMMA RolesEnd ==
    ASSUME NEW f, NEW D, Exactly(f, D), NEW g, DOMAIN g = DOMAIN f, NEW R, R \subseteq DOMAIN f,
           \A b \in DOMAIN f : g[b] = IF b \in R THEN NoPage ELSE f[b]
    PROVE  Exactly(g, D \ {f[b] : b \in R})
<1>1. \A b, c \in DOMAIN g : g[b] = g[c] => b = c \/ g[b] = NoPage  BY DEF Exactly
<1>2. ASSUME NEW x \in D \ {f[b] : b \in R} PROVE x \in {g[b] : b \in DOMAIN g} \ {NoPage}
  <2>1. PICK b \in DOMAIN f : f[b] = x /\ x # NoPage  BY <1>2 DEF Exactly
  <2> QED  BY <1>2, <2>1
<1>3. ASSUME NEW b \in DOMAIN g, g[b] # NoPage PROVE g[b] \in D \ {f[c] : c \in R}
  <2>1. b \notin R /\ g[b] = f[b]  BY <1>3
  <2>2. \A c \in R : f[c] # f[b]  BY <1>3, <2>1 DEF Exactly
  <2> QED  BY <1>3, <2>1, <2>2 DEF Exactly
<1> QED  BY <1>1, <1>2, <1>3 DEF Exactly

\* A page changes its role.
LEMMA RoleMoves ==
    ASSUME NEW f, NEW D, Exactly(f, D), NEW g, DOMAIN g = DOMAIN f,
           NEW a \in DOMAIN f, NEW b \in DOMAIN f, a # b, f[a] = NoPage, g[a] = f[b], g[b] = NoPage,
           \A c \in DOMAIN f : c # a /\ c # b => g[c] = f[c]
    PROVE  Exactly(g, D)
<1>1. \A c, d \in DOMAIN g : g[c] = g[d] => c = d \/ g[c] = NoPage
  <2> SUFFICES ASSUME NEW c \in DOMAIN g, NEW d \in DOMAIN g, g[c] = g[d], c # d, g[c] # NoPage PROVE FALSE
    OBVIOUS
  <2>1. c # b /\ d # b  OBVIOUS
  <2>2. CASE c = a  BY <2>1, <2>2 DEF Exactly
  <2>3. CASE d = a  BY <2>1, <2>3 DEF Exactly
  <2>4. CASE c # a /\ d # a  BY <2>1, <2>4 DEF Exactly
  <2> QED  BY <2>2, <2>3, <2>4
<1>2. ASSUME NEW x \in D PROVE x \in {g[c] : c \in DOMAIN g} \ {NoPage}
  <2>1. PICK c \in DOMAIN f : f[c] = x /\ x # NoPage  BY <1>2 DEF Exactly
  <2> QED  BY <2>1
<1>3. ASSUME NEW c \in DOMAIN g, g[c] # NoPage PROVE g[c] \in D
  BY <1>3 DEF Exactly
<1> QED  BY <1>1, <1>2, <1>3 DEF Exactly

\* The roles stay as they are.
LEMMA RolesStay ==
    ASSUME NEW f, NEW D, Exactly(f, D), NEW g, DOMAIN g = DOMAIN f, \A b \in DOMAIN f : g[b] = f[b]
    PROVE  Exactly(g, D)
BY DEF Exactly

-----------------------------------------------------------------------------
(* The invariant.                                                           *)

\* An entry of a page table, and where a process is.
Entry == [page : Nat \ {0}, writable : BOOLEAN]
Label == {"none", "create", "header", "segment", "read", "install", "build", "run", "exit"}
\* What a process keeps while it exists.
ProcRec(r) == r \in [pc : Label, command : {r.command}, pd : Nat, i : Nat \ {0}, seg : {r.seg}, page : Nat, esp : {r.esp}]
\* From address VA on, TOTAL bytes are whole pages of P bytes, below K pages.
Whole(P, K, va, total) ==
    \E m \in Nat, n \in Nat \ {0} : va = P * m /\ total = P * n /\ m + n <= K
\* What is left of a segment is a whole number of pages, all of them the user's.
SegOK(g) ==
    /\ g \in [ofs : Nat, va : Nat, writable : BOOLEAN, read : Nat, zero : Nat]
    /\ Whole(PGSIZE, Spt * Tabs, g.va, g.read + g.zero)

\* Where a process is and what it has there.
ProcAt(r) ==
    /\ r.pc \in Label
    /\ r.pc # "none" =>
         /\ ProcRec(r)
         /\ r.pc = "create" => r.pd = NoPage
         /\ r.pc \in {"header", "segment", "read", "install", "build", "run"} =>
              r.pd # NoPage /\ find_filename(r.command) \in DOMAIN Programs
         /\ r.page # NoPage <=> r.pc \in {"read", "install"}
         /\ r.pc \in {"segment", "read", "install"} => SegOK(r.seg)
ProcsAt == ps = [p \in Task |-> ps[p]] /\ \A p \in Task : ProcAt(ps[p])

\* The pages of a process, NoPage where it has none.
DirOf(p) == IF HasDir(p) THEN ps[p].pd ELSE NoPage
TableOf(p, e) == IF HasDir(p) THEN kpage[ps[p].pd][e] ELSE NoPage
EntryOf(p, e, s) == IF TableOf(p, e) = NoPage THEN Absent ELSE kpage[TableOf(p, e)][s]
MapOf(p, e, s) == IF EntryOf(p, e, s) = Absent THEN NoPage ELSE EntryOf(p, e, s).page
FillOf(p) == IF ps[p].pc = "none" THEN NoPage ELSE ps[p].page

\* The roles of pages of either pool, and the page each has.
KRole == ({"dir"} \X Task \X {0}) \cup ({"table"} \X Task \X DirEntries)
URole == ({"map"} \X Task \X DirEntries \X TableEntries) \cup ({"fill"} \X Task \X {0} \X {0})
kown == [r \in KRole |-> IF r[1] = "dir" THEN DirOf(r[2]) ELSE TableOf(r[2], r[3])]
uown == [r \in URole |-> IF r[1] = "map" THEN MapOf(r[2], r[3], r[4]) ELSE FillOf(r[2])]

\* Directories hold pages, tables hold entries.
KTyped ==
    /\ DOMAIN kpage \subseteq KernelPages /\ kpage = [k \in DOMAIN kpage |-> kpage[k]]
    /\ \A p \in Task : HasDir(p) => kpage[ps[p].pd] \in [DirEntries -> Nat]
    /\ \A p \in Task, e \in DirEntries : TableOf(p, e) # NoPage => kpage[TableOf(p, e)] \in [TableEntries -> {Absent} \cup Entry]
UTyped == DOMAIN upage \subseteq UserPages /\ upage = [u \in DOMAIN upage |-> upage[u]]

\* The inductive invariant.
LInv == ProcsAt /\ KTyped /\ UTyped /\ Exactly(kown, DOMAIN kpage) /\ Exactly(uown, DOMAIN upage)

-----------------------------------------------------------------------------
(* What the roles are.                                                      *)

\* The roles of the kernel's pages and of the users', one by one.
KRolesAre ==
    /\ DOMAIN kown = KRole
    /\ \A p \in Task : <<"dir", p, 0>> \in KRole /\ kown[<<"dir", p, 0>>] = DirOf(p)
    /\ \A p \in Task, e \in DirEntries : <<"table", p, e>> \in KRole /\ kown[<<"table", p, e>>] = TableOf(p, e)
URolesAre ==
    /\ DOMAIN uown = URole
    /\ \A p \in Task : <<"fill", p, 0, 0>> \in URole /\ uown[<<"fill", p, 0, 0>>] = FillOf(p)
    /\ \A p \in Task, e \in DirEntries, s \in TableEntries :
         <<"map", p, e, s>> \in URole /\ uown[<<"map", p, e, s>>] = MapOf(p, e, s)

LEMMA KRoleIs ==
    ASSUME NEW r \in KRole
    PROVE  \/ \E p \in Task : r = <<"dir", p, 0>>
           \/ \E p \in Task, e \in DirEntries : r = <<"table", p, e>>
BY DEF KRole

LEMMA URoleIs ==
    ASSUME NEW r \in URole
    PROVE  \/ \E p \in Task : r = <<"fill", p, 0, 0>>
           \/ \E p \in Task, e \in DirEntries, s \in TableEntries : r = <<"map", p, e, s>>
BY DEF URole

\* So it is before a step and after it.
LEMMA Roles == KRolesAre /\ URolesAre /\ KRolesAre' /\ URolesAre'
<1>1. /\ \A p \in Task : <<"dir", p, 0>> \in KRole
      /\ \A p \in Task, e \in DirEntries : <<"table", p, e>> \in KRole
  BY DEF KRole
<1>2. /\ \A p \in Task : <<"fill", p, 0, 0>> \in URole
      /\ \A p \in Task, e \in DirEntries, s \in TableEntries : <<"map", p, e, s>> \in URole
  BY DEF URole
<1>3. KRolesAre
  <2>1. DOMAIN kown = KRole  BY DEF kown
  <2>2. \A p \in Task : kown[<<"dir", p, 0>>] = DirOf(p)  BY <1>1 DEF kown
  <2>3. \A p \in Task, e \in DirEntries : kown[<<"table", p, e>>] = TableOf(p, e)  BY <1>1 DEF kown
  <2> QED  BY <1>1, <2>1, <2>2, <2>3 DEF KRolesAre
<1>4. URolesAre
  <2>1. DOMAIN uown = URole  BY DEF uown
  <2>2. \A p \in Task : uown[<<"fill", p, 0, 0>>] = FillOf(p)  BY <1>2 DEF uown
  <2>3. \A p \in Task, e \in DirEntries, s \in TableEntries : uown[<<"map", p, e, s>>] = MapOf(p, e, s)
    BY <1>2 DEF uown
  <2> QED  BY <1>2, <2>1, <2>2, <2>3 DEF URolesAre
<1>5. KRolesAre'
  <2>1. DOMAIN kown' = KRole  BY DEF kown
  <2>2. \A p \in Task : kown'[<<"dir", p, 0>>] = DirOf(p)'  BY <1>1 DEF kown
  <2>3. \A p \in Task, e \in DirEntries : kown'[<<"table", p, e>>] = TableOf(p, e)'  BY <1>1 DEF kown
  <2> QED  BY <1>1, <2>1, <2>2, <2>3 DEF KRolesAre
<1>6. URolesAre'
  <2>1. DOMAIN uown' = URole  BY DEF uown
  <2>2. \A p \in Task : uown'[<<"fill", p, 0, 0>>] = FillOf(p)'  BY <1>2 DEF uown
  <2>3. \A p \in Task, e \in DirEntries, s \in TableEntries : uown'[<<"map", p, e, s>>] = MapOf(p, e, s)'
    BY <1>2 DEF uown
  <2> QED  BY <1>2, <2>1, <2>2, <2>3 DEF URolesAre
<1> QED  BY <1>3, <1>4, <1>5, <1>6

\* A page in use has a role, and two roles have two pages.
LEMMA KernelApart ==
    ASSUME LInv
    PROVE  /\ \A p \in Task : DirOf(p) # NoPage => DirOf(p) \in DOMAIN kpage
           /\ \A p \in Task, e \in DirEntries : TableOf(p, e) # NoPage => TableOf(p, e) \in DOMAIN kpage
           /\ \A p, q \in Task : DirOf(p) = DirOf(q) => p = q \/ DirOf(p) = NoPage
           /\ \A p, q \in Task, e \in DirEntries : DirOf(p) = TableOf(q, e) => DirOf(p) = NoPage
           /\ \A p, q \in Task, e, f \in DirEntries :
                TableOf(p, e) = TableOf(q, f) => (p = q /\ e = f) \/ TableOf(p, e) = NoPage
<1> DEFINE dir(p) == <<"dir", p, 0>>
           table(p, e) == <<"table", p, e>>
<1>1. DOMAIN kown = KRole  BY Roles DEF KRolesAre
<1>2. \A p \in Task : dir(p) \in KRole /\ kown[dir(p)] = DirOf(p)  BY Roles DEF KRolesAre
<1>3. \A p \in Task, e \in DirEntries : table(p, e) \in KRole /\ kown[table(p, e)] = TableOf(p, e)
  BY Roles DEF KRolesAre
<1>4. /\ \A a, b \in KRole : kown[a] = kown[b] => a = b \/ kown[a] = NoPage
      /\ \A a \in KRole : kown[a] # NoPage => kown[a] \in DOMAIN kpage
  BY <1>1 DEF LInv, Exactly
<1>5. \A p, q \in Task, e, f \in DirEntries :
        /\ dir(p) = dir(q) => p = q
        /\ dir(p) # table(q, e)
        /\ table(p, e) = table(q, f) => p = q /\ e = f
  OBVIOUS
<1>6. \A p, q \in Task : dir(p) = dir(q) => p = q  OBVIOUS
<1> HIDE DEF dir, table
<1> QED  BY <1>2, <1>3, <1>4, <1>5, <1>6

LEMMA UserApart ==
    ASSUME LInv
    PROVE  /\ \A p \in Task : FillOf(p) # NoPage => FillOf(p) \in DOMAIN upage
           /\ \A p \in Task, e \in DirEntries, s \in TableEntries : MapOf(p, e, s) # NoPage => MapOf(p, e, s) \in DOMAIN upage
           /\ \A p, q \in Task : FillOf(p) = FillOf(q) => p = q \/ FillOf(p) = NoPage
           /\ \A p, q \in Task, e \in DirEntries, s \in TableEntries : FillOf(p) = MapOf(q, e, s) => FillOf(p) = NoPage
           /\ \A p, q \in Task, e, f \in DirEntries, s, t \in TableEntries :
                MapOf(p, e, s) = MapOf(q, f, t) => (p = q /\ e = f /\ s = t) \/ MapOf(p, e, s) = NoPage
<1> DEFINE fill(p) == <<"fill", p, 0, 0>>
           map(p, e, s) == <<"map", p, e, s>>
<1>1. DOMAIN uown = URole  BY Roles DEF URolesAre
<1>2. \A p \in Task : fill(p) \in URole /\ uown[fill(p)] = FillOf(p)  BY Roles DEF URolesAre
<1>3. \A p \in Task, e \in DirEntries, s \in TableEntries : map(p, e, s) \in URole /\ uown[map(p, e, s)] = MapOf(p, e, s)
  BY Roles DEF URolesAre
<1>4. /\ \A a, b \in URole : uown[a] = uown[b] => a = b \/ uown[a] = NoPage
      /\ \A a \in URole : uown[a] # NoPage => uown[a] \in DOMAIN upage
  BY <1>1 DEF LInv, Exactly
<1>5. \A p, q \in Task, e, f \in DirEntries, s, t \in TableEntries :
        /\ fill(p) # map(q, e, s)
        /\ map(p, e, s) = map(q, f, t) => p = q /\ e = f /\ s = t
  OBVIOUS
<1>6. \A p, q \in Task : fill(p) = fill(q) => p = q  OBVIOUS
<1> HIDE DEF fill, map
<1> QED  BY <1>2, <1>3, <1>4, <1>5, <1>6

\* What is mapped is a page, what is not is none.
LEMMA EntryIs ==
    ASSUME KTyped, NEW p \in Task, NEW e \in DirEntries, NEW s \in TableEntries
    PROVE  /\ EntryOf(p, e, s) \in {Absent} \cup Entry /\ Absent \notin Entry
           /\ MapOf(p, e, s) = NoPage <=> EntryOf(p, e, s) = Absent
           /\ MapOf(p, e, s) \in Nat
<1>1. Absent \notin Entry  BY Constants DEF Entry
<1>2. EntryOf(p, e, s) \in {Absent} \cup Entry  BY DEF KTyped, EntryOf
<1> QED  BY <1>1, <1>2 DEF MapOf, Entry, NoPage

\* The first free page of a pool.
LEMMA FirstFree ==
    ASSUME NEW pool, pool \subseteq Nat \ {0}, NEW used
    PROVE  GetPage(pool, used) # NoPage => GetPage(pool, used) \in pool \ DOMAIN used
<1>1. CASE pool \subseteq DOMAIN used  BY <1>1 DEF GetPage
<1>2. CASE ~(pool \subseteq DOMAIN used)
  <2>1. Min(pool \ DOMAIN used) \in pool \ DOMAIN used
    <3>1. pool \ DOMAIN used \subseteq Nat /\ pool \ DOMAIN used # {}  BY <1>2
    <3> QED  BY <3>1, LeastNat
  <2> QED  BY <1>2, <2>1 DEF GetPage
<1> QED  BY <1>1, <1>2

-----------------------------------------------------------------------------
(* What a step does to the state, in parts.                                 *)

\* Process p goes on as r, the others stay where they are.
LEMMA ProcStep ==
    ASSUME ProcsAt, NEW p \in Task, NEW r, ps' = [ps EXCEPT ![p] = r], ProcAt(r)
    PROVE  ProcsAt' /\ ps'[p] = r /\ \A q \in Task : q # p => ps'[q] = ps[q]
<1>1. ps = [q \in Task |-> ps[q]]  BY DEF ProcsAt
<1>2. ps' = [q \in Task |-> IF q = p THEN r ELSE ps[q]]  BY <1>1
<1>3. ps'[p] = r /\ \A q \in Task : q # p => ps'[q] = ps[q]  BY <1>2
<1>4. ps' = [q \in Task |-> ps'[q]]  BY <1>2
<1> QED  BY <1>3, <1>4 DEF ProcsAt

\* No process gets or gives up its directory.
DirsStay == \A q \in Task : (HasDir(q)' <=> HasDir(q)) /\ (HasDir(q) => ps'[q].pd = ps[q].pd)
\* No page is mapped or unmapped.
EntriesStay == \A q \in Task, e \in DirEntries, s \in TableEntries : EntryOf(q, e, s)' = EntryOf(q, e, s)

\* The kernel's pages are not touched.
LEMMA KernelStays ==
    ASSUME LInv, DirsStay, kpage' = kpage
    PROVE  KTyped' /\ Exactly(kown, DOMAIN kpage)' /\ EntriesStay
<1>1. \A q \in Task : DirOf(q)' = DirOf(q) /\ \A e \in DirEntries : TableOf(q, e)' = TableOf(q, e)
  BY DEF DirsStay, DirOf, TableOf
<1>2. EntriesStay  BY <1>1 DEF EntriesStay, EntryOf
<1>3. KTyped'  BY <1>1 DEF LInv, KTyped, DirsStay
<1>4. \A r \in KRole : kown'[r] = kown[r]
  BY <1>1, Roles, KRoleIs DEF KRolesAre
<1>5. Exactly(kown', DOMAIN kpage)
  <2>1. DOMAIN kown' = KRole /\ DOMAIN kown = KRole /\ Exactly(kown, DOMAIN kpage)
    BY Roles DEF KRolesAre, LInv
  <2> QED  BY ONLY <1>4, <2>1, RolesStay
<1> QED  BY <1>2, <1>3, <1>5 DEF Exactly

\* The maps of roles that are not entries and of unchanged entries stay.
LEMMA MapsStay ==
    ASSUME EntriesStay
    PROVE  \A q \in Task, e \in DirEntries, s \in TableEntries : MapOf(q, e, s)' = MapOf(q, e, s)
BY DEF EntriesStay, MapOf

\* The users' pages stay with their owners.
LEMMA UsersStay ==
    ASSUME LInv, EntriesStay, \A q \in Task : FillOf(q)' = FillOf(q), UTyped', DOMAIN upage' = DOMAIN upage
    PROVE  Exactly(uown, DOMAIN upage)'
<1>1. \A r \in URole : uown'[r] = uown[r]
  BY MapsStay, Roles, URoleIs DEF URolesAre
<1>2. DOMAIN uown' = URole /\ DOMAIN uown = URole /\ Exactly(uown, DOMAIN upage)
  BY Roles DEF URolesAre, LInv
<1>3. Exactly(uown', DOMAIN upage)  BY ONLY <1>1, <1>2, RolesStay
<1> QED  BY <1>3 DEF Exactly

\* A process takes a page to fill.
LEMMA UserTakes ==
    ASSUME LInv, EntriesStay, NEW p \in Task, FillOf(p) = NoPage, FillOf(p)' # NoPage,
           FillOf(p)' \in UserPages \ DOMAIN upage, \A q \in Task : q # p => FillOf(q)' = FillOf(q),
           NEW c, upage' = Put(upage, FillOf(p)', c)
    PROVE  UTyped' /\ Exactly(uown, DOMAIN upage)'
<1>1. PICK a : a = <<"fill", p, 0, 0>>  OBVIOUS
<1>2. /\ a \in URole /\ uown[a] = NoPage /\ uown'[a] = FillOf(p)'
      /\ DOMAIN uown' = URole /\ DOMAIN uown = URole /\ Exactly(uown, DOMAIN upage)
  BY <1>1, Roles DEF URolesAre, LInv
<1>3. \A r \in URole : r # a => uown'[r] = uown[r]
  <2> SUFFICES ASSUME NEW r \in URole, r # a PROVE uown'[r] = uown[r]  OBVIOUS
  <2>1. CASE \E q \in Task : r = <<"fill", q, 0, 0>>  BY <1>1, <2>1, Roles DEF URolesAre
  <2>2. CASE \E q \in Task, e \in DirEntries, s \in TableEntries : r = <<"map", q, e, s>>
    BY <2>2, MapsStay, Roles DEF URolesAre
  <2> QED  BY <2>1, <2>2, URoleIs
<1>4. Exactly(uown', DOMAIN upage \cup {uown'[a]})
  <2>1. uown'[a] # NoPage /\ uown'[a] \notin DOMAIN upage  BY <1>2
  <2> QED  BY ONLY <1>2, <1>3, <2>1, RoleAdded
<1>5. DOMAIN upage' = DOMAIN upage \cup {uown'[a]} /\ upage' = [u \in DOMAIN upage' |-> upage'[u]]
  BY <1>2 DEF Put
<1>6. UTyped'  BY <1>2, <1>5 DEF UTyped, LInv
<1> QED  BY <1>4, <1>5, <1>6 DEF Exactly

\* A process gives back the page it was filling.
LEMMA UserGives ==
    ASSUME LInv, EntriesStay, NEW p \in Task, FillOf(p)' = NoPage,
           \A q \in Task : q # p => FillOf(q)' = FillOf(q),
           upage' = Drop(upage, {FillOf(p)})
    PROVE  UTyped' /\ Exactly(uown, DOMAIN upage)'
<1>1. PICK a : a = <<"fill", p, 0, 0>>  OBVIOUS
<1>2. /\ a \in URole /\ uown[a] = FillOf(p) /\ uown'[a] = NoPage
      /\ DOMAIN uown' = URole /\ DOMAIN uown = URole /\ Exactly(uown, DOMAIN upage)
  BY <1>1, Roles DEF URolesAre, LInv
<1>3. \A r \in URole : r # a => uown'[r] = uown[r]
  <2> SUFFICES ASSUME NEW r \in URole, r # a PROVE uown'[r] = uown[r]  OBVIOUS
  <2>1. CASE \E q \in Task : r = <<"fill", q, 0, 0>>  BY <1>1, <2>1, Roles DEF URolesAre
  <2>2. CASE \E q \in Task, e \in DirEntries, s \in TableEntries : r = <<"map", q, e, s>>
    BY <2>2, MapsStay, Roles DEF URolesAre
  <2> QED  BY <2>1, <2>2, URoleIs
<1>4. PICK R : R = {a}  OBVIOUS
<1>5. R \subseteq URole /\ \A r \in URole : uown'[r] = IF r \in R THEN NoPage ELSE uown[r]
  BY <1>2, <1>3, <1>4
<1>6. Exactly(uown', DOMAIN upage \ {uown[b] : b \in R})
  BY ONLY <1>2, <1>5, RolesEnd
<1>7. {uown[b] : b \in R} = {FillOf(p)}  BY <1>2, <1>4
<1>8. DOMAIN upage' = DOMAIN upage \ {FillOf(p)} /\ upage' = [u \in DOMAIN upage' |-> upage'[u]]
  BY DEF Drop
<1>9. UTyped'  BY <1>8 DEF UTyped, LInv
<1> QED  BY <1>6, <1>7, <1>8, <1>9 DEF Exactly

-----------------------------------------------------------------------------
(* The steps of load() that map nothing.                                    *)

\* A process that exists has the fields of one, and goes on as one.
LEMMA RecIs ==
    ASSUME LInv, NEW p \in Task, ps[p].pc # "none"
    PROVE  ProcRec(ps[p]) /\ ProcAt(ps[p]) /\ ps[p].pd \in Nat /\ ps[p].page \in Nat /\ ps[p].i \in Nat \ {0}
BY DEF LInv, ProcsAt, ProcAt, ProcRec

LEMMA RecGoes ==
    ASSUME NEW r, ProcRec(r), NEW label \in Label, NEW n, n = [r EXCEPT !.pc = label]
    PROVE  /\ ProcRec(n) /\ n.pc = label
           /\ n.command = r.command /\ n.pd = r.pd /\ n.i = r.i /\ n.seg = r.seg /\ n.page = r.page
BY DEF ProcRec

\* A step of one process that leaves its directory alone.
LEMMA OnesStep ==
    ASSUME LInv, NEW p \in Task, NEW r, ps' = [ps EXCEPT ![p] = r], ProcAt(r),
           r.pc # "none", ps[p].pc # "none" => r.pd = ps[p].pd, ps[p].pc = "none" => r.pd = NoPage
    PROVE  /\ ProcsAt' /\ DirsStay /\ ps'[p] = r
           /\ FillOf(p)' = r.page /\ \A q \in Task : q # p => FillOf(q)' = FillOf(q)
<1>1. ProcsAt' /\ ps'[p] = r /\ \A q \in Task : q # p => ps'[q] = ps[q]  BY ProcStep DEF LInv
<1>2. HasDir(p)' <=> HasDir(p)  BY <1>1 DEF HasDir
<1>3. HasDir(p) => ps'[p].pd = ps[p].pd  BY <1>1 DEF HasDir
<1>4. DirsStay  BY <1>1, <1>2, <1>3 DEF DirsStay, HasDir
<1> QED  BY <1>1, <1>4 DEF FillOf

\* A step that touches no page.
LEMMA QuietStep ==
    ASSUME LInv, NEW p \in Task, NEW r, ps' = [ps EXCEPT ![p] = r], ProcAt(r),
           r.pc # "none", ps[p].pc # "none" => r.pd = ps[p].pd, ps[p].pc = "none" => r.pd = NoPage,
           FillOf(p) = r.page, kpage' = kpage, UTyped', DOMAIN upage' = DOMAIN upage
    PROVE  LInv'
<1>1. /\ ProcsAt' /\ DirsStay
      /\ FillOf(p)' = FillOf(p) /\ \A q \in Task : q # p => FillOf(q)' = FillOf(q)
  BY OnesStep
<1>2. KTyped' /\ Exactly(kown, DOMAIN kpage)' /\ EntriesStay  BY <1>1, KernelStays
<1>3. Exactly(uown, DOMAIN upage)'  BY <1>1, <1>2, UsersStay
<1> QED  BY <1>1, <1>2, <1>3 DEF LInv

\* exec() of a command line begins.
LEMMA StartKeeps ==
    ASSUME LInv, NEW p \in Task, NEW command \in Commands, Start(p, command) PROVE LInv'
<1>1. PICK r : r = [pc |-> "create", command |-> command, pd |-> NoPage, i |-> 1,
                    seg |-> Absent, page |-> NoPage, esp |-> 0]
  OBVIOUS
<1>2. ps[p].pc = "none" /\ ps' = [ps EXCEPT ![p] = r] /\ kpage' = kpage /\ upage' = upage  BY <1>1 DEF Start
<1>3. ProcRec(r) /\ r.pc = "create" /\ r.pd = NoPage /\ r.page = NoPage  BY <1>1 DEF ProcRec, Label, NoPage
<1>4. ProcAt(r)  BY <1>3 DEF ProcAt, Label
<1>5. UTyped'  BY <1>2 DEF UTyped, LInv
<1>6. FillOf(p) = NoPage  BY <1>2 DEF FillOf
<1> QED  BY <1>2, <1>3, <1>4, <1>5, <1>6, QuietStep

\* A process goes where its page and directory suit.
LEMMA GotoStep ==
    ASSUME LInv, NEW p \in Task, ps[p].pc # "none", NEW label \in Label, label # "none",
           ps' = [ps EXCEPT ![p] = [ps[p] EXCEPT !.pc = label]], kpage' = kpage, UTyped', DOMAIN upage' = DOMAIN upage,
           label = "exit" => ps[p].page = NoPage,
           label # "exit" => /\ label \in {"header", "install", "build", "run"}
                             /\ ps[p].pc \in {"header", "segment", "read", "install", "build", "run"}
                             /\ ps[p].page # NoPage <=> label = "install"
                             /\ label = "install" => SegOK(ps[p].seg)
    PROVE  LInv'
<1>1. PICK r, n : r = ps[p] /\ n = [r EXCEPT !.pc = label]  OBVIOUS
<1>2. ProcRec(r) /\ ProcAt(r)  BY <1>1, RecIs
<1>3. /\ ProcRec(n) /\ n.pc = label
      /\ n.command = r.command /\ n.pd = r.pd /\ n.i = r.i /\ n.seg = r.seg /\ n.page = r.page
  BY <1>1, <1>2, RecGoes
<1>4. ProcAt(n)
  <2>1. CASE label = "exit"  BY <1>1, <1>2, <1>3, <2>1 DEF ProcAt
  <2>2. CASE label # "exit"  BY <1>1, <1>2, <1>3, <2>2 DEF ProcAt
  <2> QED  BY <2>1, <2>2
<1>5. FillOf(p) = n.page  BY <1>1, <1>3 DEF FillOf
<1> QED  BY <1>1, <1>3, <1>4, <1>5, QuietStep

\* A failed load keeps what it has for process_exit().
LEMMA FailKeeps ==
    ASSUME LInv, NEW p \in Task, ps[p].pc # "none", ps[p].page = NoPage, Fail(p), kpage' = kpage, upage' = upage
    PROVE  LInv'
<1>1. ps' = [ps EXCEPT ![p] = [ps[p] EXCEPT !.pc = "exit"]]  BY DEF Fail, Goto
<1>2. UTyped' /\ DOMAIN upage' = DOMAIN upage  BY DEF UTyped, LInv
<1> QED  BY <1>1, <1>2, GotoStep DEF Label

\* A program header of the file is one.
LEMMA HeaderIs ==
    ASSUME LInv, NEW p \in Task, ps[p].pc = "header", ps[p].i <= Len(Program(p).headers)
    PROVE  ElfHeader(p) \in Elf32_Phdr
<1>1. /\ find_filename(ps[p].command) \in DOMAIN Programs /\ ps[p].i \in Nat \ {0}
  BY RecIs DEF ProcAt
<1>2. Program(p) \in Elf32_Ehdr  BY <1>1, Constants DEF Program
<1>3. PICK headers \in Seq(Elf32_Phdr) : headers = Program(p).headers  BY <1>2 DEF Elf32_Ehdr
<1>4. ps[p].i \in 1 .. Len(headers)  BY <1>1, <1>3
<1>5. headers[ps[p].i] \in Elf32_Phdr  BY <1>4
<1> QED  BY <1>3, <1>5 DEF ElfHeader

\* A sum that was reduced and is not smaller than its first term was not reduced.
LEMMA NotWrapped ==
    ASSUME NEW a \in Nat, NEW b \in Nat, NEW w \in Nat \ {0}, a < w, b < w, (a + b) % w >= a
    PROVE  (a + b) % w = a + b \/ b = 0
<1>1. PICK x \in Nat : x = a + b  OBVIOUS
<1>2. CASE x < w  BY <1>1, <1>2
<1>3. CASE x >= w
  <2>1. PICK y \in 0 .. w - 1 : y = x - w  BY <1>1, <1>3
  <2>2. w \in Nat \ {0} /\ 1 \in Nat  OBVIOUS
  <2>3. (w * 1 + y) % w = y  BY ONLY <2>2, y \in 0 .. w - 1, DividedOnce
  <2>4. w * 1 + y = x  BY <1>1, <2>1
  <2>5. x % w = y  BY <2>3, <2>4
  <2> QED  BY <1>1, <2>1, <2>5
<1> QED  BY <1>1, <1>2, <1>3

\* The pages of b bytes from address a on are whole pages below K pages.
Spans(P, K, a, b) ==
    \E m \in Nat, n \in Nat \ {0} :
      /\ a - (a % P) = P * m /\ (((a % P) + b + P - 1) \div P) * P = P * n
      /\ m + n <= K /\ (a % P) \in 0 .. P - 1 /\ (a % P) + b <= P * n

LEMMA PagesSpanned ==
    ASSUME NEW P \in Nat \ {0}, NEW K \in Nat, NEW a \in Nat, NEW b \in Nat \ {0}, a + b < P * K
    PROVE  Spans(P, K, a, b)
<1>1. PICK m \in Nat, o \in 0 .. P - 1 : o = a % P /\ a = P * m + o
  <2>1. (a \div P) \in Nat /\ (a % P) \in 0 .. P - 1 /\ a = P * (a \div P) + (a % P)
    BY ONLY a \in Nat, P \in Nat \ {0}, Divided
  <2> QED  BY ONLY <2>1, Zenon
<1>2. PICK u \in Nat : u = P * m  OBVIOUS
<1>3. a = u + o  BY <1>1, <1>2
<1>4. PICK x \in Nat \ {0} : x = o + b  OBVIOUS
<1>5. x + P - 1 \in Nat  OBVIOUS
<1>6. PICK n \in Nat, r \in 0 .. P - 1 : n = (x + P - 1) \div P /\ x + P - 1 = P * n + r
  BY <1>5, Divided
<1>7. PICK y \in Nat : y = P * n /\ y = n * P /\ (n = 0 => y = 0)  OBVIOUS
<1>8. x + P - 1 = y + r  BY <1>6, <1>7
<1>9. x <= y /\ n # 0  BY <1>7, <1>8
<1>10. PICK k \in Nat, z \in Nat : n = k + 1 /\ z = P * k /\ y = z + P
  <2>1. n - 1 \in Nat /\ n = (n - 1) + 1  BY <1>9
  <2>2. P * n = P * (n - 1) + P /\ P * (n - 1) \in Nat  BY <2>1
  <2> QED  BY <1>7, <2>1, <2>2
<1>11. z < x  BY <1>8, <1>10
<1>12. m + n <= K
  <2>1. P * (m + k) = u + z  BY <1>2, <1>10
  <2>2. PICK w \in Nat : w = P * K  OBVIOUS
  <2>3. u + x < w  BY <1>3, <1>4, <2>2
  <2>4. P * (m + k) < P * K  BY <1>11, <2>1, <2>2, <2>3
  <2>5. m + k \in Nat  OBVIOUS
  <2>6. m + k < K  BY ONLY <2>4, <2>5, K \in Nat, P \in Nat \ {0}, TimesOrder
  <2> QED  BY <1>10, <2>6
<1>13. a - (a % P) = P * m  BY <1>1, <1>2, <1>3
<1>14. (((a % P) + b + P - 1) \div P) * P = P * n
  <2>1. (a % P) + b + P - 1 = x + P - 1  BY <1>1, <1>4
  <2>2. ((a % P) + b + P - 1) \div P = n  BY <1>6, <2>1
  <2> QED  BY <1>7, <2>2
<1>15. (a % P) \in 0 .. P - 1 /\ (a % P) + b <= P * n  BY <1>1, <1>4, <1>7, <1>9
<1>16. n \in Nat \ {0}  BY <1>9
<1> QED  BY <1>12, <1>13, <1>14, <1>15, <1>16 DEF Spans

\* validate_segment() lets through only segments of the user's addresses.
LEMMA SegmentIs ==
    ASSUME NEW h \in Elf32_Phdr, h.type = "load", NEW length, validate_segment(h, length)
    PROVE  SegOK(Segment(h))
<1>0. /\ PGSIZE \in Nat \ {0} /\ PHYS_BASE \in Nat /\ AddressSpace \in Nat \ {0} /\ PHYS_BASE < AddressSpace
      /\ Spt * Tabs \in Nat /\ PHYS_BASE = PGSIZE * (Spt * Tabs)
  BY Constants, Layout
<1>1. h \in [type : {"load"}, offset : Word, vaddr : Word, filesz : Word, memsz : Word, writable : BOOLEAN]
  BY DEF Elf32_Phdr
<1>2. /\ h.offset \in Nat /\ h.vaddr \in Nat /\ h.filesz \in Nat /\ h.memsz \in Nat
      /\ h.writable \in BOOLEAN /\ h.vaddr < AddressSpace /\ h.memsz < AddressSpace
  BY <1>0, <1>1 DEF Word
<1>3. PICK a \in Nat, b \in Nat \ {0}, f \in Nat, c \in Nat, w \in BOOLEAN :
        a = h.vaddr /\ b = h.memsz /\ f = h.filesz /\ c = h.offset /\ w = h.writable
  BY <1>2 DEF validate_segment
<1>4. b >= f /\ a < PHYS_BASE /\ (a + b) % AddressSpace < PHYS_BASE /\ (a + b) % AddressSpace >= a
  BY <1>3 DEF validate_segment, IsUser
<1>5. a + b < PHYS_BASE
  <2>1. a < AddressSpace /\ b < AddressSpace  BY <1>2, <1>3
  <2>2. (a + b) % AddressSpace = a + b \/ b = 0  BY ONLY <1>0, <1>4, <2>1, a \in Nat, b \in Nat \ {0}, NotWrapped
  <2> QED  BY <1>4, <2>2
<1>6. PICK m \in Nat, n \in Nat \ {0} :
        /\ a - (a % PGSIZE) = PGSIZE * m /\ (((a % PGSIZE) + b + PGSIZE - 1) \div PGSIZE) * PGSIZE = PGSIZE * n
        /\ m + n <= Spt * Tabs /\ (a % PGSIZE) \in 0 .. PGSIZE - 1 /\ (a % PGSIZE) + b <= PGSIZE * n
  <2>1. PICK K \in Nat : K = Spt * Tabs /\ PHYS_BASE = PGSIZE * K  BY <1>0
  <2>2. a + b < PGSIZE * K  BY <1>5, <2>1
  <2>3. PGSIZE \in Nat \ {0}  BY <1>0
  <2>4. Spans(PGSIZE, K, a, b)
    BY ONLY <2>2, <2>3, a \in Nat, b \in Nat \ {0}, K \in Nat, PagesSpanned
  <2>5. Spans(PGSIZE, Spt * Tabs, a, b)  BY ONLY <2>1, <2>4, Zenon
  <2> QED  BY ONLY <2>5, Zenon DEF Spans
<1>7. PICK o \in Nat, u \in Nat, v \in Nat : o = a % PGSIZE /\ u = PGSIZE * m /\ v = PGSIZE * n
  BY <1>0, <1>6
<1>8. o + b <= v  BY <1>6, <1>7
<1>9. PICK read \in Nat : read = (IF f > 0 THEN o + f ELSE 0) /\ read <= v  BY <1>4, <1>8
<1>10. c - (c % PGSIZE) \in Nat
  <2>1. (c % PGSIZE) \in 0 .. PGSIZE - 1 /\ c = PGSIZE * (c \div PGSIZE) + (c % PGSIZE) /\ PGSIZE * (c \div PGSIZE) \in Nat
    BY ONLY <1>0, c \in Nat, Divided
  <2>2. PICK x \in Nat, y \in Nat : x = c % PGSIZE /\ y = PGSIZE * (c \div PGSIZE)  BY <1>0, <2>1
  <2> QED  BY <2>1, <2>2
<1>11. Segment(h) = [ofs |-> c - (c % PGSIZE), va |-> u, writable |-> w, read |-> read, zero |-> v - read]
  <2>1. PgRoundDown(h.offset) = c - (c % PGSIZE) /\ PgRoundDown(h.vaddr) = u /\ PgOfs(h.vaddr) = o
    BY <1>3, <1>6, <1>7 DEF PgRoundDown, PgOfs
  <2>2. RoundUp(o + b, PGSIZE) = v  BY <1>6, <1>7 DEF RoundUp
  <2>3. read = IF h.filesz > 0 THEN PgOfs(h.vaddr) + h.filesz ELSE 0  BY <1>3, <1>9, <2>1
  <2>4. h.memsz = b /\ h.writable = w  BY <1>3
  <2> QED  BY ONLY <2>1, <2>2, <2>3, <2>4 DEF Segment
<1>12. v - read \in Nat /\ read + (v - read) = v  BY <1>9
<1>13. Whole(PGSIZE, Spt * Tabs, u, v)  BY ONLY <1>6, <1>7, m \in Nat, n \in Nat \ {0}, Zenon DEF Whole
<1> QED  BY <1>10, <1>11, <1>12, <1>13 DEF SegOK

\* The rest of a segment, after a page of it, is one too unless nothing is left.
LEMMA RestIs ==
    ASSUME NEW p \in Task, SegOK(ps[p].seg), Rest(p).read > 0 \/ Rest(p).zero > 0
    PROVE  SegOK(Rest(p))
<1>1. PICK ofs \in Nat, va \in Nat, w \in BOOLEAN, read \in Nat, zero \in Nat :
        ps[p].seg = [ofs |-> ofs, va |-> va, writable |-> w, read |-> read, zero |-> zero]
  BY DEF SegOK
<1>2. PICK P \in Nat \ {0}, K \in Nat : P = PGSIZE /\ K = Spt * Tabs  BY Constants, Layout
<1>3. PICK m \in Nat, n \in Nat \ {0} : va = P * m /\ read + zero = P * n /\ m + n <= K
  <2>1. Whole(PGSIZE, Spt * Tabs, va, read + zero)  BY <1>1 DEF SegOK
  <2>2. Whole(P, K, va, read + zero)  BY ONLY <1>2, <2>1, Zenon
  <2> QED  BY ONLY <2>2, Zenon DEF Whole
<1>4. PICK k \in Nat : n = k + 1 /\ P * n = P * k + P /\ P * k \in Nat
  <2>1. n - 1 \in Nat /\ n = (n - 1) + 1  OBVIOUS
  <2>2. P * n = P * (n - 1) + P /\ P * (n - 1) \in Nat  BY <2>1
  <2> QED  BY <2>1, <2>2
<1>5. PICK y \in Nat : y = P * k /\ read + zero = y + P /\ (k = 0 => y = 0)  BY <1>3, <1>4
<1>6. PICK c \in Nat : c = PageRead(p) /\ c = (IF read <= P THEN read ELSE P)
  <2>1. Min({read, P}) = IF read <= P THEN read ELSE P  BY DEF Min
  <2> QED  BY <1>1, <1>2, <2>1 DEF PageRead
<1>7. /\ ofs + c \in Nat /\ va + P \in Nat /\ read - c \in Nat /\ zero - (P - c) \in Nat
      /\ (read - c) + (zero - (P - c)) = y
  BY <1>5, <1>6
<1>8. Rest(p) = [ofs |-> ofs + c, va |-> va + P, writable |-> w, read |-> read - c, zero |-> zero - (P - c)]
  BY <1>1, <1>2, <1>6 DEF Rest
<1>9. k # 0  BY <1>5, <1>7, <1>8
<1>10. va + P = P * (m + 1) /\ m + 1 \in Nat /\ (m + 1) + k <= K
  <2>1. P * (m + 1) = P * m + P  OBVIOUS
  <2> QED  BY <1>2, <1>3, <1>4, <2>1
<1>11. Rest(p) \in [ofs : Nat, va : Nat, writable : BOOLEAN, read : Nat, zero : Nat]  BY <1>7, <1>8
<1>12. Whole(PGSIZE, Spt * Tabs, va + P, y)
  <2>1. m + 1 \in Nat /\ k \in Nat \ {0} /\ va + P = P * (m + 1) /\ y = P * k /\ (m + 1) + k <= K
    BY <1>5, <1>9, <1>10
  <2>2. Whole(P, K, va + P, y)  BY ONLY <2>1, Zenon DEF Whole
  <2> QED  BY ONLY <1>2, <2>2, Zenon
<1> QED  BY <1>7, <1>8, <1>11, <1>12 DEF SegOK

\* The next page of a segment is one of the user's, and where the tables have it.
LEMMA SegmentPage ==
    ASSUME NEW g, SegOK(g)
    PROVE  \E n \in 0 .. Spt * Tabs - 1 : g.va = PGSIZE * n
<1>1. PICK m \in Nat, n \in Nat \ {0} : g.va = PGSIZE * m /\ m + n <= Spt * Tabs
  BY Zenon DEF SegOK, Whole
<1>2. PICK K \in Nat : K = Spt * Tabs  BY Layout
<1> QED  BY <1>1, <1>2

LEMMA StackPage == \E n \in 0 .. Spt * Tabs - 1 : PHYS_BASE - PGSIZE = PGSIZE * n
<1>1. PICK P \in Nat \ {0}, K \in Nat : P = PGSIZE /\ K = Spt * Tabs /\ PHYS_BASE = P * K /\ P * K # 0
  BY Constants, Layout
<1>2. K # 0  BY <1>1
<1>3. K - 1 \in Nat /\ P * K = P * (K - 1) + P /\ P * (K - 1) \in Nat  BY <1>2
<1> QED  BY <1>1, <1>3

\* load() makes the page directory.
LEMMA CreateDirKeeps == ASSUME LInv, NEW p \in Task, CreateDir(p) PROVE LInv'
<1>1. PICK new : new = GetPage(KernelPages, kpage)  OBVIOUS
<1>2. ps[p].pc = "create" /\ upage' = upage  BY DEF CreateDir
<1>3. ProcRec(ps[p]) /\ ps[p].pd = NoPage /\ ps[p].page = NoPage  BY <1>2, RecIs DEF ProcAt
<1>4. CASE new = NoPage
  <2>1. Fail(p) /\ kpage' = kpage  BY <1>1, <1>4 DEF CreateDir
  <2> QED  BY <1>2, <1>3, <2>1, FailKeeps
<1>5. CASE new # NoPage
  <2>1. PICK label \in {"header", "exit"} :
          /\ label = "header" => find_filename(ps[p].command) \in DOMAIN Programs
          /\ ps' = [ps EXCEPT ![p] = [ps[p] EXCEPT !.pd = new, !.pc = label]]
    BY <1>1, <1>5 DEF CreateDir
  <2>2. kpage' = Put(kpage, new, EmptyDir)  BY <1>1, <1>5 DEF CreateDir
  <2>3. new \in KernelPages \ DOMAIN kpage /\ new \in Nat \ {0}  BY <1>1, <1>5, FirstFree, Constants
  <2>4. PICK r : r = [ps[p] EXCEPT !.pd = new, !.pc = label]  OBVIOUS
  <2>5. ProcRec(r) /\ r.pc = label /\ r.pd = new /\ r.page = NoPage /\ r.command = ps[p].command
    BY <1>3, <2>3, <2>4 DEF ProcRec, Label
  <2>6. ProcAt(r)  BY <2>1, <2>3, <2>5 DEF ProcAt, NoPage, Label
  <2>7. ProcsAt' /\ ps'[p] = r /\ \A q \in Task : q # p => ps'[q] = ps[q]
    BY <2>1, <2>4, <2>6, ProcStep DEF LInv
  <2>8. /\ HasDir(p)' /\ ~HasDir(p) /\ ps'[p].pd = new
        /\ \A q \in Task : q # p => (HasDir(q)' <=> HasDir(q)) /\ ps'[q] = ps[q]
    BY <1>2, <1>3, <2>1, <2>3, <2>5, <2>7 DEF HasDir, NoPage
  <2>9. /\ kpage' = [k \in DOMAIN kpage \cup {new} |-> IF k = new THEN EmptyDir ELSE kpage[k]]
        /\ DOMAIN kpage' = DOMAIN kpage \cup {new} /\ kpage'[new] = EmptyDir
        /\ \A k \in DOMAIN kpage : kpage'[k] = kpage[k]
    BY <2>2, <2>3 DEF Put
  <2>10. \A q \in Task : q # p => DirOf(q)' = DirOf(q) /\ \A e \in DirEntries : TableOf(q, e)' = TableOf(q, e)
    <3> SUFFICES ASSUME NEW q \in Task, q # p
                 PROVE  DirOf(q)' = DirOf(q) /\ \A e \in DirEntries : TableOf(q, e)' = TableOf(q, e)
      OBVIOUS
    <3>1. CASE HasDir(q)
      <4>1. ps[q].pd \in DOMAIN kpage  BY <3>1, KernelApart DEF DirOf, HasDir
      <4> QED  BY <2>8, <2>9, <3>1, <4>1 DEF DirOf, TableOf
    <3>2. CASE ~HasDir(q)  BY <2>8, <3>2 DEF DirOf, TableOf
    <3> QED  BY <3>1, <3>2
  <2>11. /\ DirOf(p) = NoPage /\ DirOf(p)' = new
         /\ \A e \in DirEntries : TableOf(p, e) = NoPage /\ TableOf(p, e)' = NoPage
    BY <2>8, <2>9 DEF DirOf, TableOf, EmptyDir
  <2>12. \A q \in Task, e \in DirEntries : TableOf(q, e)' = TableOf(q, e)  BY <2>10, <2>11
  <2>13. \A q \in Task, e \in DirEntries : TableOf(q, e) # NoPage => kpage'[TableOf(q, e)] = kpage[TableOf(q, e)]
    BY <2>9, KernelApart
  <2>14. EntriesStay  BY <2>12, <2>13 DEF EntriesStay, EntryOf
  <2>15. KTyped'
    <3>1. DOMAIN kpage' \subseteq KernelPages /\ kpage' = [k \in DOMAIN kpage' |-> kpage'[k]]
      BY <2>3, <2>9 DEF LInv, KTyped
    <3>2. EmptyDir \in [DirEntries -> Nat]  BY DEF EmptyDir, NoPage
    <3>3. \A q \in Task : HasDir(q)' => kpage'[ps'[q].pd] \in [DirEntries -> Nat]
      <4> SUFFICES ASSUME NEW q \in Task, HasDir(q)' PROVE kpage'[ps'[q].pd] \in [DirEntries -> Nat]  OBVIOUS
      <4>1. CASE q = p  BY <2>8, <2>9, <3>2, <4>1
      <4>2. CASE q # p
        <5>1. HasDir(q) /\ ps'[q].pd = ps[q].pd /\ kpage[ps[q].pd] \in [DirEntries -> Nat]
          BY <2>8, <4>2 DEF LInv, KTyped
        <5>2. ps[q].pd \in DOMAIN kpage  BY <5>1, KernelApart DEF DirOf, HasDir
        <5> QED  BY <2>9, <5>1, <5>2
      <4> QED  BY <4>1, <4>2
    <3>4. \A q \in Task, e \in DirEntries : TableOf(q, e)' # NoPage => kpage'[TableOf(q, e)'] \in [TableEntries -> {Absent} \cup Entry]
      BY <2>12, <2>13 DEF LInv, KTyped
    <3> QED  BY <3>1, <3>3, <3>4 DEF KTyped
  <2>16. Exactly(kown, DOMAIN kpage)'
    <3>1. PICK a : a = <<"dir", p, 0>>  OBVIOUS
    <3>2. /\ a \in KRole /\ kown[a] = NoPage /\ kown'[a] = new
          /\ DOMAIN kown' = KRole /\ DOMAIN kown = KRole /\ Exactly(kown, DOMAIN kpage)
      BY <2>11, <3>1, Roles DEF KRolesAre, LInv
    <3>3. \A r1 \in KRole : r1 # a => kown'[r1] = kown[r1]
      <4> SUFFICES ASSUME NEW r1 \in KRole, r1 # a PROVE kown'[r1] = kown[r1]  OBVIOUS
      <4>1. CASE \E q \in Task : r1 = <<"dir", q, 0>>  BY <2>10, <3>1, <4>1, Roles DEF KRolesAre
      <4>2. CASE \E q \in Task, e \in DirEntries : r1 = <<"table", q, e>>  BY <2>12, <4>2, Roles DEF KRolesAre
      <4> QED  BY <4>1, <4>2, KRoleIs
    <3>4. kown'[a] # NoPage /\ kown'[a] \notin DOMAIN kpage  BY <1>5, <2>3, <3>2
    <3>5. Exactly(kown', DOMAIN kpage \cup {kown'[a]})  BY ONLY <3>2, <3>3, <3>4, RoleAdded
    <3> QED  BY <2>9, <3>2, <3>5 DEF Exactly
  <2>17. UTyped' /\ DOMAIN upage' = DOMAIN upage  BY <1>2 DEF UTyped, LInv
  <2>18. \A q \in Task : FillOf(q)' = FillOf(q)
    BY <1>2, <1>3, <2>1, <2>5, <2>7 DEF FillOf
  <2> QED  BY <2>7, <2>14, <2>15, <2>16, <2>17, <2>18, UsersStay DEF LInv
<1> QED  BY <1>4, <1>5

\* The next program header.
LEMMA ReadHeaderKeeps == ASSUME LInv, NEW p \in Task, ReadHeader(p) PROVE LInv'
<1>1. /\ ps[p].pc = "header" /\ ps[p].i <= Len(Program(p).headers) /\ kpage' = kpage /\ upage' = upage
  BY DEF ReadHeader
<1>2. ProcRec(ps[p]) /\ ProcAt(ps[p]) /\ ps[p].page = NoPage  BY <1>1, RecIs DEF ProcAt
<1>3. ElfHeader(p) \in Elf32_Phdr  BY <1>1, HeaderIs
<1>4. PICK h : h = ElfHeader(p)  OBVIOUS
<1>5. h.type \in {"ignored", "dynamic", "short", "load"}  BY <1>3, <1>4 DEF Elf32_Phdr
<1>6. UTyped' /\ DOMAIN upage' = DOMAIN upage  BY <1>1 DEF UTyped, LInv
<1>7. FillOf(p) = NoPage  BY <1>2 DEF FillOf, NoPage
<1>8. CASE h.type = "ignored"
  <2>1. PICK r : r = [ps[p] EXCEPT !.i = @ + 1] /\ ps' = [ps EXCEPT ![p] = r]
    BY <1>4, <1>8 DEF ReadHeader
  <2>2. /\ ProcRec(r) /\ r.pc = ps[p].pc /\ r.pd = ps[p].pd /\ r.page = ps[p].page /\ r.command = ps[p].command
        /\ r.seg = ps[p].seg
    BY <1>2, <2>1 DEF ProcRec
  <2>3. ProcAt(r)  BY <1>1, <1>2, <2>2 DEF ProcAt
  <2> QED  BY <1>1, <1>2, <1>6, <1>7, <2>1, <2>2, <2>3, QuietStep
<1>9. CASE h.type \in {"dynamic", "short"} \/ (h.type = "load" /\ ~validate_segment(h, Program(p).length))
  <2>1. Fail(p)  BY <1>4, <1>9 DEF ReadHeader
  <2> QED  BY <1>1, <1>2, <2>1, FailKeeps
<1>10. CASE h.type = "load" /\ validate_segment(h, Program(p).length)
  <2>1. PICK r : r = [ps[p] EXCEPT !.pc = "segment", !.seg = Segment(h)] /\ ps' = [ps EXCEPT ![p] = r]
    BY <1>4, <1>10 DEF ReadHeader
  <2>2. /\ ProcRec(r) /\ r.pc = "segment" /\ r.pd = ps[p].pd /\ r.page = ps[p].page /\ r.command = ps[p].command
        /\ r.seg = Segment(h)
    BY <1>2, <2>1 DEF ProcRec, Label
  <2>3. SegOK(Segment(h))  BY <1>3, <1>4, <1>10, SegmentIs
  <2>4. ProcAt(r)  BY <1>1, <1>2, <2>2, <2>3 DEF ProcAt, Label
  <2> QED  BY <1>1, <1>2, <1>6, <1>7, <2>1, <2>2, <2>4, QuietStep
<1> QED  BY <1>5, <1>8, <1>9, <1>10

\* A page for the segment is taken.
LEMMA TakePageKeeps == ASSUME LInv, NEW p \in Task, TakePage(p) PROVE LInv'
<1>1. PICK new : new = GetPage(UserPages, upage)  OBVIOUS
<1>2. ps[p].pc = "segment" /\ kpage' = kpage  BY DEF TakePage
<1>3. ProcRec(ps[p]) /\ ProcAt(ps[p]) /\ ps[p].page = NoPage  BY <1>2, RecIs DEF ProcAt
<1>4. CASE new = NoPage
  <2>1. Fail(p) /\ upage' = upage  BY <1>1, <1>4 DEF TakePage
  <2> QED  BY <1>2, <1>3, <2>1, FailKeeps
<1>5. CASE new # NoPage
  <2>1. PICK r : r = [ps[p] EXCEPT !.pc = "read", !.page = new] /\ ps' = [ps EXCEPT ![p] = r]
    BY <1>1, <1>5 DEF TakePage
  <2>2. PICK c : c = [stale |-> TRUE]  OBVIOUS
  <2>3. upage' = Put(upage, new, c)  BY <1>1, <1>5, <2>2 DEF TakePage
  <2>4. new \in UserPages \ DOMAIN upage /\ new \in Nat \ {0}  BY <1>1, <1>5, FirstFree, Constants
  <2>5. /\ ProcRec(r) /\ r.pc = "read" /\ r.pd = ps[p].pd /\ r.page = new /\ r.command = ps[p].command
        /\ r.seg = ps[p].seg
    BY <1>3, <2>1, <2>4 DEF ProcRec, Label
  <2>6. ProcAt(r)  BY <1>2, <1>3, <1>5, <2>5 DEF ProcAt, Label
  <2>7. /\ ProcsAt' /\ DirsStay
        /\ FillOf(p)' = new /\ \A q \in Task : q # p => FillOf(q)' = FillOf(q)
    BY <1>2, <2>1, <2>5, <2>6, OnesStep
  <2>8. KTyped' /\ Exactly(kown, DOMAIN kpage)' /\ EntriesStay  BY <1>2, <2>7, KernelStays
  <2>9. FillOf(p) = NoPage  BY <1>3 DEF FillOf
  <2>10. UTyped' /\ Exactly(uown, DOMAIN upage)'  BY <1>5, <2>3, <2>4, <2>7, <2>8, <2>9, UserTakes
  <2> QED  BY <2>7, <2>8, <2>10 DEF LInv
<1> QED  BY <1>4, <1>5

\* The page is read, or given back when the file ends within it.
LEMMA ReadPageKeeps == ASSUME LInv, NEW p \in Task, ReadPage(p) PROVE LInv'
<1>1. ps[p].pc = "read" /\ kpage' = kpage  BY DEF ReadPage
<1>2. ProcRec(ps[p]) /\ ProcAt(ps[p]) /\ ps[p].page # NoPage /\ SegOK(ps[p].seg)  BY <1>1, RecIs DEF ProcAt
<1>3. CASE \E c : Goto(p, "install") /\ upage' = [upage EXCEPT ![ps[p].page] = c]
  <2>1. ps' = [ps EXCEPT ![p] = [ps[p] EXCEPT !.pc = "install"]]  BY <1>3 DEF Goto
  <2>2. DOMAIN upage' = DOMAIN upage /\ upage' = [u \in DOMAIN upage' |-> upage'[u]]
    BY <1>3 DEF LInv, UTyped
  <2>3. UTyped'  BY <2>2 DEF UTyped, LInv
  <2> QED  BY <1>1, <1>2, <2>1, <2>2, <2>3, GotoStep DEF Label
<1>4. CASE /\ ps' = [ps EXCEPT ![p].pc = "exit", ![p].page = NoPage]
           /\ upage' = Drop(upage, {ps[p].page})
  <2>1. PICK r : r = [ps[p] EXCEPT !.pc = "exit", !.page = NoPage] /\ ps' = [ps EXCEPT ![p] = r]
    BY <1>4
  <2>2. ProcRec(r) /\ r.pc = "exit" /\ r.pd = ps[p].pd /\ r.page = NoPage
    BY <1>2, <2>1 DEF ProcRec, Label, NoPage
  <2>3. ProcAt(r)  BY <2>2 DEF ProcAt, Label
  <2>4. /\ ProcsAt' /\ DirsStay
        /\ FillOf(p)' = NoPage /\ \A q \in Task : q # p => FillOf(q)' = FillOf(q)
    BY <1>1, <2>1, <2>2, <2>3, OnesStep
  <2>5. KTyped' /\ Exactly(kown, DOMAIN kpage)' /\ EntriesStay  BY <1>1, <2>4, KernelStays
  <2>6. FillOf(p) = ps[p].page  BY <1>1 DEF FillOf
  <2>7. UTyped' /\ Exactly(uown, DOMAIN upage)'  BY <1>4, <2>4, <2>5, <2>6, UserGives
  <2> QED  BY <2>4, <2>5, <2>7 DEF LInv
<1> QED  BY <1>3, <1>4 DEF ReadPage

\* start_process() writes the stack and enters the program.
LEMMA EnterKeeps == ASSUME LInv, NEW p \in Task, EnterUser(p) PROVE LInv'
<1>1. PICK esp, page, c :
        /\ ps[p].pc = "build" /\ kpage' = kpage
        /\ ps' = [ps EXCEPT ![p].pc = "run", ![p].esp = esp] /\ upage' = [upage EXCEPT ![page] = c]
  <2>1. PICK page : page = lookup_page(ps[p].pd, PHYS_BASE - PGSIZE).page  OBVIOUS
  <2>2. PICK built \in {build_stack(ps[p].command)} :
          /\ ps' = [ps EXCEPT ![p].pc = "run", ![p].esp = built.esp]
          /\ upage' = [upage EXCEPT ![page] = [stack |-> built.mem]]
    BY <2>1, Zenon DEF EnterUser
  <2>3. PICK esp, c : esp = built.esp /\ c = [stack |-> built.mem]  OBVIOUS
  <2> QED  BY <2>2, <2>3 DEF EnterUser
<1>2. ProcRec(ps[p]) /\ ProcAt(ps[p])  BY <1>1, RecIs
<1>3. PICK r : r = [ps[p] EXCEPT !.pc = "run", !.esp = esp] /\ ps' = [ps EXCEPT ![p] = r]  BY <1>1
<1>4. ProcRec(r) /\ r.pc = "run" /\ r.pd = ps[p].pd /\ r.page = ps[p].page /\ r.command = ps[p].command
  BY <1>2, <1>3 DEF ProcRec, Label
<1>5. ProcAt(r)  BY <1>1, <1>2, <1>4 DEF ProcAt, Label
<1>6. DOMAIN upage' = DOMAIN upage /\ upage' = [u \in DOMAIN upage' |-> upage'[u]]
  BY <1>1 DEF LInv, UTyped
<1>7. UTyped'  BY <1>6 DEF UTyped, LInv
<1>8. FillOf(p) = r.page  BY <1>1, <1>4 DEF FillOf
<1> QED  BY <1>1, <1>3, <1>4, <1>5, <1>6, <1>7, <1>8, QuietStep

-----------------------------------------------------------------------------
(* Mapping a page.                                                          *)

\* The entry of process p's table e for slot s becomes ENTRY, the others stay.
EntryComes(p, e, s, entry) ==
    /\ EntryOf(p, e, s) = Absent /\ EntryOf(p, e, s)' = entry
    /\ \A q \in Task, f \in DirEntries, t \in TableEntries :
         ~(q = p /\ f = e /\ t = s) => EntryOf(q, f, t)' = EntryOf(q, f, t)

\* The entry goes into a table there is.
LEMMA TableHasPlace ==
    ASSUME LInv, DirsStay, NEW p \in Task, HasDir(p), NEW e \in DirEntries, NEW s \in TableEntries, NEW entry \in Entry,
           TableOf(p, e) # NoPage, EntryOf(p, e, s) = Absent, kpage' = [kpage EXCEPT ![TableOf(p, e)][s] = entry]
    PROVE  KTyped' /\ Exactly(kown, DOMAIN kpage)' /\ EntryComes(p, e, s, entry)
<1>1. PICK table : table = TableOf(p, e)  OBVIOUS
<1>2. table \in DOMAIN kpage /\ kpage[table] \in [TableEntries -> {Absent} \cup Entry]
  BY <1>1, KernelApart DEF LInv, KTyped
<1>3. /\ DOMAIN kpage' = DOMAIN kpage /\ kpage' = [k \in DOMAIN kpage' |-> kpage'[k]]
      /\ kpage'[table] = [kpage[table] EXCEPT ![s] = entry] /\ \A k \in DOMAIN kpage : k # table => kpage'[k] = kpage[k]
  <2>1. kpage' = [kpage EXCEPT ![table] = [kpage[table] EXCEPT ![s] = entry]]  BY <1>1
  <2>2. kpage = [k \in DOMAIN kpage |-> kpage[k]]  BY DEF LInv, KTyped
  <2> QED  BY <1>2, <2>1, <2>2
<1>4. \A q \in Task : HasDir(q) => ps[q].pd \in DOMAIN kpage /\ ps[q].pd # table
  <2> SUFFICES ASSUME NEW q \in Task, HasDir(q) PROVE ps[q].pd \in DOMAIN kpage /\ ps[q].pd # table  OBVIOUS
  <2>1. DirOf(q) = ps[q].pd /\ DirOf(q) # NoPage  BY DEF DirOf, HasDir
  <2> QED  BY <1>1, <2>1, KernelApart
<1>5. \A q \in Task : DirOf(q)' = DirOf(q) /\ \A f \in DirEntries : TableOf(q, f)' = TableOf(q, f)
  <2> SUFFICES ASSUME NEW q \in Task
               PROVE  DirOf(q)' = DirOf(q) /\ \A f \in DirEntries : TableOf(q, f)' = TableOf(q, f)
    OBVIOUS
  <2>1. (HasDir(q)' <=> HasDir(q)) /\ (HasDir(q) => ps'[q].pd = ps[q].pd)  BY DEF DirsStay
  <2>2. CASE HasDir(q)
    <3>1. kpage'[ps[q].pd] = kpage[ps[q].pd]  BY <1>3, <1>4, <2>2
    <3>2. HasDir(q) /\ HasDir(q)' /\ ps'[q].pd = ps[q].pd  BY <2>1, <2>2
    <3>3. DirOf(q)' = DirOf(q)  BY ONLY <3>2 DEF DirOf
    <3>4. \A f \in DirEntries : TableOf(q, f)' = TableOf(q, f)  BY ONLY <3>1, <3>2 DEF TableOf
    <3> QED  BY <3>3, <3>4
  <2>3. CASE ~HasDir(q)  BY <2>1, <2>3 DEF DirOf, TableOf
  <2> QED  BY <2>2, <2>3
<1>6. Exactly(kown, DOMAIN kpage)'
  <2>1. \A r \in KRole : kown'[r] = kown[r]  BY <1>5, Roles, KRoleIs DEF KRolesAre
  <2>2. DOMAIN kown' = KRole /\ DOMAIN kown = KRole /\ Exactly(kown, DOMAIN kpage)
    BY Roles DEF KRolesAre, LInv
  <2>3. Exactly(kown', DOMAIN kpage)  BY ONLY <2>1, <2>2, RolesStay
  <2> QED  BY <1>3, <2>3 DEF Exactly
<1>7. \A q \in Task, f \in DirEntries : TableOf(q, f) # NoPage =>
         TableOf(q, f) \in DOMAIN kpage /\ (TableOf(q, f) = table => q = p /\ f = e)
  BY <1>1, KernelApart
<1>8. KTyped'
  <2>1. DOMAIN kpage' \subseteq KernelPages  BY <1>3 DEF LInv, KTyped
  <2>2. \A q \in Task : HasDir(q)' => kpage'[ps'[q].pd] \in [DirEntries -> Nat]
    BY <1>3, <1>4 DEF LInv, KTyped, DirsStay
  <2>3. \A q \in Task, f \in DirEntries : TableOf(q, f)' # NoPage => kpage'[TableOf(q, f)'] \in [TableEntries -> {Absent} \cup Entry]
    <3> SUFFICES ASSUME NEW q \in Task, NEW f \in DirEntries, TableOf(q, f) # NoPage
                 PROVE  kpage'[TableOf(q, f)] \in [TableEntries -> {Absent} \cup Entry]
      BY <1>5
    <3>1. kpage[TableOf(q, f)] \in [TableEntries -> {Absent} \cup Entry]  BY DEF LInv, KTyped
    <3>2. CASE TableOf(q, f) = table  BY <1>2, <1>3, <3>2
    <3>3. CASE TableOf(q, f) # table  BY <1>3, <1>7, <3>1, <3>3
    <3> QED  BY <3>2, <3>3
  <2> QED  BY <1>3, <2>1, <2>2, <2>3 DEF KTyped
<1>9. EntryOf(p, e, s)' = entry  BY <1>1, <1>2, <1>3, <1>5 DEF EntryOf
<1>10. ASSUME NEW q \in Task, NEW f \in DirEntries, NEW t \in TableEntries, ~(q = p /\ f = e /\ t = s)
       PROVE  EntryOf(q, f, t)' = EntryOf(q, f, t)
  <2>1. CASE TableOf(q, f) = NoPage  BY <1>5, <2>1 DEF EntryOf
  <2>2. CASE TableOf(q, f) = table /\ table # NoPage
    <3>1. t # s  BY <1>7, <1>10, <2>2
    <3> QED  BY <1>2, <1>3, <1>5, <2>2, <3>1 DEF EntryOf
  <2>3. CASE TableOf(q, f) # NoPage /\ TableOf(q, f) # table
    BY <1>3, <1>5, <1>7, <2>3 DEF EntryOf
  <2> QED  BY <2>1, <2>2, <2>3
<1> QED  BY <1>6, <1>8, <1>9, <1>10 DEF EntryComes

\* The entry goes into a new table.
LEMMA TableIsMade ==
    ASSUME LInv, DirsStay, NEW p \in Task, HasDir(p), NEW e \in DirEntries, NEW s \in TableEntries, NEW entry \in Entry,
           TableOf(p, e) = NoPage, NEW new \in KernelPages \ DOMAIN kpage,
           kpage' = [Put(kpage, new, EmptyTable) EXCEPT ![ps[p].pd][e] = new, ![new][s] = entry]
    PROVE  KTyped' /\ Exactly(kown, DOMAIN kpage)' /\ EntryComes(p, e, s, entry)
<1>1. PICK pd : pd = ps[p].pd  OBVIOUS
<1>2. new \in Nat /\ new # NoPage  BY Constants DEF NoPage
<1>3. \A q \in Task : HasDir(q) => ps[q].pd \in DOMAIN kpage /\ (ps[q].pd = pd => q = p)
  <2> SUFFICES ASSUME NEW q \in Task, HasDir(q) PROVE ps[q].pd \in DOMAIN kpage /\ (ps[q].pd = pd => q = p)
    OBVIOUS
  <2>1. DirOf(q) = ps[q].pd /\ DirOf(q) # NoPage /\ DirOf(p) = pd  BY <1>1 DEF DirOf, HasDir
  <2> QED  BY <2>1, KernelApart
<1>4. pd \in DOMAIN kpage /\ kpage[pd] \in [DirEntries -> Nat] /\ pd # new
  BY <1>1, <1>3 DEF LInv, KTyped
<1>5. /\ DOMAIN kpage' = DOMAIN kpage \cup {new} /\ kpage' = [k \in DOMAIN kpage' |-> kpage'[k]]
      /\ kpage'[pd] = [kpage[pd] EXCEPT ![e] = new] /\ kpage'[new] = [EmptyTable EXCEPT ![s] = entry]
      /\ \A k \in DOMAIN kpage : k # pd => kpage'[k] = kpage[k]
  <2>1. PICK with : with = Put(kpage, new, EmptyTable)  OBVIOUS
  <2>2. /\ DOMAIN with = DOMAIN kpage \cup {new} /\ with[new] = EmptyTable
        /\ \A k \in DOMAIN kpage : with[k] = kpage[k]
        /\ with = [k \in DOMAIN kpage \cup {new} |-> IF k = new THEN EmptyTable ELSE kpage[k]]
    BY <2>1 DEF Put
  <2>3. PICK half : half = [with EXCEPT ![pd] = [with[pd] EXCEPT ![e] = new]]  OBVIOUS
  <2>4. kpage' = [half EXCEPT ![new] = [half[new] EXCEPT ![s] = entry]]  BY <1>1, <2>1, <2>3
  <2>5. /\ DOMAIN half = DOMAIN with /\ half[pd] = [kpage[pd] EXCEPT ![e] = new]
        /\ \A k \in DOMAIN with : k # pd => half[k] = with[k]
    BY <1>4, <2>2, <2>3
  <2>6. /\ DOMAIN kpage' = DOMAIN half /\ kpage'[new] = [half[new] EXCEPT ![s] = entry]
        /\ \A k \in DOMAIN half : k # new => kpage'[k] = half[k]
    BY <2>2, <2>4, <2>5
  <2>7. kpage' = [k \in DOMAIN kpage' |-> kpage'[k]]  BY <2>4
  <2>8. half[new] = EmptyTable  BY <1>4, <2>2, <2>5
  <2>9. DOMAIN kpage' = DOMAIN kpage \cup {new}  BY <2>2, <2>5, <2>6
  <2>10. kpage'[pd] = [kpage[pd] EXCEPT ![e] = new]  BY <1>4, <2>2, <2>5, <2>6
  <2>11. kpage'[new] = [EmptyTable EXCEPT ![s] = entry]  BY <2>6, <2>8
  <2>12. \A k \in DOMAIN kpage : k # pd => kpage'[k] = kpage[k]  BY <2>2, <2>5, <2>6
  <2> QED  BY <2>7, <2>9, <2>10, <2>11, <2>12
<1>6. ASSUME NEW q \in Task
      PROVE  /\ DirOf(q)' = DirOf(q)
             /\ \A f \in DirEntries : TableOf(q, f)' = IF q = p /\ f = e THEN new ELSE TableOf(q, f)
  <2>1. (HasDir(q)' <=> HasDir(q)) /\ (HasDir(q) => ps'[q].pd = ps[q].pd)  BY DEF DirsStay
  <2>2. CASE q = p
    <3>1. DirOf(p)' = DirOf(p)  BY <2>1, <2>2 DEF DirOf
    <3>2. \A f \in DirEntries : TableOf(p, f)' = kpage'[pd][f] /\ TableOf(p, f) = kpage[pd][f]
      BY <1>1, <2>1, <2>2 DEF TableOf
    <3>3. \A f \in DirEntries : kpage'[pd][f] = IF f = e THEN new ELSE kpage[pd][f]  BY <1>4, <1>5
    <3> QED  BY <2>2, <3>1, <3>2, <3>3
  <2>3. CASE q # p /\ HasDir(q)
    <3>1. kpage'[ps[q].pd] = kpage[ps[q].pd]  BY <1>3, <1>5, <2>3
    <3>2. HasDir(q) /\ HasDir(q)' /\ ps'[q].pd = ps[q].pd  BY <2>1, <2>3
    <3>3. DirOf(q)' = DirOf(q)  BY ONLY <3>2 DEF DirOf
    <3>4. \A f \in DirEntries : TableOf(q, f)' = TableOf(q, f)  BY ONLY <3>1, <3>2 DEF TableOf
    <3> QED  BY <2>3, <3>3, <3>4
  <2>4. CASE q # p /\ ~HasDir(q)  BY <2>1, <2>4 DEF DirOf, TableOf
  <2> QED  BY <2>2, <2>3, <2>4
<1>7. Exactly(kown, DOMAIN kpage)'
  <2>1. PICK a : a = <<"table", p, e>>  OBVIOUS
  <2>2. /\ a \in KRole /\ kown[a] = NoPage /\ kown'[a] = new
        /\ DOMAIN kown' = KRole /\ DOMAIN kown = KRole /\ Exactly(kown, DOMAIN kpage)
    BY <1>6, <2>1, Roles DEF KRolesAre, LInv
  <2>3. \A r \in KRole : r # a => kown'[r] = kown[r]
    <3> SUFFICES ASSUME NEW r \in KRole, r # a PROVE kown'[r] = kown[r]  OBVIOUS
    <3>1. CASE \E q \in Task : r = <<"dir", q, 0>>  BY <1>6, <3>1, Roles DEF KRolesAre
    <3>2. CASE \E q \in Task, f \in DirEntries : r = <<"table", q, f>>
      <4>1. PICK q \in Task : \E f \in DirEntries : r = <<"table", q, f>>  BY <3>2
      <4>2. PICK f \in DirEntries : r = <<"table", q, f>>  BY <4>1
      <4>3. ~(q = p /\ f = e)  BY <2>1, <4>2
      <4> QED  BY <1>6, <4>2, <4>3, Roles DEF KRolesAre
    <3> QED  BY <3>1, <3>2, KRoleIs
  <2>4. kown'[a] # NoPage /\ kown'[a] \notin DOMAIN kpage  BY <1>2, <2>2
  <2>5. Exactly(kown', DOMAIN kpage \cup {kown'[a]})  BY ONLY <2>2, <2>3, <2>4, RoleAdded
  <2> QED  BY <1>5, <2>2, <2>5 DEF Exactly
<1>8. \A q \in Task, f \in DirEntries : TableOf(q, f) # NoPage =>
         TableOf(q, f) \in DOMAIN kpage /\ TableOf(q, f) # pd /\ TableOf(q, f) # new
  <2> SUFFICES ASSUME NEW q \in Task, NEW f \in DirEntries, TableOf(q, f) # NoPage
               PROVE  TableOf(q, f) \in DOMAIN kpage /\ TableOf(q, f) # pd /\ TableOf(q, f) # new
    OBVIOUS
  <2>1. DirOf(p) = pd /\ DirOf(p) # NoPage  BY <1>1 DEF DirOf, HasDir
  <2> QED  BY <2>1, KernelApart
<1>9. kpage'[new] \in [TableEntries -> {Absent} \cup Entry] /\ \A t \in TableEntries : kpage'[new][t] = IF t = s THEN entry ELSE Absent
  <2>1. kpage'[new] = [EmptyTable EXCEPT ![s] = entry]  BY <1>5
  <2> QED  BY ONLY <2>1, entry \in Entry, s \in TableEntries DEF EmptyTable
<1>10. KTyped'
  <2>1. DOMAIN kpage' \subseteq KernelPages  BY <1>5 DEF LInv, KTyped
  <2>2. \A q \in Task : HasDir(q)' => kpage'[ps'[q].pd] \in [DirEntries -> Nat]
    <3> SUFFICES ASSUME NEW q \in Task, HasDir(q) PROVE kpage'[ps[q].pd] \in [DirEntries -> Nat]
      BY DEF DirsStay
    <3>1. CASE ps[q].pd = pd
      <4>1. kpage'[pd] \in [DirEntries -> Nat]
        <5>1. kpage'[pd] = [kpage[pd] EXCEPT ![e] = new]  BY <1>5
        <5> QED  BY ONLY <1>2, <1>4, <5>1
      <4> QED  BY <3>1, <4>1
    <3>2. CASE ps[q].pd # pd  BY <1>3, <1>5, <3>2 DEF LInv, KTyped
    <3> QED  BY <3>1, <3>2
  <2>3. \A q \in Task, f \in DirEntries : TableOf(q, f)' # NoPage => kpage'[TableOf(q, f)'] \in [TableEntries -> {Absent} \cup Entry]
    <3> SUFFICES ASSUME NEW q \in Task, NEW f \in DirEntries, TableOf(q, f)' # NoPage
                 PROVE  kpage'[TableOf(q, f)'] \in [TableEntries -> {Absent} \cup Entry]
      OBVIOUS
    <3>1. CASE q = p /\ f = e  BY <1>6, <1>9, <3>1
    <3>2. CASE ~(q = p /\ f = e)
      <4>1. TableOf(q, f)' = TableOf(q, f)  BY <1>6, <3>2
      <4>2. kpage[TableOf(q, f)] \in [TableEntries -> {Absent} \cup Entry]  BY <4>1 DEF LInv, KTyped
      <4> QED  BY <1>5, <1>8, <4>1, <4>2
    <3> QED  BY <3>1, <3>2
  <2> QED  BY <1>5, <2>1, <2>2, <2>3 DEF KTyped
<1>11. \A t \in TableEntries : EntryOf(p, e, t) = Absent /\ EntryOf(p, e, t)' = IF t = s THEN entry ELSE Absent
  <2>1. TableOf(p, e)' = new  BY <1>6
  <2> QED  BY <1>2, <1>9, <2>1 DEF EntryOf
<1>12. ASSUME NEW q \in Task, NEW f \in DirEntries, NEW t \in TableEntries, ~(q = p /\ f = e /\ t = s)
       PROVE  EntryOf(q, f, t)' = EntryOf(q, f, t)
  <2>1. CASE q = p /\ f = e  BY <1>11, <1>12, <2>1
  <2>2. CASE ~(q = p /\ f = e)
    <3>1. TableOf(q, f)' = TableOf(q, f)  BY <1>6, <2>2
    <3>2. CASE TableOf(q, f) = NoPage  BY <3>1, <3>2 DEF EntryOf
    <3>3. CASE TableOf(q, f) # NoPage
      <4>1. PICK k : k = TableOf(q, f) /\ k = TableOf(q, f)' /\ k # NoPage  BY <3>1, <3>3
      <4>2. k \in DOMAIN kpage /\ k # pd  BY <1>8, <4>1
      <4>3. kpage'[k] = kpage[k]  BY <1>5, <4>2
      <4> QED  BY ONLY <4>1, <4>3 DEF EntryOf
    <3> QED  BY <3>2, <3>3
  <2> QED  BY <2>1, <2>2
<1> QED  BY <1>7, <1>10, <1>11, <1>12 DEF EntryComes

\* install_page() of page n maps it, or leaves the tables as they are.
LEMMA InstalledAt ==
    ASSUME LInv, DirsStay, NEW p \in Task, HasDir(p), NEW n \in 0 .. Spt * Tabs - 1, NEW entry \in Entry,
           NEW va, va = PGSIZE * n, NEW done, done = install_page(ps[p].pd, va, entry), kpage' = done.kpage
    PROVE  IF done.ok THEN /\ KTyped' /\ Exactly(kown, DOMAIN kpage)'
                           /\ \E e \in DirEntries, s \in TableEntries : EntryComes(p, e, s, entry)
           ELSE kpage' = kpage
<1>1. PICK e \in DirEntries, s \in TableEntries : e = PdNo(va) /\ s = PtNo(va)  BY WherePage
<1>2. TableOf(p, e) = kpage[ps[p].pd][e]  BY DEF TableOf
<1>3. pagedir_get_page(ps[p].pd, va) = EntryOf(p, e, s)
  BY <1>1, <1>2 DEF pagedir_get_page, lookup_page, EntryOf
<1>4. CASE EntryOf(p, e, s) # Absent
  <2>1. done = [ok |-> FALSE, kpage |-> kpage]  BY <1>3, <1>4 DEF install_page
  <2> QED  BY <2>1
<1>5. CASE EntryOf(p, e, s) = Absent
  <2>1. done = pagedir_set_page(ps[p].pd, va, entry)  BY <1>3, <1>5 DEF install_page
  <2>2. CASE TableOf(p, e) # NoPage
    <3>1. done = [ok |-> TRUE, kpage |-> [kpage EXCEPT ![TableOf(p, e)][s] = entry]]
      <4>1. PICK table : table = kpage[ps[p].pd][PdNo(va)]  OBVIOUS
      <4>2. table = TableOf(p, e) /\ table # NoPage  BY <1>1, <1>2, <2>2, <4>1
      <4>3. done = [ok |-> TRUE, kpage |-> [kpage EXCEPT ![table][PtNo(va)] = entry]]
        BY ONLY <2>1, <4>1, <4>2, Zenon DEF pagedir_set_page
      <4> QED  BY ONLY <1>1, <4>2, <4>3, Zenon
    <3>2. kpage' = [kpage EXCEPT ![TableOf(p, e)][s] = entry] /\ done.ok
      <4>1. PICK pages : pages = [kpage EXCEPT ![TableOf(p, e)][s] = entry]  OBVIOUS
      <4>2. done = [ok |-> TRUE, kpage |-> pages]  BY ONLY <3>1, <4>1, Zenon
      <4>3. done.ok /\ kpage' = pages  BY ONLY <4>2, kpage' = done.kpage
      <4> QED  BY ONLY <4>1, <4>3, Zenon
    <3>3. KTyped' /\ Exactly(kown, DOMAIN kpage)' /\ EntryComes(p, e, s, entry)
      BY <1>5, <2>2, <3>2, TableHasPlace
    <3> QED  BY <3>2, <3>3
  <2>3. CASE TableOf(p, e) = NoPage /\ GetPage(KernelPages, kpage) = NoPage
    <3>1. done = [ok |-> FALSE, kpage |-> kpage]  BY <1>1, <1>2, <2>1, <2>3 DEF pagedir_set_page
    <3> QED  BY <3>1
  <2>4. CASE TableOf(p, e) = NoPage /\ GetPage(KernelPages, kpage) # NoPage
    <3>1. PICK new \in KernelPages \ DOMAIN kpage : new = GetPage(KernelPages, kpage)
      BY <2>4, FirstFree, Constants
    <3>2. done = [ok |-> TRUE, kpage |-> [Put(kpage, new, EmptyTable) EXCEPT ![ps[p].pd][e] = new, ![new][s] = entry]]
      <4>1. kpage[ps[p].pd][PdNo(va)] = NoPage  BY <1>1, <1>2, <2>4
      <4>2. new # NoPage  BY <2>4, <3>1
      <4>3. done = [ok |-> TRUE, kpage |-> [Put(kpage, new, EmptyTable) EXCEPT
                                              ![ps[p].pd][PdNo(va)] = new, ![new][PtNo(va)] = entry]]
        BY ONLY <2>1, <3>1, <4>1, <4>2, Zenon DEF pagedir_set_page
      <4> QED  BY ONLY <1>1, <4>3, Zenon
    <3>3. kpage' = [Put(kpage, new, EmptyTable) EXCEPT ![ps[p].pd][e] = new, ![new][s] = entry] /\ done.ok
      <4>1. PICK pages : pages = [Put(kpage, new, EmptyTable) EXCEPT ![ps[p].pd][e] = new, ![new][s] = entry]
        OBVIOUS
      <4>2. done = [ok |-> TRUE, kpage |-> pages]  BY ONLY <3>2, <4>1, Zenon
      <4>3. done.ok /\ kpage' = pages  BY ONLY <4>2, kpage' = done.kpage
      <4> QED  BY ONLY <4>1, <4>3, Zenon
    <3>4. KTyped' /\ Exactly(kown, DOMAIN kpage)' /\ EntryComes(p, e, s, entry)
      BY <2>4, <3>3, TableIsMade
    <3> QED  BY <3>3, <3>4
  <2> QED  BY <2>2, <2>3, <2>4
<1> QED  BY <1>4, <1>5

\* An entry of process p comes: the maps of all other entries stay.
LEMMA MapComes ==
    ASSUME KTyped, KTyped', NEW p \in Task, NEW e \in DirEntries, NEW s \in TableEntries, NEW entry \in Entry,
           EntryComes(p, e, s, entry)
    PROVE  /\ MapOf(p, e, s) = NoPage /\ MapOf(p, e, s)' = entry.page /\ entry.page # NoPage
           /\ \A q \in Task, f \in DirEntries, t \in TableEntries :
                ~(q = p /\ f = e /\ t = s) => MapOf(q, f, t)' = MapOf(q, f, t)
<1>1. Absent \notin Entry  BY EntryIs
<1>2. EntryOf(p, e, s) = Absent /\ EntryOf(p, e, s)' = entry  BY DEF EntryComes
<1>3. MapOf(p, e, s) = NoPage /\ MapOf(p, e, s)' = entry.page  BY <1>1, <1>2 DEF MapOf
<1>4. entry.page # NoPage  BY DEF Entry, NoPage
<1>5. \A q \in Task, f \in DirEntries, t \in TableEntries :
        ~(q = p /\ f = e /\ t = s) => MapOf(q, f, t)' = MapOf(q, f, t)
  BY DEF EntryComes, MapOf
<1> QED  BY <1>3, <1>4, <1>5

\* The page a process was filling is mapped.
LEMMA UserMaps ==
    ASSUME LInv, KTyped', NEW p \in Task, NEW e \in DirEntries, NEW s \in TableEntries, NEW entry \in Entry,
           EntryComes(p, e, s, entry), entry.page = FillOf(p), FillOf(p)' = NoPage,
           \A q \in Task : q # p => FillOf(q)' = FillOf(q), upage' = upage
    PROVE  UTyped' /\ Exactly(uown, DOMAIN upage)'
<1>1. PICK a, b : a = <<"map", p, e, s>> /\ b = <<"fill", p, 0, 0>>  OBVIOUS
<1>2. /\ MapOf(p, e, s) = NoPage /\ MapOf(p, e, s)' = FillOf(p)
      /\ \A q \in Task, f \in DirEntries, t \in TableEntries :
           ~(q = p /\ f = e /\ t = s) => MapOf(q, f, t)' = MapOf(q, f, t)
  BY MapComes DEF LInv
<1>3. /\ a \in URole /\ b \in URole /\ a # b /\ uown[a] = NoPage /\ uown'[a] = uown[b] /\ uown'[b] = NoPage
      /\ DOMAIN uown' = URole /\ DOMAIN uown = URole /\ Exactly(uown, DOMAIN upage)
  <2>1. a # b  BY <1>1
  <2> QED  BY <1>1, <1>2, <2>1, Roles DEF URolesAre, LInv
<1>4. \A r \in URole : r # a /\ r # b => uown'[r] = uown[r]
  <2> SUFFICES ASSUME NEW r \in URole, r # a, r # b PROVE uown'[r] = uown[r]  OBVIOUS
  <2>1. CASE \E q \in Task : r = <<"fill", q, 0, 0>>  BY <1>1, <2>1, Roles DEF URolesAre
  <2>2. CASE \E q \in Task, f \in DirEntries, t \in TableEntries : r = <<"map", q, f, t>>
    <3>1. PICK q \in Task : \E f \in DirEntries, t \in TableEntries : r = <<"map", q, f, t>>  BY <2>2
    <3>2. PICK f \in DirEntries, t \in TableEntries : r = <<"map", q, f, t>>  BY <3>1
    <3>3. ~(q = p /\ f = e /\ t = s)  BY <1>1, <3>2
    <3> QED  BY <1>2, <3>2, <3>3, Roles DEF URolesAre
  <2> QED  BY <2>1, <2>2, URoleIs
<1>5. Exactly(uown', DOMAIN upage)  BY ONLY <1>3, <1>4, RoleMoves
<1>6. UTyped'  BY DEF UTyped, LInv
<1> QED  BY <1>5, <1>6 DEF Exactly

\* A free page is mapped.
LEMMA UserAdds ==
    ASSUME LInv, KTyped', NEW p \in Task, NEW e \in DirEntries, NEW s \in TableEntries, NEW entry \in Entry,
           EntryComes(p, e, s, entry), entry.page \in UserPages \ DOMAIN upage,
           \A q \in Task : FillOf(q)' = FillOf(q), NEW c, upage' = Put(upage, entry.page, c)
    PROVE  UTyped' /\ Exactly(uown, DOMAIN upage)'
<1>1. PICK a : a = <<"map", p, e, s>>  OBVIOUS
<1>2. /\ MapOf(p, e, s) = NoPage /\ MapOf(p, e, s)' = entry.page /\ entry.page # NoPage
      /\ \A q \in Task, f \in DirEntries, t \in TableEntries :
           ~(q = p /\ f = e /\ t = s) => MapOf(q, f, t)' = MapOf(q, f, t)
  BY MapComes DEF LInv
<1>3. /\ a \in URole /\ uown[a] = NoPage /\ uown'[a] = entry.page
      /\ DOMAIN uown' = URole /\ DOMAIN uown = URole /\ Exactly(uown, DOMAIN upage)
  BY <1>1, <1>2, Roles DEF URolesAre, LInv
<1>4. \A r \in URole : r # a => uown'[r] = uown[r]
  <2> SUFFICES ASSUME NEW r \in URole, r # a PROVE uown'[r] = uown[r]  OBVIOUS
  <2>1. CASE \E q \in Task : r = <<"fill", q, 0, 0>>  BY <2>1, Roles DEF URolesAre
  <2>2. CASE \E q \in Task, f \in DirEntries, t \in TableEntries : r = <<"map", q, f, t>>
    <3>1. PICK q \in Task : \E f \in DirEntries, t \in TableEntries : r = <<"map", q, f, t>>  BY <2>2
    <3>2. PICK f \in DirEntries, t \in TableEntries : r = <<"map", q, f, t>>  BY <3>1
    <3>3. ~(q = p /\ f = e /\ t = s)  BY <1>1, <3>2
    <3> QED  BY <1>2, <3>2, <3>3, Roles DEF URolesAre
  <2> QED  BY <2>1, <2>2, URoleIs
<1>5. Exactly(uown', DOMAIN upage \cup {uown'[a]})
  <2>1. uown'[a] # NoPage /\ uown'[a] \notin DOMAIN upage  BY <1>2, <1>3
  <2> QED  BY ONLY <1>3, <1>4, <2>1, RoleAdded
<1>6. DOMAIN upage' = DOMAIN upage \cup {uown'[a]} /\ upage' = [u \in DOMAIN upage' |-> upage'[u]]
  BY <1>3 DEF Put
<1>7. UTyped'  BY <1>3, <1>6 DEF UTyped, LInv
<1> QED  BY <1>5, <1>6, <1>7 DEF Exactly

-----------------------------------------------------------------------------
(* The steps that map pages.                                                *)

\* A page that was read is mapped, or given back.
LEMMA InstallPageKeeps == ASSUME LInv, NEW p \in Task, InstallPage(p) PROVE LInv'
<1>1. PICK entry, done : /\ entry = [page |-> ps[p].page, writable |-> ps[p].seg.writable]
                         /\ done = install_page(ps[p].pd, ps[p].seg.va, entry)
  OBVIOUS
<1>2. done = Installed(p)  BY <1>1 DEF Installed
<1>3. ps[p].pc = "install" /\ kpage' = done.kpage  BY <1>2 DEF InstallPage
<1>4. /\ ProcRec(ps[p]) /\ ProcAt(ps[p]) /\ ps[p].page \in Nat \ {0} /\ SegOK(ps[p].seg) /\ HasDir(p)
      /\ find_filename(ps[p].command) \in DOMAIN Programs /\ ps[p].pd # NoPage
  BY <1>3, RecIs DEF ProcAt, NoPage, HasDir
<1>5. entry \in Entry /\ entry.page = FillOf(p)  BY <1>1, <1>3, <1>4 DEF Entry, FillOf, SegOK
<1>6. PICK n \in 0 .. Spt * Tabs - 1 : ps[p].seg.va = PGSIZE * n  BY <1>4, SegmentPage
<1>7. DirsStay => IF done.ok THEN /\ KTyped' /\ Exactly(kown, DOMAIN kpage)'
                                  /\ \E e \in DirEntries, s \in TableEntries : EntryComes(p, e, s, entry)
                  ELSE kpage' = kpage
  BY <1>1, <1>3, <1>4, <1>5, <1>6, InstalledAt
<1>8. CASE done.ok
  <2>1. PICK r : r = Advanced(p)  OBVIOUS
  <2>2. ps' = [ps EXCEPT ![p] = r] /\ upage' = upage  BY <1>2, <1>8, <2>1 DEF InstallPage
  <2>3. ProcRec(r) /\ r.pd = ps[p].pd /\ r.page = NoPage /\ ProcAt(r) /\ r.pc # "none"
    <3>1. CASE Rest(p).read > 0 \/ Rest(p).zero > 0
      <4>1. r = [ps[p] EXCEPT !.pc = "segment", !.page = NoPage, !.seg = Rest(p)]
        BY <2>1, <3>1 DEF Advanced
      <4>2. /\ ProcRec(r) /\ r.pc = "segment" /\ r.pd = ps[p].pd /\ r.page = NoPage
            /\ r.seg = Rest(p) /\ r.command = ps[p].command
        BY <1>4, <4>1 DEF ProcRec, Label, NoPage
      <4>3. SegOK(Rest(p))  BY <1>4, <3>1, RestIs
      <4> QED  BY <1>4, <4>2, <4>3 DEF ProcAt, Label
    <3>2. CASE ~(Rest(p).read > 0 \/ Rest(p).zero > 0)
      <4>1. r = [ps[p] EXCEPT !.pc = "header", !.page = NoPage, !.seg = Absent, !.i = @ + 1]
        BY <2>1, <3>2 DEF Advanced
      <4>2. PICK i \in Nat \ {0} : i = ps[p].i + 1  BY <1>4 DEF ProcRec
      <4>3. r = [ps[p] EXCEPT !.pc = "header", !.page = NoPage, !.seg = Absent, !.i = i]  BY <4>1, <4>2
      <4>4. /\ ProcRec(r) /\ r.pc = "header" /\ r.pd = ps[p].pd /\ r.page = NoPage /\ r.command = ps[p].command
        BY <1>4, <4>3 DEF ProcRec, Label, NoPage
      <4> QED  BY <1>4, <4>4 DEF ProcAt, Label
    <3> QED  BY <3>1, <3>2
  <2>4. /\ ProcsAt' /\ DirsStay
        /\ FillOf(p)' = NoPage /\ \A q \in Task : q # p => FillOf(q)' = FillOf(q)
    BY <1>3, <2>2, <2>3, OnesStep
  <2>5. KTyped' /\ Exactly(kown, DOMAIN kpage)'  BY <1>7, <1>8, <2>4
  <2>6. PICK e \in DirEntries, s \in TableEntries : EntryComes(p, e, s, entry)  BY <1>7, <1>8, <2>4
  <2>7. UTyped' /\ Exactly(uown, DOMAIN upage)'  BY <1>5, <2>2, <2>4, <2>5, <2>6, UserMaps
  <2> QED  BY <2>4, <2>5, <2>7 DEF LInv
<1>9. CASE ~done.ok
  <2>1. PICK r : r = [ps[p] EXCEPT !.pc = "exit", !.page = NoPage] /\ ps' = [ps EXCEPT ![p] = r]
    BY <1>2, <1>9 DEF InstallPage
  <2>2. upage' = Drop(upage, {FillOf(p)})  BY <1>2, <1>3, <1>9 DEF InstallPage, FillOf
  <2>3. ProcRec(r) /\ r.pc = "exit" /\ r.pd = ps[p].pd /\ r.page = NoPage
    BY <1>4, <2>1 DEF ProcRec, Label, NoPage
  <2>4. ProcAt(r)  BY <2>3 DEF ProcAt, Label
  <2>5. /\ ProcsAt' /\ DirsStay
        /\ FillOf(p)' = NoPage /\ \A q \in Task : q # p => FillOf(q)' = FillOf(q)
    BY <1>3, <2>1, <2>3, <2>4, OnesStep
  <2>6. kpage' = kpage  BY <1>7, <1>9, <2>5
  <2>7. KTyped' /\ Exactly(kown, DOMAIN kpage)' /\ EntriesStay  BY <2>5, <2>6, KernelStays
  <2>8. UTyped' /\ Exactly(uown, DOMAIN upage)'  BY <2>2, <2>5, <2>7, UserGives
  <2> QED  BY <2>5, <2>7, <2>8 DEF LInv
<1> QED  BY <1>8, <1>9

\* The page of the stack is taken and mapped, or nothing changes.
LEMMA setup_stackKeeps == ASSUME LInv, NEW p \in Task, setup_stack(p) PROVE LInv'
<1>1. PICK new, entry, done :
        /\ new = GetPage(UserPages, upage) /\ entry = [page |-> new, writable |-> TRUE]
        /\ done = install_page(ps[p].pd, PHYS_BASE - PGSIZE, entry)
  OBVIOUS
<1>2. ps[p].pc = "header"  BY DEF setup_stack
<1>3. /\ ProcRec(ps[p]) /\ ProcAt(ps[p]) /\ ps[p].page = NoPage /\ HasDir(p)
      /\ find_filename(ps[p].command) \in DOMAIN Programs /\ ps[p].pd # NoPage
  BY <1>2, RecIs DEF ProcAt, HasDir
<1>4. CASE new # NoPage /\ done.ok
  <2>1. PICK r, c : r = [ps[p] EXCEPT !.pc = "build"] /\ c = [ofs |-> 0, read |-> 0]  OBVIOUS
  <2>2. ps' = [ps EXCEPT ![p] = r] /\ kpage' = done.kpage /\ upage' = Put(upage, new, c)
    BY <1>1, <1>4, <2>1 DEF setup_stack, Goto
  <2>3. new \in UserPages \ DOMAIN upage /\ new \in Nat \ {0}  BY <1>1, <1>4, FirstFree, Constants
  <2>4. entry \in Entry /\ entry.page = new  BY <1>1, <2>3 DEF Entry
  <2>5. /\ ProcRec(r) /\ r.pc = "build" /\ r.pd = ps[p].pd /\ r.page = NoPage /\ r.command = ps[p].command
    BY <1>3, <2>1 DEF ProcRec, Label
  <2>6. ProcAt(r)  BY <1>3, <2>5 DEF ProcAt, Label
  <2>7. /\ ProcsAt' /\ DirsStay
        /\ FillOf(p)' = NoPage /\ \A q \in Task : q # p => FillOf(q)' = FillOf(q)
    BY <1>2, <2>2, <2>5, <2>6, OnesStep
  <2>8. \A q \in Task : FillOf(q)' = FillOf(q)
    <3>1. FillOf(p) = NoPage  BY <1>3 DEF FillOf
    <3> QED  BY <2>7, <3>1
  <2>9. PICK n \in 0 .. Spt * Tabs - 1 : PHYS_BASE - PGSIZE = PGSIZE * n  BY StackPage
  <2>10. PICK va : va = PHYS_BASE - PGSIZE  OBVIOUS
  <2>11. va = PGSIZE * n /\ done = install_page(ps[p].pd, va, entry)  BY <1>1, <2>9, <2>10
  <2>12. IF done.ok THEN /\ KTyped' /\ Exactly(kown, DOMAIN kpage)'
                         /\ \E e \in DirEntries, s \in TableEntries : EntryComes(p, e, s, entry)
         ELSE kpage' = kpage
    BY <1>3, <2>2, <2>4, <2>7, <2>11, InstalledAt
  <2>13. KTyped' /\ Exactly(kown, DOMAIN kpage)'  BY <1>4, <2>12
  <2>14. PICK e \in DirEntries, s \in TableEntries : EntryComes(p, e, s, entry)  BY <1>4, <2>12
  <2>15. UTyped' /\ Exactly(uown, DOMAIN upage)'  BY <2>2, <2>3, <2>4, <2>8, <2>13, <2>14, UserAdds
  <2> QED  BY <2>7, <2>13, <2>15 DEF LInv
<1>5. CASE ~(new # NoPage /\ done.ok)
  <2>1. Fail(p) /\ kpage' = kpage /\ upage' = upage  BY <1>1, <1>5 DEF setup_stack
  <2> QED  BY <1>2, <1>3, <2>1, FailKeeps
<1> QED  BY <1>4, <1>5

-----------------------------------------------------------------------------
(* process_exit() gives the pages back.                                     *)

\* The first table goes, and with it the pages it maps.
LEMMA TableGoes ==
    ASSUME LInv, DirsStay, NEW p \in Task, HasDir(p), NEW e \in DirEntries, TableOf(p, e) # NoPage,
           kpage' = Drop([kpage EXCEPT ![ps[p].pd][e] = NoPage], {TableOf(p, e)})
    PROVE  /\ KTyped' /\ Exactly(kown, DOMAIN kpage)'
           /\ \A t \in TableEntries : EntryOf(p, e, t)' = Absent
           /\ \A q \in Task, f \in DirEntries, t \in TableEntries : ~(q = p /\ f = e) => EntryOf(q, f, t)' = EntryOf(q, f, t)
<1>1. PICK pd, table : pd = ps[p].pd /\ table = TableOf(p, e)  OBVIOUS
<1>2. \A q \in Task : HasDir(q) => /\ ps[q].pd \in DOMAIN kpage /\ ps[q].pd # table
                                   /\ (ps[q].pd = pd => q = p)
  <2> SUFFICES ASSUME NEW q \in Task, HasDir(q)
               PROVE  ps[q].pd \in DOMAIN kpage /\ ps[q].pd # table /\ (ps[q].pd = pd => q = p)
    OBVIOUS
  <2>1. DirOf(q) = ps[q].pd /\ DirOf(q) # NoPage /\ DirOf(p) = pd  BY <1>1 DEF DirOf, HasDir
  <2> QED  BY <1>1, <2>1, KernelApart
<1>3. pd \in DOMAIN kpage /\ kpage[pd] \in [DirEntries -> Nat] /\ pd # table
  BY <1>1, <1>2 DEF LInv, KTyped
<1>4. /\ DOMAIN kpage' = DOMAIN kpage \ {table} /\ kpage' = [k \in DOMAIN kpage' |-> kpage'[k]]
      /\ kpage'[pd] = [kpage[pd] EXCEPT ![e] = NoPage]
      /\ \A k \in DOMAIN kpage : k # pd /\ k # table => kpage'[k] = kpage[k]
  <2>1. PICK half : half = [kpage EXCEPT ![pd] = [kpage[pd] EXCEPT ![e] = NoPage]]  OBVIOUS
  <2>2. kpage' = Drop(half, {table})  BY <1>1, <2>1
  <2>3. /\ DOMAIN half = DOMAIN kpage /\ half[pd] = [kpage[pd] EXCEPT ![e] = NoPage]
        /\ \A k \in DOMAIN kpage : k # pd => half[k] = kpage[k]
    BY <1>3, <2>1
  <2>4. kpage' = [k \in DOMAIN half \ {table} |-> half[k]]  BY <2>2 DEF Drop
  <2>5. DOMAIN kpage' = DOMAIN kpage \ {table} /\ \A k \in DOMAIN kpage : k # table => kpage'[k] = half[k]
    BY <2>3, <2>4
  <2>6. kpage' = [k \in DOMAIN kpage' |-> kpage'[k]]  BY <2>4
  <2> QED  BY <1>3, <2>3, <2>5, <2>6
<1>5. ASSUME NEW q \in Task
      PROVE  /\ DirOf(q)' = DirOf(q)
             /\ \A f \in DirEntries : TableOf(q, f)' = IF q = p /\ f = e THEN NoPage ELSE TableOf(q, f)
  <2>1. (HasDir(q)' <=> HasDir(q)) /\ (HasDir(q) => ps'[q].pd = ps[q].pd)  BY DEF DirsStay
  <2>2. CASE q = p
    <3>1. DirOf(p)' = DirOf(p)  BY <2>1, <2>2 DEF DirOf
    <3>2. \A f \in DirEntries : TableOf(p, f)' = kpage'[pd][f] /\ TableOf(p, f) = kpage[pd][f]
      BY <1>1, <2>1, <2>2 DEF TableOf
    <3>3. \A f \in DirEntries : kpage'[pd][f] = IF f = e THEN NoPage ELSE kpage[pd][f]  BY <1>3, <1>4
    <3> QED  BY <2>2, <3>1, <3>2, <3>3
  <2>3. CASE q # p /\ HasDir(q)
    <3>1. kpage'[ps[q].pd] = kpage[ps[q].pd]  BY <1>2, <1>4, <2>3
    <3>2. HasDir(q) /\ HasDir(q)' /\ ps'[q].pd = ps[q].pd  BY <2>1, <2>3
    <3>3. DirOf(q)' = DirOf(q)  BY ONLY <3>2 DEF DirOf
    <3>4. \A f \in DirEntries : TableOf(q, f)' = TableOf(q, f)  BY ONLY <3>1, <3>2 DEF TableOf
    <3> QED  BY <2>3, <3>3, <3>4
  <2>4. CASE q # p /\ ~HasDir(q)  BY <2>1, <2>4 DEF DirOf, TableOf
  <2> QED  BY <2>2, <2>3, <2>4
<1>6. Exactly(kown, DOMAIN kpage)'
  <2>1. PICK a, R : a = <<"table", p, e>> /\ R = {a}  OBVIOUS
  <2>2. /\ a \in KRole /\ kown[a] = table /\ kown'[a] = NoPage
        /\ DOMAIN kown' = KRole /\ DOMAIN kown = KRole /\ Exactly(kown, DOMAIN kpage)
    BY <1>1, <1>5, <2>1, Roles DEF KRolesAre, LInv
  <2>3. \A r \in KRole : r # a => kown'[r] = kown[r]
    <3> SUFFICES ASSUME NEW r \in KRole, r # a PROVE kown'[r] = kown[r]  OBVIOUS
    <3>1. CASE \E q \in Task : r = <<"dir", q, 0>>  BY <1>5, <3>1, Roles DEF KRolesAre
    <3>2. CASE \E q \in Task, f \in DirEntries : r = <<"table", q, f>>
      <4>1. PICK q \in Task : \E f \in DirEntries : r = <<"table", q, f>>  BY <3>2
      <4>2. PICK f \in DirEntries : r = <<"table", q, f>>  BY <4>1
      <4>3. ~(q = p /\ f = e)  BY <2>1, <4>2
      <4> QED  BY <1>5, <4>2, <4>3, Roles DEF KRolesAre
    <3> QED  BY <3>1, <3>2, KRoleIs
  <2>4. R \subseteq KRole /\ \A r \in KRole : kown'[r] = IF r \in R THEN NoPage ELSE kown[r]
    BY <2>1, <2>2, <2>3
  <2>5. Exactly(kown', DOMAIN kpage \ {kown[b] : b \in R})  BY ONLY <2>2, <2>4, RolesEnd
  <2>6. {kown[b] : b \in R} = {table}  BY <2>1, <2>2
  <2> QED  BY <1>4, <2>5, <2>6 DEF Exactly
<1>7. \A q \in Task, f \in DirEntries : TableOf(q, f) # NoPage =>
         TableOf(q, f) \in DOMAIN kpage /\ TableOf(q, f) # pd /\ (TableOf(q, f) = table => q = p /\ f = e)
  <2> SUFFICES ASSUME NEW q \in Task, NEW f \in DirEntries, TableOf(q, f) # NoPage
               PROVE  TableOf(q, f) \in DOMAIN kpage /\ TableOf(q, f) # pd /\ (TableOf(q, f) = table => q = p /\ f = e)
    OBVIOUS
  <2>1. DirOf(p) = pd /\ DirOf(p) # NoPage  BY <1>1 DEF DirOf, HasDir
  <2> QED  BY <1>1, <2>1, KernelApart
<1>8. KTyped'
  <2>1. DOMAIN kpage' \subseteq KernelPages  BY <1>4 DEF LInv, KTyped
  <2>2. \A q \in Task : HasDir(q)' => kpage'[ps'[q].pd] \in [DirEntries -> Nat]
    <3> SUFFICES ASSUME NEW q \in Task, HasDir(q) PROVE kpage'[ps[q].pd] \in [DirEntries -> Nat]
      BY DEF DirsStay
    <3>1. CASE ps[q].pd = pd
      <4>1. kpage'[pd] \in [DirEntries -> Nat]
        <5>1. kpage'[pd] = [kpage[pd] EXCEPT ![e] = NoPage] /\ NoPage \in Nat  BY <1>4 DEF NoPage
        <5> QED  BY ONLY <1>3, <5>1
      <4> QED  BY <3>1, <4>1
    <3>2. CASE ps[q].pd # pd  BY <1>2, <1>4, <3>2 DEF LInv, KTyped
    <3> QED  BY <3>1, <3>2
  <2>3. \A q \in Task, f \in DirEntries : TableOf(q, f)' # NoPage => kpage'[TableOf(q, f)'] \in [TableEntries -> {Absent} \cup Entry]
    <3> SUFFICES ASSUME NEW q \in Task, NEW f \in DirEntries, TableOf(q, f)' # NoPage
                 PROVE  kpage'[TableOf(q, f)'] \in [TableEntries -> {Absent} \cup Entry]
      OBVIOUS
    <3>1. ~(q = p /\ f = e) /\ TableOf(q, f)' = TableOf(q, f)  BY <1>5
    <3>2. kpage[TableOf(q, f)] \in [TableEntries -> {Absent} \cup Entry]  BY <3>1 DEF LInv, KTyped
    <3> QED  BY <1>4, <1>7, <3>1, <3>2
  <2> QED  BY <1>4, <2>1, <2>2, <2>3 DEF KTyped
<1>9. \A t \in TableEntries : EntryOf(p, e, t)' = Absent
  <2>1. TableOf(p, e)' = NoPage  BY <1>5
  <2> QED  BY <2>1 DEF EntryOf
<1>10. ASSUME NEW q \in Task, NEW f \in DirEntries, NEW t \in TableEntries, ~(q = p /\ f = e)
       PROVE  EntryOf(q, f, t)' = EntryOf(q, f, t)
  <2>1. TableOf(q, f)' = TableOf(q, f)  BY <1>5, <1>10
  <2>2. CASE TableOf(q, f) = NoPage  BY <2>1, <2>2 DEF EntryOf
  <2>3. CASE TableOf(q, f) # NoPage  BY <1>4, <1>7, <1>10, <2>1, <2>3 DEF EntryOf
  <2> QED  BY <2>2, <2>3
<1> QED  BY <1>6, <1>8, <1>9, <1>10

\* The pages of that table are no one's any more.
LEMMA PagesGo ==
    ASSUME LInv, KTyped', NEW p \in Task, NEW e \in DirEntries,
           \A t \in TableEntries : EntryOf(p, e, t)' = Absent,
           \A q \in Task, f \in DirEntries, t \in TableEntries : ~(q = p /\ f = e) => EntryOf(q, f, t)' = EntryOf(q, f, t),
           \A q \in Task : FillOf(q)' = FillOf(q),
           upage' = Drop(upage, {EntryOf(p, e, s).page : s \in {t \in TableEntries : EntryOf(p, e, t) # Absent}})
    PROVE  UTyped' /\ Exactly(uown, DOMAIN upage)'
<1>1. PICK R : R = {<<"map", p, e, s>> : s \in TableEntries}  OBVIOUS
<1>2. PICK pages : pages = {EntryOf(p, e, s).page : s \in {t \in TableEntries : EntryOf(p, e, t) # Absent}}  OBVIOUS
<1>3. DOMAIN uown' = URole /\ DOMAIN uown = URole /\ Exactly(uown, DOMAIN upage)
  BY Roles DEF URolesAre, LInv
<1>4. \A t \in TableEntries : MapOf(p, e, t)' = NoPage  BY DEF MapOf
<1>5. \A q \in Task, f \in DirEntries, t \in TableEntries : ~(q = p /\ f = e) => MapOf(q, f, t)' = MapOf(q, f, t)
  BY DEF MapOf
<1>6. \A r \in URole : uown'[r] = IF r \in R THEN NoPage ELSE uown[r]
  <2> SUFFICES ASSUME NEW r \in URole PROVE uown'[r] = IF r \in R THEN NoPage ELSE uown[r]  OBVIOUS
  <2>1. CASE \E q \in Task : r = <<"fill", q, 0, 0>>
    <3>1. r \notin R  BY <1>1, <2>1
    <3> QED  BY <2>1, <3>1, Roles DEF URolesAre
  <2>2. CASE \E q \in Task, f \in DirEntries, t \in TableEntries : r = <<"map", q, f, t>>
    <3>1. PICK q \in Task : \E f \in DirEntries, t \in TableEntries : r = <<"map", q, f, t>>  BY <2>2
    <3>2. PICK f \in DirEntries, t \in TableEntries : r = <<"map", q, f, t>>  BY <3>1
    <3>3. uown[r] = MapOf(q, f, t) /\ uown'[r] = MapOf(q, f, t)'  BY <3>2, Roles DEF URolesAre
    <3>4. CASE q = p /\ f = e
      <4>1. r \in R  BY <1>1, <3>2, <3>4
      <4> QED  BY <1>4, <3>3, <3>4, <4>1
    <3>5. CASE ~(q = p /\ f = e)
      <4>1. r \notin R  BY <1>1, <3>2, <3>5
      <4> QED  BY <1>5, <3>3, <3>5, <4>1
    <3> QED  BY <3>4, <3>5
  <2> QED  BY <2>1, <2>2, URoleIs
<1>7. R \subseteq URole  BY <1>1, Roles DEF URolesAre
<1>8. Exactly(uown', DOMAIN upage \ {uown[b] : b \in R})  BY ONLY <1>3, <1>6, <1>7, RolesEnd
<1>9. DOMAIN upage \ {uown[b] : b \in R} = DOMAIN upage \ pages
  <2>1. NoPage \notin DOMAIN upage  BY Constants DEF LInv, UTyped, NoPage
  <2>2. {uown[b] : b \in R} = {MapOf(p, e, s) : s \in TableEntries}
    <3>1. \A s \in TableEntries : uown[<<"map", p, e, s>>] = MapOf(p, e, s)  BY Roles DEF URolesAre
    <3> QED  BY <1>1, <3>1
  <2>3. \A s \in TableEntries : MapOf(p, e, s) = IF EntryOf(p, e, s) = Absent THEN NoPage ELSE EntryOf(p, e, s).page
    BY DEF MapOf
  <2>4. \A x \in DOMAIN upage : x \in {MapOf(p, e, s) : s \in TableEntries} <=> x \in pages
    BY <1>2, <2>1, <2>3
  <2> QED  BY <2>2, <2>4
<1>10. DOMAIN upage' = DOMAIN upage \ pages /\ upage' = [u \in DOMAIN upage' |-> upage'[u]]
  BY <1>2 DEF Drop
<1>11. UTyped'  BY <1>10 DEF UTyped, LInv
<1> QED  BY <1>8, <1>9, <1>10, <1>11 DEF Exactly

\* The directory goes when it has no tables.
LEMMA DirGoes ==
    ASSUME LInv, NEW p \in Task, HasDir(p), \A e \in DirEntries : TableOf(p, e) = NoPage,
           ~HasDir(p)', \A q \in Task : q # p => ps'[q] = ps[q], kpage' = Drop(kpage, {ps[p].pd})
    PROVE  KTyped' /\ Exactly(kown, DOMAIN kpage)' /\ EntriesStay
<1>1. PICK pd : pd = ps[p].pd  OBVIOUS
<1>2. DirOf(p) = pd /\ DirOf(p) # NoPage  BY <1>1 DEF DirOf, HasDir
<1>3. /\ DOMAIN kpage' = DOMAIN kpage \ {pd} /\ kpage' = [k \in DOMAIN kpage' |-> kpage'[k]]
      /\ \A k \in DOMAIN kpage : k # pd => kpage'[k] = kpage[k]
  BY <1>1 DEF Drop
<1>4. \A q \in Task : q # p => (HasDir(q)' <=> HasDir(q)) /\ ps'[q].pd = ps[q].pd  BY DEF HasDir
<1>5. \A q \in Task : q # p /\ HasDir(q) => ps[q].pd \in DOMAIN kpage /\ ps[q].pd # pd
  <2> SUFFICES ASSUME NEW q \in Task, q # p, HasDir(q) PROVE ps[q].pd \in DOMAIN kpage /\ ps[q].pd # pd
    OBVIOUS
  <2>1. DirOf(q) = ps[q].pd /\ DirOf(q) # NoPage  BY DEF DirOf, HasDir
  <2> QED  BY <1>2, <2>1, KernelApart
<1>6. ASSUME NEW q \in Task
      PROVE  /\ DirOf(q)' = IF q = p THEN NoPage ELSE DirOf(q)
             /\ \A f \in DirEntries : TableOf(q, f)' = TableOf(q, f)
  <2>1. CASE q = p  BY <2>1 DEF DirOf, TableOf
  <2>2. CASE q # p /\ HasDir(q)
    <3>1. kpage'[ps[q].pd] = kpage[ps[q].pd]  BY <1>3, <1>5, <2>2
    <3>2. HasDir(q) /\ HasDir(q)' /\ ps'[q].pd = ps[q].pd  BY <1>4, <2>2
    <3>3. DirOf(q)' = DirOf(q)  BY ONLY <3>2 DEF DirOf
    <3>4. \A f \in DirEntries : TableOf(q, f)' = TableOf(q, f)  BY ONLY <3>1, <3>2 DEF TableOf
    <3> QED  BY <2>2, <3>3, <3>4
  <2>3. CASE q # p /\ ~HasDir(q)
    <3>1. ~HasDir(q)'  BY <1>4, <2>3
    <3> QED  BY <2>3, <3>1 DEF DirOf, TableOf
  <2> QED  BY <2>1, <2>2, <2>3
<1>7. Exactly(kown, DOMAIN kpage)'
  <2>1. PICK a, R : a = <<"dir", p, 0>> /\ R = {a}  OBVIOUS
  <2>2. /\ a \in KRole /\ kown[a] = pd /\ kown'[a] = NoPage
        /\ DOMAIN kown' = KRole /\ DOMAIN kown = KRole /\ Exactly(kown, DOMAIN kpage)
    BY <1>2, <1>6, <2>1, Roles DEF KRolesAre, LInv
  <2>3. \A r \in KRole : r # a => kown'[r] = kown[r]
    <3> SUFFICES ASSUME NEW r \in KRole, r # a PROVE kown'[r] = kown[r]  OBVIOUS
    <3>1. CASE \E q \in Task : r = <<"dir", q, 0>>
      <4>1. PICK q \in Task : r = <<"dir", q, 0>>  BY <3>1
      <4>2. q # p  BY <2>1, <4>1
      <4> QED  BY <1>6, <4>1, <4>2, Roles DEF KRolesAre
    <3>2. CASE \E q \in Task, f \in DirEntries : r = <<"table", q, f>>  BY <1>6, <3>2, Roles DEF KRolesAre
    <3> QED  BY <3>1, <3>2, KRoleIs
  <2>4. R \subseteq KRole /\ \A r \in KRole : kown'[r] = IF r \in R THEN NoPage ELSE kown[r]
    BY <2>1, <2>2, <2>3
  <2>5. Exactly(kown', DOMAIN kpage \ {kown[b] : b \in R})  BY ONLY <2>2, <2>4, RolesEnd
  <2>6. {kown[b] : b \in R} = {pd}  BY <2>1, <2>2
  <2> QED  BY <1>3, <2>5, <2>6 DEF Exactly
<1>8. \A q \in Task, f \in DirEntries : TableOf(q, f) # NoPage => TableOf(q, f) \in DOMAIN kpage /\ TableOf(q, f) # pd
  BY <1>2, KernelApart
<1>9. EntriesStay
  <2> SUFFICES ASSUME NEW q \in Task, NEW f \in DirEntries, NEW t \in TableEntries PROVE EntryOf(q, f, t)' = EntryOf(q, f, t)
    BY DEF EntriesStay
  <2>1. TableOf(q, f)' = TableOf(q, f)  BY <1>6
  <2>2. CASE TableOf(q, f) = NoPage  BY <2>1, <2>2 DEF EntryOf
  <2>3. CASE TableOf(q, f) # NoPage  BY <1>3, <1>8, <2>1, <2>3 DEF EntryOf
  <2> QED  BY <2>2, <2>3
<1>10. KTyped'
  <2>1. DOMAIN kpage' \subseteq KernelPages  BY <1>3 DEF LInv, KTyped
  <2>2. \A q \in Task : HasDir(q)' => kpage'[ps'[q].pd] \in [DirEntries -> Nat]
    <3> SUFFICES ASSUME NEW q \in Task, HasDir(q)' PROVE kpage'[ps'[q].pd] \in [DirEntries -> Nat]
      OBVIOUS
    <3>1. q # p /\ HasDir(q) /\ ps'[q].pd = ps[q].pd  BY <1>4
    <3>2. kpage[ps[q].pd] \in [DirEntries -> Nat]  BY <3>1 DEF LInv, KTyped
    <3> QED  BY <1>3, <1>5, <3>1, <3>2
  <2>3. \A q \in Task, f \in DirEntries : TableOf(q, f)' # NoPage => kpage'[TableOf(q, f)'] \in [TableEntries -> {Absent} \cup Entry]
    <3> SUFFICES ASSUME NEW q \in Task, NEW f \in DirEntries, TableOf(q, f)' # NoPage
                 PROVE  kpage'[TableOf(q, f)'] \in [TableEntries -> {Absent} \cup Entry]
      OBVIOUS
    <3>1. TableOf(q, f)' = TableOf(q, f)  BY <1>6
    <3>2. kpage[TableOf(q, f)] \in [TableEntries -> {Absent} \cup Entry]  BY <3>1 DEF LInv, KTyped
    <3> QED  BY <1>3, <1>8, <3>1, <3>2
  <2> QED  BY <1>3, <2>1, <2>2, <2>3 DEF KTyped
<1> QED  BY <1>7, <1>9, <1>10

\* One turn of process_exit(): a table goes, or the directory.
LEMMA pagedir_destroyKeeps == ASSUME LInv, NEW p \in Task, pagedir_destroy(p) PROVE LInv'
<1>1. PICK pd, tables : pd = ps[p].pd /\ tables = {e \in DirEntries : kpage[pd][e] # NoPage}  OBVIOUS
<1>2. ps[p].pc \in {"run", "exit"}  BY DEF pagedir_destroy
<1>3. ProcRec(ps[p]) /\ ProcAt(ps[p]) /\ ps[p].page = NoPage  BY <1>2, RecIs DEF ProcAt
<1>4. HasDir(p) <=> pd # NoPage  BY <1>1, <1>2 DEF HasDir
<1>5. FillOf(p) = NoPage  BY <1>3 DEF FillOf
<1>6. CASE pd # NoPage /\ tables # {}
  <2>1. PICK e : e = Min(tables)  OBVIOUS
  <2>2. e \in tables
    <3>1. tables \subseteq Nat  BY <1>1, Layout DEF DirEntries
    <3> QED  BY <1>6, <2>1, <3>1, LeastNat
  <2>3. PICK table : table = kpage[pd][e]  OBVIOUS
  <2>4. /\ upage' = Drop(upage, {kpage[table][s].page : s \in {t \in TableEntries : kpage[table][t] # Absent}})
        /\ kpage' = Drop([kpage EXCEPT ![pd][e] = NoPage], {table}) /\ Goto(p, "exit")
    BY <1>1, <1>6, <2>1, <2>3, Zenon DEF pagedir_destroy
  <2>5. e \in DirEntries /\ HasDir(p) /\ TableOf(p, e) = table /\ table # NoPage
    BY <1>1, <1>4, <1>6, <2>2, <2>3 DEF TableOf
  <2>6. PICK r : r = [ps[p] EXCEPT !.pc = "exit"] /\ ps' = [ps EXCEPT ![p] = r]  BY <2>4 DEF Goto
  <2>7. ProcRec(r) /\ r.pc = "exit" /\ r.pd = ps[p].pd /\ r.page = NoPage  BY <1>3, <2>6 DEF ProcRec, Label
  <2>8. ProcAt(r)  BY <2>7 DEF ProcAt, Label
  <2>9. /\ ProcsAt' /\ DirsStay
        /\ FillOf(p)' = NoPage /\ \A q \in Task : q # p => FillOf(q)' = FillOf(q)
    BY <1>2, <2>6, <2>7, <2>8, OnesStep
  <2>10. kpage' = Drop([kpage EXCEPT ![ps[p].pd][e] = NoPage], {TableOf(p, e)})  BY ONLY <1>1, <2>4, <2>5, Zenon
  <2>11. /\ KTyped' /\ Exactly(kown, DOMAIN kpage)'
         /\ \A t \in TableEntries : EntryOf(p, e, t)' = Absent
         /\ \A q \in Task, f \in DirEntries, t \in TableEntries : ~(q = p /\ f = e) => EntryOf(q, f, t)' = EntryOf(q, f, t)
    BY <2>5, <2>9, <2>10, TableGoes
  <2>12. \A s \in TableEntries : EntryOf(p, e, s) = kpage[table][s]  BY <2>5 DEF EntryOf
  <2>13. upage' = Drop(upage, {EntryOf(p, e, s).page : s \in {t \in TableEntries : EntryOf(p, e, t) # Absent}})
    <3>1. {kpage[table][s].page : s \in {t \in TableEntries : kpage[table][t] # Absent}}
            = {EntryOf(p, e, s).page : s \in {t \in TableEntries : EntryOf(p, e, t) # Absent}}
      BY <2>12
    <3> QED  BY <2>4, <3>1
  <2>14. \A q \in Task : FillOf(q)' = FillOf(q)  BY <1>5, <2>9
  <2>15. UTyped' /\ Exactly(uown, DOMAIN upage)'  BY <2>5, <2>11, <2>13, <2>14, PagesGo
  <2> QED  BY <2>9, <2>11, <2>15 DEF LInv
<1>7. CASE ~(pd # NoPage /\ tables # {})
  <2>1. kpage' = Drop(kpage, {pd}) /\ ps' = [ps EXCEPT ![p] = Nowhere] /\ upage' = upage
    BY <1>1, <1>7, Zenon DEF pagedir_destroy
  <2>2. PICK r : r = Nowhere  OBVIOUS
  <2>3. r.pc = "none" /\ ProcAt(r)  BY <2>2 DEF Nowhere, ProcAt, Label
  <2>4. ProcsAt' /\ ps'[p] = r /\ \A q \in Task : q # p => ps'[q] = ps[q]
    BY <2>1, <2>2, <2>3, ProcStep DEF LInv
  <2>5. ~HasDir(p)'  BY <2>3, <2>4 DEF HasDir
  <2>6. \A q \in Task : FillOf(q)' = FillOf(q)  BY <1>5, <2>3, <2>4 DEF FillOf
  <2>7. KTyped' /\ Exactly(kown, DOMAIN kpage)' /\ EntriesStay
    <3>1. CASE pd # NoPage
      <4>1. HasDir(p) /\ \A e \in DirEntries : TableOf(p, e) = NoPage  BY <1>1, <1>4, <1>7, <3>1 DEF TableOf
      <4> QED  BY <1>1, <2>1, <2>4, <2>5, <4>1, DirGoes
    <3>2. CASE pd = NoPage
      <4>1. pd \notin DOMAIN kpage  BY <3>2, Constants DEF LInv, KTyped, NoPage
      <4>2. kpage' = kpage  BY <2>1, <4>1 DEF Drop, LInv, KTyped
      <4>3. ~HasDir(p)  BY <1>4, <3>2
      <4>4. DirsStay  BY <2>4, <2>5, <4>3 DEF DirsStay, HasDir
      <4> QED  BY <4>2, <4>4, KernelStays
    <3> QED  BY <3>1, <3>2
  <2>8. UTyped' /\ DOMAIN upage' = DOMAIN upage  BY <2>1 DEF UTyped, LInv
  <2>9. Exactly(uown, DOMAIN upage)'  BY <2>6, <2>7, <2>8, UsersStay
  <2> QED  BY <2>4, <2>7, <2>8, <2>9 DEF LInv
<1> QED  BY <1>6, <1>7

-----------------------------------------------------------------------------
(* The invariant holds.                                                     *)

\* It does when no process has been made.
LEMMA LoaderInitOK == LoaderInit => LInv
<1> SUFFICES ASSUME LoaderInit PROVE LInv  OBVIOUS
<1>1. \A p \in Task : ps[p].pc = "none"  BY DEF LoaderInit, Nowhere
<1>2. DOMAIN kpage = {} /\ DOMAIN upage = {} /\ kpage = [k \in {} |-> kpage[k]] /\ upage = [u \in {} |-> upage[u]]
  BY DEF LoaderInit
<1>3. ProcsAt  BY <1>1 DEF ProcsAt, ProcAt, Label, LoaderInit
<1>4. \A p \in Task : ~HasDir(p) /\ DirOf(p) = NoPage /\ FillOf(p) = NoPage /\ \A e \in DirEntries : TableOf(p, e) = NoPage
  BY <1>1 DEF HasDir, DirOf, FillOf, TableOf
<1>5. \A p \in Task, e \in DirEntries, s \in TableEntries : MapOf(p, e, s) = NoPage  BY <1>4 DEF MapOf, EntryOf
<1>6. KTyped /\ UTyped  BY <1>2, <1>4 DEF KTyped, UTyped
<1>7. Exactly(kown, DOMAIN kpage)
  <2>1. \A r \in KRole : kown[r] = NoPage  BY <1>4, Roles, KRoleIs DEF KRolesAre
  <2>2. DOMAIN kown = KRole  BY Roles DEF KRolesAre
  <2> QED  BY <1>2, <2>1, <2>2 DEF Exactly
<1>8. Exactly(uown, DOMAIN upage)
  <2>1. \A r \in URole : uown[r] = NoPage  BY <1>4, <1>5, Roles, URoleIs DEF URolesAre
  <2>2. DOMAIN uown = URole  BY Roles DEF URolesAre
  <2> QED  BY <1>2, <2>1, <2>2 DEF Exactly
<1> QED  BY <1>3, <1>6, <1>7, <1>8 DEF LInv

\* Nothing changes.
LEMMA LoaderStutters == ASSUME LInv, UNCHANGED loaderVars PROVE LInv'
<1>1. ps' = ps /\ kpage' = kpage /\ upage' = upage  BY DEF loaderVars
<1>2. ProcsAt' /\ UTyped'  BY <1>1 DEF LInv, ProcsAt, UTyped
<1>3. DirsStay /\ \A q \in Task : FillOf(q)' = FillOf(q)  BY <1>1 DEF DirsStay, HasDir, FillOf
<1>4. KTyped' /\ Exactly(kown, DOMAIN kpage)' /\ EntriesStay  BY <1>1, <1>3, KernelStays
<1>5. Exactly(uown, DOMAIN upage)'  BY <1>1, <1>2, <1>3, <1>4, UsersStay
<1> QED  BY <1>2, <1>4, <1>5 DEF LInv

\* Every page of either pool that is in use has one role, in every state that
\* processes which load, run and end at the same time can reach.
THEOREM LoaderInvariant == LoaderSpec => []LInv
<1>1. LoaderInit => LInv  BY LoaderInitOK
<1>2. LInv /\ [LoaderNext]_loaderVars => LInv'
  <2> SUFFICES ASSUME LInv, [LoaderNext]_loaderVars PROVE LInv'  OBVIOUS
  <2>1. CASE LoaderNext
    <3>1. PICK p \in Task : LoaderStep(p)  BY <2>1 DEF LoaderNext
    <3>2. CASE \E command \in Commands : Start(p, command)  BY <3>2, StartKeeps
    <3>3. CASE CreateDir(p)  BY <3>3, CreateDirKeeps
    <3>4. CASE ReadHeader(p)  BY <3>4, ReadHeaderKeeps
    <3>5. CASE TakePage(p)  BY <3>5, TakePageKeeps
    <3>6. CASE ReadPage(p)  BY <3>6, ReadPageKeeps
    <3>7. CASE InstallPage(p)  BY <3>7, InstallPageKeeps
    <3>8. CASE setup_stack(p)  BY <3>8, setup_stackKeeps
    <3>9. CASE EnterUser(p)  BY <3>9, EnterKeeps
    <3>10. CASE pagedir_destroy(p)  BY <3>10, pagedir_destroyKeeps
    <3> QED  BY <3>1, <3>2, <3>3, <3>4, <3>5, <3>6, <3>7, <3>8, <3>9, <3>10 DEF LoaderStep
  <2>2. CASE UNCHANGED loaderVars  BY <2>2, LoaderStutters
  <2> QED  BY <2>1, <2>2
<1> QED  BY <1>1, <1>2, PTL DEF LoaderSpec

-----------------------------------------------------------------------------
(* What the invariant says of the pages in use.                             *)

\* As many of the one as of the other.
LEMMA SameSize ==
    ASSUME NEW S, IsFiniteSet(S), NEW T, NEW f \in [S -> T],
           \A a, b \in S : f[a] = f[b] => a = b, \A t \in T : \E a \in S : f[a] = t
    PROVE  IsFiniteSet(T) /\ Cardinality(T) = Cardinality(S)
<1>1. f \in Bijection(S, T)  BY DEF Bijection, Injection, Surjection, IsInjective
<1>2. ExistsBijection(S, T)  BY <1>1 DEF ExistsBijection
<1> QED  BY <1>2, FS_Bijection

\* A process without a directory fills no page.
LEMMA FillsWithDir == ASSUME LInv, NEW p \in Task, ~HasDir(p) PROVE FillOf(p) = NoPage
<1>1. ProcAt(ps[p])  BY DEF LInv, ProcsAt
<1>2. CASE ps[p].pc = "none"  BY <1>2 DEF FillOf
<1>3. CASE ps[p].pc # "none"
  <2>1. ps[p].pd = NoPage  BY <1>3 DEF HasDir
  <2>2. ps[p].pc \in {"create", "exit"}  BY <1>1, <1>3, <2>1 DEF ProcAt, Label
  <2> QED  BY <1>1, <1>3, <2>2 DEF ProcAt, FillOf
<1> QED  BY <1>2, <1>3

\* The pages process p maps.
Maps(p) == {MapOf(p, e, s) : e \in DirEntries, s \in TableEntries} \ {NoPage}
\* The pages its tables have.
Found(p) == UNION {PagesOf(t) : t \in Tables(p)}

LEMMA HeldIs == ASSUME LInv, NEW p \in Task PROVE Held(p) = Maps(p) \cup ({FillOf(p)} \ {NoPage})
<1>1. CASE HasDir(p)
  <2>1. \A e \in DirEntries : TableOf(p, e) = kpage[ps[p].pd][e]  BY <1>1 DEF TableOf
  <2>2. FillOf(p) = ps[p].page  BY <1>1 DEF FillOf, HasDir
  <2>3. \A t \in Tables(p) : PagesOf(t) \subseteq Maps(p)
    <3> SUFFICES ASSUME NEW t \in Tables(p), NEW x \in PagesOf(t) PROVE x \in Maps(p)  OBVIOUS
    <3>1. PICK e \in DirEntries : t = TableOf(p, e) /\ t # NoPage  BY <2>1 DEF Tables
    <3>2. PICK s \in TableEntries : kpage[t][s] # Absent /\ x = kpage[t][s].page  BY DEF PagesOf
    <3>3. EntryOf(p, e, s) = kpage[t][s]  BY <3>1 DEF EntryOf
    <3>4. x = MapOf(p, e, s) /\ x # NoPage
      <4>1. MapOf(p, e, s) = NoPage <=> EntryOf(p, e, s) = Absent  BY EntryIs DEF LInv
      <4> QED  BY <3>2, <3>3, <4>1 DEF MapOf
    <3> QED  BY <3>4 DEF Maps
  <2>4. \A x \in Maps(p) : \E t \in Tables(p) : x \in PagesOf(t)
    <3> SUFFICES ASSUME NEW x \in Maps(p) PROVE \E t \in Tables(p) : x \in PagesOf(t)  OBVIOUS
    <3>1. PICK e \in DirEntries, s \in TableEntries : x = MapOf(p, e, s) /\ x # NoPage  BY DEF Maps
    <3>2. EntryOf(p, e, s) # Absent /\ x = EntryOf(p, e, s).page  BY <3>1 DEF MapOf
    <3>3. TableOf(p, e) # NoPage /\ EntryOf(p, e, s) = kpage[TableOf(p, e)][s]  BY <3>2 DEF EntryOf
    <3>4. TableOf(p, e) \in Tables(p)  BY <2>1, <3>3 DEF Tables
    <3>5. x \in PagesOf(TableOf(p, e))  BY <3>2, <3>3 DEF PagesOf
    <3> QED  BY <3>4, <3>5
  <2>5. Found(p) = Maps(p)
    <3>1. \A x : x \in Found(p) <=> \E t \in Tables(p) : x \in PagesOf(t)  BY DEF Found
    <3> QED  BY <2>3, <2>4, <3>1
  <2>6. Held(p) = Found(p) \cup ({ps[p].page} \ {NoPage})  BY ONLY <1>1, Zenon DEF Held, Found
  <2> QED  BY <2>2, <2>5, <2>6
<1>2. CASE ~HasDir(p)
  <2>1. Maps(p) = {}
    <3>1. \A e \in DirEntries, s \in TableEntries : MapOf(p, e, s) = NoPage  BY <1>2 DEF MapOf, EntryOf, TableOf
    <3> QED  BY <3>1 DEF Maps
  <2>2. FillOf(p) = NoPage  BY <1>2, FillsWithDir
  <2>3. Held(p) = {}  BY <1>2 DEF Held
  <2> QED  BY <2>1, <2>2, <2>3
<1> QED  BY <1>1, <1>2

LEMMA KernelHeldIs ==
    ASSUME LInv, NEW p \in Task
    PROVE  KernelHeld(p) = ({DirOf(p)} \cup {TableOf(p, e) : e \in DirEntries}) \ {NoPage}
<1>1. CASE HasDir(p)
  <2>1. \A e \in DirEntries : TableOf(p, e) = kpage[ps[p].pd][e]  BY <1>1 DEF TableOf
  <2>2. DirOf(p) = ps[p].pd /\ DirOf(p) # NoPage  BY <1>1 DEF DirOf, HasDir
  <2>3. Tables(p) = {TableOf(p, e) : e \in DirEntries} \ {NoPage}  BY <2>1 DEF Tables
  <2> QED  BY <1>1, <2>2, <2>3 DEF KernelHeld
<1>2. CASE ~HasDir(p)
  <2>1. DirOf(p) = NoPage /\ \A e \in DirEntries : TableOf(p, e) = NoPage  BY <1>2 DEF DirOf, TableOf
  <2> QED  BY <1>2, <2>1 DEF KernelHeld
<1> QED  BY <1>1, <1>2

\* The pages in use are those the processes hold.
LEMMA UserAll == ASSUME LInv PROVE DOMAIN upage = UNION {Held(p) : p \in Task}
<1>1. DOMAIN upage = {uown[r] : r \in URole} \ {NoPage}
  <2>1. DOMAIN uown = URole  BY Roles DEF URolesAre
  <2> QED  BY <2>1 DEF LInv, Exactly
<1>2. ASSUME NEW x \in DOMAIN upage PROVE \E p \in Task : x \in Held(p)
  <2>1. PICK r \in URole : x = uown[r] /\ x # NoPage  BY <1>1
  <2>2. CASE \E q \in Task : r = <<"fill", q, 0, 0>>
    <3>1. PICK q \in Task : r = <<"fill", q, 0, 0>>  BY <2>2
    <3>2. x = FillOf(q)  BY <2>1, <3>1, Roles DEF URolesAre
    <3> QED  BY <2>1, <3>2, HeldIs
  <2>3. CASE \E q \in Task, e \in DirEntries, s \in TableEntries : r = <<"map", q, e, s>>
    <3>1. PICK q \in Task : \E e \in DirEntries, s \in TableEntries : r = <<"map", q, e, s>>  BY <2>3
    <3>2. PICK e \in DirEntries, s \in TableEntries : r = <<"map", q, e, s>>  BY <3>1
    <3>3. x = MapOf(q, e, s)  BY <2>1, <3>2, Roles DEF URolesAre
    <3>4. x \in Maps(q)  BY <2>1, <3>3 DEF Maps
    <3> QED  BY <3>4, HeldIs
  <2> QED  BY <2>2, <2>3, URoleIs
<1>3. ASSUME NEW p \in Task, NEW x \in Held(p) PROVE x \in DOMAIN upage
  <2>1. x # NoPage /\ (x = FillOf(p) \/ \E e \in DirEntries, s \in TableEntries : x = MapOf(p, e, s))
    BY HeldIs DEF Maps
  <2> QED  BY <2>1, UserApart
<1> QED  BY <1>2, <1>3

LEMMA KernelAll == ASSUME LInv PROVE DOMAIN kpage = UNION {KernelHeld(p) : p \in Task}
<1>1. DOMAIN kpage = {kown[r] : r \in KRole} \ {NoPage}
  <2>1. DOMAIN kown = KRole  BY Roles DEF KRolesAre
  <2> QED  BY <2>1 DEF LInv, Exactly
<1>2. ASSUME NEW x \in DOMAIN kpage PROVE \E p \in Task : x \in KernelHeld(p)
  <2>1. PICK r \in KRole : x = kown[r] /\ x # NoPage  BY <1>1
  <2>2. CASE \E q \in Task : r = <<"dir", q, 0>>
    <3>1. PICK q \in Task : r = <<"dir", q, 0>>  BY <2>2
    <3>2. x = DirOf(q)  BY <2>1, <3>1, Roles DEF KRolesAre
    <3> QED  BY <2>1, <3>2, KernelHeldIs
  <2>3. CASE \E q \in Task, e \in DirEntries : r = <<"table", q, e>>
    <3>1. PICK q \in Task : \E e \in DirEntries : r = <<"table", q, e>>  BY <2>3
    <3>2. PICK e \in DirEntries : r = <<"table", q, e>>  BY <3>1
    <3>3. x = TableOf(q, e)  BY <2>1, <3>2, Roles DEF KRolesAre
    <3> QED  BY <2>1, <3>3, KernelHeldIs
  <2> QED  BY <2>2, <2>3, KRoleIs
<1>3. ASSUME NEW p \in Task, NEW x \in KernelHeld(p) PROVE x \in DOMAIN kpage
  <2>1. x # NoPage /\ (x = DirOf(p) \/ \E e \in DirEntries : x = TableOf(p, e))  BY KernelHeldIs
  <2> QED  BY <2>1, KernelApart
<1> QED  BY <1>2, <1>3

\* No page is held twice.
LEMMA HeldApart ==
    ASSUME LInv, NEW p \in Task, NEW q \in Task, p # q
    PROVE  Held(p) \cap Held(q) = {} /\ KernelHeld(p) \cap KernelHeld(q) = {}
<1>1. ASSUME NEW x, x \in Held(p), x \in Held(q) PROVE FALSE
  <2>1. /\ x # NoPage /\ (x = FillOf(p) \/ \E e \in DirEntries, s \in TableEntries : x = MapOf(p, e, s))
        /\ (x = FillOf(q) \/ \E e \in DirEntries, s \in TableEntries : x = MapOf(q, e, s))
    BY <1>1, HeldIs DEF Maps
  <2> QED  BY <2>1, UserApart
<1>2. ASSUME NEW x, x \in KernelHeld(p), x \in KernelHeld(q) PROVE FALSE
  <2>1. /\ x # NoPage /\ (x = DirOf(p) \/ \E e \in DirEntries : x = TableOf(p, e))
        /\ (x = DirOf(q) \/ \E e \in DirEntries : x = TableOf(q, e))
    BY <1>2, KernelHeldIs
  <2> QED  BY <2>1, KernelApart
<1> QED  BY <1>1, <1>2

\* A process holds a page for each of its mapped addresses, and the one it fills.
LEMMA HeldCount ==
    ASSUME LInv, NEW p \in Task, HasDir(p)
    PROVE  Cardinality(Held(p)) = Cardinality(Mapped(p)) + (IF ps[p].page = NoPage THEN 0 ELSE 1)
<1>1. PICK total \in Nat : total = Spt * Tabs  BY Layout
<1>2. PHYS_BASE \div PGSIZE = total
  <2>1. (PGSIZE * total + 0) \div PGSIZE = total  BY Constants, DividedOnce
  <2>2. PGSIZE * total + 0 = PHYS_BASE /\ PHYS_BASE = PGSIZE * total  BY <1>1, Layout, Constants
  <2> QED  BY <2>1, <2>2
<1>3. PICK at : at = [n \in 0 .. total - 1 |-> MapOf(p, n \div Spt, n % Spt)]  OBVIOUS
<1>4. \A n \in 0 .. total - 1 : (n \div Spt) \in DirEntries /\ (n % Spt) \in TableEntries /\ n = Spt * (n \div Spt) + (n % Spt)
  <2> SUFFICES ASSUME NEW n \in 0 .. total - 1
               PROVE  (n \div Spt) \in DirEntries /\ (n % Spt) \in TableEntries /\ n = Spt * (n \div Spt) + (n % Spt)
    OBVIOUS
  <2>1. n \in 0 .. Spt * Tabs - 1  BY <1>1
  <2>2. (n \div Spt) \in DirEntries /\ (n % Spt) \in TableEntries  BY <2>1, WherePage
  <2>3. n \in Nat /\ Spt \in Nat \ {0}  BY Layout
  <2> QED  BY <2>2, <2>3, Divided
<1>5. PICK N : N = {n \in 0 .. total - 1 : at[n] # NoPage}  OBVIOUS
<1>6. IsFiniteSet(N)
  <2>1. IsFiniteSet(0 .. total - 1)  BY FS_Interval
  <2> QED  BY <1>5, <2>1, FS_Subset
<1>7. \A n \in 0 .. total - 1 : at[n] # NoPage <=> lookup_page(ps[p].pd, PGSIZE * n) # Absent
  <2> SUFFICES ASSUME NEW n \in 0 .. total - 1
               PROVE  at[n] # NoPage <=> lookup_page(ps[p].pd, PGSIZE * n) # Absent
    OBVIOUS
  <2>1. PICK e \in DirEntries, s \in TableEntries : e = n \div Spt /\ s = n % Spt  BY <1>4
  <2>2. n \in 0 .. Spt * Tabs - 1  BY <1>1
  <2>3. PdNo(PGSIZE * n) = e /\ PtNo(PGSIZE * n) = s  BY <2>1, <2>2, WherePage
  <2>4. TableOf(p, e) = kpage[ps[p].pd][e]  BY DEF TableOf
  <2>5. lookup_page(ps[p].pd, PGSIZE * n) = EntryOf(p, e, s)  BY <2>3, <2>4 DEF lookup_page, EntryOf
  <2>6. at[n] = MapOf(p, e, s)  BY <1>3, <2>1
  <2> QED  BY <2>5, <2>6, EntryIs DEF LInv
<1>8. Cardinality(Mapped(p)) = Cardinality(N)
  <2>1. PICK f : f = [n \in N |-> PGSIZE * n]  OBVIOUS
  <2>2. Mapped(p) = {PGSIZE * n : n \in N}
    <3>1. Mapped(p) = {a \in {PGSIZE * n : n \in 0 .. total - 1} : lookup_page(ps[p].pd, a) # Absent}
      BY <1>2 DEF Mapped
    <3> QED  BY <1>5, <1>7, <3>1
  <2>3. f \in [N -> Mapped(p)] /\ \A t \in Mapped(p) : \E n \in N : f[n] = t  BY <2>1, <2>2
  <2>4. \A a, b \in N : f[a] = f[b] => a = b
    <3> SUFFICES ASSUME NEW a \in N, NEW b \in N, f[a] = f[b] PROVE a = b  OBVIOUS
    <3>1. a \in Nat /\ b \in Nat /\ PGSIZE \in Nat \ {0} /\ 0 \in 0 .. PGSIZE - 1  BY <1>5, Constants
    <3>2. (PGSIZE * a + 0) \div PGSIZE = a /\ (PGSIZE * b + 0) \div PGSIZE = b  BY ONLY <3>1, DividedOnce
    <3>3. PGSIZE * a = PGSIZE * b  BY <2>1
    <3> QED  BY <3>2, <3>3
  <2> QED  BY ONLY <1>6, <2>3, <2>4, SameSize
<1>9. IsFiniteSet(Maps(p)) /\ Cardinality(Maps(p)) = Cardinality(N)
  <2>1. PICK f : f = [n \in N |-> at[n]]  OBVIOUS
  <2>2. f \in [N -> Maps(p)]  BY <1>3, <1>4, <1>5, <2>1 DEF Maps
  <2>3. \A t \in Maps(p) : \E n \in N : f[n] = t
    <3> SUFFICES ASSUME NEW t \in Maps(p) PROVE \E n \in N : f[n] = t  OBVIOUS
    <3>1. PICK e \in DirEntries, s \in TableEntries : t = MapOf(p, e, s) /\ t # NoPage  BY DEF Maps
    <3>2. /\ e \in Nat /\ s \in 0 .. Spt - 1 /\ Spt \in Nat \ {0} /\ Tabs \in Nat
          /\ e + 1 \in Nat /\ e + 1 <= Tabs
      BY <3>1, Layout
    <3>3. (Spt * e + s) \div Spt = e /\ (Spt * e + s) % Spt = s  BY ONLY <3>2, DividedOnce
    <3>4. PICK n \in Nat : n = Spt * e + s  BY <3>2
    <3>5. n < total
      <4>1. Spt * (e + 1) <= Spt * Tabs  BY <3>2, TimesGrows
      <4>2. Spt * (e + 1) = Spt * e + Spt  BY <3>2
      <4>3. PICK y \in Nat : y = Spt * e  BY <3>2
      <4> QED  BY <1>1, <3>2, <3>4, <4>1, <4>2, <4>3
    <3>6. n \in 0 .. total - 1 /\ at[n] = MapOf(p, e, s)  BY <1>3, <3>3, <3>4, <3>5
    <3> QED  BY <1>5, <2>1, <3>1, <3>6
  <2>4. \A a, b \in N : f[a] = f[b] => a = b
    <3> SUFFICES ASSUME NEW a \in N, NEW b \in N, f[a] = f[b] PROVE a = b  OBVIOUS
    <3>1. PICK e1 \in DirEntries, s1 \in TableEntries : e1 = a \div Spt /\ s1 = a % Spt /\ a = Spt * e1 + s1  BY <1>4, <1>5
    <3>2. PICK e2 \in DirEntries, s2 \in TableEntries : e2 = b \div Spt /\ s2 = b % Spt /\ b = Spt * e2 + s2  BY <1>4, <1>5
    <3>3. MapOf(p, e1, s1) = MapOf(p, e2, s2) /\ MapOf(p, e1, s1) # NoPage  BY <1>3, <1>5, <2>1, <3>1, <3>2
    <3>4. e1 = e2 /\ s1 = s2  BY <3>3, UserApart
    <3> QED  BY <3>1, <3>2, <3>4
  <2> QED  BY ONLY <1>6, <2>2, <2>3, <2>4, SameSize
<1>10. ps[p].page = FillOf(p)  BY DEF FillOf, HasDir
<1>11. CASE FillOf(p) = NoPage
  <2>1. Held(p) = Maps(p)  BY <1>11, HeldIs
  <2>2. Cardinality(N) \in Nat  BY <1>6, FS_CardinalityType
  <2> QED  BY <1>8, <1>9, <1>10, <1>11, <2>1, <2>2
<1>12. CASE FillOf(p) # NoPage
  <2>1. PICK x : x = FillOf(p)  OBVIOUS
  <2>2. Held(p) = Maps(p) \cup {x}  BY <1>12, <2>1, HeldIs
  <2>3. x \notin Maps(p)  BY <1>12, <2>1, UserApart DEF Maps
  <2>4. Cardinality(Maps(p) \cup {x}) = Cardinality(Maps(p)) + 1  BY <1>9, <2>3, FS_AddElement
  <2> QED  BY <1>8, <1>9, <1>10, <1>12, <2>2, <2>4
<1> QED  BY <1>11, <1>12

\* Every page in use belongs to exactly one process, which maps it at one
\* place or is filling it, whatever processes load and end at the same time
\* and wherever a load fails (load_segment(), setup_stack(), pagedir_destroy()).
THEOREM PagesKept == LoaderSpec => []PagesOwned
<1>1. LInv => PagesOwned
  BY UserAll, KernelAll, HeldApart, HeldCount DEF PagesOwned
<1> QED  BY <1>1, LoaderInvariant, PTL
=============================================================================
