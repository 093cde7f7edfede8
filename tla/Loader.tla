------------------------------- MODULE Loader -------------------------------
(* Loading of programs (userprog/process.c) into page tables                *)
(* (userprog/pagedir.c) whose pages come from the two pools of palloc.c.    *)
(* Processes load at the same time, and each may give way to the others     *)
(* wherever it allocates or reads.  The byte of a program's file at offset  *)
(* O is O itself, so a page is told by where it was read from and how far;  *)
(* the stack is kept byte by byte.                                          *)
EXTENDS Strings, FiniteSets

CONSTANTS Task,
          PGSIZE, PTSPAN, PHYS_BASE,
          AddressSpace,   \* 2^32 in the code: addresses wrap there
          KernelPages, UserPages,    \* numbers of the pages of each pool
          Programs,       \* executables: [valid, length, headers]
          Commands,       \* command lines, as sequences of characters
          BLANK, Absent

\* The headers of an executable, with what load() looks at: "short" stands for
\* a program header that the file does not hold.
Word == 0 .. AddressSpace - 1
Elf32_Phdr == [type : {"ignored", "dynamic", "short"}]
    \cup [type : {"load"}, offset : Word, vaddr : Word, filesz : Word, memsz : Word, writable : BOOLEAN]
Elf32_Ehdr == [valid : BOOLEAN, length : Word, headers : Seq(Elf32_Phdr)]

ASSUME LoaderAssumption ==
    /\ \A n \in {PGSIZE, PTSPAN, PHYS_BASE, AddressSpace} : n \in Nat \ {0}
    /\ PTSPAN % PGSIZE = 0 /\ PHYS_BASE % PTSPAN = 0 /\ PHYS_BASE < AddressSpace
    /\ \A name \in DOMAIN Programs : Programs[name] \in Elf32_Ehdr
    /\ KernelPages \subseteq Nat \ {0} /\ UserPages \subseteq Nat \ {0}
    /\ Absent \notin [page : Nat, writable : BOOLEAN]

VARIABLES ps,       \* each process: how far it is, and what load() keeps
          kpage,    \* the pages in use of the kernel's pool: directories and tables
          upage     \* the pages in use of the user's pool and what they hold

loaderVars == <<ps, kpage, upage>>

NoPage == 0
Nowhere == [pc |-> "none"]

RoundUp(x, step) == ((x + step - 1) \div step) * step
PgOfs(a) == a % PGSIZE
PgRoundDown(a) == a - PgOfs(a)
IsUser(a) == a < PHYS_BASE

DirEntries == 0 .. PHYS_BASE \div PTSPAN - 1       \* the user part of a directory
TableEntries == 0 .. PTSPAN \div PGSIZE - 1    \* the entries of a table
PdNo(a) == a \div PTSPAN
PtNo(a) == (a % PTSPAN) \div PGSIZE

\* The first free page of a pool, NoPage if there is none.
GetPage(pool, used) ==
    IF pool \subseteq DOMAIN used THEN NoPage ELSE Min(pool \ DOMAIN used)
Put(used, page, content) ==
    [f \in DOMAIN used \cup {page} |-> IF f = page THEN content ELSE used[f]]
Drop(used, pages) == [f \in DOMAIN used \ pages |-> used[f]]

----------------------------------------------------------------------------
\* pagedir.c

EmptyDir == [e \in DirEntries |-> NoPage]
EmptyTable == [s \in TableEntries |-> Absent]

\* The entry of a page, Absent also where there is no table.
lookup_page(pd, va) ==
    IF kpage[pd][PdNo(va)] = NoPage THEN Absent
    ELSE kpage[kpage[pd][PdNo(va)]][PtNo(va)]

pagedir_get_page(pd, va) == lookup_page(pd, va)

\* The kernel's pages after a mapping, or NoPage when a table could not be had.
pagedir_set_page(pd, va, entry) ==
    LET table == kpage[pd][PdNo(va)]
        new == GetPage(KernelPages, kpage)
        with == Put(kpage, new, EmptyTable)
    IN IF table # NoPage
       THEN [ok |-> TRUE, kpage |-> [kpage EXCEPT ![table][PtNo(va)] = entry]]
       ELSE IF new = NoPage THEN [ok |-> FALSE, kpage |-> kpage]
       ELSE [ok |-> TRUE,
             kpage |-> [with EXCEPT ![pd][PdNo(va)] = new, ![new][PtNo(va)] = entry]]

install_page(pd, va, entry) ==
    IF pagedir_get_page(pd, va) = Absent THEN pagedir_set_page(pd, va, entry)
    ELSE [ok |-> FALSE, kpage |-> kpage]

----------------------------------------------------------------------------
\* Arguments on the stack

\* The program's name: what comes before the first blank.
find_filename(command) ==
    LET end == Min({i \in 1 .. Len(command) + 1 : i = Len(command) + 1 \/ command[i] = BLANK})
    IN SubSeq(command, 1, end - 1)

Words(command) ==
    LET m == [i \in 0 .. Len(command) |-> IF i < Len(command) THEN command[i + 1] ELSE NUL]
        cut == Tokenize(m, 0, {BLANK})
    IN [i \in DOMAIN cut.tokens |-> Text(cut.mem, cut.tokens[i])]

\* Store(m, a, s): the string S at the addresses from A on.
Store(m, a, s) ==
    [x \in DOMAIN m |-> IF x \in a .. a + Len(s) - 1 THEN s[x - a + 1]
                        ELSE IF x = a + Len(s) THEN NUL ELSE m[x]]

\* The strings, the last argument highest; then down to a multiple of four,
\* the null pointer, the pointers to the strings, the pointer to those, their
\* number and a return address.  A word stands at its lowest address.
Push(done, word) ==
    LET top == done.top - Len(word) - 1
    IN [top |-> top, argv |-> <<top>> \o done.argv, mem |-> Store(done.mem, top, word)]
PushAll(words) ==
    FoldLeft(Push, [top |-> PHYS_BASE, argv |-> <<>>,
                    mem |-> [x \in PHYS_BASE - PGSIZE .. PHYS_BASE - 1 |-> 0]],
             Reverse(words))
Aligned(top) == top - (IF (PHYS_BASE - top) % 4 = 0 THEN 0 ELSE 4 - ((PHYS_BASE - top) % 4))
Frame(pushed, argc, array) ==
    LET pointers == [x \in {array + 4 * i : i \in 0 .. argc - 1} |->
                       pushed.argv[(x - array) \div 4 + 1]]
        words == (array - 12 :> 0) @@ (array - 8 :> argc) @@ (array - 4 :> array)
                   @@ (array + 4 * argc :> 0)
    IN [esp |-> array - 12, mem |-> words @@ pointers @@ pushed.mem]
Below(pushed, argc) == Frame(pushed, argc, Aligned(pushed.top) - 4 * (argc + 1))
StackOf(words) == Below(PushAll(words), Len(words))
build_stack(command) == StackOf(Words(command))

----------------------------------------------------------------------------
\* load()

Program(p) == Programs[find_filename(ps[p].command)]
ElfHeader(p) == Program(p).headers[ps[p].i]

validate_segment(h, length) ==
    LET end == (h.vaddr + h.memsz) % AddressSpace
    IN /\ PgOfs(h.offset) = PgOfs(h.vaddr)
       /\ h.offset <= length
       /\ h.memsz >= h.filesz
       /\ h.memsz # 0
       /\ IsUser(h.vaddr)
       /\ IsUser(end)
       /\ end >= h.vaddr
       /\ h.vaddr >= PGSIZE

\* Variant: what comes before the segment on its first page is not counted.
Segment_short(h) ==
    [ofs |-> PgRoundDown(h.offset), va |-> PgRoundDown(h.vaddr), writable |-> h.writable,
     read |-> h.filesz, zero |-> RoundUp(PgOfs(h.vaddr) + h.memsz, PGSIZE) - h.filesz]
\* What is left to load of a segment: where from, where to, how much.
Segment(h) ==
    LET read == IF h.filesz > 0 THEN PgOfs(h.vaddr) + h.filesz ELSE 0
    IN [ofs |-> PgRoundDown(h.offset), va |-> PgRoundDown(h.vaddr), writable |-> h.writable,
        read |-> read, zero |-> RoundUp(PgOfs(h.vaddr) + h.memsz, PGSIZE) - read]

Goto(p, pc) == ps' = [ps EXCEPT ![p].pc = pc]
Fail(p) == Goto(p, "exit")

\* A process is made for a command line.
Start(p, command) ==
    /\ ps[p].pc = "none"
    /\ ps' = [ps EXCEPT ![p] = [pc |-> "create", command |-> command, pd |-> NoPage, i |-> 1,
                                 seg |-> Absent, page |-> NoPage, esp |-> 0]]
    /\ UNCHANGED <<kpage, upage>>

\* load() makes the directory; then the file is opened and its header read.
CreateDir(p) ==
    LET new == GetPage(KernelPages, kpage)
    IN /\ ps[p].pc = "create"
       /\ IF new = NoPage THEN Fail(p) /\ UNCHANGED kpage
          ELSE /\ kpage' = Put(kpage, new, EmptyDir)
               /\ ps' = [ps EXCEPT ![p].pd = new, ![p].pc =
                            IF find_filename(ps[p].command) \in DOMAIN Programs /\ Program(p).valid
                            THEN "header" ELSE "exit"]
       /\ UNCHANGED upage

\* The next program header.
ReadHeader(p) ==
    /\ ps[p].pc = "header"
    /\ ps[p].i <= Len(Program(p).headers)
    /\ CASE ElfHeader(p).type = "ignored" -> ps' = [ps EXCEPT ![p].i = @ + 1]
         [] ElfHeader(p).type \in {"dynamic", "short"} -> Fail(p)
         [] ElfHeader(p).type = "load" ->
              IF validate_segment(ElfHeader(p), Program(p).length)
              THEN ps' = [ps EXCEPT ![p].pc = "segment", ![p].seg = Segment(ElfHeader(p))]
              ELSE Fail(p)
    /\ UNCHANGED <<kpage, upage>>

\* One turn of load_segment(): a page is taken, read and mapped.
TakePage(p) ==
    LET new == GetPage(UserPages, upage)
    IN /\ ps[p].pc = "segment"
       /\ IF new = NoPage THEN Fail(p) /\ UNCHANGED upage
          ELSE /\ ps' = [ps EXCEPT ![p].pc = "read", ![p].page = new]
               /\ upage' = Put(upage, new, [stale |-> TRUE])
       /\ UNCHANGED kpage

PageRead(p) == Min({ps[p].seg.read, PGSIZE})

ReadPage(p) ==
    LET seg == ps[p].seg
    IN /\ ps[p].pc = "read"
       /\ IF seg.ofs + PageRead(p) <= Program(p).length \/ PageRead(p) = 0
          THEN /\ Goto(p, "install")
               /\ upage' = [upage EXCEPT ![ps[p].page] = [ofs |-> seg.ofs, read |-> PageRead(p)]]
          ELSE /\ ps' = [ps EXCEPT ![p].pc = "exit", ![p].page = NoPage]
               /\ upage' = Drop(upage, {ps[p].page})
       /\ UNCHANGED kpage

\* The segment after a page of it is done, and where that leads.
Rest(p) ==
    LET seg == ps[p].seg
    IN [ofs |-> seg.ofs + PageRead(p), va |-> seg.va + PGSIZE, writable |-> seg.writable,
        read |-> seg.read - PageRead(p), zero |-> seg.zero - (PGSIZE - PageRead(p))]
Advanced(p) ==
    IF Rest(p).read > 0 \/ Rest(p).zero > 0
    THEN [ps[p] EXCEPT !.pc = "segment", !.page = NoPage, !.seg = Rest(p)]
    ELSE [ps[p] EXCEPT !.pc = "header", !.page = NoPage, !.seg = Absent, !.i = @ + 1]
Installed(p) ==
    install_page(ps[p].pd, ps[p].seg.va, [page |-> ps[p].page, writable |-> ps[p].seg.writable])

\* Variant: a page that could not be mapped is not given back.
InstallPage_leaks(p) ==
    /\ ps[p].pc = "install"
    /\ kpage' = Installed(p).kpage
    /\ ps' = [ps EXCEPT ![p] = IF Installed(p).ok THEN Advanced(p)
                               ELSE [@ EXCEPT !.pc = "exit", !.page = NoPage]]
    /\ UNCHANGED upage
InstallPage(p) ==
    /\ ps[p].pc = "install"
    /\ kpage' = Installed(p).kpage
    /\ IF Installed(p).ok
       THEN ps' = [ps EXCEPT ![p] = Advanced(p)] /\ UNCHANGED upage
       ELSE /\ ps' = [ps EXCEPT ![p].pc = "exit", ![p].page = NoPage]
            /\ upage' = Drop(upage, {ps[p].page})

\* The page for the stack is taken, cleared and mapped, or given back.
setup_stack(p) ==
    LET new == GetPage(UserPages, upage)
        done == install_page(ps[p].pd, PHYS_BASE - PGSIZE, [page |-> new, writable |-> TRUE])
    IN /\ ps[p].pc = "header" /\ ps[p].i > Len(Program(p).headers)
       /\ IF new # NoPage /\ done.ok
          THEN /\ Goto(p, "build")
               /\ kpage' = done.kpage
               /\ upage' = Put(upage, new, [ofs |-> 0, read |-> 0])
          ELSE Fail(p) /\ UNCHANGED <<kpage, upage>>

\* start_process() writes the arguments and enters the program.
EnterUser(p) ==
    LET page == lookup_page(ps[p].pd, PHYS_BASE - PGSIZE).page
    IN /\ ps[p].pc = "build"
       /\ \E built \in {build_stack(ps[p].command)} :
            /\ ps' = [ps EXCEPT ![p].pc = "run", ![p].esp = built.esp]
            /\ upage' = [upage EXCEPT ![page] = [stack |-> built.mem]]
       /\ UNCHANGED kpage

\* A load that failed and a process that runs and ends, or is killed, come
\* to process_exit(), which gives back one page table and its pages at a time, then
\* the directory.
pagedir_destroy(p) ==
    LET pd == ps[p].pd
        tables == {e \in DirEntries : kpage[pd][e] # NoPage}
        table == kpage[pd][Min(tables)]
        pages == {kpage[table][s].page : s \in {t \in TableEntries : kpage[table][t] # Absent}}
    IN /\ ps[p].pc \in {"run", "exit"}
       /\ IF pd # NoPage /\ tables # {}
          THEN /\ upage' = Drop(upage, pages)
               /\ kpage' = Drop([kpage EXCEPT ![pd][Min(tables)] = NoPage], {table})
               /\ Goto(p, "exit")
          ELSE /\ kpage' = Drop(kpage, {pd})
               /\ ps' = [ps EXCEPT ![p] = Nowhere]
               /\ UNCHANGED upage

LoaderInit ==
    /\ ps = [p \in Task |-> Nowhere]
    /\ kpage = <<>>
    /\ upage = <<>>

LoaderStep(p) ==
    \/ \E command \in Commands : Start(p, command)
    \/ CreateDir(p) \/ ReadHeader(p)
    \/ TakePage(p) \/ ReadPage(p) \/ InstallPage(p)
    \/ setup_stack(p) \/ EnterUser(p) \/ pagedir_destroy(p)
LoaderNext == \E p \in Task : LoaderStep(p)
LoaderSpec == LoaderInit /\ [][LoaderNext]_loaderVars

----------------------------------------------------------------------------
\* Loading(p): the process has a page directory.
HasDir(p) == ps[p].pc # "none" /\ ps[p].pd # NoPage
Tables(p) == {kpage[ps[p].pd][e] : e \in DirEntries} \ {NoPage}
PagesOf(table) == {kpage[table][s].page : s \in {t \in TableEntries : kpage[table][t] # Absent}}
Held(p) ==
    IF HasDir(p) THEN (UNION {PagesOf(t) : t \in Tables(p)}) \cup ({ps[p].page} \ {NoPage}) ELSE {}
PageAt(p, a) == lookup_page(ps[p].pd, a).page
Mapped(p) == {a \in {PGSIZE * n : n \in 0 .. PHYS_BASE \div PGSIZE - 1} :
                lookup_page(ps[p].pd, a) # Absent}
KernelHeld(p) == IF HasDir(p) THEN {ps[p].pd} \cup Tables(p) ELSE {}

\* Every page in use belongs to exactly one process, which maps it at one
\* place or is filling it: a load that fails anywhere and a process that is
\* taken apart while others load lose no page and give none back twice
\* (load_segment(), setup_stack(), pagedir_destroy()).
PagesOwned ==
    /\ DOMAIN upage = UNION {Held(p) : p \in Task}
    /\ DOMAIN kpage = UNION {KernelHeld(p) : p \in Task}
    /\ \A p, q \in Task : p # q => Held(p) \cap Held(q) = {} /\ KernelHeld(p) \cap KernelHeld(q) = {}
    /\ \A p \in Task : HasDir(p) =>
         Cardinality(Held(p)) = Cardinality(Mapped(p)) + (IF ps[p].page = NoPage THEN 0 ELSE 1)

\* Byte(p, a): what the program finds at an address: the byte of its file
\* there, a zero, or something else.
Zero == -1
Other == -2
Byte(p, a) ==
    LET content == upage[PageAt(p, a)]
    IN IF lookup_page(ps[p].pd, a) = Absent \/ "read" \notin DOMAIN content THEN Other
       ELSE IF PgOfs(a) < content.read THEN content.ofs + PgOfs(a) ELSE Zero

\* The addresses of a segment next to which its content can change: the
\* first and last of the segment, of its part of the file and of each page.
Corners(h) ==
    {a \in {h.vaddr, h.vaddr + h.filesz - 1, h.vaddr + h.filesz, h.vaddr + h.memsz - 1}
            \cup {PGSIZE * n : n \in 1 .. PHYS_BASE \div PGSIZE}
            \cup {PGSIZE * n - 1 : n \in 1 .. PHYS_BASE \div PGSIZE} :
       h.vaddr <= a /\ a < h.vaddr + h.memsz}

\* What main() finds through the stack pointer.
Arguments(mem, esp) ==
    LET argc == mem[esp + 4]
        argv == mem[esp + 8]
    IN [i \in 1 .. argc |-> Text(mem, mem[argv + 4 * (i - 1)])]

\* The words of a command line, told apart from how strtok_r() cuts it.
Starts(command) ==
    {i \in DOMAIN command : command[i] # BLANK /\ (i = 1 \/ command[i - 1] = BLANK)}
WordAt(command, i) ==
    find_filename(SubSeq(command, i, Len(command)))

\* A program that runs finds each segment of its file where its header says,
\* followed by zeros, writable as the header says, nothing else mapped but
\* its stack, and never the first page; and main() finds the words of the
\* command line, a null pointer after them, on a stack aligned to words.
ImageExact ==
    \A p \in Task : ps[p].pc = "run" =>
      LET loads == {Program(p).headers[i] : i \in
                      {j \in DOMAIN Program(p).headers : Program(p).headers[j].type = "load"}}
          stack == upage[PageAt(p, PHYS_BASE - 1)].stack
          esp == ps[p].esp
          command == ps[p].command
          found == Arguments(stack, esp)
      IN /\ \A h \in loads : \A a \in Corners(h) :
              /\ Byte(p, a) = IF a < h.vaddr + h.filesz THEN h.offset + (a - h.vaddr) ELSE Zero
              /\ lookup_page(ps[p].pd, a).writable = h.writable
         /\ \A a \in Mapped(p) :
              \/ a = PHYS_BASE - PGSIZE /\ lookup_page(ps[p].pd, a).writable
              \/ \E h \in loads : PgRoundDown(h.vaddr) <= a /\ a < h.vaddr + h.memsz
         /\ 0 \notin Mapped(p)
         /\ Len(found) = Cardinality(Starts(command))
         /\ \A i \in DOMAIN found :
              \E s \in Starts(command) :
                /\ Cardinality({t \in Starts(command) : t < s}) = i - 1
                /\ found[i] = WordAt(command, s)
         /\ stack[stack[esp + 8] + 4 * Len(found)] = 0
         /\ esp % 4 = 0
=============================================================================
