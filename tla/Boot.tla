-------------------------------- MODULE Boot --------------------------------
(* From the power switch to main(): the loader in the first sector of a     *)
(* disk (threads/loader.S) looks for a kernel on the disks and reads it     *)
(* into memory, the kernel's first instructions (threads/start.S) measure   *)
(* the memory and map it for the time being, and paging_init()              *)
(* (threads/init.c) maps it for good.                                       *)
EXTENDS Integers, FiniteSetsExt, SequencesExt

CONSTANTS Machines,     \* what the BIOS may start: [drives, kb], its hard disks
                        \* and the memory above the first megabyte
          Signature,    \* 0xaa55
          PintosType,   \* 0x20
          Active,       \* 0x80
          Cap,          \* most sectors that are read: 1024
          Half,         \* numbers of a register of 16 bits
          FirstKb,      \* memory that is always there: 1024 kB
          PageKb,       \* size of a page
          TableSlots,   \* pages a page table maps: 1024
          LowTables,    \* page tables made by start.S: 16
          FirstTable,   \* page of the first of them
          PhysTable,    \* directory entry of PHYS_BASE
          TextPages,    \* pages of the kernel's code
          Unmapped

VARIABLES bios,         \* the machine
          label,        \* the label in the loader, or how far the kernel is
          dl, si,       \* drive and partition table entry
          cf,           \* the carry flag
          bx, cx,       \* sector to read next, and how many are left
          image,        \* sectors in memory from 0x20000 on
          init_ram_pages,
          cr3           \* the page directory in use: directory entry to page table,
                        \* page tables to what their slots map

bootVars == <<bios, label, dl, si, cf, bx, cx, image, init_ram_pages, cr3>>

ThisDrive == bios.drives[dl]
ThisEntry == ThisDrive.table[si]
NoPaging == [dir |-> <<>>, tables |-> <<>>]

----------------------------------------------------------------------------
\* loader.S.  A drive is its signature, its partition table, and the sectors
\* that can be read, sector 0 with the table among them.

read_sector(sector) == dl \in DOMAIN bios.drives /\ sector \in ThisDrive.readable

read_mbr ==
    /\ label = "read_mbr"
    /\ si' = 1
    /\ IF ~read_sector(0) THEN label' = "not found" /\ UNCHANGED cf
       ELSE IF ThisDrive.signature # Signature
       THEN label' = "next_drive" /\ cf' = (ThisDrive.signature < Signature)
       ELSE label' = "check_partition" /\ cf' = FALSE
    /\ UNCHANGED <<bios, dl, bx, cx, image, init_ram_pages, cr3>>

\* Variant: a kernel need not be active.
Bootable_any == ThisEntry # Unmapped /\ ThisEntry.type = PintosType
Bootable == ThisEntry # Unmapped /\ ThisEntry.type = PintosType /\ ThisEntry.flag = Active
check_partition ==
    /\ label = "check_partition"
    /\ label' = IF Bootable THEN "load_kernel" ELSE "next_partition"
    /\ UNCHANGED <<bios, dl, si, cf, bx, cx, image, init_ram_pages, cr3>>

\* The comparison that ends the loop leaves the carry flag clear.
next_partition ==
    /\ label = "next_partition"
    /\ si' = si + 1
    /\ cf' = (si' <= 4)
    /\ label' = IF si' <= 4 THEN "check_partition" ELSE "next_drive"
    /\ UNCHANGED <<bios, dl, bx, cx, image, init_ram_pages, cr3>>

\* An increment does not touch the carry flag: this one is of the last
\* comparison, and set by a signature below the right one.
next_drive ==
    /\ label = "next_drive"
    /\ dl' = dl + 1
    /\ label' = IF cf THEN "not found" ELSE "read_mbr"
    /\ UNCHANGED <<bios, si, cf, bx, cx, image, init_ram_pages, cr3>>

load_kernel ==
    /\ label = "load_kernel"
    /\ cx' = Min({ThisEntry.sectors, Cap})
    /\ bx' = ThisEntry.first
    /\ label' = "next_sector"
    /\ UNCHANGED <<bios, dl, si, cf, image, init_ram_pages, cr3>>

\* Only the lower half of the sector number is counted up, and a count of
\* zero is the largest there is.
next_sector ==
    /\ label = "next_sector"
    /\ IF read_sector(bx)
       THEN /\ image' = Append(image, <<dl, bx>>)
            /\ bx' = (bx \div Half) * Half + ((bx + 1) % Half)
            /\ cx' = (cx - 1) % Half
            /\ label' = IF cx' = 0 THEN "start" ELSE label
       ELSE label' = "bad read" /\ UNCHANGED <<image, bx, cx>>
    /\ UNCHANGED <<bios, dl, si, cf, init_ram_pages, cr3>>

----------------------------------------------------------------------------
\* start.S: one page table entry for each page it prepares for, at the bottom
\* of the address space and from PHYS_BASE on; one directory entry too many
\* points past the last table, to the kernel's own code.

LowPages == LowTables * TableSlots
start ==
    /\ label = "start"
    /\ init_ram_pages' = Min({bios.kb + FirstKb, LowPages * PageKb}) \div PageKb
    /\ cr3' = [dir |-> [d \in {i + base : i \in 0 .. LowTables, base \in {0, PhysTable}} |->
                          FirstTable + (d % PhysTable)],
               tables |-> [t \in FirstTable .. FirstTable + LowTables - 1 |->
                             [s \in 0 .. TableSlots - 1 |->
                                [page |-> (t - FirstTable) * TableSlots + s, writable |-> TRUE]]]]
    /\ label' = "main"
    /\ UNCHANGED <<bios, dl, si, cf, bx, cx, image>>

\* paging_init(): a new page table whenever the directory has none for the page;
\* PT is the table taken last.
MapPage(paging, page) ==
    LET d == PhysTable + page \div TableSlots
        pt == IF d \in DOMAIN paging.dir THEN paging.pt ELSE paging.pt + 1
        slots == IF pt \in DOMAIN paging.tables THEN paging.tables[pt] ELSE <<>>
        entry == [page |-> page, writable |-> page \notin TextPages]
    IN [pt |-> pt,
        dir |-> (d :> pt) @@ paging.dir,
        tables |-> (pt :> ((page % TableSlots) :> entry @@ slots)) @@ paging.tables]
paging_init ==
    /\ label = "main"
    /\ LET paging == FoldLeft(MapPage, [pt |-> 0, dir |-> <<>>, tables |-> <<>>],
                              [i \in 1 .. init_ram_pages |-> i - 1])
       IN cr3' = [dir |-> paging.dir, tables |-> paging.tables]
    /\ label' = "paged"
    /\ UNCHANGED <<bios, dl, si, cf, bx, cx, image, init_ram_pages>>

BootInit ==
    /\ bios \in Machines
    /\ label = "read_mbr" /\ dl = 1 /\ si = 1 /\ cf = FALSE
    /\ bx = 0 /\ cx = 0 /\ image = <<>> /\ init_ram_pages = 0 /\ cr3 = NoPaging
BootNext ==
    \/ read_mbr \/ check_partition \/ next_partition \/ next_drive
    \/ load_kernel \/ next_sector \/ start \/ paging_init
BootSpec == BootInit /\ [][BootNext]_bootVars

----------------------------------------------------------------------------
\* The kernels of a machine in the order of drives and entries, and the
\* drives up to the first that has no partition table or cannot be read.
Kernels == {k \in (DOMAIN bios.drives) \X (1 .. 4) :
              LET e == bios.drives[k[1]].table[k[2]]
              IN /\ bios.drives[k[1]].signature = Signature
                 /\ e # Unmapped /\ e.type = PintosType /\ e.flag = Active}
FirstKernel == CHOOSE k \in Kernels : \A l \in Kernels : 5 * k[1] + k[2] <= 5 * l[1] + l[2]
Reached(k) ==
    /\ \A d \in 1 .. k[1] : 0 \in bios.drives[d].readable
    /\ \A d \in 1 .. k[1] : bios.drives[d].signature >= Signature

Translate(page) ==
    LET d == page \div TableSlots
    IN IF d \notin DOMAIN cr3.dir THEN Unmapped
       ELSE IF page % TableSlots \notin DOMAIN cr3.tables[cr3.dir[d]] THEN Unmapped
       ELSE cr3.tables[cr3.dir[d]][page % TableSlots]
AtPhysBase(page) == Translate(PhysTable * TableSlots + page)

(* The loader starts the first active Pintos partition of the disks if no  *)
(* drive before it lacks a partition table, and gives up only if there is  *)
(* none; what runs is the beginning of that partition, whole, as far as it *)
(* has sectors and their numbers do not pass a multiple of 65536.          *)
KernelFound ==
    /\ label = "not found" => \A k \in Kernels : ~Reached(k)
    /\ label \in {"next_sector", "start", "main", "paged"} => <<dl, si>> = FirstKernel
    /\ label \in {"start", "main", "paged"} =>
         LET e == ThisEntry
         IN e.sectors > 0 /\ e.first \div Half = (e.first + Min({e.sectors, Cap}) - 1) \div Half =>
              image = [i \in 1 .. Min({e.sectors, Cap}) |-> <<dl, e.first + i - 1>>]

(* From the kernel's first instruction in protected mode on, all memory    *)
(* it counts can be reached at PHYS_BASE, and while the kernel still runs  *)
(* at its physical address there too; once paging_init() is through nothing *)
(* else is mapped and the kernel's code cannot be written.                 *)
MemoryMapped ==
    /\ label \in {"main", "paged"} =>
         \A p \in 0 .. init_ram_pages - 1 : AtPhysBase(p) # Unmapped /\ AtPhysBase(p).page = p
    /\ label = "main" => \A p \in 0 .. init_ram_pages - 1 : Translate(p) = AtPhysBase(p)
    /\ label = "paged" =>
         /\ \A p \in 0 .. init_ram_pages - 1 : AtPhysBase(p).writable = (p \notin TextPages)
         /\ \A p \in 0 .. (PhysTable * TableSlots - 1) : Translate(p) = Unmapped
         /\ \A p \in init_ram_pages .. LowPages : AtPhysBase(p) = Unmapped

BootExact == KernelFound /\ MemoryMapped
=============================================================================
