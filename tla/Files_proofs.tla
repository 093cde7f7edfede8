---------------------------- MODULE Files_proofs ----------------------------
(***************************************************************************)
(* The file system keeps its inodes, its denied writes, its free map and   *)
(* its disk right when calls run one at a time - for any processes, files, *)
(* descriptors and disk, with calls that fail, processes that are killed   *)
(* and a machine that stops in the middle of any call.                     *)
(* That calls run one at a time is a premise of every theorem here, and     *)
(* nothing in the code sees to it: create(), remove(), close() and exec     *)
(* take no lock (syscall.c:193-209, 272-283).  Where they overlap the       *)
(* properties do not hold: inode_open() and the scans of the free map and   *)
(* of the directory look first and act later.                              *)
(* The argument: FInv describes the one process that is in a call, by where *)
(* it is: the inodes it has open, the sectors it has in hand, which no file *)
(* that can be reached has, and what of them is on the disk already.       *)
(***************************************************************************)
EXTENDS Files, FiniteSetTheorems, WellFoundedInduction, TLAPS

\* One call at a time: other processes are in user mode, asleep or not there.
Serialized == Serial \/ Proc = {main}

-----------------------------------------------------------------------------
(* The invariant.                                                           *)

\* The locals of a process in the kernel; some calls are about a file by name.
Naming == {"create", "remove", "exec", "open", "load"}
Locals == [call : {"none", "read", "write"} \cup Naming, name : Name \cup {NoName},
           len : Nat, fd : Nat, sector : Sector, start : Sector, slot : Slot \cup {0},
           dir : Obj \cup {NoObj}, inode : Obj \cup {NoObj}, child : Proc \cup {NoProc}, then : Labels]
Loc == {l \in Locals : l.call \in Naming => l.name \in Name}
Typed == FTypeOK /\ loc \in [Proc -> Loc]

\* One process at a time is in a call.
OneActive == \A p, q \in Proc : p # q => pc[p] \in Resting \/ pc[q] \in Resting

\* Whether a process reads an inode, whether it frees one, and what it has open.
Releasing == {"release_inode", "release_data"}
Reads(p, o) == pc[p] = "read" /\ o = (IF loc[p].inode # NoObj THEN loc[p].inode ELSE loc[p].dir)
Releases(p, o) == pc[p] \in Releasing /\ loc[p].inode = o
Uses(p, o) == loc[p].dir = o \/ (loc[p].inode = o /\ pc[p] \notin Releasing)

\* Where a process is in a call, what it has found there.
Creating == {"alloc_write", "data_write", "write_inode", "add", "add_slot", "add_write"}
InRoot == {"read", "lookup", "erase", "alloc", "undo_write", "done"} \cup Creating
HasEntry(p) ==
  LET l == loc[p]
  IN  /\ l.call = "remove" /\ l.inode \in Obj /\ l.slot \in Slot /\ dir[l.slot] # NoEntry
      /\ inode[l.inode] # NoInode /\ inode[l.inode].sector = dir[l.slot].sector
HasRoot(p) ==
  /\ loc[p].dir \in Obj /\ loc[p].inode # loc[p].dir
  /\ inode[loc[p].dir] # NoInode /\ inode[loc[p].dir].sector = ROOT_DIR_SECTOR
HoldsNothing(p) == loc[p].dir = NoObj /\ loc[p].inode = NoObj
PlaceAt(p) ==
  LET l == loc[p]
      at(label) == pc[p] = label \/ (pc[p] = "read" /\ l.then = label)
  IN  /\ pc[p] \in Resting \cup {"transfer", "load", "loaded", "exit"} => HoldsNothing(p)
      /\ pc[p] = "read" => IF l.inode = NoObj THEN l.then \in {"alloc", "lookup"} ELSE l.then \in {"erase", "done"}
      /\ pc[p] \in InRoot => HasRoot(p)
      /\ pc[p] \in {"lookup", "alloc", "undo_write"} \cup Creating => l.inode = NoObj
      /\ pc[p] = "load" => l.call = "load"
      /\ at("alloc") => l.call = "create"
      /\ at("lookup") => l.call \in {"remove", "exec", "open", "load"}
      /\ at("erase") => HasEntry(p)
      /\ pc[p] = "end" => l.dir = NoObj
      /\ l.call \in {"create", "remove"} /\ (at("done") \/ pc[p] = "end") => l.inode = NoObj
      /\ pc[p] \in Releasing =>
           /\ l.inode \in Obj /\ inode[l.inode] # NoInode
           /\ \/ l.then = "done" /\ HasRoot(p)
              \/ l.then \in {"end", "idle", "exit", "loaded"} /\ l.dir = NoObj

\* Who has an inode open, who of them denies writes, and what is left of it.
Denying(o) == {f \in OpenFds(o) : fd[f[1]][f[2]].deny_write}
DirSectors == {dir[s].sector : s \in {t \in Slot : dir[t] # NoEntry}}
Counted(p, o) ==
  /\ lost[o].deny =< lost[o].n
  /\ inode[o] = NoInode => OpenFds(o) = {} /\ lost[o].n = 0 /\ ~Uses(p, o)
  /\ inode[o] # NoInode =>
       /\ inode[o].open_cnt = Cardinality(OpenFds(o)) + lost[o].n + (IF Uses(p, o) THEN 1 ELSE 0)
       /\ inode[o].deny_write_cnt = Cardinality(Denying(o)) + lost[o].deny
       /\ inode[o].open_cnt = 0 <=> Releases(p, o)
BlockRead(p, o) ==
  inode[o] # NoInode => /\ inode[o].data = Unread <=> Reads(p, o)
                        /\ inode[o].data # Unread => inode[o].data = disk[inode[o].sector]
Gone(o) ==
  inode[o] # NoInode => /\ inode[o].removed => inode[o].sector \notin Reserved \cup DirSectors
                        /\ inode[o].open_cnt = 0 => inode[o].removed
SectorsApart == \A o, r \in Obj : inode[o] # NoInode /\ inode[r] # NoInode /\ inode[o].sector = inode[r].sector => o = r

\* The sectors of a file, by that of its inode; the files that can be reached.
Span(x) == {x} \cup Blocks(disk[x])
InMemory == {inode[o].sector : o \in {r \in Obj : IsOpen(r)}} \ Reserved
Live == DirSectors \cup InMemory
SpansKept ==
  /\ Reserved \subseteq free_map /\ Reserved \subseteq map_disk
  /\ \A s, t \in Slot : dir[s] # NoEntry /\ dir[t] # NoEntry /\ dir[s].sector = dir[t].sector => s = t
  /\ \A x \in Live : Span(x) \subseteq free_map \ Reserved
  /\ \A x, y \in Live : x # y => Span(x) \cap Span(y) = {}
  /\ \A x \in DirSectors : Span(x) \subseteq map_disk

\* The sectors that create() or inode_close() has in hand are no file's.
Data(p) == Blocks([start |-> loc[p].start, len |-> loc[p].len])
New(p) == {loc[p].sector} \cup (IF pc[p] = "alloc_write" THEN {} ELSE Data(p))
Apart(S) == S \cap Reserved = {} /\ \A x \in Live : S \cap Span(x) = {}
HandAt(p) ==
  /\ pc[p] \in Creating => loc[p].call = "create" /\ New(p) \subseteq free_map /\ Apart(New(p))
  /\ pc[p] \in {"write_inode", "add", "add_slot", "add_write"} => New(p) \subseteq map_disk
  /\ pc[p] \in {"add", "add_slot", "add_write"} => disk[loc[p].sector] = [start |-> loc[p].start, len |-> loc[p].len]
  /\ pc[p] = "add_write" => loc[p].slot \in Slot /\ dir[loc[p].slot] = NoEntry
  /\ pc[p] \in Releasing => Apart(Span(inode[loc[p].inode].sector))

\* All of it, as the process sees it that is in a call while the others rest;
\* and as the machine does.
Solo(p) ==
  /\ \A q \in Proc : q # p => pc[q] \in Resting /\ HoldsNothing(q)
  /\ PlaceAt(p) /\ HandAt(p)
  /\ \A o \in Obj : Counted(p, o) /\ BlockRead(p, o)
World == Typed /\ (\A o \in Obj : Gone(o)) /\ SectorsApart /\ SpansKept
FInv == World /\ \E p \in Proc : Solo(p)

-----------------------------------------------------------------------------
(* Sets and constants.                                                      *)

\* Every set of naturals that is not empty has a least element.
LEMMA LeastNat ==
    ASSUME NEW S, S \subseteq Nat, S # {}
    PROVE  \E m \in S : \A n \in S : m =< n
<1>1. \E x \in S : \A y \in S : ~(<<y, x>> \in OpToRel(<, Nat))
  BY NatLessThanWellFounded, WFMin
<1>2. PICK m \in S : \A y \in S : ~(<<y, m>> \in OpToRel(<, Nat))  BY <1>1
<1>3. \A y \in S : ~(y < m)  BY <1>2 DEF OpToRel
<1> QED  BY <1>3

\* What the constants are assumed to be.
LEMMA Constants ==
  /\ IsFiniteSet(Proc) /\ main \in Proc /\ first \in Name
  /\ MaxFd \in Nat /\ Slots \in Nat /\ LastSector \in Nat /\ LastSector >= 3
  /\ Obj \subseteq Nat /\ NoObj \notin Obj
  /\ NoProc \notin Proc /\ NoName \notin Name
  /\ DOMAIN OnDisk \subseteq Slot /\ \A s \in DOMAIN OnDisk : OnDisk[s] \in Name /\ 2 * s < LastSector
  /\ NoInode \notin Inode /\ NoFile \notin File /\ NoEntry \notin Entry /\ Unread \notin Extent
  /\ IsFiniteSet(Fd) /\ IsFiniteSet(Proc \X Fd)
  /\ 0 \in Sector /\ Reserved \subseteq Sector /\ ROOT_DIR_SECTOR \in Reserved
<1>1. MaxFd \in Nat /\ IsFiniteSet(Proc)  BY FilesAssumption
<1>2. IsFiniteSet(Fd)  BY <1>1, FS_Interval DEF Fd
<1>3. IsFiniteSet(Proc \X Fd)  BY <1>1, <1>2, FS_Product
<1> QED  BY <1>1, <1>2, <1>3, FilesAssumption, MarksAssumption DEF Sector, Reserved, ROOT_DIR_SECTOR

\* There are finitely many descriptors, and no more deny writes than are open.
LEMMA FdsFinite ==
  \A o : /\ IsFiniteSet(OpenFds(o)) /\ IsFiniteSet(Denying(o))
         /\ Cardinality(OpenFds(o)) \in Nat /\ Cardinality(Denying(o)) \in Nat
         /\ Cardinality(Denying(o)) =< Cardinality(OpenFds(o))
         /\ Cardinality(OpenFds(o)) = 0 <=> OpenFds(o) = {}
<1> SUFFICES ASSUME NEW o
             PROVE  /\ IsFiniteSet(OpenFds(o)) /\ IsFiniteSet(Denying(o))
                    /\ Cardinality(OpenFds(o)) \in Nat /\ Cardinality(Denying(o)) \in Nat
                    /\ Cardinality(Denying(o)) =< Cardinality(OpenFds(o))
                    /\ Cardinality(OpenFds(o)) = 0 <=> OpenFds(o) = {}
  OBVIOUS
<1>1. OpenFds(o) \subseteq Proc \X Fd  BY DEF OpenFds
<1>2. Denying(o) \subseteq OpenFds(o)  BY DEF Denying
<1>3. IsFiniteSet(OpenFds(o))  BY <1>1, Constants, FS_Subset
<1>4. IsFiniteSet(Denying(o)) /\ Cardinality(Denying(o)) =< Cardinality(OpenFds(o))  BY <1>2, <1>3, FS_Subset
<1>5. Cardinality(OpenFds(o)) \in Nat /\ Cardinality(Denying(o)) \in Nat  BY <1>3, <1>4, FS_CardinalityType
<1>6. Cardinality(OpenFds(o)) = 0 <=> OpenFds(o) = {}  BY <1>3, FS_EmptySet
<1> QED  BY <1>3, <1>4, <1>5, <1>6

-----------------------------------------------------------------------------
(* What follows from the invariant.                                         *)

\* Only the process that is in a call has an inode open in it.
LEMMA CallsAre ==
    ASSUME NEW p \in Proc, Solo(p), NEW o \in Obj
    PROVE  Cardinality(InCall(o)) = IF Uses(p, o) THEN 1 ELSE 0
<1>1. \A q \in Proc : q # p => q \notin InCall(o)  BY Constants DEF Solo, HoldsNothing, InCall
<1>2. p \in InCall(o) <=> Uses(p, o)  BY DEF InCall, Uses, Releasing
<1>3. InCall(o) \subseteq Proc  BY DEF InCall
<1>4. InCall(o) = IF Uses(p, o) THEN {p} ELSE {}  BY <1>1, <1>2, <1>3
<1> QED  BY <1>4, FS_EmptySet, FS_Singleton

\* Inodes and their openers agree where the invariant holds.
LEMMA InodesFollow == FInv => InodesExact
<1> SUFFICES ASSUME FInv PROVE InodesExact  OBVIOUS
<1> USE DEF FInv, World
<1>1. PICK p \in Proc : Solo(p)  OBVIOUS
<1>2. UniqueInode
  <2> SUFFICES ASSUME NEW s \in Sector PROVE Cardinality(Opened(s)) =< 1  BY DEF UniqueInode
  <2>1. \A o, r \in Opened(s) : o = r  BY DEF Opened, IsOpen, SectorsApart
  <2>2. Opened(s) = {} \/ \E o : Opened(s) = {o}
    <3>1. CASE Opened(s) = {}  BY <3>1
    <3>2. CASE Opened(s) # {}
      <4>1. PICK o : o \in Opened(s)  BY <3>2
      <4>2. Opened(s) = {o}  BY <2>1, <4>1
      <4> QED  BY <4>2
    <3> QED  BY <3>1, <3>2
  <2> QED  BY <2>2, FS_EmptySet, FS_Singleton
<1>3. OpenCountExact
  <2> SUFFICES ASSUME NEW o \in Obj, IsOpen(o) \/ OpenFds(o) # {}
               PROVE  /\ inode[o] # NoInode
                      /\ inode[o].open_cnt = Cardinality(OpenFds(o)) + lost[o].n + Cardinality(InCall(o))
    BY DEF OpenCountExact
  <2>1. Counted(p, o)  BY <1>1 DEF Solo
  <2>2. inode[o] # NoInode  BY <2>1 DEF Counted, IsOpen
  <2> QED  BY <1>1, <2>1, <2>2, CallsAre DEF Counted
<1> QED  BY <1>2, <1>3 DEF InodesExact

\* So do denied writes and the open files that deny them.
LEMMA DenialsFollow == FInv => DenyExact
<1> SUFFICES ASSUME FInv, NEW o \in Obj, IsOpen(o)
             PROVE  /\ inode[o].deny_write_cnt = Cardinality(Denying(o)) + lost[o].deny
                    /\ inode[o].deny_write_cnt =< inode[o].open_cnt
  BY DEF DenyExact, Denying
<1>1. PICK p \in Proc : Solo(p)  BY DEF FInv
<1>2. Counted(p, o) /\ inode[o] # NoInode  BY <1>1 DEF Solo, IsOpen
<1>3. lost[o].n \in Nat /\ lost[o].deny \in Nat  BY DEF FInv, World, Typed, FTypeOK
<1>4. inode[o].deny_write_cnt = Cardinality(Denying(o)) + lost[o].deny  BY <1>2 DEF Counted
<1>5. inode[o].deny_write_cnt =< inode[o].open_cnt  BY <1>2, <1>3, <1>4, FdsFinite DEF Counted
<1> QED  BY <1>4, <1>5

\* A file that can be reached is one of Live, with its span.
LEMMA FilesAre ==
    ASSUME FInv
    PROVE  /\ \A f \in Entries \cup OpenFiles : f[1] \in Live /\ f = <<f[1], disk[f[1]]>> /\ Sectors(f) = Span(f[1])
           /\ \A f \in Entries : f[1] \in DirSectors
<1>0. PICK p \in Proc : Solo(p)  BY DEF FInv
<1>1. ASSUME NEW f \in Entries PROVE f[1] \in DirSectors /\ f = <<f[1], disk[f[1]]>>
  BY <1>1 DEF Entries, DirSectors
<1>2. ASSUME NEW f \in OpenFiles PROVE f[1] \in InMemory /\ f = <<f[1], disk[f[1]]>>
  <2>1. PICK o \in Obj : /\ IsOpen(o) /\ inode[o].sector \notin Reserved /\ inode[o].data # Unread
                         /\ f = <<inode[o].sector, inode[o].data>>
    BY <1>2 DEF OpenFiles
  <2>2. inode[o].data = disk[inode[o].sector]  BY <1>0, <2>1 DEF Solo, BlockRead, IsOpen
  <2> QED  BY <2>1, <2>2 DEF InMemory
<1>3. \A x : Sectors(<<x, disk[x]>>) = Span(x)  BY DEF Sectors, Span
<1>4. \A f \in Entries \cup OpenFiles : f[1] \in Live /\ f = <<f[1], disk[f[1]]>>  BY <1>1, <1>2 DEF Live
<1>5. \A f \in Entries \cup OpenFiles : Sectors(f) = Span(f[1])  BY <1>3, <1>4
<1> QED  BY <1>1, <1>4, <1>5

\* The sectors of files are marked and in one file each, in memory and on the disk.
LEMMA BlocksFollow == FInv => BlocksKept /\ CrashSafe
<1> SUFFICES ASSUME FInv PROVE BlocksKept /\ CrashSafe  OBVIOUS
<1>1. SpansKept  BY DEF FInv, World
<1>2. \A f, g \in Entries \cup OpenFiles : f # g => f[1] # g[1]  BY FilesAre, Zenon
<1>3. LiveBlocksMarked  BY <1>1, FilesAre DEF LiveBlocksMarked, SpansKept
<1>4. BlocksDisjoint
  <2> SUFFICES ASSUME NEW f \in Entries \cup OpenFiles, NEW g \in Entries \cup OpenFiles, f # g
               PROVE  Sectors(f) \cap (Sectors(g) \cup Reserved) = {}
    BY DEF BlocksDisjoint
  <2>1. f[1] \in Live /\ g[1] \in Live /\ f[1] # g[1] /\ Sectors(f) = Span(f[1]) /\ Sectors(g) = Span(g[1])
    BY <1>2, FilesAre
  <2> QED  BY <1>1, <2>1 DEF SpansKept
<1>5. CrashSafe
  <2>1. ASSUME NEW f \in Entries PROVE Sectors(f) \subseteq map_disk \ Reserved
    <3>1. f[1] \in DirSectors /\ f[1] \in Live /\ Sectors(f) = Span(f[1])  BY FilesAre
    <3> QED  BY <1>1, <3>1 DEF SpansKept
  <2>2. ASSUME NEW f \in Entries, NEW g \in Entries, f # g PROVE Sectors(f) \cap Sectors(g) = {}
    BY <1>4, <2>2 DEF BlocksDisjoint
  <2> QED  BY <2>1, <2>2 DEF CrashSafe
<1> QED  BY <1>3, <1>4, <1>5 DEF BlocksKept

-----------------------------------------------------------------------------
(* Steps of one process.                                                    *)

StepsTo(p, label, l) ==
  /\ pc' \in [Proc -> Labels] /\ loc' \in [Proc -> Loc]
  /\ pc'[p] = label /\ loc'[p] = l
  /\ \A q \in Proc : q # p => pc'[q] = pc[q] /\ loc'[q] = loc[q]

\* A process that goes on is at its new place with its new locals, the others where they were.
LEMMA GoSteps ==
    ASSUME Typed, NEW p \in Proc, NEW label \in Labels, NEW l \in Loc, Go(p, label, l)
    PROVE  StepsTo(p, label, l)
<1>1. pc \in [Proc -> Labels] /\ loc \in [Proc -> Loc]  BY DEF Typed, FTypeOK
<1> QED  BY <1>1 DEF Go, StepsTo

\* The locals of a process outside the kernel hold nothing.
LEMMA NoLocIs ==
  /\ NoLoc \in Loc /\ NoLoc.dir = NoObj /\ NoLoc.inode = NoObj /\ NoLoc.call = "none" /\ NoLoc.then = "idle"
  /\ NoLoc.len = 0 /\ NoLoc.sector = 0 /\ NoLoc.start = 0 /\ NoLoc.slot = 0
BY Constants DEF NoLoc, Loc, Locals, Naming, Labels, Resting

\* Setting one of the locals.
LEMMA SetsInode ==
    ASSUME NEW l \in Loc, NEW o \in Obj \cup {NoObj}, NEW m, m = [l EXCEPT !.inode = o]
    PROVE  /\ m \in Loc /\ m.inode = o /\ m.dir = l.dir /\ m.call = l.call /\ m.name = l.name
           /\ m.slot = l.slot /\ m.then = l.then /\ m.len = l.len /\ m.sector = l.sector /\ m.start = l.start
<1>1. l \in Locals /\ (l.call \in Naming => l.name \in Name)  BY DEF Loc
<1>2. m \in Locals  BY <1>1 DEF Locals
<1>3. m.inode = o /\ m.dir = l.dir /\ m.call = l.call /\ m.name = l.name /\ m.slot = l.slot /\ m.then = l.then
  BY <1>1 DEF Locals
<1>4. m.len = l.len /\ m.sector = l.sector /\ m.start = l.start  BY <1>1 DEF Locals
<1> QED  BY <1>1, <1>2, <1>3, <1>4 DEF Loc

\* Setting another.
LEMMA SetsDir ==
    ASSUME NEW l \in Loc, NEW o \in Obj \cup {NoObj}, NEW m, m = [l EXCEPT !.dir = o]
    PROVE  /\ m \in Loc /\ m.dir = o /\ m.inode = l.inode /\ m.call = l.call /\ m.name = l.name
           /\ m.slot = l.slot /\ m.then = l.then
<1>1. l \in Locals /\ (l.call \in Naming => l.name \in Name)  BY DEF Loc
<1>2. m \in Locals  BY <1>1 DEF Locals
<1>3. m.dir = o /\ m.inode = l.inode /\ m.call = l.call /\ m.name = l.name /\ m.slot = l.slot /\ m.then = l.then
  BY <1>1 DEF Locals
<1> QED  BY <1>1, <1>2, <1>3 DEF Loc

\* Setting a third.
LEMMA SetsThen ==
    ASSUME NEW l \in Loc, NEW next \in Labels, NEW m, m = [l EXCEPT !.then = next]
    PROVE  /\ m \in Loc /\ m.then = next /\ m.inode = l.inode /\ m.dir = l.dir /\ m.call = l.call
           /\ m.name = l.name /\ m.slot = l.slot
<1>1. l \in Locals /\ (l.call \in Naming => l.name \in Name)  BY DEF Loc
<1>2. m \in Locals  BY <1>1 DEF Locals
<1>3. m.then = next /\ m.inode = l.inode /\ m.dir = l.dir /\ m.call = l.call /\ m.name = l.name /\ m.slot = l.slot
  BY <1>1 DEF Locals
<1> QED  BY <1>1, <1>2, <1>3 DEF Loc

\* A process that rests holds nothing, whoever else is in a call.
LEMMA Rests ==
    ASSUME NEW p \in Proc, Solo(p), NEW q \in Proc, pc[q] \in Resting
    PROVE  HoldsNothing(q)
BY DEF Solo, PlaceAt

\* The kinds of places do not overlap.
LEMMA RestingIs ==
  /\ Resting \subseteq Labels /\ Resting \cap (InRoot \cup Releasing) = {}
  /\ Resting \cap {"read", "end", "transfer", "load", "loaded", "exit"} = {}
  /\ Creating \subseteq InRoot /\ InRoot \cap Releasing = {} /\ InRoot \cup Releasing \subseteq Labels
  /\ Releasing \cap {"read", "end"} = {}
BY DEF Resting, Labels, InRoot, Releasing, Creating

\* While all rest, it is everybody's turn.
LEMMA AnyTurn ==
    ASSUME Typed, NEW p \in Proc, Solo(p), pc[p] \in Resting, NEW q \in Proc
    PROVE  Solo(q)
<1>1. \A r \in Proc : pc[r] \in Resting /\ HoldsNothing(r)  BY Rests DEF Solo
<1>2. PlaceAt(q) /\ HandAt(q)
  <2>1. pc[q] \in Resting /\ HoldsNothing(q)  BY <1>1
  <2>2. PlaceAt(q)
    <3>1. loc[q].inode = NoObj /\ loc[q].dir = NoObj  BY <2>1 DEF HoldsNothing
    <3>2. pc[q] \notin InRoot \cup Releasing /\ pc[q] \notin {"read", "end"} /\ Creating \subseteq InRoot
      BY <2>1, RestingIs
    <3> QED  BY <2>1, <3>1, <3>2 DEF PlaceAt, InRoot, Resting
  <2>3. HandAt(q)  BY <2>1, RestingIs DEF HandAt, Resting, Creating, Releasing
  <2> QED  BY <2>2, <2>3
<1>3. \A o \in Obj : ~Uses(p, o) /\ ~Uses(q, o) /\ ~Reads(p, o) /\ ~Reads(q, o) /\ ~Releases(p, o) /\ ~Releases(q, o)
  BY <1>1, Constants, RestingIs DEF HoldsNothing, Uses, Reads, Releases
<1>4. \A o \in Obj : Counted(q, o) /\ BlockRead(q, o)  BY <1>3 DEF Solo, Counted, BlockRead
<1> QED  BY <1>1, <1>2, <1>4 DEF Solo

\* A step of the process in a call, put together.
LEMMA SoloSteps ==
    ASSUME NEW p \in Proc, Solo(p), NEW label, NEW l, StepsTo(p, label, l), PlaceAt(p)', HandAt(p)',
           \A o \in Obj : Counted(p, o)' /\ BlockRead(p, o)'
    PROVE  Solo(p)'
<1>1. \A q \in Proc : q # p => pc'[q] \in Resting /\ HoldsNothing(q)'  BY DEF Solo, StepsTo, HoldsNothing
<1> QED  BY <1>1 DEF Solo

\* What a process has open, reads and frees stays as it is.
SameHold(p) ==
  \A o \in Obj : /\ Uses(p, o)' <=> Uses(p, o)
                 /\ Reads(p, o)' <=> Reads(p, o)
                 /\ Releases(p, o)' <=> Releases(p, o)
\* Disk, inodes and open files stay as they are.
files == <<dir, disk, map_disk, free_map, inode, fd, lost>>

\* A step that touches neither disk nor inodes nor descriptors keeps the invariant.
LEMMA Walk ==
    ASSUME World, NEW p \in Proc, Solo(p), NEW label, NEW l, StepsTo(p, label, l),
           UNCHANGED files, file_lock' \in Proc \cup {NoProc}, prog' \in [Proc -> Name],
           SameHold(p), PlaceAt(p)', HandAt(p)'
    PROVE  FInv'
<1> USE DEF files
<1>1. Typed'  BY DEF World, Typed, FTypeOK, StepsTo
<1>2. \A o : OpenFds(o)' = OpenFds(o) /\ Denying(o)' = Denying(o)  BY DEF OpenFds, Denying
<1>3. \A o \in Obj : Counted(p, o)'  BY <1>2 DEF Solo, Counted, SameHold
<1>4. \A o \in Obj : BlockRead(p, o)'  BY DEF Solo, BlockRead, SameHold
<1>5. Solo(p)'  BY <1>3, <1>4, SoloSteps
<1>6. DirSectors' = DirSectors /\ InMemory' = InMemory  BY DEF DirSectors, InMemory, IsOpen
<1>7. \A o \in Obj : Gone(o)'  BY <1>6 DEF World, Gone
<1>8. SectorsApart'  BY DEF World, SectorsApart
<1>9. SpansKept'
  <2>1. Live' = Live /\ \A x : Span(x)' = Span(x)  BY <1>6 DEF Live, Span
  <2> QED  BY <1>6, <2>1 DEF World, SpansKept
<1> QED  BY <1>1, <1>5, <1>7, <1>8, <1>9 DEF FInv, World

\* A process that goes on with the same objects in hand.
LEMMA WalksOn ==
    ASSUME World, NEW p \in Proc, Solo(p), NEW label \in Labels, NEW l \in Loc, Go(p, label, l),
           UNCHANGED files, file_lock' \in Proc \cup {NoProc}, prog' \in [Proc -> Name],
           l.dir = loc[p].dir, l.inode = loc[p].inode,
           pc[p] \notin Releasing \cup {"read"}, label \notin Releasing \cup {"read"},
           PlaceAt(p)', HandAt(p)'
    PROVE  FInv'
<1>1. StepsTo(p, label, l)  BY GoSteps DEF World
<1>2. SameHold(p)  BY <1>1 DEF StepsTo, SameHold, Uses, Reads, Releases
<1> QED  BY <1>1, <1>2, Walk

\* A call that ends, or the last of a process, with nothing in hand.
LEMMA WalksFree ==
    ASSUME World, NEW p \in Proc, Solo(p), HoldsNothing(p), NEW label, NEW l \in Loc, Go(p, label, l),
           label \in Resting \cup {"transfer", "loaded", "exit"},
           pc[p] \notin Releasing \cup {"read"},
           UNCHANGED files, file_lock' \in Proc \cup {NoProc}, prog' \in [Proc -> Name],
           l.dir = NoObj, l.inode = NoObj
    PROVE  FInv'
<1>1. label \in Labels /\ label \notin InRoot \cup Releasing \cup {"read", "end", "load"}
  BY RestingIs DEF Resting, Labels, InRoot, Releasing, Creating
<1>2. StepsTo(p, label, l)  BY <1>1, GoSteps DEF World
<1>3. HoldsNothing(p)'  BY <1>2 DEF StepsTo, HoldsNothing
<1>4. PlaceAt(p)'
  <2>1. pc'[p] \notin InRoot \cup Releasing \cup {"read", "end", "load"} /\ Creating \subseteq InRoot
    BY <1>1, <1>2, RestingIs DEF StepsTo
  <2> QED  BY <1>3, <2>1 DEF PlaceAt, InRoot, HoldsNothing
<1>5. HandAt(p)'  BY <1>1, <1>2, RestingIs DEF HandAt, StepsTo, InRoot, Creating
<1> QED  BY <1>1, <1>4, <1>5, WalksOn DEF HoldsNothing

\* A process that is in a call, or may begin one, is the only one.
LEMMA Turn ==
    ASSUME Serialized, FInv, NEW p \in Proc, pc[p] \notin Resting \/ Quiet(p)
    PROVE  World /\ Solo(p)
<1>1. PICK q \in Proc : Solo(q)  BY DEF FInv
<1>2. CASE q = p  BY <1>1, <1>2 DEF FInv
<1>3. CASE q # p
  <2>1. pc[p] \in Resting  BY <1>1, <1>3 DEF Solo
  <2>2. pc[q] \in Resting  BY <1>3, <2>1 DEF Serialized, Quiet
  <2> QED  BY <1>1, <2>2, AnyTurn DEF FInv, World
<1> QED  BY <1>2, <1>3

-----------------------------------------------------------------------------
(* Steps that touch neither disk nor inodes.                                *)

\* The locals of a call that begins.
LEMMA BeginIs ==
    ASSUME NEW call \in {"create", "remove", "exec", "open", "read", "write", "load"}, NEW n \in Name \cup {NoName},
           call \in Naming => n \in Name
    PROVE  /\ Begin(main, call, n) \in Loc /\ \A q : Begin(q, call, n) = Begin(main, call, n)
           /\ Begin(main, call, n).dir = NoObj /\ Begin(main, call, n).inode = NoObj
           /\ Begin(main, call, n).call = call /\ Begin(main, call, n).name = n
BY NoLocIs DEF Begin, Loc, Locals, Naming, NoLoc

\* A process that enters a call rested and held nothing.
LEMMA Entered ==
    ASSUME Serialized, FInv, NEW p \in Proc, Enter(p)
    PROVE  World /\ Solo(p) /\ HoldsNothing(p) /\ pc[p] = "idle" /\ pc[p] \notin Releasing \cup {"read"}
<1>1. World /\ Solo(p)  BY Turn DEF Enter
<1>2. pc[p] = "idle"  BY DEF Enter, At
<1>3. pc[p] \in Resting /\ pc[p] \notin Releasing \cup {"read"}  BY <1>2 DEF Resting, Releasing
<1> QED  BY <1>1, <1>2, <1>3, Rests

\* Calls that begin without opening a file.
LEMMA ReadyToCall ==
    ASSUME Serialized, FInv, NEW p \in Proc,
           \/ \E n \in Name : Open(p, n)
           \/ \E m \in Fd \cup {1} : ReadWrite(p, "read", m) \/ ReadWrite(p, "write", m)
           \/ Exit(p)
    PROVE  FInv'
<1>1. World /\ Solo(p) /\ HoldsNothing(p) /\ pc[p] \notin Releasing \cup {"read"}
  BY Entered DEF Open, ReadWrite, Exit
<1>2. UNCHANGED files /\ file_lock' = file_lock /\ prog' = prog
  BY DEF Open, ReadWrite, Exit, dvars, kvars, files
<1>3. file_lock' \in Proc \cup {NoProc} /\ prog' \in [Proc -> Name]
  BY <1>1, <1>2 DEF World, Typed, FTypeOK
<1>4. \E label \in {"acquire", "exit"}, l \in Loc : Go(p, label, l) /\ l.dir = NoObj /\ l.inode = NoObj
  <2>1. ASSUME NEW n \in Name, Open(p, n)
        PROVE  \E label \in {"acquire", "exit"}, l \in Loc : Go(p, label, l) /\ l.dir = NoObj /\ l.inode = NoObj
    <3>1. Go(p, "acquire", Begin(p, "open", n))  BY <2>1 DEF Open
    <3> QED  BY <3>1, BeginIs
  <2>2. ASSUME NEW m \in Fd \cup {1}, NEW call \in {"read", "write"}, ReadWrite(p, call, m)
        PROVE  \E label \in {"acquire", "exit"}, l \in Loc : Go(p, label, l) /\ l.dir = NoObj /\ l.inode = NoObj
    <3>1. PICK b : b = Begin(p, call, NoName)  OBVIOUS
    <3>2. b \in Loc /\ b.dir = NoObj /\ b.inode = NoObj  BY <3>1, BeginIs DEF Naming
    <3>3. Go(p, "acquire", [b EXCEPT !.fd = m])  BY <2>2, <3>1 DEF ReadWrite
    <3>4. m \in Nat  BY Constants DEF Fd
    <3>5. PICK l : l = [b EXCEPT !.fd = m]  OBVIOUS
    <3>6. l \in Loc /\ l.dir = NoObj /\ l.inode = NoObj  BY <3>2, <3>4, <3>5 DEF Loc, Locals, Naming
    <3> QED  BY <3>3, <3>5, <3>6
  <2>3. CASE Exit(p)
    <3>1. Go(p, "exit", NoLoc)  BY <2>3 DEF Exit
    <3> QED  BY <3>1, NoLocIs
  <2> QED  BY <2>1, <2>2, <2>3
<1>5. PICK label \in {"acquire", "exit"}, l \in Loc : Go(p, label, l) /\ l.dir = NoObj /\ l.inode = NoObj
  BY <1>4
<1>6. label \in Resting \cup {"transfer", "loaded", "exit"}  BY DEF Resting
<1> QED  BY <1>1, <1>2, <1>3, <1>5, <1>6, WalksFree

\* Steps of a process in a call that leave it with nothing in hand.
LEMMA Passes ==
    ASSUME Serialized, FInv, NEW p \in Proc, Transfer(p) \/ Fault(p) \/ EndCreateRemove(p) \/ Loaded(p)
    PROVE  FInv'
<1>1. pc[p] \in {"transfer", "end", "loaded"} /\ (pc[p] = "end" => loc[p].call \in {"create", "remove"})
  BY DEF Transfer, Fault, EndCreateRemove, Loaded, At
<1>2. pc[p] \notin Resting /\ pc[p] \notin Releasing \cup {"read"}  BY <1>1 DEF Resting, Releasing
<1>3. World /\ Solo(p)  BY <1>2, Turn
<1>4. HoldsNothing(p)  BY <1>1, <1>3 DEF Solo, PlaceAt, HoldsNothing
<1>5. UNCHANGED files /\ file_lock' \in Proc \cup {NoProc} /\ prog' \in [Proc -> Name]
  BY <1>3 DEF Transfer, Fault, EndCreateRemove, Loaded, dvars, kvars, files, World, Typed, FTypeOK
<1>6. \E label \in {"idle", "exit"} : Go(p, label, NoLoc)
  BY DEF Transfer, Fault, EndCreateRemove, Loaded
<1>7. PICK label \in {"idle", "exit"} : Go(p, label, NoLoc)  BY <1>6
<1>8. label \in Resting \cup {"transfer", "loaded", "exit"}  BY DEF Resting
<1> QED  BY <1>2, <1>3, <1>4, <1>5, <1>7, <1>8, WalksFree, NoLocIs

\* kill(), and a parent that wakes up: any process may, whoever is in a call.
LEMMA Unasked ==
    ASSUME Serialized, FInv, NEW p \in Proc, Kill(p) \/ Awake(p)
    PROVE  FInv'
<1>1. PICK q \in Proc : Solo(q)  BY DEF FInv
<1>2. PICK label \in {"idle", "dead"} : Go(p, label, NoLoc)  BY DEF Kill, Awake
<1>3. pc[p] \in Resting /\ label \in Resting /\ World  BY DEF Kill, Awake, At, Resting, FInv
<1>4. UNCHANGED files /\ file_lock' = file_lock /\ prog' = prog  BY DEF Kill, Awake, dvars, kvars, files
<1>5. file_lock' \in Proc \cup {NoProc} /\ prog' \in [Proc -> Name]
  BY <1>3, <1>4 DEF World, Typed, FTypeOK
<1>6. CASE p = q
  <2>1. pc[p] \notin Releasing \cup {"read"}  BY <1>3, RestingIs DEF InRoot
  <2> QED  BY <1>1, <1>2, <1>3, <1>4, <1>5, <1>6, <2>1, Rests, NoLocIs, WalksFree
<1>7. CASE p # q
  <2>1. StepsTo(p, label, NoLoc)  BY <1>2, <1>3, GoSteps, NoLocIs, RestingIs DEF World
  <2>2. pc'[q] = pc[q] /\ loc'[q] = loc[q]  BY <1>7, <2>1 DEF StepsTo
  <2>3. Typed'  BY <1>3, <1>4, <2>1 DEF World, Typed, FTypeOK, StepsTo, files
  <2>4. World'
    <3> USE DEF files
    <3>1. DirSectors' = DirSectors /\ InMemory' = InMemory  BY <1>4 DEF DirSectors, InMemory, IsOpen
    <3>2. \A o \in Obj : Gone(o)'  BY <1>3, <1>4, <3>1 DEF World, Gone
    <3>3. SectorsApart'  BY <1>3, <1>4 DEF World, SectorsApart
    <3>4. SpansKept'
      <4>1. Live' = Live /\ \A x : Span(x)' = Span(x)  BY <1>4, <3>1 DEF Live, Span
      <4> QED  BY <1>3, <1>4, <3>1, <4>1 DEF World, SpansKept
    <3> QED  BY <2>3, <3>2, <3>3, <3>4 DEF World
  <2>5. \A r \in Proc : r # q => pc'[r] \in Resting /\ HoldsNothing(r)'
    <3>1. pc'[p] \in Resting /\ HoldsNothing(p)'  BY <1>3, <2>1, NoLocIs DEF StepsTo, HoldsNothing
    <3> QED  BY <1>1, <2>1, <3>1 DEF Solo, StepsTo, HoldsNothing
  <2>6. PlaceAt(q)'
    <3>1. HasRoot(q)' <=> HasRoot(q)  BY <1>4, <2>2 DEF HasRoot, files
    <3>2. HasEntry(q)' <=> HasEntry(q)  BY <1>4, <2>2 DEF HasEntry, files
    <3>3. HoldsNothing(q)' <=> HoldsNothing(q)  BY <2>2 DEF HoldsNothing
    <3> QED  BY <1>1, <1>4, <2>2, <3>1, <3>2, <3>3 DEF Solo, PlaceAt, files
  <2>7. HandAt(q)'
    <3>1. Live' = Live /\ \A x : Span(x)' = Span(x)
      BY <1>4 DEF files, Live, Span, DirSectors, InMemory, IsOpen
    <3>2. \A S : Apart(S)' <=> Apart(S)  BY <3>1 DEF Apart
    <3>3. New(q)' = New(q)  BY <2>2 DEF New, Data
    <3> QED  BY <1>1, <1>4, <2>2, <3>1, <3>2, <3>3 DEF Solo, HandAt, files
  <2>8. \A o \in Obj : Counted(q, o)' /\ BlockRead(q, o)'
    <3>1. \A o : OpenFds(o)' = OpenFds(o) /\ Denying(o)' = Denying(o)  BY <1>4 DEF OpenFds, Denying, files
    <3>2. \A o \in Obj : (Uses(q, o)' <=> Uses(q, o)) /\ (Reads(q, o)' <=> Reads(q, o))
                         /\ (Releases(q, o)' <=> Releases(q, o))
      BY <2>2 DEF Uses, Reads, Releases
    <3> QED  BY <1>1, <1>4, <3>1, <3>2 DEF Solo, Counted, BlockRead, files
  <2> QED  BY <2>4, <2>5, <2>6, <2>7, <2>8 DEF FInv, Solo
<1> QED  BY <1>6, <1>7

-----------------------------------------------------------------------------
(* inode_open().                                                            *)

\* One more opener of inode o, of sector s: of an open one, or a new one.
Joins(o, s) == /\ o \in Obj /\ IsOpen(o) /\ inode[o].sector = s
               /\ inode' = [inode EXCEPT ![o].open_cnt = @ + 1]
Starts(o, s) == /\ o \in Obj /\ inode[o] = NoInode /\ Opened(s) = {}
                /\ inode' = [inode EXCEPT ![o] = NewInode(s)]

\* An inode in memory has all its fields.
LEMMA InodeFields ==
    ASSUME Typed, NEW o \in Obj, inode[o] # NoInode
    PROVE  /\ inode[o] \in Inode
           /\ inode[o].sector \in Sector /\ inode[o].open_cnt \in Nat /\ inode[o].deny_write_cnt \in Nat
           /\ inode[o].removed \in BOOLEAN /\ inode[o].data \in Extent \cup {Unread}
<1>1. inode[o] \in Inode  BY DEF Typed, FTypeOK
<1> QED  BY <1>1 DEF Inode

\* What inode_open() puts on the list.
LEMMA NewInodeIs ==
    ASSUME NEW s \in Sector
    PROVE  /\ NewInode(s) \in Inode /\ NewInode(s) # NoInode
           /\ NewInode(s).sector = s /\ NewInode(s).open_cnt = 1 /\ NewInode(s).deny_write_cnt = 0
           /\ ~NewInode(s).removed /\ NewInode(s).data = Unread
<1>1. NewInode(s) \in Inode  BY DEF NewInode, Inode
<1>2. NewInode(s) # NoInode  BY <1>1, Constants
<1> QED  BY <1>1, <1>2 DEF NewInode

\* What an open leaves in the memory of inodes.
LEMMA Inodes ==
    ASSUME Typed, NEW s \in Sector, NEW o, Joins(o, s) \/ Starts(o, s)
    PROVE  /\ inode' \in [Obj -> Inode \cup {NoInode}]
           /\ \A r \in Obj : r # o => inode'[r] = inode[r]
           /\ inode'[o] # NoInode /\ inode'[o].sector = s
           /\ Joins(o, s) => /\ inode'[o].open_cnt = inode[o].open_cnt + 1
                             /\ inode'[o].deny_write_cnt = inode[o].deny_write_cnt
                             /\ inode'[o].removed = inode[o].removed /\ inode'[o].data = inode[o].data
           /\ Starts(o, s) => inode'[o] = NewInode(s)
<1>1. inode \in [Obj -> Inode \cup {NoInode}]  BY DEF Typed, FTypeOK
<1>2. CASE Joins(o, s)
  <2>1. o \in Obj /\ inode[o] # NoInode /\ inode[o].sector = s  BY <1>2 DEF Joins, IsOpen
  <2>2. inode[o] \in Inode /\ inode[o].open_cnt \in Nat  BY <2>1, InodeFields
  <2>3. PICK i : i = [inode[o] EXCEPT !.open_cnt = inode[o].open_cnt + 1]  OBVIOUS
  <2>4. /\ i \in Inode /\ i.sector = s /\ i.open_cnt = inode[o].open_cnt + 1
        /\ i.deny_write_cnt = inode[o].deny_write_cnt /\ i.removed = inode[o].removed /\ i.data = inode[o].data
    BY <2>1, <2>2, <2>3 DEF Inode
  <2>5. inode' = [inode EXCEPT ![o] = i]  BY <1>2, <2>3 DEF Joins
  <2>6. i # NoInode  BY <2>4, Constants
  <2>7. ~Starts(o, s)  BY <2>1 DEF Starts
  <2> QED  BY <1>1, <2>1, <2>4, <2>5, <2>6, <2>7
<1>3. CASE Starts(o, s)
  <2>1. o \in Obj /\ inode[o] = NoInode /\ inode' = [inode EXCEPT ![o] = NewInode(s)]  BY <1>3 DEF Starts
  <2>2. ~Joins(o, s)  BY <2>1 DEF Joins, IsOpen
  <2> QED  BY <1>1, <2>1, <2>2, NewInodeIs
<1> QED  BY <1>2, <1>3

\* A process has one more inode open: the counts, the blocks and the sectors stay true.
LEMMA Gains ==
    ASSUME World, NEW p \in Proc, Solo(p), NEW s \in Sector, s = ROOT_DIR_SECTOR \/ s \in DirSectors,
           NEW o, Joins(o, s) \/ Starts(o, s),
           NEW label, NEW l, StepsTo(p, label, l),
           UNCHANGED <<dir, disk, map_disk, free_map, fd, lost>>,
           file_lock' \in Proc \cup {NoProc}, prog' \in [Proc -> Name],
           pc[p] \notin Releasing \cup {"read"}, label \notin Releasing,
           ~Uses(p, o), \A r \in Obj : Uses(p, r)' <=> Uses(p, r) \/ r = o,
           \A r \in Obj : Reads(p, r)' <=> r = o /\ Starts(o, s),
           PlaceAt(p)', HandAt(p)'
    PROVE  FInv'
<1>1. /\ inode' \in [Obj -> Inode \cup {NoInode}]
      /\ \A r \in Obj : r # o => inode'[r] = inode[r]
      /\ inode'[o] # NoInode /\ inode'[o].sector = s
      /\ Joins(o, s) => /\ inode'[o].open_cnt = inode[o].open_cnt + 1
                        /\ inode'[o].deny_write_cnt = inode[o].deny_write_cnt
                        /\ inode'[o].removed = inode[o].removed /\ inode'[o].data = inode[o].data
      /\ Starts(o, s) => inode'[o] = NewInode(s)
  BY Inodes DEF World
<1>2. o \in Obj  BY DEF Joins, Starts
<1>3. Typed'  BY <1>1 DEF World, Typed, FTypeOK, StepsTo
<1>4. \A r : OpenFds(r)' = OpenFds(r) /\ Denying(r)' = Denying(r)  BY DEF OpenFds, Denying
<1>5. \A r \in Obj : ~Releases(p, r) /\ ~Releases(p, r)' /\ ~Reads(p, r)
  BY DEF Releases, Reads, StepsTo
<1>6. \A r \in Obj : Counted(p, r)'
  <2> SUFFICES ASSUME NEW r \in Obj PROVE Counted(p, r)'  OBVIOUS
  <2>1. Counted(p, r)  BY DEF Solo
  <2>2. CASE r # o  BY <1>1, <1>4, <1>5, <2>1, <2>2 DEF Counted
  <2>3. CASE r = o /\ Joins(o, s)
    <3>1. inode[o] # NoInode /\ inode[o].open_cnt \in Nat  BY <2>3, InodeFields DEF Joins, IsOpen, World
    <3>2. Uses(p, o)' /\ ~Releases(p, o)'  BY <1>2, <1>5
    <3>3. Cardinality(OpenFds(o)) \in Nat /\ lost[o].n \in Nat  BY <1>2, FdsFinite DEF World, Typed, FTypeOK
    <3> QED  BY <1>1, <1>4, <1>5, <2>1, <2>3, <3>1, <3>2, <3>3 DEF Counted
  <2>4. CASE r = o /\ Starts(o, s)
    <3>1. OpenFds(o) = {} /\ lost[o].n = 0 /\ lost[o].deny =< 0 /\ inode[o] = NoInode
      BY <2>1, <2>4 DEF Counted, Starts
    <3>2. lost[o].deny \in Nat  BY <1>2 DEF World, Typed, FTypeOK
    <3>3. Denying(o) = {} /\ Cardinality(OpenFds(o)) = 0 /\ Cardinality(Denying(o)) = 0
      BY <3>1, FS_EmptySet DEF Denying
    <3>4. Uses(p, o)' /\ ~Releases(p, o)'  BY <1>2, <1>5
    <3>5. inode'[o] # NoInode /\ inode'[o].open_cnt = 1 /\ inode'[o].deny_write_cnt = 0
      BY <1>1, <2>4, NewInodeIs
    <3>6. Cardinality(OpenFds(o)') = 0 /\ Cardinality(Denying(o)') = 0  BY <1>4, <3>3
    <3>7. lost'[o].n = 0 /\ lost'[o].deny = 0
      <4>1. lost[o].deny = 0  BY <3>1, <3>2
      <4> QED  BY <3>1, <4>1
    <3> QED  BY <2>4, <3>4, <3>5, <3>6, <3>7 DEF Counted
  <2> QED  BY <2>2, <2>3, <2>4
<1>7. \A r \in Obj : BlockRead(p, r)'
  <2> SUFFICES ASSUME NEW r \in Obj PROVE BlockRead(p, r)'  OBVIOUS
  <2>1. BlockRead(p, r)  BY DEF Solo
  <2>2. CASE r # o  BY <1>1, <1>5, <2>1, <2>2 DEF BlockRead
  <2>3. CASE r = o /\ Joins(o, s)
    <3>1. ~Starts(o, s) /\ inode[o] # NoInode /\ inode[o].sector = s  BY <2>3 DEF Joins, Starts, IsOpen
    <3> QED  BY <1>1, <1>5, <2>1, <2>3, <3>1 DEF BlockRead
  <2>4. CASE r = o /\ Starts(o, s)
    BY <1>1, <2>4, NewInodeIs DEF BlockRead
  <2> QED  BY <2>2, <2>3, <2>4
<1>8. Solo(p)'  BY <1>6, <1>7, SoloSteps
<1>9. DirSectors' = DirSectors  BY DEF DirSectors
<1>10. InMemory' \subseteq Live
  <2> SUFFICES ASSUME NEW r \in Obj, IsOpen(r)', inode'[r].sector \notin Reserved
               PROVE  inode'[r].sector \in Live
    BY DEF InMemory
  <2>1. CASE r # o
    <3>1. inode'[r] = inode[r]  BY <1>1, <2>1
    <3>2. IsOpen(r) /\ inode[r].sector \notin Reserved  BY <3>1 DEF IsOpen
    <3> QED  BY <3>1, <3>2 DEF Live, InMemory
  <2>2. CASE r = o  BY <1>1, <2>2, Constants DEF Live
  <2> QED  BY <2>1, <2>2
<1>11. Live' \subseteq Live /\ \A x : Span(x)' = Span(x)  BY <1>9, <1>10 DEF Live, Span
<1>12. SpansKept'  BY <1>9, <1>11 DEF World, SpansKept
<1>13. \A r \in Obj : Gone(r)'
  <2> SUFFICES ASSUME NEW r \in Obj PROVE Gone(r)'  OBVIOUS
  <2>1. Gone(r)  BY DEF World
  <2>2. CASE r # o  BY <1>1, <1>9, <2>1, <2>2 DEF Gone
  <2>3. CASE r = o /\ Joins(o, s)
    <3>1. inode[o] # NoInode /\ inode[o].sector = s /\ inode[o].open_cnt \in Nat
      BY <2>3, InodeFields DEF Joins, IsOpen, World
    <3> QED  BY <1>1, <1>9, <2>1, <2>3, <3>1 DEF Gone
  <2>4. CASE r = o /\ Starts(o, s)  BY <1>1, <2>4, NewInodeIs DEF Gone
  <2> QED  BY <2>2, <2>3, <2>4
<1>14. SectorsApart'
  <2> SUFFICES ASSUME NEW a \in Obj, NEW b \in Obj, inode'[a] # NoInode, inode'[b] # NoInode,
                      inode'[a].sector = inode'[b].sector, a # b
               PROVE  FALSE
    BY DEF SectorsApart
  <2>1. CASE a # o /\ b # o  BY <1>1, <2>1 DEF World, SectorsApart
  <2>2. \A r \in Obj : r # o /\ inode[r] # NoInode /\ inode[r].sector = s => FALSE
    <3> SUFFICES ASSUME NEW r \in Obj, r # o, inode[r] # NoInode, inode[r].sector = s PROVE FALSE  OBVIOUS
    <3>1. CASE Joins(o, s)  BY <1>2, <3>1 DEF Joins, IsOpen, World, SectorsApart
    <3>2. CASE Starts(o, s)
      <4>1. inode[r].open_cnt # 0  BY <1>5 DEF Solo, Counted
      <4>2. inode[r].open_cnt \in Nat  BY InodeFields DEF World
      <4>3. r \in Opened(s)  BY <4>1, <4>2 DEF Opened, IsOpen
      <4> QED  BY <3>2, <4>3 DEF Starts
    <3> QED  BY <3>1, <3>2
  <2>3. CASE a = o \/ b = o  BY <1>1, <2>2, <2>3
  <2> QED  BY <2>1, <2>3
<1> QED  BY <1>3, <1>8, <1>12, <1>13, <1>14 DEF FInv, World

\* inode_open(): it joins, it starts, or it fails.
LEMMA OpensIs ==
    ASSUME Typed, NEW p \in Proc, NEW s, NEW field, NEW next, NEW failed, NEW l,
           inode_open(p, s, field, next, failed, l)
    PROVE  \/ \E o : Joins(o, s) /\ Go(p, next, [l EXCEPT ![field] = o])
           \/ \E o : Starts(o, s) /\ Go(p, "read", [l EXCEPT ![field] = o, !.then = next])
           \/ UNCHANGED inode /\ Go(p, failed, l)
<1> DEFINE free == {o \in Obj : inode[o] = NoInode}
<1>1. CASE \E o \in Opened(s) : /\ inode' = [inode EXCEPT ![o].open_cnt = @ + 1]
                                /\ Go(p, next, [l EXCEPT ![field] = o])
  BY <1>1 DEF Opened, Joins
<1>2. CASE /\ Opened(s) = {} /\ free # {}
           /\ LET o == CHOOSE r \in free : \A q \in free : r =< q
              IN  /\ inode' = [inode EXCEPT ![o] = NewInode(s)]
                  /\ Go(p, "read", [l EXCEPT ![field] = o, !.then = next])
  <2>1. PICK o : o = CHOOSE r \in free : \A q \in free : r =< q  OBVIOUS
  <2>2. free \subseteq Nat /\ free # {}  BY <1>2, Constants
  <2>3. \E r \in free : \A q \in free : r =< q
    <3> HIDE DEF free
    <3> QED  BY <2>2, LeastNat
  <2>4. o \in free
    <3> HIDE DEF free
    <3> QED  BY <2>1, <2>3
  <2>5. /\ inode' = [inode EXCEPT ![o] = NewInode(s)]
        /\ Go(p, "read", [l EXCEPT ![field] = o, !.then = next])
    BY <1>2, <2>1
  <2> QED  BY <1>2, <2>4, <2>5 DEF Starts
<1>3. CASE Opened(s) = {} /\ free = {} /\ UNCHANGED inode /\ Go(p, failed, l)  BY <1>3
<1> QED  BY <1>1, <1>2, <1>3 DEF inode_open

\* dir_open_root(), for the calls that go on with next.
LEMMA RootOpens ==
    ASSUME World, NEW p \in Proc, Solo(p), HoldsNothing(p), pc[p] \notin Releasing \cup {"read"},
           NEW next, NEW l \in Loc, HoldsNothing(p), l.dir = NoObj, l.inode = NoObj,
           \/ next = "alloc" /\ l.call = "create"
           \/ next = "lookup" /\ l.call \in {"remove", "exec", "open", "load"},
           open_root(p, next, l), UNCHANGED <<dvars, free_map, fd, lost, prog>>,
           file_lock' \in Proc \cup {NoProc}
    PROVE  FInv'
<1> USE DEF dvars
<1>0. Typed /\ inode_open(p, ROOT_DIR_SECTOR, "dir", next, "end", l)
  BY DEF open_root, World
<1>1. ROOT_DIR_SECTOR \in Sector /\ prog' \in [Proc -> Name]  BY Constants DEF World, Typed, FTypeOK
<1>2. next \in Labels /\ next \notin Releasing \cup Creating \cup {"read"} /\ "read" \in Labels \ Releasing
  BY DEF Labels, Releasing, Creating
<1>3. \A r \in Obj : ~Uses(p, r)  BY Constants DEF HoldsNothing, Uses
<1>4. ASSUME NEW o, Joins(o, ROOT_DIR_SECTOR), Go(p, next, [l EXCEPT !["dir"] = o]) PROVE FInv'
  <2>1. o \in Obj /\ o # NoObj  BY <1>4, Constants DEF Joins
  <2>2. PICK m : m = [l EXCEPT !["dir"] = o]  OBVIOUS
  <2>3. m \in Loc /\ m.dir = o /\ m.inode = NoObj /\ m.call = l.call  BY <2>1, <2>2 DEF Loc, Locals, Naming
  <2>4. StepsTo(p, next, m)  BY <1>0, <1>2, <1>4, <2>2, <2>3, GoSteps
  <2>5. pc'[p] = next /\ loc'[p] = m  BY <2>4 DEF StepsTo
  <2>6. \A r \in Obj : Uses(p, r)' <=> Uses(p, r) \/ r = o
    BY <1>2, <1>3, <2>1, <2>3, <2>5, Constants DEF Uses
  <2>7. \A r \in Obj : Reads(p, r)' <=> r = o /\ Starts(o, ROOT_DIR_SECTOR)
    BY <1>2, <1>4, <2>5 DEF Reads, Joins, Starts, IsOpen
  <2>8. inode'[o] # NoInode /\ inode'[o].sector = ROOT_DIR_SECTOR  BY <1>0, <1>1, <1>4, Inodes
  <2>9. HasRoot(p)'  BY <2>1, <2>3, <2>5, <2>8 DEF HasRoot
  <2>10. PlaceAt(p)'  BY <2>3, <2>5, <2>9 DEF PlaceAt, Resting, InRoot, Releasing, Creating
  <2>11. HandAt(p)'  BY <1>2, <2>5 DEF HandAt, Creating
  <2> QED  BY <1>1, <1>2, <1>3, <1>4, <2>1, <2>4, <2>6, <2>7, <2>10, <2>11, Gains
<1>5. ASSUME NEW o, Starts(o, ROOT_DIR_SECTOR), Go(p, "read", [l EXCEPT !["dir"] = o, !.then = next]) PROVE FInv'
  <2>1. o \in Obj /\ o # NoObj  BY <1>5, Constants DEF Starts
  <2>2. PICK m : m = [l EXCEPT !["dir"] = o, !.then = next]  OBVIOUS
  <2>3. m \in Loc /\ m.dir = o /\ m.inode = NoObj /\ m.call = l.call /\ m.then = next  BY <1>2, <2>1, <2>2 DEF Loc, Locals, Naming
  <2>4. StepsTo(p, "read", m)  BY <1>0, <1>2, <1>5, <2>2, <2>3, GoSteps
  <2>5. pc'[p] = "read" /\ loc'[p] = m  BY <2>4 DEF StepsTo
  <2>6. \A r \in Obj : Uses(p, r)' <=> Uses(p, r) \/ r = o
    BY <1>2, <1>3, <2>1, <2>3, <2>5, Constants DEF Uses
  <2>7. \A r \in Obj : Reads(p, r)' <=> r = o /\ Starts(o, ROOT_DIR_SECTOR)
    BY <1>5, <2>3, <2>5 DEF Reads
  <2>8. inode'[o] # NoInode /\ inode'[o].sector = ROOT_DIR_SECTOR  BY <1>0, <1>1, <1>5, Inodes
  <2>9. HasRoot(p)'  BY <2>1, <2>3, <2>5, <2>8 DEF HasRoot
  <2>10. PlaceAt(p)'  BY <2>3, <2>5, <2>9 DEF PlaceAt, Resting, InRoot, Releasing, Creating
  <2>11. HandAt(p)'  BY <1>2, <2>5 DEF HandAt, Creating, Releasing
  <2> QED  BY <1>1, <1>2, <1>3, <1>5, <2>1, <2>4, <2>6, <2>7, <2>10, <2>11, Gains
<1>6. ASSUME UNCHANGED inode, Go(p, "end", l) PROVE FInv'
  <2>1. StepsTo(p, "end", l) /\ "end" \notin Releasing \cup {"read"} /\ "end" \in Labels
    BY <1>0, <1>6, GoSteps DEF Labels, Releasing
  <2>2. pc'[p] = "end" /\ loc'[p] = l  BY <2>1 DEF StepsTo
  <2>3. PlaceAt(p)'  BY <2>2 DEF PlaceAt, Resting, InRoot, Releasing, Creating
  <2>4. HandAt(p)'  BY <2>2 DEF HandAt, Creating, Releasing
  <2>5. UNCHANGED files  BY <1>6 DEF files
  <2>6. l.dir = loc[p].dir /\ l.inode = loc[p].inode  BY DEF HoldsNothing
  <2> QED  BY <1>1, <1>6, <2>1, <2>3, <2>4, <2>5, <2>6, WalksOn
<1> QED  BY <1>0, <1>4, <1>5, <1>6, OpensIs

\* The calls that begin by opening the root directory.
LEMMA Begins ==
    ASSUME Serialized, FInv, NEW p \in Proc,
           \/ \E n \in Name : RemoveFile(p, n) \/ Exec(p, n)
           \/ \E n \in Name, k \in 0 .. MaxLen : Create(p, n, k)
    PROVE  FInv'
<1>1. World /\ Solo(p) /\ HoldsNothing(p) /\ pc[p] \notin Releasing \cup {"read"}
  BY Entered DEF RemoveFile, Exec, Create
<1>2. UNCHANGED <<dvars, free_map, fd, lost, prog>> /\ file_lock' \in Proc \cup {NoProc}
  BY <1>1 DEF RemoveFile, Exec, Create, World, Typed, FTypeOK
<1>3. ASSUME NEW n \in Name, NEW call \in {"remove", "exec"}, open_root(p, "lookup", Begin(p, call, n)) PROVE FInv'
  <2>1. PICK l : l = Begin(p, call, n)  OBVIOUS
  <2>2. l \in Loc /\ l.dir = NoObj /\ l.inode = NoObj /\ l.call = call  BY <2>1, BeginIs
  <2>3. open_root(p, "lookup", l)  BY <1>3, <2>1
  <2> QED  BY <1>1, <1>2, <2>2, <2>3, RootOpens
<1>4. ASSUME NEW n \in Name, NEW k \in 0 .. MaxLen, open_root(p, "alloc", [Begin(p, "create", n) EXCEPT !.len = k])
      PROVE  FInv'
  <2>1. PICK b : b = Begin(p, "create", n)  OBVIOUS
  <2>2. b \in Loc /\ b.dir = NoObj /\ b.inode = NoObj /\ b.call = "create"  BY <2>1, BeginIs
  <2>3. PICK l : l = [b EXCEPT !.len = k]  OBVIOUS
  <2>4. l \in Loc /\ l.dir = NoObj /\ l.inode = NoObj /\ l.call = "create"  BY <2>2, <2>3 DEF Loc, Locals, Naming
  <2>5. open_root(p, "alloc", l)  BY <1>4, <2>1, <2>3
  <2> QED  BY <1>1, <1>2, <2>4, <2>5, RootOpens
<1> QED  BY <1>3, <1>4 DEF RemoveFile, Exec, Create

\* lock_acquire(&file_lock) returns.
LEMMA AcquireKeeps == ASSUME Serialized, FInv, NEW p \in Proc, Acquire(p) PROVE FInv'
<1>1. pc[p] = "acquire" /\ Quiet(p)  BY DEF Acquire, At
<1>2. World /\ Solo(p) /\ pc[p] \notin Releasing \cup {"read"}  BY <1>1, Turn DEF Releasing
<1>3. HoldsNothing(p)  BY <1>1, <1>2, Rests DEF Resting
<1>4. loc[p] \in Loc /\ UNCHANGED <<dvars, free_map, fd, lost, prog>>
  BY <1>2 DEF World, Typed, Acquire
<1>5. file_lock' \in Proc \cup {NoProc} /\ prog' \in [Proc -> Name]
  BY <1>2, <1>4 DEF World, Typed, FTypeOK, Acquire
<1>6. CASE loc[p].call = "open"
  <2>1. open_root(p, "lookup", loc[p])  BY <1>6 DEF Acquire
  <2>2. PICK l : l = loc[p]  OBVIOUS
  <2>3. l \in Loc /\ l.dir = NoObj /\ l.inode = NoObj /\ l.call = "open"  BY <1>3, <1>4, <1>6, <2>2 DEF HoldsNothing
  <2>4. open_root(p, "lookup", l)  BY <2>1, <2>2
  <2> QED  BY <1>2, <1>3, <1>4, <1>5, <2>3, <2>4, RootOpens
<1>7. CASE loc[p].call # "open"
  <2>1. UNCHANGED inode  BY <1>7 DEF Acquire
  <2>2. UNCHANGED files  BY <1>4, <2>1 DEF files, dvars
  <2>3. CASE Go(p, "exit", NoLoc)  BY <1>2, <1>3, <1>5, <2>2, <2>3, NoLocIs, WalksFree
  <2>4. CASE Go(p, "transfer", loc[p])
    BY <1>2, <1>3, <1>4, <1>5, <2>2, <2>4, WalksFree DEF HoldsNothing
  <2> QED  BY <1>7, <2>3, <2>4 DEF Acquire
<1> QED  BY <1>6, <1>7

\* load() opens the root directory, or finds no page.
LEMMA LoadKeeps == ASSUME Serialized, FInv, NEW p \in Proc, Load(p) PROVE FInv'
<1>1. pc[p] = "load"  BY DEF Load, At
<1>2. World /\ Solo(p) /\ pc[p] \notin Releasing \cup {"read"}  BY <1>1, Turn DEF Releasing, Resting
<1>3. HoldsNothing(p) /\ loc[p].call = "load"  BY <1>1, <1>2 DEF Solo, PlaceAt
<1>4. loc[p] \in Loc /\ UNCHANGED <<dvars, free_map, fd, lost, prog>>
  BY <1>2 DEF World, Typed, Load
<1>5. file_lock' \in Proc \cup {NoProc} /\ prog' \in [Proc -> Name]
  BY <1>2, <1>4 DEF World, Typed, FTypeOK, Load
<1>6. CASE open_root(p, "lookup", loc[p])
  <2>1. PICK l : l = loc[p]  OBVIOUS
  <2>2. l \in Loc /\ l.dir = NoObj /\ l.inode = NoObj /\ l.call = "load"  BY <1>3, <1>4, <2>1 DEF HoldsNothing
  <2>3. open_root(p, "lookup", l)  BY <1>6, <2>1
  <2> QED  BY <1>2, <1>3, <1>4, <1>5, <2>2, <2>3, RootOpens
<1>7. CASE Go(p, "exit", NoLoc) /\ UNCHANGED inode
  <2>1. UNCHANGED files  BY <1>4, <1>7 DEF files, dvars
  <2> QED  BY <1>2, <1>3, <1>5, <1>7, <2>1, NoLocIs, WalksFree
<1> QED  BY <1>6, <1>7 DEF Load

\* dir_lookup() and dir_remove() open the file they found.
LEMMA FileOpens ==
    ASSUME World, NEW p \in Proc, Solo(p), pc[p] = "lookup",
           NEW s \in Slot, dir[s] # NoEntry,
           NEW next, next = IF loc[p].call = "remove" THEN "erase" ELSE "done",
           NEW l, l = [loc[p] EXCEPT !.slot = s],
           inode_open(p, dir[s].sector, "inode", next, "done", l), UNCHANGED <<dvars, free_map, fd, lost, prog>>,
           file_lock' \in Proc \cup {NoProc}
    PROVE  FInv'
<1> USE DEF dvars
<1>1. Typed /\ prog' \in [Proc -> Name] /\ loc[p] \in Loc  BY DEF World, Typed, FTypeOK
<1>2. PICK x : x = dir[s].sector  OBVIOUS
<1>3. x \in Sector /\ x \in DirSectors /\ x # ROOT_DIR_SECTOR
  <2>1. dir[s] \in Entry  BY <1>1 DEF Typed, FTypeOK
  <2>2. x \in DirSectors /\ x \in Live  BY <1>2 DEF DirSectors, Live
  <2>3. x \in Span(x)  BY DEF Span
  <2> QED  BY <1>2, <2>1, <2>2, <2>3, Constants DEF Entry, World, SpansKept
<1>4. HasRoot(p) /\ loc[p].inode = NoObj /\ loc[p].call \in {"remove", "exec", "open", "load"}
  BY DEF Solo, PlaceAt, InRoot
<1>5. l \in Loc /\ l.dir = loc[p].dir /\ l.inode = NoObj /\ l.call = loc[p].call /\ l.slot = s
  BY <1>1, <1>4 DEF Loc, Locals, Naming
<1>6. /\ next \in {"erase", "done"} /\ next \in Labels /\ next \notin Releasing \cup Creating \cup {"read"}
      /\ "read" \in Labels \ Releasing /\ pc[p] \notin Releasing \cup {"read"}
  BY DEF Labels, Releasing, Creating
<1>7. \A r \in Obj : Uses(p, r) <=> r = loc[p].dir  BY <1>4, <1>6, Constants DEF Uses
<1>8. ASSUME NEW o, Joins(o, x) \/ Starts(o, x) PROVE o \in Obj /\ o # NoObj /\ o # loc[p].dir
  <2>1. o \in Obj /\ o # NoObj  BY <1>8, Constants DEF Joins, Starts
  <2>2. o # loc[p].dir  BY <1>3, <1>4, <1>8 DEF Joins, Starts, HasRoot, IsOpen
  <2> QED  BY <2>1, <2>2
<1>9. ASSUME NEW o, NEW label, NEW m \in Loc, Joins(o, x) \/ Starts(o, x), StepsTo(p, label, m),
             label = (IF Starts(o, x) THEN "read" ELSE next), Starts(o, x) => m.then = next,
             m.dir = loc[p].dir, m.inode = o, m.call = loc[p].call, m.slot = s
      PROVE  FInv'
  <2>1. o \in Obj /\ o # NoObj /\ o # loc[p].dir  BY <1>8, <1>9
  <2>2. pc'[p] = label /\ loc'[p] = m  BY <1>9 DEF StepsTo
  <2>3. \A r \in Obj : Uses(p, r)' <=> Uses(p, r) \/ r = o
    BY <1>6, <1>7, <1>9, <2>1, <2>2 DEF Uses
  <2>4. \A r \in Obj : Reads(p, r)' <=> r = o /\ Starts(o, x)
    BY <1>6, <1>9, <2>1, <2>2 DEF Reads
  <2>5. inode'[o] # NoInode /\ inode'[o].sector = x /\ inode'[loc[p].dir] = inode[loc[p].dir]
    <3>1. loc[p].dir \in Obj  BY <1>4 DEF HasRoot
    <3>2. inode'[o] # NoInode /\ inode'[o].sector = x /\ \A r \in Obj : r # o => inode'[r] = inode[r]
      BY <1>1, <1>3, <1>9, Inodes
    <3> QED  BY <2>1, <3>1, <3>2
  <2>6. HasRoot(p)'  BY <1>4, <1>9, <2>1, <2>2, <2>5 DEF HasRoot
  <2>7. m.call = "remove" => HasEntry(p)'  BY <1>2, <1>9, <2>1, <2>2, <2>5 DEF HasEntry
  <2>8. PlaceAt(p)'
    <3>1. m.call # "create" /\ (next = "erase" <=> m.call = "remove")  BY <1>4, <1>9
    <3>2. label \in {"read", next}  BY <1>9
    <3>3. CASE label = "read"
      <4>1. m.then = next  BY <1>6, <1>9, <3>3
      <4> QED  BY <1>6, <1>9, <2>1, <2>2, <2>6, <2>7, <3>1, <3>3, <4>1
               DEF PlaceAt, Resting, InRoot, Releasing, Creating
    <3>4. CASE label = next
      BY <1>6, <1>9, <2>1, <2>2, <2>6, <2>7, <3>1, <3>4 DEF PlaceAt, Resting, InRoot, Releasing, Creating
    <3> QED  BY <3>2, <3>3, <3>4
  <2>9. HandAt(p)'  BY <1>6, <1>9, <2>2 DEF HandAt, Creating, Releasing
  <2>10. ~Uses(p, o) /\ label \notin Releasing  BY <1>6, <1>7, <1>9, <2>1
  <2> QED  BY <1>1, <1>3, <1>6, <1>9, <2>3, <2>4, <2>8, <2>9, <2>10, Gains
<1>10. inode_open(p, x, "inode", next, "done", l)  BY <1>2
<1>11. ASSUME NEW o, Joins(o, x), Go(p, next, [l EXCEPT !["inode"] = o]) PROVE FInv'
  <2>1. PICK m : m = [l EXCEPT !["inode"] = o]  OBVIOUS
  <2>2. o \in Obj /\ ~Starts(o, x)  BY <1>11 DEF Joins, Starts, IsOpen
  <2>3. m \in Loc /\ m.dir = l.dir /\ m.inode = o /\ m.call = l.call /\ m.slot = s
    <3>1. m = [l EXCEPT !.inode = o] /\ o \in Obj \cup {NoObj} /\ l \in Loc  BY <1>5, <2>1, <2>2
    <3>2. m \in Loc /\ m.dir = l.dir /\ m.inode = o /\ m.call = l.call /\ m.slot = l.slot
      BY ONLY <3>1, SetsInode
    <3> QED  BY <1>5, <3>2
  <2>4. StepsTo(p, next, m)  BY <1>1, <1>6, <1>11, <2>1, <2>3, GoSteps
  <2> QED  BY <1>5, <1>9, <1>11, <2>2, <2>3, <2>4
<1>12. ASSUME NEW o, Starts(o, x), Go(p, "read", [l EXCEPT !["inode"] = o, !.then = next]) PROVE FInv'
  <2>1. PICK m : m = [l EXCEPT !["inode"] = o, !.then = next]  OBVIOUS
  <2>2. o \in Obj  BY <1>12 DEF Starts
  <2>3. m \in Loc /\ m.dir = l.dir /\ m.inode = o /\ m.call = l.call /\ m.slot = s /\ m.then = next
    <3>1. PICK k : k = [l EXCEPT !.inode = o] /\ o \in Obj \cup {NoObj}  BY <2>2
    <3>2. k \in Loc /\ k.dir = l.dir /\ k.inode = o /\ k.call = l.call /\ k.slot = s
      <4>1. l \in Loc  BY <1>5
      <4>2. k \in Loc /\ k.dir = l.dir /\ k.inode = o /\ k.call = l.call /\ k.slot = l.slot
        BY ONLY <3>1, <4>1, SetsInode
      <4> QED  BY <1>5, <4>2
    <3>3. m = [k EXCEPT !.then = next]  BY <2>1, <3>1
    <3> QED  BY <1>6, <3>2, <3>3, SetsThen
  <2>4. StepsTo(p, "read", m)  BY <1>1, <1>6, <1>12, <2>1, <2>3, GoSteps
  <2> QED  BY <1>5, <1>9, <1>12, <2>2, <2>3, <2>4
<1>13. ASSUME UNCHANGED inode, Go(p, "done", l) PROVE FInv'
  <2>1. "done" \in Labels /\ "done" \notin Releasing \cup {"read"}  BY DEF Labels, Releasing
  <2>2. StepsTo(p, "done", l)  BY <1>1, <1>5, <1>13, <2>1, GoSteps
  <2>3. pc'[p] = "done" /\ loc'[p] = l  BY <2>2 DEF StepsTo
  <2>4. HasRoot(p)'  BY <1>4, <1>5, <1>13, <2>3 DEF HasRoot
  <2>5. PlaceAt(p)'  BY <1>5, <2>3, <2>4 DEF PlaceAt, Resting, InRoot, Releasing, Creating
  <2>6. HandAt(p)'  BY <2>3 DEF HandAt, Creating, Releasing
  <2>7. UNCHANGED files  BY <1>13 DEF files
  <2> QED  BY <1>1, <1>4, <1>5, <1>6, <1>13, <2>1, <2>5, <2>6, <2>7, WalksOn
<1> QED  BY <1>1, <1>10, <1>11, <1>12, <1>13, OpensIs

\* The file that the directory names is opened.
LEMMA LookupKeeps == ASSUME Serialized, FInv, NEW p \in Proc, Lookup(p) PROVE FInv'
<1>1. pc[p] = "lookup"  BY DEF Lookup, At
<1>2. World /\ Solo(p) /\ pc[p] \notin Releasing \cup {"read"}  BY <1>1, Turn DEF Releasing, Resting
<1>3. UNCHANGED <<dvars, free_map, fd, lost, prog>> /\ loc[p] \in Loc  BY <1>2 DEF Lookup, World, Typed
<1>4. file_lock' \in Proc \cup {NoProc} /\ prog' \in [Proc -> Name]
  BY <1>2, <1>3 DEF World, Typed, FTypeOK, Lookup
<1>5. CASE \E s \in Slot : /\ dir[s] # NoEntry
                           /\ inode_open(p, dir[s].sector, "inode", IF loc[p].call = "remove" THEN "erase" ELSE "done",
                                         "done", [loc[p] EXCEPT !.slot = s])
  <2>1. PICK s \in Slot : /\ dir[s] # NoEntry
                          /\ inode_open(p, dir[s].sector, "inode", IF loc[p].call = "remove" THEN "erase" ELSE "done",
                                        "done", [loc[p] EXCEPT !.slot = s])
    BY <1>5
  <2>2. PICK next, l : /\ next = IF loc[p].call = "remove" THEN "erase" ELSE "done"
                       /\ l = [loc[p] EXCEPT !.slot = s]
    OBVIOUS
  <2>3. inode_open(p, dir[s].sector, "inode", next, "done", l)  BY <2>1, <2>2
  <2> QED  BY <1>1, <1>2, <1>3, <1>4, <2>1, <2>2, <2>3, FileOpens
<1>6. CASE Go(p, "done", loc[p]) /\ UNCHANGED inode
  <2>1. "done" \in Labels /\ "done" \notin Releasing \cup {"read"}  BY DEF Labels, Releasing
  <2>2. StepsTo(p, "done", loc[p])  BY <1>2, <1>3, <1>6, <2>1, GoSteps DEF World
  <2>3. pc'[p] = "done" /\ loc'[p] = loc[p]  BY <2>2 DEF StepsTo
  <2>4. HasRoot(p) /\ loc[p].inode = NoObj  BY <1>1, <1>2 DEF Solo, PlaceAt, InRoot
  <2>5. HasRoot(p)'  BY <1>6, <2>3, <2>4 DEF HasRoot
  <2>6. PlaceAt(p)'  BY <2>3, <2>4, <2>5 DEF PlaceAt, Resting, InRoot, Releasing, Creating
  <2>7. HandAt(p)'  BY <2>3 DEF HandAt, Creating, Releasing
  <2>8. UNCHANGED files  BY <1>3, <1>6 DEF files, dvars
  <2> QED  BY <1>2, <1>3, <1>4, <1>6, <2>1, <2>6, <2>7, <2>8, WalksOn
<1> QED  BY <1>5, <1>6 DEF Lookup

-----------------------------------------------------------------------------
(* Steps that open no file and add none to the directory.                   *)

\* No entry and no inode is new, none moves, and what they need stays marked.
Fewer ==
  /\ \A s \in Slot : dir'[s] \in {dir[s], NoEntry}
  /\ \A o \in Obj : inode'[o] # NoInode =>
       inode[o] # NoInode /\ inode'[o].sector = inode[o].sector /\ (IsOpen(o)' => IsOpen(o))
  /\ \A x \in Live : disk'[x] = disk[x]

\* Then no file is new.
LEMMA FewerLive ==
    ASSUME Fewer
    PROVE  DirSectors' \subseteq DirSectors /\ Live' \subseteq Live /\ \A x \in Live : Span(x)' = Span(x)
<1>1. DirSectors' \subseteq DirSectors
  <2> SUFFICES ASSUME NEW x \in DirSectors' PROVE x \in DirSectors  OBVIOUS
  <2>1. PICK s \in Slot : dir'[s] # NoEntry /\ x = dir'[s].sector  BY DEF DirSectors
  <2>2. dir'[s] = dir[s]  BY <2>1 DEF Fewer
  <2> QED  BY <2>1, <2>2 DEF DirSectors
<1>2. InMemory' \subseteq InMemory
  <2> SUFFICES ASSUME NEW x \in InMemory' PROVE x \in InMemory  OBVIOUS
  <2>1. PICK o \in Obj : IsOpen(o)' /\ x = inode'[o].sector /\ x \notin Reserved  BY DEF InMemory
  <2>2. inode'[o] # NoInode  BY <2>1 DEF IsOpen
  <2>3. IsOpen(o) /\ inode'[o].sector = inode[o].sector  BY <2>1, <2>2 DEF Fewer
  <2> QED  BY <2>1, <2>3 DEF InMemory
<1>3. \A x \in Live : Span(x)' = Span(x)  BY DEF Fewer, Span
<1> QED  BY <1>1, <1>2, <1>3 DEF Live

\* What is left to show of such a step.
LEMMA WorldKept ==
    ASSUME World, Typed', Fewer, \A o \in Obj : Gone(o)',
           Reserved \subseteq free_map' \cap map_disk',
           \A x \in Live' : Span(x) \subseteq free_map',
           \A x \in DirSectors' : Span(x) \subseteq map_disk'
    PROVE  World'
<1>1. DirSectors' \subseteq DirSectors /\ Live' \subseteq Live /\ \A x \in Live : Span(x)' = Span(x)  BY FewerLive
<1>2. SectorsApart'  BY DEF World, SectorsApart, Fewer
<1>3. SpansKept'
  <2>1. \A s, t \in Slot : dir'[s] # NoEntry /\ dir'[t] # NoEntry /\ dir'[s].sector = dir'[t].sector => s = t
    <3> SUFFICES ASSUME NEW s \in Slot, NEW t \in Slot, dir'[s] # NoEntry, dir'[t] # NoEntry,
                        dir'[s].sector = dir'[t].sector
                 PROVE  s = t
      OBVIOUS
    <3>1. dir'[s] = dir[s] /\ dir'[t] = dir[t]  BY DEF Fewer
    <3> QED  BY <3>1 DEF World, SpansKept
  <2>2. \A x \in Live' : Span(x)' \subseteq free_map' \ Reserved  BY <1>1 DEF World, SpansKept
  <2>3. \A x, y \in Live' : x # y => Span(x)' \cap Span(y)' = {}  BY <1>1 DEF World, SpansKept
  <2>4. \A x \in DirSectors' : Span(x)' \subseteq map_disk'  BY <1>1 DEF Live
  <2> QED  BY <2>1, <2>2, <2>3, <2>4 DEF SpansKept
<1> QED  BY <1>2, <1>3 DEF World

\* Its hypothesis on the maps, when these only lose what no file has.
LEMMA Marked ==
    ASSUME World, Fewer
    PROVE  /\ Reserved \subseteq free_map \cap map_disk /\ free_map \subseteq Sector /\ map_disk \subseteq Sector
           /\ \A x \in Live' : Span(x) \subseteq free_map \ Reserved
           /\ \A x \in DirSectors' : Span(x) \subseteq map_disk /\ x \in Live'
BY FewerLive DEF World, SpansKept, Live, Typed, FTypeOK

\* What a process is about to read is open and has a sector.
LEMMA Reading ==
    ASSUME World, NEW p \in Proc, Solo(p), pc[p] = "read"
    PROVE  \E o \in Obj : /\ o = (IF loc[p].inode # NoObj THEN loc[p].inode ELSE loc[p].dir)
                          /\ inode[o] # NoInode /\ Uses(p, o)
<1>1. HasRoot(p)  BY DEF Solo, PlaceAt, InRoot
<1>2. CASE loc[p].inode = NoObj  BY <1>1, <1>2 DEF HasRoot, Uses
<1>3. CASE loc[p].inode # NoObj
  <2>1. loc[p].inode \in Obj  BY <1>3 DEF World, Typed, Loc, Locals
  <2>2. Uses(p, loc[p].inode)  BY DEF Uses, Releasing
  <2>3. inode[loc[p].inode] # NoInode  BY <2>1, <2>2 DEF Solo, Counted
  <2> QED  BY <1>3, <2>1, <2>2, <2>3
<1> QED  BY <1>2, <1>3

\* The block of an inode is read.
LEMMA ReadInodeKeeps == ASSUME Serialized, FInv, NEW p \in Proc, ReadInode(p) PROVE FInv'
<1>1. pc[p] = "read"  BY DEF ReadInode, At
<1>2. World /\ Solo(p) /\ Typed  BY <1>1, Turn DEF Resting, World
<1>3. PICK o \in Obj : /\ o = (IF loc[p].inode # NoObj THEN loc[p].inode ELSE loc[p].dir)
                       /\ inode[o] # NoInode /\ Uses(p, o)
  BY <1>1, <1>2, Reading
<1>4. PICK l : l = loc[p]  OBVIOUS
<1>5. l \in Loc /\ l.then \in Labels /\ l.then \in {"alloc", "lookup", "erase", "done"}
  BY <1>1, <1>2, <1>4 DEF Typed, Loc, Locals, Solo, PlaceAt
<1>6. PICK b : b = disk[inode[o].sector]  OBVIOUS
<1>7. b \in Extent  BY <1>2, <1>3, <1>6, InodeFields DEF Typed, FTypeOK
<1>8. PICK i : i = [inode[o] EXCEPT !.data = b]  OBVIOUS
<1>9. /\ i \in Inode /\ i.sector = inode[o].sector /\ i.open_cnt = inode[o].open_cnt /\ i.removed = inode[o].removed
      /\ i.deny_write_cnt = inode[o].deny_write_cnt /\ i.data = b /\ i # NoInode /\ b # Unread
  <2>1. inode[o] \in Inode  BY <1>2, <1>3, InodeFields
  <2>2. i \in Inode /\ i.data = b  BY <1>7, <1>8, <2>1 DEF Inode
  <2> QED  BY <1>7, <1>8, <2>1, <2>2, Constants DEF Inode
<1>10. inode' = [inode EXCEPT ![o] = i]  BY <1>3, <1>6, <1>8 DEF ReadInode
<1>11. /\ inode' \in [Obj -> Inode \cup {NoInode}] /\ inode'[o] = i /\ \A r \in Obj : r # o => inode'[r] = inode[r]
  BY <1>2, <1>9, <1>10 DEF Typed, FTypeOK
<1>12. StepsTo(p, l.then, l)  BY <1>2, <1>4, <1>5, GoSteps DEF ReadInode
<1>13. pc'[p] = l.then /\ loc'[p] = loc[p] /\ pc'[p] \notin Releasing \cup Resting \cup Creating \cup {"read", "end"}
  BY <1>4, <1>5, <1>12 DEF StepsTo, Releasing, Resting, Creating
<1>14. UNCHANGED <<dir, disk, map_disk, free_map, fd, lost, file_lock, prog>>  BY DEF ReadInode, dvars
<1>15. Typed'  BY <1>2, <1>11, <1>12, <1>14 DEF Typed, FTypeOK, StepsTo
<1>16. Fewer
  <2>1. \A r \in Obj : IsOpen(r)' <=> IsOpen(r)  BY <1>3, <1>9, <1>11 DEF IsOpen
  <2> QED  BY <1>3, <1>9, <1>11, <1>14, <2>1 DEF Fewer
<1>17. \A r \in Obj : Gone(r)'
  <2>1. DirSectors' = DirSectors  BY <1>14 DEF DirSectors
  <2> QED  BY <1>2, <1>3, <1>9, <1>11, <2>1 DEF World, Gone
<1>18. World'  BY <1>2, <1>14, <1>15, <1>16, <1>17, Marked, WorldKept
<1>19. PlaceAt(p)'
  <2>1. HasRoot(p) /\ (l.then = "erase" => HasEntry(p))  BY <1>1, <1>2, <1>4 DEF Solo, PlaceAt, InRoot
  <2>2. \A r \in Obj : inode[r] # NoInode => inode'[r] # NoInode /\ inode'[r].sector = inode[r].sector
    BY <1>9, <1>11
  <2>3. HasRoot(p)'  BY <1>13, <2>1, <2>2 DEF HasRoot
  <2>4. l.then = "erase" => HasEntry(p)'  BY <1>13, <1>14, <2>1, <2>2 DEF HasEntry
  <2>5. /\ l.then \in {"lookup", "alloc"} => l.inode = NoObj
        /\ l.then = "alloc" => l.call = "create"
        /\ l.then = "lookup" => l.call \in {"remove", "exec", "open", "load"}
        /\ l.then = "done" /\ l.call \in {"create", "remove"} => l.inode = NoObj
    BY <1>1, <1>2, <1>4 DEF Solo, PlaceAt
  <2> QED  BY <1>4, <1>5, <1>13, <2>3, <2>4, <2>5 DEF PlaceAt
<1>20. HandAt(p)'  BY <1>13 DEF HandAt, Creating
<1>21. \A r \in Obj : Counted(p, r)'
  <2>1. \A r : OpenFds(r)' = OpenFds(r) /\ Denying(r)' = Denying(r)  BY <1>14 DEF OpenFds, Denying
  <2>2. \A r \in Obj : (Uses(p, r)' <=> Uses(p, r)) /\ ~Releases(p, r) /\ ~Releases(p, r)'
    BY <1>1, <1>13 DEF Uses, Releases, Releasing
  <2> QED  BY <1>2, <1>3, <1>9, <1>11, <1>14, <2>1, <2>2 DEF Solo, Counted
<1>22. \A r \in Obj : BlockRead(p, r)'
  <2>1. \A r \in Obj : ~Reads(p, r)' /\ (Reads(p, r) <=> r = o)  BY <1>1, <1>3, <1>13 DEF Reads
  <2> QED  BY <1>2, <1>6, <1>9, <1>11, <1>14, <2>1 DEF Solo, BlockRead
<1> QED  BY <1>2, <1>12, <1>18, <1>19, <1>20, <1>21, <1>22, SoloSteps DEF FInv

-----------------------------------------------------------------------------
(* Steps on the free map.                                                   *)

\* The sectors whose inode is in memory.
Held == {inode[o].sector : o \in {r \in Obj : inode[r] # NoInode}}

\* A step that writes the free map or the blocks of no file keeps the invariant.
LEMMA MapStep ==
    ASSUME World, NEW p \in Proc, Solo(p), NEW label \in Labels, NEW l \in Loc, Go(p, label, l),
           UNCHANGED <<dir, inode, fd, lost, file_lock, prog>>,
           disk' \in [Sector -> Extent], \A x \in Live \cup Held : disk'[x] = disk[x],
           free_map' \subseteq Sector, map_disk' \subseteq Sector, Reserved \subseteq free_map' \cap map_disk',
           \A x \in Live : Span(x) \subseteq free_map',
           \A x \in DirSectors : Span(x) \subseteq map_disk',
           SameHold(p), PlaceAt(p)', HandAt(p)'
    PROVE  FInv'
<1>1. StepsTo(p, label, l)  BY GoSteps DEF World
<1>2. Typed'  BY <1>1 DEF World, Typed, FTypeOK, StepsTo
<1>3. Fewer  BY DEF Fewer, IsOpen
<1>4. DirSectors' = DirSectors /\ Live' = Live  BY DEF DirSectors, Live, InMemory, IsOpen
<1>5. \A o \in Obj : Gone(o)'  BY <1>4 DEF World, Gone
<1>6. World'  BY <1>2, <1>3, <1>4, <1>5, WorldKept
<1>7. \A o : OpenFds(o)' = OpenFds(o) /\ Denying(o)' = Denying(o)  BY DEF OpenFds, Denying
<1>8. \A o \in Obj : Counted(p, o)'  BY <1>7 DEF Solo, Counted, SameHold
<1>9. \A o \in Obj : BlockRead(p, o)'  BY DEF Solo, BlockRead, SameHold, Held
<1> QED  BY <1>1, <1>6, <1>8, <1>9, SoloSteps DEF FInv

\* What is true of a process that creates a file.
LEMMA Creates ==
    ASSUME FInv, Serialized, NEW p \in Proc, pc[p] \in {"alloc", "undo_write"} \cup Creating
    PROVE  /\ World /\ Solo(p) /\ Typed /\ loc[p] \in Loc /\ loc[p] \in Locals
           /\ HasRoot(p) /\ loc[p].inode = NoObj
           /\ free_map \subseteq Sector /\ map_disk \subseteq Sector /\ disk \in [Sector -> Extent]
           /\ Reserved \subseteq free_map \cap map_disk
           /\ \A x \in Live : Span(x) \subseteq free_map
           /\ \A x \in DirSectors : Span(x) \subseteq map_disk /\ x \in Live
<1>1. pc[p] \notin Resting /\ pc[p] \in InRoot  BY DEF Resting, InRoot, Creating
<1>2. World /\ Solo(p)  BY <1>1, Turn
<1>3. HasRoot(p) /\ loc[p].inode = NoObj  BY <1>1, <1>2 DEF Solo, PlaceAt
<1> QED  BY <1>2, <1>3 DEF World, Typed, FTypeOK, SpansKept, Live, Loc

\* One step further in create().
LEMMA CreateGoes ==
    ASSUME FInv, Serialized, NEW p \in Proc, pc[p] \in {"alloc", "undo_write"} \cup Creating,
           NEW label \in {"undo_write", "done"} \cup Creating, NEW l \in Loc, Go(p, label, l),
           l.dir = loc[p].dir, l.inode = NoObj, l.call = loc[p].call,
           UNCHANGED <<dir, inode, fd, lost, file_lock, prog>>,
           disk' \in [Sector -> Extent], \A x \in Live \cup Held : disk'[x] = disk[x],
           free_map' \subseteq Sector, map_disk' \in {map_disk, free_map}, Reserved \subseteq free_map',
           \A x \in Live : Span(x) \subseteq free_map',
           label \in Creating => HandAt(p)'
    PROVE  FInv'
<1>1. /\ World /\ Solo(p) /\ Typed /\ HasRoot(p) /\ loc[p].inode = NoObj
      /\ map_disk' \subseteq Sector /\ Reserved \subseteq map_disk'
      /\ \A x \in DirSectors : Span(x) \subseteq map_disk'
  BY Creates
<1>2. label \in Labels /\ label \notin Releasing \cup Resting \cup {"read", "end"}
  BY DEF Labels, Creating, Releasing, Resting
<1>3. StepsTo(p, label, l)  BY <1>1, <1>2, GoSteps
<1>4. pc'[p] = label /\ loc'[p] = l  BY <1>3 DEF StepsTo
<1>5. pc[p] \notin Releasing \cup {"read"}  BY DEF Creating, Releasing
<1>6. SameHold(p)  BY <1>1, <1>2, <1>4, <1>5 DEF SameHold, Uses, Reads, Releases
<1>7. HasRoot(p)'  BY <1>1, <1>4 DEF HasRoot
<1>8. PlaceAt(p)'  BY <1>2, <1>4, <1>7 DEF PlaceAt, Creating
<1>9. HandAt(p)'
  <2>1. CASE label \in Creating  BY <2>1
  <2>2. CASE label \notin Creating  BY <1>2, <1>4, <2>2 DEF HandAt, Creating
  <2> QED  BY <2>1, <2>2
<1> QED  BY <1>1, <1>2, <1>6, <1>8, <1>9, MapStep

\* A set of sectors that was no file's still is not.
LEMMA StaysApart ==
    ASSUME UNCHANGED <<dir, inode>>, \A x \in Live : disk'[x] = disk[x], NEW S, Apart(S)
    PROVE  Apart(S)'
<1>1. Live' = Live  BY DEF Live, DirSectors, InMemory, IsOpen
<1> QED  BY <1>1 DEF Apart, Span

\* The sectors of a new file, wherever the process is in create().
NewAt(l, label) == {l.sector} \cup (IF label = "alloc_write" THEN {} ELSE Blocks([start |-> l.start, len |-> l.len]))
\* What the invariant says of a process that is in create() after the step.
HandOf(label, l) ==
  /\ l.call = "create" /\ NewAt(l, label) \subseteq free_map' /\ Apart(NewAt(l, label))
  /\ label \in {"write_inode", "add", "add_slot", "add_write"} => NewAt(l, label) \subseteq map_disk'
  /\ label \in {"add", "add_slot", "add_write"} => disk'[l.sector] = [start |-> l.start, len |-> l.len]
  /\ label = "add_write" => l.slot \in Slot /\ dir'[l.slot] = NoEntry

\* It is what the invariant says at the next place.
LEMMA HandIs ==
    ASSUME UNCHANGED <<dir, inode>>, \A x \in Live : disk'[x] = disk[x],
           NEW p, NEW label \in Creating, NEW l, pc'[p] = label, loc'[p] = l, HandOf(label, l)
    PROVE  HandAt(p)'
<1>1. New(p)' = NewAt(l, label)  BY DEF New, NewAt, Data
<1>2. Apart(NewAt(l, label))'  BY StaysApart DEF HandOf
<1>3. Apart(New(p))'  BY <1>1, <1>2 DEF Apart
<1>4. label \notin Releasing  BY DEF Creating, Releasing
<1>5. label \in Creating => loc'[p].call = "create" /\ New(p)' \subseteq free_map'  BY <1>1 DEF HandOf
<1>6. label \in {"write_inode", "add", "add_slot", "add_write"} => New(p)' \subseteq map_disk'  BY <1>1 DEF HandOf
<1>7. label \in {"add", "add_slot", "add_write"} => disk'[loc'[p].sector] = [start |-> loc'[p].start, len |-> loc'[p].len]
  BY DEF HandOf
<1>8. label = "add_write" => loc'[p].slot \in Slot /\ dir'[loc'[p].slot] = NoEntry  BY DEF HandOf
<1> QED  BY <1>3, <1>4, <1>5, <1>6, <1>7, <1>8 DEF HandAt

\* Where a file is made, its sectors are in no other and marked.
LEMMA HandHolds ==
    ASSUME NEW p, Solo(p), pc[p] \in Creating
    PROVE  /\ loc[p].call = "create" /\ NewAt(loc[p], pc[p]) \subseteq free_map /\ Apart(NewAt(loc[p], pc[p]))
           /\ pc[p] \in {"write_inode", "add", "add_slot", "add_write"} => NewAt(loc[p], pc[p]) \subseteq map_disk
           /\ pc[p] \in {"add", "add_slot", "add_write"} =>
                disk[loc[p].sector] = [start |-> loc[p].start, len |-> loc[p].len]
           /\ pc[p] = "add_write" => loc[p].slot \in Slot /\ dir[loc[p].slot] = NoEntry
<1>1. New(p) = NewAt(loc[p], pc[p])  BY DEF New, NewAt, Data
<1> QED  BY <1>1 DEF Solo, HandAt

\* The sectors that bitmap_scan() finds lie on the disk and are free.
LEMMA BlocksIn ==
    ASSUME NEW x \in Sector, NEW k \in Nat, Fits(x, k)
    PROVE  /\ Blocks([start |-> x, len |-> k]) \subseteq Sector
           /\ Blocks([start |-> x, len |-> k]) \cap free_map = {}
           /\ k = 1 => x \notin free_map
<1>1. PICK B : B = Blocks([start |-> x, len |-> k])  OBVIOUS
<1>2. B = x .. (x + k - 1)  BY <1>1 DEF Blocks
<1>3. x + k =< LastSector + 1 /\ B \cap free_map = {}  BY <1>1 DEF Fits
<1>4. B \subseteq Sector  BY <1>2, <1>3, Constants DEF Sector
<1>5. k = 1 => x \in B  BY <1>2 DEF Sector
<1> QED  BY <1>1, <1>3, <1>4, <1>5

\* The inode's sector is given back.
LEMMA Undoes ==
    ASSUME FInv, Serialized, NEW p \in Proc, pc[p] \in Creating, Undo(p),
           UNCHANGED <<dir, disk, inode, fd, lost, file_lock, prog>>, map_disk' \in {map_disk, free_map}
    PROVE  FInv'
<1>1. /\ World /\ Solo(p) /\ loc[p] \in Loc /\ loc[p].inode = NoObj /\ disk \in [Sector -> Extent]
      /\ free_map \subseteq Sector /\ Reserved \subseteq free_map /\ \A x \in Live : Span(x) \subseteq free_map
  BY Creates
<1>2. Apart(NewAt(loc[p], pc[p]))  BY <1>1, HandHolds
<1>3. loc[p].sector \in NewAt(loc[p], pc[p])  BY DEF NewAt
<1>4. loc[p].sector \notin Reserved /\ \A x \in Live : loc[p].sector \notin Span(x)  BY <1>2, <1>3 DEF Apart
<1>5. PICK l : l = loc[p]  OBVIOUS
<1>6. free_map' = free_map \ {l.sector} /\ Go(p, "undo_write", l)  BY <1>5 DEF Undo
<1>7. free_map' \subseteq Sector /\ Reserved \subseteq free_map' /\ \A x \in Live : Span(x) \subseteq free_map'
  BY <1>1, <1>4, <1>5, <1>6
<1>8. "undo_write" \notin Creating  BY DEF Creating
<1> QED  BY <1>1, <1>5, <1>6, <1>7, <1>8, CreateGoes

\* A sector for the inode.
LEMMA AllocKeeps == ASSUME Serialized, FInv, NEW p \in Proc, Alloc(p) PROVE FInv'
<1>0. pc[p] = "alloc"  BY DEF Alloc, At
<1>1. /\ World /\ Solo(p) /\ loc[p] \in Loc /\ loc[p] \in Locals /\ loc[p].inode = NoObj /\ disk \in [Sector -> Extent]
      /\ free_map \subseteq Sector /\ Reserved \subseteq free_map /\ \A x \in Live : Span(x) \subseteq free_map
  BY <1>0, Creates
<1>2. loc[p].call = "create"  BY <1>0, <1>1 DEF Solo, PlaceAt
<1>3. UNCHANGED <<dir, disk, map_disk, inode, fd, lost, file_lock, prog>>  BY DEF Alloc, dvars
<1>4. ASSUME NEW x \in Sector, FirstFit(x, 1), free_map' = free_map \cup {x},
             Go(p, "alloc_write", [loc[p] EXCEPT !.sector = x])
      PROVE  FInv'
  <2>1. PICK l : l = [loc[p] EXCEPT !.sector = x]  OBVIOUS
  <2>2. l \in Locals  BY <1>1, <2>1, <1>4 DEF Locals
  <2>3. /\ l.dir = loc[p].dir /\ l.inode = loc[p].inode /\ l.call = loc[p].call /\ l.name = loc[p].name /\ l.sector = x
    BY <1>1, <2>1 DEF Locals
  <2>4. l \in Loc  BY <1>1, <2>2, <2>3 DEF Loc
  <2>5. x \notin free_map  BY <1>4, BlocksIn DEF FirstFit
  <2>6. Apart({x})  BY <1>1, <2>5 DEF Apart
  <2>7. NewAt(l, "alloc_write") = {x}  BY <2>3 DEF NewAt
  <2>8. HandOf("alloc_write", l)  BY <1>2, <1>4, <2>3, <2>6, <2>7 DEF HandOf
  <2>9. "alloc_write" \in Labels /\ "alloc_write" \in Creating  BY DEF Labels, Creating
  <2>10. pc'[p] = "alloc_write" /\ loc'[p] = l
    <3>1. StepsTo(p, "alloc_write", l)  BY <1>1, <1>4, <2>1, <2>4, <2>9, GoSteps DEF World
    <3> QED  BY <3>1 DEF StepsTo
  <2>11. HandAt(p)'  BY <1>3, <2>8, <2>9, <2>10, HandIs
  <2>12. free_map' \subseteq Sector /\ Reserved \subseteq free_map' /\ \A y \in Live : Span(y) \subseteq free_map'
    BY <1>1, <1>4
  <2> QED  BY <1>0, <1>1, <1>3, <1>4, <2>1, <2>3, <2>4, <2>9, <2>11, <2>12, CreateGoes
<1>5. ASSUME Go(p, "done", loc[p]), UNCHANGED free_map PROVE FInv'
  <2>1. "done" \notin Creating  BY DEF Creating
  <2>2. PICK l : l = loc[p]  OBVIOUS
  <2>3. Go(p, "done", l)  BY <1>5, <2>2
  <2>4. free_map' \subseteq Sector /\ Reserved \subseteq free_map' /\ \A x \in Live : Span(x) \subseteq free_map'
    BY <1>1, <1>5
  <2> QED  BY <1>0, <1>1, <1>3, <2>1, <2>2, <2>3, <2>4, CreateGoes
<1> QED  BY <1>4, <1>5 DEF Alloc

\* Sectors for the bytes.
LEMMA AllocDataKeeps == ASSUME Serialized, FInv, NEW p \in Proc, AllocData(p) PROVE FInv'
<1>0. pc[p] = "alloc_write" /\ pc[p] \in Creating  BY DEF AllocData, At, Creating
<1>1. /\ World /\ Solo(p) /\ loc[p] \in Loc /\ loc[p] \in Locals /\ loc[p].inode = NoObj /\ disk \in [Sector -> Extent]
      /\ free_map \subseteq Sector /\ Reserved \subseteq free_map /\ \A x \in Live : Span(x) \subseteq free_map
  BY <1>0, Creates
<1>2. /\ loc[p].call = "create" /\ NewAt(loc[p], "alloc_write") \subseteq free_map
      /\ Apart(NewAt(loc[p], "alloc_write"))
  BY <1>0, <1>1, HandHolds
<1>3. UNCHANGED <<dir, disk, inode, fd, lost, file_lock, prog>> /\ map_disk' = free_map  BY DEF AllocData
<1>4. ASSUME NEW x \in Sector, FirstFit(x, loc[p].len),
             free_map' = free_map \cup Blocks([start |-> x, len |-> loc[p].len]),
             Go(p, "data_write", [loc[p] EXCEPT !.start = x])
      PROVE  FInv'
  <2>1. PICK l : l = [loc[p] EXCEPT !.start = x]  OBVIOUS
  <2>2. l \in Locals  BY <1>1, <2>1, <1>4 DEF Locals
  <2>3. /\ l.dir = loc[p].dir /\ l.inode = loc[p].inode /\ l.call = loc[p].call /\ l.name = loc[p].name
        /\ l.sector = loc[p].sector /\ l.start = x /\ l.len = loc[p].len
    BY <1>1, <2>1 DEF Locals
  <2>4. l \in Loc  BY <1>1, <2>2, <2>3 DEF Loc
  <2>5. PICK B : B = Blocks([start |-> x, len |-> loc[p].len])  OBVIOUS
  <2>6. B \subseteq Sector /\ B \cap free_map = {}
    <3>1. loc[p].len \in Nat /\ Fits(x, loc[p].len)  BY <1>1, <1>4 DEF Locals, FirstFit
    <3> QED  BY <2>5, <3>1, BlocksIn
  <2>7. NewAt(loc[p], "alloc_write") = {loc[p].sector}  BY DEF NewAt
  <2>8. NewAt(l, "data_write") = {loc[p].sector} \cup B  BY <2>3, <2>5 DEF NewAt
  <2>9. Apart({loc[p].sector} \cup B)  BY <1>1, <1>2, <2>6, <2>7 DEF Apart
  <2>10. HandOf("data_write", l)  BY <1>2, <1>4, <2>3, <2>5, <2>7, <2>8, <2>9 DEF HandOf
  <2>11. "data_write" \in Labels /\ "data_write" \in Creating  BY DEF Labels, Creating
  <2>12. pc'[p] = "data_write" /\ loc'[p] = l
    <3>1. StepsTo(p, "data_write", l)  BY <1>1, <1>4, <2>1, <2>4, <2>11, GoSteps DEF World
    <3> QED  BY <3>1 DEF StepsTo
  <2>13. HandAt(p)'  BY <1>3, <2>10, <2>11, <2>12, HandIs
  <2>14. free_map' \subseteq Sector /\ Reserved \subseteq free_map' /\ \A y \in Live : Span(y) \subseteq free_map'
    BY <1>1, <1>4, <2>5, <2>6
  <2> QED  BY <1>0, <1>1, <1>3, <1>4, <2>1, <2>3, <2>4, <2>11, <2>13, <2>14, CreateGoes
<1>5. CASE Undo(p)  BY <1>0, <1>3, <1>5, Undoes
<1> QED  BY <1>4, <1>5 DEF AllocData

\* The sector of a new file's inode is nobody's.
LEMMA NewSector ==
    ASSUME World, NEW p \in Proc, Solo(p), pc[p] \in Creating
    PROVE  loc[p].sector \notin Reserved \cup Live \cup Held
<1>1. loc[p].sector \in NewAt(loc[p], pc[p]) /\ Apart(NewAt(loc[p], pc[p]))  BY HandHolds DEF NewAt
<1>2. loc[p].sector \notin Reserved /\ loc[p].sector \notin Live
  <2>1. \A x : x \in Span(x)  BY DEF Span
  <2> QED  BY <1>1, <2>1 DEF Apart
<1>3. loc[p].sector \notin Held
  <2> SUFFICES ASSUME NEW o \in Obj, inode[o] # NoInode, inode[o].sector = loc[p].sector PROVE FALSE  BY DEF Held
  <2>1. ~Releases(p, o)  BY DEF Releases, Releasing, Creating
  <2>2. inode[o].open_cnt # 0  BY <2>1 DEF Solo, Counted
  <2>3. inode[o].open_cnt \in Nat  BY InodeFields DEF World
  <2>4. IsOpen(o)  BY <2>2, <2>3 DEF IsOpen
  <2>5. loc[p].sector \in Live  BY <1>2, <2>4 DEF Live, InMemory
  <2> QED  BY <1>2, <2>5
<1> QED  BY <1>2, <1>3

\* From one place in create() to another, with the same sectors in hand.
LEMMA CreateMoves ==
    ASSUME FInv, Serialized, NEW p \in Proc, pc[p] \in Creating \ {"alloc_write"},
           NEW label \in Creating \ {"alloc_write"}, NEW l \in Loc, Go(p, label, l),
           l.dir = loc[p].dir, l.inode = NoObj, l.call = loc[p].call,
           l.sector = loc[p].sector, l.start = loc[p].start, l.len = loc[p].len,
           UNCHANGED <<dir, inode, free_map, fd, lost, file_lock, prog>>, map_disk' \in {map_disk, free_map},
           disk' = disk \/ disk' = [disk EXCEPT ![l.sector] = [start |-> l.start, len |-> l.len]],
           label = "write_inode" => map_disk' = free_map,
           label \in {"add", "add_slot", "add_write"} =>
             /\ pc[p] \in {"write_inode", "add", "add_slot", "add_write"}
             /\ pc[p] = "write_inode" => disk' = [disk EXCEPT ![l.sector] = [start |-> l.start, len |-> l.len]],
           label = "add_write" => l.slot \in Slot /\ dir[l.slot] = NoEntry
    PROVE  FInv'
<1>1. /\ World /\ Solo(p) /\ loc[p] \in Loc /\ disk \in [Sector -> Extent]
      /\ free_map \subseteq Sector /\ Reserved \subseteq free_map /\ \A x \in Live : Span(x) \subseteq free_map
  BY Creates
<1>2. PICK N : N = NewAt(loc[p], pc[p])  OBVIOUS
<1>3. N = NewAt(l, label) /\ l.sector \in N  BY <1>2 DEF NewAt
<1>4. /\ l.call = "create" /\ N \subseteq free_map /\ Apart(N)
      /\ pc[p] \in {"write_inode", "add", "add_slot", "add_write"} => N \subseteq map_disk
      /\ pc[p] \in {"add", "add_slot", "add_write"} => disk[l.sector] = [start |-> l.start, len |-> l.len]
  BY <1>1, <1>2, HandHolds
<1>5. l.sector \in Sector /\ [start |-> l.start, len |-> l.len] \in Extent  BY DEF Loc, Locals, Extent
<1>6. disk' \in [Sector -> Extent] /\ \A x \in Sector : x # l.sector => disk'[x] = disk[x]
  <2>1. PICK e \in Extent : e = [start |-> l.start, len |-> l.len]  BY <1>5
  <2>2. disk' = disk \/ disk' = [disk EXCEPT ![l.sector] = e]  BY <2>1
  <2> QED  BY ONLY <1>1, <1>5, <2>2
<1>7. l.sector \notin Reserved \cup Live \cup Held  BY <1>1, NewSector
<1>8. \A x \in Live \cup Held : disk'[x] = disk[x]
  <2>1. Live \cup Held \subseteq Sector
    <3>1. \A o \in Obj : inode[o] # NoInode => inode[o].sector \in Sector  BY <1>1, InodeFields DEF World
    <3>2. \A s \in Slot : dir[s] # NoEntry => dir[s].sector \in Sector
      BY <1>1 DEF World, Typed, FTypeOK, Entry
    <3> QED  BY <3>1, <3>2 DEF Live, DirSectors, InMemory, Held, IsOpen
  <2> QED  BY <1>6, <1>7, <2>1
<1>9. label \in {"add", "add_slot", "add_write"} => disk'[l.sector] = [start |-> l.start, len |-> l.len]
  BY <1>1, <1>4, <1>5
<1>10. label \in {"write_inode", "add", "add_slot", "add_write"} => N \subseteq map_disk'  BY <1>4
<1>11. HandOf(label, l)  BY <1>3, <1>4, <1>9, <1>10 DEF HandOf
<1>12. label \in Labels /\ label \in {"undo_write", "done"} \cup Creating  BY DEF Labels, Creating
<1>13. pc'[p] = label /\ loc'[p] = l
  <2>1. StepsTo(p, label, l)  BY <1>1, <1>12, GoSteps DEF World
  <2> QED  BY <2>1 DEF StepsTo
<1>14. HandAt(p)'  BY <1>8, <1>11, <1>13, HandIs
<1> QED  BY <1>1, <1>6, <1>8, <1>12, <1>14, CreateGoes

\* The free map and the inode's block are written.
LEMMA WritesKeep ==
    ASSUME Serialized, FInv, NEW p \in Proc, DataWrite(p) \/ WriteInode(p)
    PROVE  FInv'
<1>0. pc[p] \in {"data_write", "write_inode"} /\ pc[p] \in Creating \ {"alloc_write"}
  BY DEF DataWrite, WriteInode, At, Creating
<1>1. PICK l : l = loc[p]  OBVIOUS
<1>2. l \in Loc /\ l.inode = NoObj  BY <1>0, <1>1, Creates
<1>3. UNCHANGED <<dir, inode, free_map, fd, lost, file_lock, prog>>  BY DEF DataWrite, WriteInode, kvars
<1>4. CASE DataWrite(p)
  <2>1. "write_inode" \in Creating \ {"alloc_write"}  BY DEF Creating
  <2>2. Go(p, "write_inode", l) /\ map_disk' = free_map /\ disk' = disk  BY <1>1, <1>4 DEF DataWrite
  <2> QED  BY <1>0, <1>1, <1>2, <1>3, <2>1, <2>2, CreateMoves
<1>5. CASE WriteInode(p)
  <2>1. "add" \in Creating \ {"alloc_write"} /\ pc[p] = "write_inode"  BY <1>5 DEF Creating, WriteInode, At
  <2>2. /\ Go(p, "add", l) /\ map_disk' = map_disk
        /\ disk' = [disk EXCEPT ![l.sector] = [start |-> l.start, len |-> l.len]]
    BY <1>1, <1>5 DEF WriteInode
  <2> QED  BY <1>0, <1>1, <1>2, <1>3, <2>1, <2>2, CreateMoves
<1> QED  BY <1>4, <1>5

\* dir_add() looks for the name and for a free entry.
LEMMA AddsKeep ==
    ASSUME Serialized, FInv, NEW p \in Proc, Add(p) \/ AddSlot(p)
    PROVE  FInv'
<1>0. pc[p] \in {"add", "add_slot"} /\ pc[p] \in Creating \ {"alloc_write"}  BY DEF Add, AddSlot, At, Creating
<1>1. PICK l : l = loc[p]  OBVIOUS
<1>2. l \in Loc /\ l \in Locals /\ l.inode = NoObj  BY <1>0, <1>1, Creates
<1>3. UNCHANGED <<dir, disk, map_disk, inode, fd, lost, file_lock, prog>>  BY DEF Add, AddSlot, dvars
<1>4. CASE Undo(p)  BY <1>0, <1>3, <1>4, Undoes
<1>5. CASE Go(p, "add_slot", l) /\ UNCHANGED free_map
  <2>1. "add_slot" \in Creating \ {"alloc_write"}  BY DEF Creating
  <2> QED  BY <1>0, <1>1, <1>2, <1>3, <1>5, <2>1, CreateMoves
<1>6. ASSUME NEW s \in Slot, dir[s] = NoEntry, Go(p, "add_write", [l EXCEPT !.slot = s]), UNCHANGED free_map
      PROVE  FInv'
  <2>1. PICK m : m = [l EXCEPT !.slot = s]  OBVIOUS
  <2>2. m \in Locals  BY <1>2, <2>1, <1>6 DEF Locals
  <2>3. /\ m.dir = l.dir /\ m.inode = l.inode /\ m.call = l.call /\ m.name = l.name
        /\ m.sector = l.sector /\ m.start = l.start /\ m.len = l.len /\ m.slot = s
    BY <1>2, <2>1 DEF Locals
  <2>4. m \in Loc  BY <1>2, <2>2, <2>3 DEF Loc
  <2>5. "add_write" \in Creating \ {"alloc_write"} /\ Go(p, "add_write", m)  BY <1>6, <2>1 DEF Creating
  <2> QED  BY <1>0, <1>1, <1>2, <1>3, <1>6, <2>3, <2>4, <2>5, CreateMoves
<1>7. Add(p) => Undo(p) \/ (Go(p, "add_slot", l) /\ UNCHANGED free_map)  BY <1>1 DEF Add
<1>8. AddSlot(p) => \/ \E s \in Slot : dir[s] = NoEntry /\ Go(p, "add_write", [l EXCEPT !.slot = s]) /\ UNCHANGED free_map
                    \/ Undo(p)
  BY <1>1 DEF AddSlot
<1> QED  BY <1>4, <1>5, <1>6, <1>7, <1>8

\* The free map is written after a failure.
LEMMA UndoWriteKeeps == ASSUME Serialized, FInv, NEW p \in Proc, UndoWrite(p) PROVE FInv'
<1>0. pc[p] = "undo_write"  BY DEF UndoWrite, At
<1>1. PICK l : l = loc[p]  OBVIOUS
<1>2. /\ l \in Loc /\ l.inode = NoObj /\ disk \in [Sector -> Extent]
      /\ free_map \subseteq Sector /\ Reserved \subseteq free_map /\ \A x \in Live : Span(x) \subseteq free_map
  BY <1>0, <1>1, Creates
<1>3. UNCHANGED <<dir, disk, free_map, inode, fd, lost, file_lock, prog>> /\ map_disk' = free_map /\ Go(p, "done", l)
  BY <1>1 DEF UndoWrite, kvars
<1>4. "done" \notin Creating  BY DEF Creating
<1> QED  BY <1>0, <1>1, <1>2, <1>3, <1>4, CreateGoes

\* The file is in the directory, and on the disk it was before.
LEMMA AddWriteKeeps == ASSUME Serialized, FInv, NEW p \in Proc, AddWrite(p) PROVE FInv'
<1>0. pc[p] = "add_write" /\ pc[p] \in Creating  BY DEF AddWrite, At, Creating
<1>1. PICK l : l = loc[p]  OBVIOUS
<1>2. /\ World /\ Solo(p) /\ Typed /\ l \in Loc /\ l.inode = NoObj /\ HasRoot(p)
      /\ Reserved \subseteq free_map \cap map_disk
      /\ \A x \in Live : Span(x) \subseteq free_map
      /\ \A x \in DirSectors : Span(x) \subseteq map_disk /\ x \in Live
  BY <1>0, <1>1, Creates
<1>3. PICK N : N = NewAt(l, pc[p])  OBVIOUS
<1>4. /\ l.call = "create" /\ N \subseteq free_map /\ Apart(N) /\ N \subseteq map_disk
      /\ disk[l.sector] = [start |-> l.start, len |-> l.len]
      /\ l.slot \in Slot /\ dir[l.slot] = NoEntry
  BY <1>0, <1>1, <1>2, <1>3, HandHolds
<1>5. Span(l.sector) = N  BY <1>0, <1>3, <1>4 DEF Span, NewAt
<1>6. l.sector \notin Reserved \cup Live \cup Held  BY <1>0, <1>1, <1>2, NewSector
<1>7. l.name \in Name /\ l.sector \in Sector  BY <1>2, <1>4 DEF Loc, Locals, Naming
<1>8. PICK e : e = [name |-> l.name, sector |-> l.sector]  OBVIOUS
<1>9. e \in Entry /\ e # NoEntry /\ e.sector = l.sector
  <2>1. e \in Entry  BY <1>7, <1>8 DEF Entry
  <2> QED  BY <1>8, <2>1, Constants
<1>10. UNCHANGED <<disk, map_disk, free_map, inode, fd, lost, file_lock, prog>> /\ dir' = [dir EXCEPT ![l.slot] = e]
  BY <1>1, <1>8 DEF AddWrite, kvars
<1>11. /\ dir' \in [Slot -> Entry \cup {NoEntry}] /\ dir'[l.slot] = e
       /\ \A s \in Slot : s # l.slot => dir'[s] = dir[s]
  BY <1>2, <1>4, <1>9, <1>10 DEF Typed, FTypeOK
<1>12. StepsTo(p, "done", l)
  <2>1. "done" \in Labels /\ Go(p, "done", l)  BY <1>1 DEF Labels, AddWrite
  <2> QED  BY <1>2, <2>1, GoSteps
<1>13. pc'[p] = "done" /\ loc'[p] = l  BY <1>12 DEF StepsTo
<1>14. Typed'  BY <1>2, <1>10, <1>11, <1>12 DEF Typed, FTypeOK, StepsTo
<1>15. /\ DirSectors' = DirSectors \cup {l.sector} /\ Live' = Live \cup {l.sector}
       /\ \A x : Span(x)' = Span(x)
  <2>1. DirSectors' \subseteq DirSectors \cup {l.sector}
    <3> SUFFICES ASSUME NEW s \in Slot, dir'[s] # NoEntry PROVE dir'[s].sector \in DirSectors \cup {l.sector}
      BY DEF DirSectors
    <3> QED  BY <1>9, <1>11 DEF DirSectors
  <2>2. DirSectors \cup {l.sector} \subseteq DirSectors'
    <3>1. l.sector \in DirSectors'  BY <1>4, <1>9, <1>11 DEF DirSectors
    <3>2. ASSUME NEW s \in Slot, dir[s] # NoEntry PROVE dir[s].sector \in DirSectors'
      <4>1. s # l.slot  BY <1>4, <3>2
      <4>2. dir'[s] = dir[s]  BY <1>11, <4>1
      <4> QED  BY <3>2, <4>2 DEF DirSectors
    <3> QED  BY <3>1, <3>2 DEF DirSectors
  <2>3. InMemory' = InMemory  BY <1>10 DEF InMemory, IsOpen
  <2> QED  BY <1>10, <2>1, <2>2, <2>3 DEF Live, Span
<1>16. \A o \in Obj : Gone(o)'
  <2>1. \A o \in Obj : inode[o] # NoInode => inode[o].sector # l.sector  BY <1>6 DEF Held
  <2> QED  BY <1>2, <1>10, <1>15, <2>1 DEF World, Gone
<1>17. SectorsApart'  BY <1>2, <1>10 DEF World, SectorsApart
<1>18. SpansKept'
  <2>1. \A s, t \in Slot : dir'[s] # NoEntry /\ dir'[t] # NoEntry /\ dir'[s].sector = dir'[t].sector => s = t
    <3> SUFFICES ASSUME NEW s \in Slot, NEW t \in Slot, dir'[s] # NoEntry, dir'[t] # NoEntry,
                        dir'[s].sector = dir'[t].sector, s # t
                 PROVE  FALSE
      OBVIOUS
    <3>1. \A r \in Slot : r # l.slot /\ dir[r] # NoEntry => dir[r].sector # l.sector
      BY <1>6 DEF Live, DirSectors
    <3>2. CASE s # l.slot /\ t # l.slot  BY <1>2, <1>11, <3>2 DEF World, SpansKept
    <3>3. CASE s = l.slot  BY <1>9, <1>11, <3>1, <3>3
    <3>4. CASE t = l.slot  BY <1>9, <1>11, <3>1, <3>4
    <3> QED  BY <3>2, <3>3, <3>4
  <2>2. N \cap Reserved = {} /\ \A x \in Live : N \cap Span(x) = {}  BY <1>4 DEF Apart
  <2>3. \A x \in Live' : Span(x)' \subseteq free_map' \ Reserved
    BY <1>2, <1>4, <1>5, <1>10, <1>15, <2>2 DEF World, SpansKept
  <2>4. \A x, y \in Live' : x # y => Span(x)' \cap Span(y)' = {}
    <3> SUFFICES ASSUME NEW x \in Live', NEW y \in Live', x # y PROVE Span(x) \cap Span(y) = {}  BY <1>15
    <3>1. CASE x \in Live /\ y \in Live  BY <1>2, <3>1 DEF World, SpansKept
    <3>2. CASE x = l.sector \/ y = l.sector  BY <1>5, <1>15, <2>2, <3>2
    <3> QED  BY <1>15, <3>1, <3>2
  <2>5. \A x \in DirSectors' : Span(x)' \subseteq map_disk'  BY <1>2, <1>4, <1>5, <1>10, <1>15
  <2> QED  BY <1>2, <1>10, <2>1, <2>3, <2>4, <2>5 DEF SpansKept
<1>19. PlaceAt(p)'
  <2>1. HasRoot(p)'  BY <1>1, <1>2, <1>10, <1>13 DEF HasRoot
  <2> QED  BY <1>2, <1>13, <2>1 DEF PlaceAt, Resting, InRoot, Releasing, Creating
<1>20. HandAt(p)'  BY <1>13 DEF HandAt, Creating, Releasing
<1>21. \A o \in Obj : Counted(p, o)' /\ BlockRead(p, o)'
  <2>1. \A o : OpenFds(o)' = OpenFds(o) /\ Denying(o)' = Denying(o)  BY <1>10 DEF OpenFds, Denying
  <2>2. \A o \in Obj : (Uses(p, o)' <=> Uses(p, o)) /\ ~Reads(p, o)' /\ ~Reads(p, o) /\ ~Releases(p, o) /\ ~Releases(p, o)'
    BY <1>0, <1>1, <1>13 DEF Uses, Reads, Releases, Releasing
  <2> QED  BY <1>2, <1>10, <2>1, <2>2 DEF Solo, Counted, BlockRead
<1> QED  BY <1>2, <1>12, <1>14, <1>16, <1>17, <1>18, <1>19, <1>20, <1>21, SoloSteps DEF FInv, World

-----------------------------------------------------------------------------
(* inode_close().                                                           *)

\* A removed file that nobody has open any more.
LEMMA Released ==
    ASSUME FInv, Serialized, NEW p \in Proc, pc[p] \in Releasing
    PROVE  /\ World /\ Solo(p) /\ Typed /\ loc[p] \in Loc /\ loc[p].inode \in Obj /\ inode[loc[p].inode] # NoInode
           /\ Apart(Span(inode[loc[p].inode].sector))
           /\ inode[loc[p].inode].data = disk[inode[loc[p].inode].sector]
           /\ inode[loc[p].inode].open_cnt = 0
<1>1. pc[p] \notin Resting /\ pc[p] # "read"  BY DEF Resting, Releasing
<1>2. World /\ Solo(p)  BY <1>1, Turn
<1>3. PICK o : o = loc[p].inode  OBVIOUS
<1>4. o \in Obj /\ inode[o] # NoInode /\ Apart(Span(inode[o].sector))  BY <1>2, <1>3 DEF Solo, PlaceAt, HandAt
<1>5. ~Reads(p, o) /\ Releases(p, o)  BY <1>1, <1>3 DEF Reads, Releases
<1>6. inode[o].data = disk[inode[o].sector] /\ inode[o].open_cnt = 0
  BY <1>2, <1>4, <1>5 DEF Solo, BlockRead, Counted
<1> QED  BY <1>2, <1>3, <1>4, <1>6 DEF World, Typed

\* The first free_map_release() has written, the second has cleared.
LEMMA ReleaseInodeKeeps == ASSUME Serialized, FInv, NEW p \in Proc, ReleaseInode(p) PROVE FInv'
<1>0. pc[p] = "release_inode" /\ pc[p] \in Releasing  BY DEF ReleaseInode, At, Releasing
<1>1. PICK o, l : o = loc[p].inode /\ l = loc[p]  OBVIOUS
<1>2. /\ World /\ Solo(p) /\ Typed /\ l \in Loc /\ o \in Obj /\ inode[o] # NoInode
      /\ Apart(Span(inode[o].sector)) /\ inode[o].data = disk[inode[o].sector]
  BY <1>0, <1>1, Released
<1>3. /\ UNCHANGED <<dir, disk, inode, fd, lost, file_lock, prog>> /\ map_disk' = free_map
      /\ free_map' = free_map \ Blocks(inode[o].data) /\ Go(p, "release_data", l)
  BY <1>1 DEF ReleaseInode
<1>4. Blocks(inode[o].data) \subseteq Span(inode[o].sector)  BY <1>2 DEF Span
<1>5. /\ free_map \subseteq Sector /\ disk \in [Sector -> Extent] /\ Reserved \subseteq free_map
      /\ (\A x \in Live : Span(x) \subseteq free_map) /\ \A x \in DirSectors : x \in Live
  BY <1>2 DEF World, SpansKept, Typed, FTypeOK, Live
<1>6. free_map' \subseteq Sector /\ Reserved \subseteq free_map' /\ \A x \in Live : Span(x) \subseteq free_map'
  BY <1>2, <1>3, <1>4, <1>5 DEF Apart
<1>7. "release_data" \in Labels /\ "release_data" \in Releasing  BY DEF Labels, Releasing
<1>8. pc'[p] = "release_data" /\ loc'[p] = l
  <2>1. StepsTo(p, "release_data", l)  BY <1>2, <1>3, <1>7, GoSteps
  <2> QED  BY <2>1 DEF StepsTo
<1>9. SameHold(p)  BY <1>0, <1>1, <1>7, <1>8 DEF SameHold, Uses, Reads, Releases
<1>10. PlaceAt(p)'
  <2>1. \/ l.then = "done" /\ HasRoot(p)
        \/ l.then \in {"end", "idle", "exit", "loaded"} /\ l.dir = NoObj
    BY <1>0, <1>1, <1>2 DEF Solo, PlaceAt
  <2>2. HasRoot(p)' <=> HasRoot(p)  BY <1>1, <1>3, <1>8 DEF HasRoot
  <2> QED  BY <1>1, <1>2, <1>3, <1>8, <2>1, <2>2 DEF PlaceAt, Resting, InRoot, Creating, Releasing
<1>11. HandAt(p)'
  <2>1. Apart(Span(inode[o].sector))'
    <3>1. Live' = Live /\ \A x : Span(x)' = Span(x)  BY <1>3 DEF Live, DirSectors, InMemory, IsOpen, Span
    <3> QED  BY <1>2, <1>3, <3>1 DEF Apart
  <2> QED  BY <1>1, <1>8, <2>1 DEF HandAt, Creating
<1>12. /\ disk' \in [Sector -> Extent] /\ \A x \in Live \cup Held : disk'[x] = disk[x]
       /\ map_disk' \subseteq Sector /\ Reserved \subseteq free_map' \cap map_disk'
       /\ \A x \in DirSectors : Span(x) \subseteq map_disk'
  BY <1>3, <1>5, <1>6
<1> QED  BY <1>2, <1>3, <1>6, <1>7, <1>9, <1>10, <1>11, <1>12, MapStep

\* All of a removed file is free, and its inode goes.
LEMMA ReleaseDataKeeps == ASSUME Serialized, FInv, NEW p \in Proc, ReleaseData(p) PROVE FInv'
<1>0. pc[p] = "release_data" /\ pc[p] \in Releasing  BY DEF ReleaseData, At, Releasing
<1>1. PICK o, l, m : o = loc[p].inode /\ l = loc[p] /\ m = [l EXCEPT !.inode = NoObj]  OBVIOUS
<1>2. /\ World /\ Solo(p) /\ Typed /\ l \in Loc /\ o \in Obj /\ inode[o] # NoInode
      /\ Apart(Span(inode[o].sector)) /\ inode[o].open_cnt = 0
  BY <1>0, <1>1, Released
<1>3. /\ UNCHANGED <<dir, disk, free_map, fd, lost, file_lock, prog>> /\ map_disk' = free_map
      /\ inode' = [inode EXCEPT ![o] = NoInode] /\ Go(p, l.then, m)
  BY <1>1 DEF ReleaseData
<1>4. /\ inode' \in [Obj -> Inode \cup {NoInode}] /\ inode'[o] = NoInode /\ \A r \in Obj : r # o => inode'[r] = inode[r]
  BY <1>2, <1>3 DEF Typed, FTypeOK
<1>5. m \in Loc /\ m.inode = NoObj /\ m.dir = l.dir /\ m.call = l.call  BY ONLY <1>1, <1>2, SetsInode
<1>6. \/ l.then = "done" /\ HasRoot(p)
      \/ l.then \in {"end", "idle", "exit", "loaded"} /\ l.dir = NoObj
  BY <1>0, <1>1, <1>2 DEF Solo, PlaceAt
<1>7. /\ l.then \in {"done", "end", "idle", "exit", "loaded"} /\ l.then \in Labels
      /\ l.then \notin Releasing \cup Creating \cup {"read"}
  BY <1>6 DEF Labels, Resting, Releasing, Creating
<1>8. StepsTo(p, l.then, m)  BY <1>2, <1>3, <1>5, <1>7, GoSteps
<1>9. pc'[p] = l.then /\ loc'[p] = m  BY <1>8 DEF StepsTo
<1>10. Typed'
  <2>1. map_disk' \subseteq Sector  BY <1>2, <1>3 DEF Typed, FTypeOK
  <2> QED  BY <1>2, <1>3, <1>4, <1>8, <2>1 DEF Typed, FTypeOK, StepsTo
<1>11. Fewer
  <2>1. \A r \in Obj : IsOpen(r)' => IsOpen(r)  BY <1>4 DEF IsOpen
  <2> QED  BY <1>3, <1>4, <2>1 DEF Fewer
<1>12. \A r \in Obj : Gone(r)'
  <2>1. DirSectors' = DirSectors  BY <1>3 DEF DirSectors
  <2> QED  BY <1>2, <1>4, <2>1 DEF World, Gone
<1>13. World'
  <2>1. /\ Reserved \subseteq free_map /\ \A x \in Live' : Span(x) \subseteq free_map
    BY <1>2, <1>11, Marked
  <2>2. \A x \in DirSectors' : x \in Live'  BY <1>2, <1>11, Marked
  <2> QED  BY <1>2, <1>3, <1>10, <1>11, <1>12, <2>1, <2>2, WorldKept
<1>14. ~Uses(p, o) /\ OpenFds(o) = {} /\ lost[o].n = 0 /\ lost[o].deny =< lost[o].n
  <2>1. Counted(p, o)  BY <1>2 DEF Solo
  <2>2. lost[o].n \in Nat /\ Cardinality(OpenFds(o)) \in Nat  BY <1>2, FdsFinite DEF Typed, FTypeOK
  <2>3. 0 = Cardinality(OpenFds(o)) + lost[o].n + (IF Uses(p, o) THEN 1 ELSE 0)  BY <1>2, <2>1 DEF Counted
  <2>4. ~Uses(p, o) /\ Cardinality(OpenFds(o)) = 0 /\ lost[o].n = 0  BY <2>2, <2>3
  <2> QED  BY <2>1, <2>4, FdsFinite DEF Counted
<1>15. PlaceAt(p)'
  <2>1. l.then = "done" => HasRoot(p)'
    <3> SUFFICES ASSUME HasRoot(p) PROVE HasRoot(p)'  BY <1>6, <1>7
    <3>1. l.dir \in Obj /\ o # l.dir /\ inode'[l.dir] = inode[l.dir]  BY <1>1, <1>4 DEF HasRoot
    <3>2. m.inode # l.dir  BY <1>5, <3>1, Constants
    <3> QED  BY <1>1, <1>5, <1>9, <3>1, <3>2 DEF HasRoot
  <2>2. l.then # "done" => HoldsNothing(p)'  BY <1>5, <1>6, <1>9 DEF HoldsNothing
  <2>3. CASE l.then = "done"  BY <1>5, <1>9, <2>1, <2>3 DEF PlaceAt, Resting, InRoot, Creating, Releasing
  <2>4. CASE l.then # "done"
    <3>1. l.then \in {"end", "idle", "exit", "loaded"}  BY <1>6, <2>4
    <3> QED  BY <1>5, <1>9, <2>2, <3>1 DEF PlaceAt, InRoot, HoldsNothing, Creating, Releasing
  <2> QED  BY <2>3, <2>4
<1>16. HandAt(p)'  BY <1>7, <1>9 DEF HandAt, Creating
<1>17. \A r \in Obj : Counted(p, r)'
  <2>1. \A r : OpenFds(r)' = OpenFds(r) /\ Denying(r)' = Denying(r)  BY <1>3 DEF OpenFds, Denying
  <2>2. \A r \in Obj : r # o => (Uses(p, r)' <=> Uses(p, r)) /\ ~Releases(p, r) /\ ~Releases(p, r)'
    BY <1>0, <1>1, <1>5, <1>7, <1>9, Constants DEF Uses, Releases
  <2>3. \A r \in Obj : r # o => Counted(p, r)'  BY <1>2, <1>3, <1>4, <2>1, <2>2 DEF Solo, Counted
  <2>4. ~Uses(p, o)'  BY <1>1, <1>2, <1>5, <1>9, <1>14, Constants DEF Uses
  <2>5. Counted(p, o)'  BY <1>3, <1>4, <1>14, <2>1, <2>4 DEF Counted
  <2> QED  BY <2>3, <2>5
<1>18. \A r \in Obj : BlockRead(p, r)'
  <2>1. \A r \in Obj : ~Reads(p, r)' /\ ~Reads(p, r)  BY <1>0, <1>7, <1>9 DEF Reads
  <2> QED  BY <1>2, <1>3, <1>4, <2>1 DEF Solo, BlockRead
<1> QED  BY <1>2, <1>8, <1>13, <1>15, <1>16, <1>17, <1>18, SoloSteps DEF FInv

\* Sets of descriptors are finite.
LEMMA FdSets ==
    ASSUME NEW S, S \subseteq Proc \X Fd
    PROVE  IsFiniteSet(S) /\ Cardinality(S) \in Nat /\ (Cardinality(S) = 0 <=> S = {})
<1>1. IsFiniteSet(S)  BY Constants, FS_Subset
<1> QED  BY <1>1, FS_CardinalityType, FS_EmptySet

\* A process that closes inode o, left as i, and goes on to next with l.
Closing(p, o, i, next, l) ==
  /\ o \in Obj /\ IsOpen(o) /\ pc[p] \notin Releasing \cup {"read"}
  /\ i \in Inode /\ i.sector = inode[o].sector /\ i.data = inode[o].data /\ i.open_cnt = inode[o].open_cnt
  /\ l \in Loc /\ l.dir # o /\ l.inode # o
  /\ \/ /\ next = "done" /\ l.inode = NoObj
        /\ l.dir \in Obj /\ inode[l.dir] # NoInode /\ inode[l.dir].sector = ROOT_DIR_SECTOR
     \/ next = "end" /\ l.dir = NoObj
     \/ next \in {"idle", "exit", "loaded"} /\ l.dir = NoObj /\ l.inode = NoObj
  /\ l.call \in {"create", "remove"} \/ i.removed => l.inode = NoObj
\* What it leaves to others, and of itself.
Leaving(p, o, i, l) ==
  /\ dir' \in [Slot -> Entry \cup {NoEntry}] /\ \A s \in Slot : dir'[s] \in {dir[s], NoEntry}
  /\ i.removed => i.sector \notin Reserved \cup DirSectors'
  /\ fd' \in [Proc -> [Fd -> File \cup {NoFile}]]
  /\ \A r \in Obj : r # o => /\ Cardinality(OpenFds(r)') = Cardinality(OpenFds(r))
                             /\ Cardinality(Denying(r)') = Cardinality(Denying(r))
                             /\ Uses(p, r) <=> l.dir = r \/ l.inode = r
  /\ Cardinality(OpenFds(o)') + lost[o].n + 1 = i.open_cnt
  /\ Cardinality(Denying(o)') + lost[o].deny = i.deny_write_cnt
  /\ UNCHANGED <<disk, map_disk, lost, file_lock, prog>>

\* Where a process goes that has closed an inode.
LEMMA NextIs ==
    ASSUME NEW p, NEW o, NEW i, NEW next, NEW l, Closing(p, o, i, next, l)
    PROVE  /\ next \in {"done", "end", "idle", "exit", "loaded"} /\ next \in Labels
           /\ next \notin Releasing \cup Creating \cup {"read"}
           /\ "release_inode" \in Labels /\ "release_inode" \in Releasing
BY DEF Closing, Labels, Resting, Releasing, Creating

\* The world, whatever becomes of the inode.
LEMMA ClosesWorld ==
    ASSUME World, NEW p \in Proc, Solo(p), NEW o, NEW i, NEW next, NEW l, NEW label \in Labels, NEW m \in Loc,
           Closing(p, o, i, next, l), Leaving(p, o, i, l), Go(p, label, m),
           NEW j, inode' = [inode EXCEPT ![o] = j],
           j = NoInode \/ (/\ j \in Inode /\ j.sector = i.sector /\ j.removed = i.removed
                           /\ j.open_cnt = 0 => i.removed),
           free_map' = IF i.removed /\ (j = NoInode \/ j.open_cnt = 0) THEN free_map \ {i.sector} ELSE free_map
    PROVE  /\ World' /\ StepsTo(p, label, m) /\ Fewer
           /\ inode' \in [Obj -> Inode \cup {NoInode}] /\ inode'[o] = j /\ \A r \in Obj : r # o => inode'[r] = inode[r]
<1> USE DEF Leaving
<1>1. /\ Typed /\ o \in Obj /\ inode[o] # NoInode /\ IsOpen(o) /\ i \in Inode /\ i.sector = inode[o].sector
  BY DEF World, Closing, IsOpen
<1>2. inode' \in [Obj -> Inode \cup {NoInode}] /\ inode'[o] = j /\ \A r \in Obj : r # o => inode'[r] = inode[r]
  BY <1>1 DEF Typed, FTypeOK
<1>3. StepsTo(p, label, m)  BY <1>1, GoSteps
<1>4. Typed'
  <2>1. free_map' \subseteq Sector  BY <1>1 DEF Typed, FTypeOK
  <2> QED  BY <1>1, <1>2, <1>3, <2>1 DEF Typed, FTypeOK, StepsTo
<1>5. Fewer
  <2>1. \A r \in Obj : inode'[r] # NoInode =>
          inode[r] # NoInode /\ inode'[r].sector = inode[r].sector /\ (IsOpen(r)' => IsOpen(r))
    BY <1>1, <1>2 DEF IsOpen
  <2> QED  BY <2>1 DEF Fewer
<1>6. DirSectors' \subseteq DirSectors /\ Live' \subseteq Live  BY <1>5, FewerLive
<1>7. \A r \in Obj : Gone(r)'
  <2>1. \A r \in Obj : r # o => Gone(r)'  BY <1>2, <1>6 DEF World, Gone
  <2>2. Gone(o)'  BY <1>1, <1>2 DEF Gone
  <2> QED  BY <2>1, <2>2
<1>8. Reserved \subseteq free_map' /\ \A x \in Live' : Span(x) \subseteq free_map'
  <2>1. Reserved \subseteq free_map /\ \A x \in Live' : Span(x) \subseteq free_map \ Reserved  BY <1>5, Marked
  <2>2. CASE free_map' = free_map  BY <2>1, <2>2
  <2>3. CASE /\ i.removed /\ (j = NoInode \/ j.open_cnt = 0) /\ free_map' = free_map \ {i.sector}
    <3>1. i.sector \notin Reserved \cup DirSectors'  BY <2>3
    <3>2. i.sector \notin Live'
      <4> SUFFICES ASSUME NEW r \in Obj, IsOpen(r)', inode'[r].sector = i.sector PROVE FALSE
        BY <3>1 DEF Live, InMemory
      <4>1. r # o  BY <1>1, <1>2, <2>3 DEF IsOpen
      <4>2. inode[r] # NoInode /\ inode[r].sector = inode[o].sector  BY <1>1, <1>2, <4>1 DEF IsOpen
      <4> QED  BY <1>1, <4>1, <4>2 DEF World, SectorsApart
    <3>3. i.sector \in Live /\ i.sector \in Span(i.sector)  BY <1>1, <3>1 DEF Live, InMemory, Span
    <3>4. \A x \in Live' : i.sector \notin Span(x)
      BY <1>6, <3>2, <3>3 DEF World, SpansKept
    <3> QED  BY <2>1, <2>3, <3>1, <3>4
  <2> QED  BY <2>2, <2>3
<1>9. Reserved \subseteq map_disk' /\ \A x \in DirSectors' : Span(x) \subseteq map_disk'  BY <1>5, Marked
<1>10. World'  BY <1>4, <1>5, <1>7, <1>8, <1>9, WorldKept
<1> QED  BY <1>2, <1>3, <1>5, <1>10

\* The blocks that are in memory, and the counts of other inodes.
LEMMA ClosesRest ==
    ASSUME World, NEW p \in Proc, Solo(p), NEW o, NEW i, NEW next, NEW l, NEW label, NEW m,
           Closing(p, o, i, next, l), Leaving(p, o, i, l), StepsTo(p, label, m),
           inode' \in [Obj -> Inode \cup {NoInode}], \A r \in Obj : r # o => inode'[r] = inode[r],
           inode'[o] # NoInode => inode'[o].sector = i.sector /\ inode'[o].data = i.data,
           \/ label = next /\ m = l
           \/ label = "release_inode" /\ m.inode = o /\ m.dir = l.dir /\ l.inode = NoObj
    PROVE  /\ \A r \in Obj : BlockRead(p, r)'
           /\ \A r \in Obj : r # o => Counted(p, r)'
           /\ ~Uses(p, o)' /\ \A r \in Obj : Releases(p, r)' <=> label = "release_inode" /\ r = o
<1>1. /\ next \in {"done", "end", "idle", "exit", "loaded"} /\ next \notin Releasing \cup Creating \cup {"read"}
      /\ "release_inode" \in Releasing
  BY NextIs
<1>2. pc'[p] = label /\ loc'[p] = m /\ label # "read"  BY <1>1 DEF StepsTo
<1>3. /\ pc[p] \notin Releasing \cup {"read"} /\ o \in Obj /\ inode[o] # NoInode /\ l.dir # o /\ l.inode # o
      /\ i.sector = inode[o].sector /\ i.data = inode[o].data
  BY DEF Closing, IsOpen
<1>4. \A r \in Obj : ~Reads(p, r) /\ ~Reads(p, r)' /\ ~Releases(p, r)  BY <1>2, <1>3 DEF Reads, Releases
<1>5. \A r \in Obj : BlockRead(p, r)'
  <2>1. disk' = disk  BY DEF Leaving
  <2>2. \A r \in Obj : r # o => BlockRead(p, r)'  BY <1>4, <2>1 DEF Solo, BlockRead
  <2>3. BlockRead(p, o)'  BY <1>3, <1>4, <2>1 DEF Solo, BlockRead
  <2> QED  BY <2>2, <2>3
<1>6. \A r \in Obj : Releases(p, r)' <=> label = "release_inode" /\ r = o  BY <1>1, <1>2 DEF Releases
<1>7. \A r \in Obj : r # o => (Uses(p, r)' <=> Uses(p, r))
  <2>1. \A r \in Obj : r # o => (Uses(p, r) <=> l.dir = r \/ l.inode = r)  BY DEF Leaving
  <2>2. CASE label = next /\ m = l  BY <1>1, <1>2, <2>1, <2>2 DEF Uses
  <2>3. CASE label = "release_inode" /\ m.inode = o /\ m.dir = l.dir /\ l.inode = NoObj
    BY <1>1, <1>2, <2>1, <2>3, Constants DEF Uses
  <2> QED  BY <2>2, <2>3
<1>8. ~Uses(p, o)'  BY <1>1, <1>2, <1>3 DEF Uses
<1>9. \A r \in Obj : r # o => Counted(p, r)'
  <2> SUFFICES ASSUME NEW r \in Obj, r # o PROVE Counted(p, r)'  OBVIOUS
  <2>1. Counted(p, r) /\ inode'[r] = inode[r] /\ lost' = lost  BY DEF Solo, Leaving
  <2>2. Cardinality(OpenFds(r)') = Cardinality(OpenFds(r)) /\ Cardinality(Denying(r)') = Cardinality(Denying(r))
    BY DEF Leaving
  <2>3. OpenFds(r)' = {} <=> OpenFds(r) = {}
    <3>1. OpenFds(r)' \subseteq Proc \X Fd /\ OpenFds(r) \subseteq Proc \X Fd  BY DEF OpenFds
    <3>2. Cardinality(OpenFds(r)') = 0 <=> OpenFds(r)' = {}  BY <3>1, FdSets
    <3>3. Cardinality(OpenFds(r)) = 0 <=> OpenFds(r) = {}  BY <3>1, FdSets
    <3> QED  BY <2>2, <3>2, <3>3
  <2>4. (Uses(p, r)' <=> Uses(p, r)) /\ ~Releases(p, r)' /\ ~Releases(p, r)  BY <1>4, <1>6, <1>7
  <2> QED  BY <2>1, <2>2, <2>3, <2>4 DEF Counted
<1> QED  BY <1>5, <1>6, <1>8, <1>9

\* Where it goes on, and what it has there.
LEMMA ClosesOn ==
    ASSUME World, NEW p \in Proc, Solo(p), NEW o, NEW i, NEW next, NEW l, Closing(p, o, i, next, l),
           StepsTo(p, next, l), \A r \in Obj : r # o => inode'[r] = inode[r]
    PROVE  PlaceAt(p)' /\ HandAt(p)'
<1>1. pc'[p] = next /\ loc'[p] = l /\ next \notin Releasing \cup Creating \cup {"read"}  BY NextIs DEF StepsTo
<1>2. \/ /\ next = "done" /\ l.inode = NoObj
         /\ l.dir \in Obj /\ inode[l.dir] # NoInode /\ inode[l.dir].sector = ROOT_DIR_SECTOR
      \/ next = "end" /\ l.dir = NoObj
      \/ next \in {"idle", "exit", "loaded"} /\ l.dir = NoObj /\ l.inode = NoObj
  BY DEF Closing
<1>3. l.call \in {"create", "remove"} => l.inode = NoObj  BY DEF Closing
<1>4. PlaceAt(p)'
  <2>1. CASE next = "done"
    <3>1. inode'[l.dir] = inode[l.dir] /\ l.dir \in Obj  BY <1>2, <2>1 DEF Closing
    <3>2. l.inode # l.dir  BY <1>2, <2>1, Constants
    <3>3. HasRoot(p)'  BY <1>1, <1>2, <2>1, <3>1, <3>2 DEF HasRoot
    <3> QED  BY <1>1, <1>2, <2>1, <3>3 DEF PlaceAt, Resting, InRoot, Creating, Releasing
  <2>2. CASE next = "end"  BY <1>1, <1>2, <1>3, <2>2 DEF PlaceAt, Resting, InRoot, Creating, Releasing
  <2>3. CASE next \in {"idle", "exit", "loaded"}
    BY <1>1, <1>2, <2>3 DEF PlaceAt, InRoot, Creating, Releasing, HoldsNothing
  <2> QED  BY <1>2, <2>1, <2>2, <2>3
<1>5. HandAt(p)'  BY <1>1 DEF HandAt, Creating
<1> QED  BY <1>4, <1>5

\* inode_close() keeps the invariant.
LEMMA Closes ==
    ASSUME World, NEW p \in Proc, Solo(p), NEW o, NEW i, NEW next, NEW l,
           Closing(p, o, i, next, l), Leaving(p, o, i, l), close_last(p, o, i, next, l)
    PROVE  FInv'
<1>1. /\ o \in Obj /\ IsOpen(o) /\ inode[o] # NoInode /\ i \in Inode /\ l \in Loc /\ i.sector = inode[o].sector
      /\ i.open_cnt \in Nat /\ i.open_cnt > 0 /\ i.open_cnt = inode[o].open_cnt /\ i # NoInode
  BY Constants DEF Closing, IsOpen, Inode
<1>2. next \in Labels /\ next # "release_inode" /\ "release_inode" \in Labels  BY NextIs
<1>3. /\ Cardinality(OpenFds(o)') + lost[o].n + 1 = i.open_cnt
      /\ Cardinality(Denying(o)') + lost[o].deny = i.deny_write_cnt
      /\ lost' = lost /\ lost[o].n \in Nat /\ lost[o].deny \in Nat /\ lost[o].deny =< lost[o].n
  BY <1>1 DEF Leaving, Solo, Counted, World, Typed, FTypeOK
<1>4. Cardinality(OpenFds(o)') \in Nat /\ (Cardinality(OpenFds(o)') = 0 <=> OpenFds(o)' = {})
  <2>1. OpenFds(o)' \subseteq Proc \X Fd  BY DEF OpenFds
  <2> QED  BY <2>1, FdSets
<1>5. CASE i.open_cnt > 1
  <2>1. PICK n \in Nat : n = i.open_cnt - 1 /\ n > 0  BY <1>1, <1>5
  <2>2. PICK j : j = [i EXCEPT !.open_cnt = n]  OBVIOUS
  <2>3. /\ j \in Inode /\ j.sector = i.sector /\ j.removed = i.removed /\ j.data = i.data
        /\ j.open_cnt = n /\ j.deny_write_cnt = i.deny_write_cnt
    BY <1>1, <2>1, <2>2 DEF Inode
  <2>4. inode' = [inode EXCEPT ![o] = j] /\ Go(p, next, l) /\ free_map' = free_map
    BY <1>5, <2>1, <2>2 DEF close_last
  <2>5. j # NoInode  BY <2>3, Constants
  <2>6. /\ World' /\ StepsTo(p, next, l) /\ inode' \in [Obj -> Inode \cup {NoInode}]
        /\ inode'[o] = j /\ \A r \in Obj : r # o => inode'[r] = inode[r]
    <3>1. free_map' = IF i.removed /\ (j = NoInode \/ j.open_cnt = 0) THEN free_map \ {i.sector} ELSE free_map
      BY <2>1, <2>3, <2>4, <2>5
    <3>2. j \in Inode /\ j.sector = i.sector /\ j.removed = i.removed /\ (j.open_cnt = 0 => i.removed)
      BY <2>1, <2>3
    <3> QED  BY <1>1, <1>2, <2>4, <3>1, <3>2, ClosesWorld
  <2>7. PlaceAt(p)' /\ HandAt(p)'  BY <2>6, ClosesOn
  <2>8. /\ \A r \in Obj : BlockRead(p, r)'
        /\ \A r \in Obj : r # o => Counted(p, r)'
        /\ ~Uses(p, o)' /\ ~Releases(p, o)'
    BY <1>1, <1>2, <2>3, <2>6, ClosesRest
  <2>9. Counted(p, o)'  BY <1>3, <1>4, <2>1, <2>3, <2>5, <2>6, <2>8 DEF Counted
  <2> QED  BY <2>6, <2>7, <2>8, <2>9, SoloSteps DEF FInv
<1>6. CASE i.open_cnt = 1 /\ ~i.removed
  <2>1. inode' = [inode EXCEPT ![o] = NoInode] /\ Go(p, next, l) /\ free_map' = free_map
    BY <1>6 DEF close_last
  <2>2. /\ World' /\ StepsTo(p, next, l) /\ inode' \in [Obj -> Inode \cup {NoInode}]
        /\ inode'[o] = NoInode /\ \A r \in Obj : r # o => inode'[r] = inode[r]
    BY <1>1, <1>2, <1>6, <2>1, ClosesWorld
  <2>3. PlaceAt(p)' /\ HandAt(p)'  BY <2>2, ClosesOn
  <2>4. /\ \A r \in Obj : BlockRead(p, r)'
        /\ \A r \in Obj : r # o => Counted(p, r)'
        /\ ~Uses(p, o)' /\ ~Releases(p, o)'
    BY <1>1, <1>2, <2>2, ClosesRest
  <2>5. Counted(p, o)'  BY <1>3, <1>4, <1>6, <2>2, <2>4 DEF Counted
  <2> QED  BY <2>2, <2>3, <2>4, <2>5, SoloSteps DEF FInv
<1>7. CASE i.open_cnt = 1 /\ i.removed
  <2>1. PICK j : j = [i EXCEPT !.open_cnt = 0]  OBVIOUS
  <2>2. /\ j \in Inode /\ j.sector = i.sector /\ j.removed = i.removed /\ j.data = i.data
        /\ j.open_cnt = 0 /\ j.deny_write_cnt = i.deny_write_cnt
    BY <1>1, <2>1 DEF Inode
  <2>3. j # NoInode  BY <2>2, Constants
  <2>4. PICK k, m : k = [l EXCEPT !.inode = o] /\ m = [k EXCEPT !.then = next]  OBVIOUS
  <2>5. k \in Loc /\ k.inode = o /\ k.dir = l.dir  
    <3>1. o \in Obj \cup {NoObj} /\ k = [l EXCEPT !.inode = o]  BY <1>1, <2>4
    <3> QED  BY ONLY <1>1, <3>1, SetsInode
  <2>6. m \in Loc /\ m.inode = o /\ m.dir = l.dir /\ m.then = next
    <3>0. m = [k EXCEPT !.then = next]  BY <2>4
    <3>1. m \in Loc /\ m.then = next /\ m.inode = k.inode /\ m.dir = k.dir  BY ONLY <1>2, <2>5, <3>0, SetsThen
    <3> QED  BY <2>5, <3>1
  <2>7. inode' = [inode EXCEPT ![o] = j] /\ free_map' = free_map \ {i.sector} /\ Go(p, "release_inode", m)
    <3>1. m = [l EXCEPT !.inode = o, !.then = next]  BY <2>4
    <3> QED  BY <1>7, <2>1, <3>1 DEF close_last
  <2>8. /\ World' /\ StepsTo(p, "release_inode", m) /\ Fewer /\ inode' \in [Obj -> Inode \cup {NoInode}]
        /\ inode'[o] = j /\ \A r \in Obj : r # o => inode'[r] = inode[r]
    BY <1>1, <1>2, <1>7, <2>2, <2>3, <2>6, <2>7, ClosesWorld
  <2>9. l.inode = NoObj  BY <1>7 DEF Closing
  <2>10. /\ \A r \in Obj : BlockRead(p, r)'
         /\ \A r \in Obj : r # o => Counted(p, r)'
         /\ ~Uses(p, o)' /\ Releases(p, o)'
    BY <1>1, <2>2, <2>6, <2>8, <2>9, ClosesRest
  <2>11. Counted(p, o)'  BY <1>3, <1>4, <1>7, <2>2, <2>3, <2>8, <2>10 DEF Counted
  <2>12. pc'[p] = "release_inode" /\ loc'[p] = m  BY <2>8 DEF StepsTo
  <2>13. PlaceAt(p)'
    <3>1. \/ m.then = "done" /\ HasRoot(p)'
          \/ m.then \in {"end", "idle", "exit", "loaded"} /\ m.dir = NoObj
      <4>1. CASE next = "done"
        <5>1. /\ l.dir \in Obj /\ l.dir # o /\ inode'[l.dir] = inode[l.dir]
              /\ inode[l.dir] # NoInode /\ inode[l.dir].sector = ROOT_DIR_SECTOR
          BY <2>8, <4>1 DEF Closing
        <5>2. HasRoot(p)'  BY <2>6, <2>12, <5>1 DEF HasRoot
        <5> QED  BY <2>6, <4>1, <5>2
      <4>2. CASE next # "done"  BY <2>6, <4>2 DEF Closing
      <4> QED  BY <4>1, <4>2
    <3> QED  BY <1>1, <2>3, <2>6, <2>8, <2>12, <3>1 DEF PlaceAt, Resting, InRoot, Creating, Releasing
  <2>14. HandAt(p)'
    <3>1. i.sector \notin Reserved \cup DirSectors'  BY <1>7 DEF Leaving
    <3>2. i.sector \in Live  BY <1>1, <3>1 DEF Live, InMemory
    <3>3. i.sector \notin Live'
      <4> SUFFICES ASSUME NEW r \in Obj, IsOpen(r)', inode'[r].sector = i.sector PROVE FALSE
        BY <3>1 DEF Live, InMemory
      <4>1. r # o  BY <2>2, <2>8 DEF IsOpen
      <4>2. inode[r] # NoInode /\ inode[r].sector = inode[o].sector  BY <1>1, <2>8, <4>1 DEF IsOpen
      <4> QED  BY <1>1, <4>1, <4>2 DEF World, SectorsApart
    <3>4. Live' \subseteq Live /\ \A x \in Live : Span(x)' = Span(x)  BY <2>8, FewerLive
    <3>5. Apart(Span(i.sector))'
      <4>1. Span(i.sector) \cap Reserved = {}  BY <3>2 DEF World, SpansKept
      <4>2. \A x \in Live' : Span(i.sector) \cap Span(x) = {}  BY <3>2, <3>3, <3>4 DEF World, SpansKept
      <4>3. Span(i.sector)' = Span(i.sector)  BY <3>2, <3>4
      <4>4. \A x \in Live' : Span(i.sector)' \cap Span(x)' = {}  BY <3>4, <4>2, <4>3
      <4> QED  BY <4>1, <4>3, <4>4 DEF Apart
    <3>6. inode'[loc'[p].inode].sector = i.sector  BY <2>2, <2>6, <2>8, <2>12
    <3>7. Apart(Span(inode[loc[p].inode].sector))'  BY <3>5, <3>6 DEF Apart, Span
    <3> QED  BY <2>12, <3>7 DEF HandAt, Creating
  <2> QED  BY <2>8, <2>10, <2>11, <2>13, <2>14, SoloSteps DEF FInv
<1>8. i.open_cnt > 1 \/ i.open_cnt = 1  BY <1>1
<1> QED  BY <1>5, <1>6, <1>7, <1>8

\* What is open and in use.
LEMMA InUse ==
    ASSUME World, NEW p \in Proc, Solo(p), NEW o \in Obj, Uses(p, o) \/ OpenFds(o) # {},
           pc[p] \notin Releasing \cup {"read"}
    PROVE  /\ IsOpen(o) /\ inode[o] # NoInode /\ inode[o] \in Inode /\ inode[o].open_cnt \in Nat
           /\ inode[o].open_cnt = Cardinality(OpenFds(o)) + lost[o].n + (IF Uses(p, o) THEN 1 ELSE 0)
           /\ inode[o].deny_write_cnt = Cardinality(Denying(o)) + lost[o].deny
<1>1. Counted(p, o) /\ ~Releases(p, o)  BY DEF Solo, Releases
<1>2. inode[o] # NoInode  BY <1>1 DEF Counted
<1>3. inode[o] \in Inode /\ inode[o].open_cnt \in Nat  BY <1>2, InodeFields DEF World
<1>4. inode[o].open_cnt # 0  BY <1>1, <1>2 DEF Counted
<1> QED  BY <1>1, <1>2, <1>3, <1>4 DEF Counted, IsOpen

\* A process closes the inode it has opened, and no descriptor changes.
LEMMA ClosesOwn ==
    ASSUME World, NEW p \in Proc, Solo(p), NEW o, NEW i, NEW next, NEW l,
           Closing(p, o, i, next, l), close_last(p, o, i, next, l), Uses(p, o),
           i.deny_write_cnt = inode[o].deny_write_cnt,
           \A r \in Obj : r # o => (Uses(p, r) <=> l.dir = r \/ l.inode = r),
           dir' \in [Slot -> Entry \cup {NoEntry}], \A s \in Slot : dir'[s] \in {dir[s], NoEntry},
           i.removed => i.sector \notin Reserved \cup DirSectors',
           UNCHANGED <<disk, map_disk, fd, lost, file_lock, prog>>
    PROVE  FInv'
<1>1. o \in Obj /\ pc[p] \notin Releasing \cup {"read"} /\ i.open_cnt = inode[o].open_cnt  BY DEF Closing
<1>2. /\ inode[o].open_cnt = Cardinality(OpenFds(o)) + lost[o].n + 1
      /\ inode[o].deny_write_cnt = Cardinality(Denying(o)) + lost[o].deny
  BY <1>1, InUse
<1>3. \A r : OpenFds(r)' = OpenFds(r) /\ Denying(r)' = Denying(r)  BY DEF OpenFds, Denying
<1>4. Leaving(p, o, i, l)  BY <1>1, <1>2, <1>3 DEF Leaving, World, Typed, FTypeOK
<1> QED  BY <1>4, Closes

\* dir_remove() erases the entry, marks the inode and closes it.
LEMMA EraseKeeps == ASSUME Serialized, FInv, NEW p \in Proc, Erase(p) PROVE FInv'
<1>0. pc[p] = "erase" /\ pc[p] \notin Resting \cup Releasing \cup {"read"}
  BY DEF Erase, At, Resting, Releasing
<1>1. World /\ Solo(p) /\ Typed  BY <1>0, Turn DEF World
<1>2. PICK o, l, i : /\ o = loc[p].inode /\ l = [loc[p] EXCEPT !.inode = NoObj]
                     /\ i = [inode[o] EXCEPT !.removed = TRUE]
  OBVIOUS
<1>3. HasRoot(p) /\ HasEntry(p)  BY <1>0, <1>1 DEF Solo, PlaceAt, InRoot
<1>4. o \in Obj /\ inode[o] # NoInode /\ Uses(p, o) /\ loc[p].slot \in Slot /\ dir[loc[p].slot] # NoEntry
  BY <1>0, <1>2, <1>3 DEF HasEntry, Uses
<1>5. IsOpen(o) /\ inode[o] \in Inode  BY <1>0, <1>1, <1>4, InUse
<1>6. /\ i \in Inode /\ i.sector = inode[o].sector /\ i.data = inode[o].data /\ i.open_cnt = inode[o].open_cnt
      /\ i.deny_write_cnt = inode[o].deny_write_cnt /\ i.removed
  BY <1>2, <1>5 DEF Inode
<1>7. l \in Loc /\ l.inode = NoObj /\ l.dir = loc[p].dir /\ l.call = loc[p].call
  <2>1. loc[p] \in Loc /\ l = [loc[p] EXCEPT !.inode = NoObj]  BY <1>1, <1>2 DEF Typed
  <2> QED  BY ONLY <2>1, SetsInode
<1>8. Closing(p, o, i, "done", l)  BY <1>0, <1>2, <1>3, <1>4, <1>5, <1>6, <1>7, Constants DEF Closing, HasRoot
<1>9. /\ dir' = [dir EXCEPT ![loc[p].slot] = NoEntry] /\ close_last(p, o, i, "done", l)
      /\ UNCHANGED <<disk, map_disk, fd, lost, file_lock, prog>>
  BY <1>2 DEF Erase
<1>10. /\ dir' \in [Slot -> Entry \cup {NoEntry}] /\ dir'[loc[p].slot] = NoEntry
       /\ \A s \in Slot : s # loc[p].slot => dir'[s] = dir[s]
  BY <1>1, <1>4, <1>9 DEF Typed, FTypeOK
<1>11. i.sector \notin Reserved \cup DirSectors'
  <2>1. i.sector = dir[loc[p].slot].sector  BY <1>2, <1>3, <1>6 DEF HasEntry
  <2>2. i.sector \in Live  BY <1>4, <2>1 DEF Live, DirSectors
  <2>3. i.sector \notin Reserved  BY <1>1, <2>2 DEF World, SpansKept, Span
  <2>4. \A s \in Slot : dir'[s] # NoEntry => dir'[s].sector # i.sector
    BY <1>1, <1>4, <1>10, <2>1 DEF World, SpansKept
  <2> QED  BY <2>3, <2>4 DEF DirSectors
<1>12. \A r \in Obj : r # o => (Uses(p, r) <=> l.dir = r \/ l.inode = r)
  BY <1>2, <1>7, Constants DEF Uses
<1> QED  BY <1>1, <1>4, <1>6, <1>8, <1>9, <1>10, <1>11, <1>12, ClosesOwn

\* dir_close().
LEMMA DirCloseKeeps == ASSUME Serialized, FInv, NEW p \in Proc, DirClose(p) PROVE FInv'
<1>0. pc[p] = "done" /\ pc[p] \notin Resting \cup Releasing \cup {"read"}
  BY DEF DirClose, At, Resting, Releasing
<1>1. World /\ Solo(p) /\ Typed  BY <1>0, Turn DEF World
<1>2. PICK o, l, i : o = loc[p].dir /\ l = [loc[p] EXCEPT !.dir = NoObj] /\ i = inode[o]  OBVIOUS
<1>3. HasRoot(p)  BY <1>0, <1>1 DEF Solo, PlaceAt, InRoot
<1>4. o \in Obj /\ inode[o] # NoInode /\ Uses(p, o) /\ i.sector = ROOT_DIR_SECTOR /\ loc[p].inode # o
  BY <1>2, <1>3 DEF HasRoot, Uses
<1>5. IsOpen(o) /\ i \in Inode  BY <1>0, <1>1, <1>2, <1>4, InUse
<1>6. ~i.removed  BY <1>1, <1>2, <1>4, Constants DEF World, Gone
<1>7. l \in Loc /\ l.inode = loc[p].inode /\ l.dir = NoObj /\ l.call = loc[p].call
  <2>1. loc[p] \in Loc /\ l = [loc[p] EXCEPT !.dir = NoObj]  BY <1>1, <1>2 DEF Typed
  <2> QED  BY ONLY <2>1, SetsDir
<1>8. l.call \in {"create", "remove"} => l.inode = NoObj  BY <1>0, <1>1, <1>7 DEF Solo, PlaceAt
<1>9. Closing(p, o, i, "end", l)  BY <1>0, <1>2, <1>4, <1>5, <1>6, <1>7, <1>8, Constants DEF Closing
<1>10. /\ close_last(p, o, i, "end", l) /\ UNCHANGED <<dir, disk, map_disk, fd, lost, file_lock, prog>>
  BY <1>2 DEF DirClose, inode_close, dvars
<1>11. dir' \in [Slot -> Entry \cup {NoEntry}] /\ \A s \in Slot : dir'[s] \in {dir[s], NoEntry}
  BY <1>1, <1>10 DEF Typed, FTypeOK
<1>12. \A r \in Obj : r # o => (Uses(p, r) <=> l.dir = r \/ l.inode = r)
  BY <1>0, <1>2, <1>7, Constants DEF Uses
<1>13. i.deny_write_cnt = inode[o].deny_write_cnt /\ (i.removed => i.sector \notin Reserved \cup DirSectors')
  BY <1>2, <1>6
<1> QED  BY <1>1, <1>4, <1>9, <1>10, <1>11, <1>12, <1>13, ClosesOwn

\* file_open() without memory, and load() when it has read the program.
LEMMA FileClosed ==
    ASSUME Serialized, FInv, NEW p \in Proc, pc[p] = "end", loc[p].inode # NoObj, NEW next \in {"end", "loaded"},
           inode_close(p, loc[p].inode, next, [loc[p] EXCEPT !.inode = NoObj]),
           UNCHANGED <<dvars, fd, lost, file_lock, prog>>
    PROVE  FInv'
<1>0. pc[p] \notin Resting \cup Releasing \cup {"read"}  BY DEF Resting, Releasing
<1>1. World /\ Solo(p) /\ Typed  BY <1>0, Turn DEF World
<1>2. PICK o, l, i : o = loc[p].inode /\ l = [loc[p] EXCEPT !.inode = NoObj] /\ i = inode[o]  OBVIOUS
<1>3. loc[p].dir = NoObj /\ loc[p] \in Loc  BY <1>1 DEF Solo, PlaceAt, Typed
<1>4. o \in Obj /\ Uses(p, o)  BY <1>0, <1>2, <1>3 DEF Loc, Locals, Uses
<1>5. IsOpen(o) /\ i \in Inode /\ inode[o] # NoInode  BY <1>0, <1>1, <1>2, <1>4, InUse
<1>6. i.removed => i.sector \notin Reserved \cup DirSectors  BY <1>1, <1>2, <1>4, <1>5 DEF World, Gone
<1>7. l \in Loc /\ l.inode = NoObj /\ l.dir = NoObj /\ l.call = loc[p].call
  <2>1. l = [loc[p] EXCEPT !.inode = NoObj]  BY <1>2
  <2>2. l \in Loc /\ l.inode = NoObj /\ l.dir = loc[p].dir /\ l.call = loc[p].call  BY ONLY <1>3, <2>1, SetsInode
  <2> QED  BY <1>3, <2>2
<1>8. Closing(p, o, i, next, l)  BY <1>0, <1>2, <1>4, <1>5, <1>7, Constants DEF Closing
<1>9. /\ close_last(p, o, i, next, l) /\ UNCHANGED <<dir, disk, map_disk, fd, lost, file_lock, prog>>
  BY <1>2 DEF inode_close, dvars
<1>10. /\ dir' \in [Slot -> Entry \cup {NoEntry}] /\ (\A s \in Slot : dir'[s] \in {dir[s], NoEntry})
       /\ DirSectors' = DirSectors
  BY <1>1, <1>9 DEF Typed, FTypeOK, DirSectors
<1>11. \A r \in Obj : r # o => (Uses(p, r) <=> l.dir = r \/ l.inode = r)
  BY <1>0, <1>2, <1>3, <1>7, Constants DEF Uses
<1>12. i.deny_write_cnt = inode[o].deny_write_cnt /\ (i.removed => i.sector \notin Reserved \cup DirSectors')
  BY <1>2, <1>6, <1>10
<1> QED  BY <1>1, <1>4, <1>8, <1>9, <1>10, <1>11, <1>12, ClosesOwn

\* The two.
LEMMA EndsClose == ASSUME Serialized, FInv, NEW p \in Proc, FileOpenFails(p) \/ EndLoad(p) PROVE FInv'
<1>0. pc[p] = "end" /\ pc[p] \notin Resting \cup Releasing \cup {"read"}
  BY DEF FileOpenFails, EndLoad, At, Resting, Releasing
<1>1. World /\ Solo(p) /\ Typed  BY <1>0, Turn DEF World
<1>2. UNCHANGED <<dvars, fd, lost, file_lock, prog>>  BY DEF FileOpenFails, EndLoad
<1>3. CASE FileOpenFails(p)  BY <1>0, <1>2, <1>3, FileClosed DEF FileOpenFails
<1>4. CASE EndLoad(p) /\ loc[p].inode = NoObj
  <2>1. HoldsNothing(p)  BY <1>0, <1>1, <1>4 DEF Solo, PlaceAt, HoldsNothing
  <2>2. Go(p, "exit", NoLoc) /\ UNCHANGED files  BY <1>2, <1>4 DEF EndLoad, files, dvars
  <2>3. file_lock' \in Proc \cup {NoProc} /\ prog' \in [Proc -> Name]  BY <1>1, <1>2 DEF Typed, FTypeOK
  <2> QED  BY <1>0, <1>1, <2>1, <2>2, <2>3, NoLocIs, WalksFree
<1>5. CASE EndLoad(p) /\ loc[p].inode # NoObj  BY <1>0, <1>2, <1>5, FileClosed DEF EndLoad
<1> QED  BY <1>3, <1>4, <1>5

-----------------------------------------------------------------------------
(* Descriptors.                                                             *)

\* Two sets of descriptors are equal if they have the same.
LEMMA PairSets ==
    ASSUME NEW S, S \subseteq Proc \X Fd, NEW T, T \subseteq Proc \X Fd,
           \A q \in Proc, n \in Fd : <<q, n>> \in S <=> <<q, n>> \in T
    PROVE  S = T
<1>1. \A f \in Proc \X Fd : f[1] \in Proc /\ f[2] \in Fd /\ f = <<f[1], f[2]>>  OBVIOUS
<1>2. \A f \in Proc \X Fd : f \in S <=> f \in T  BY <1>1
<1> QED  BY <1>2

\* Which descriptors have an inode open, and deny writes,
LEMMA OpenFdsAre ==
  \A o : /\ OpenFds(o) \subseteq Proc \X Fd /\ Denying(o) \subseteq Proc \X Fd
         /\ \A q \in Proc, n \in Fd :
              /\ <<q, n>> \in OpenFds(o) <=> fd[q][n] # NoFile /\ fd[q][n].inode = o
              /\ <<q, n>> \in Denying(o) <=> fd[q][n] # NoFile /\ fd[q][n].inode = o /\ fd[q][n].deny_write
BY DEF OpenFds, Denying

\* and which will.
LEMMA OpenFdsWillBe ==
  \A o : /\ OpenFds(o)' \subseteq Proc \X Fd /\ Denying(o)' \subseteq Proc \X Fd
         /\ \A q \in Proc, n \in Fd :
              /\ <<q, n>> \in OpenFds(o)' <=> fd'[q][n] # NoFile /\ fd'[q][n].inode = o
              /\ <<q, n>> \in Denying(o)' <=> fd'[q][n] # NoFile /\ fd'[q][n].inode = o /\ fd'[q][n].deny_write
BY DEF OpenFds, Denying

\* What a descriptor has open is a file.
LEMMA FileIs ==
    ASSUME Typed, NEW p \in Proc, NEW m \in Fd, fd[p][m] # NoFile
    PROVE  fd[p][m] \in File /\ fd[p][m].inode \in Obj /\ fd[p][m].deny_write \in BOOLEAN
<1>1. fd[p][m] \in File  BY DEF Typed, FTypeOK
<1> QED  BY <1>1 DEF File

\* One descriptor is set.
LEMMA SetsFd ==
    ASSUME Typed, NEW p \in Proc, NEW m \in Fd, NEW g \in File \cup {NoFile}, fd' = [fd EXCEPT ![p][m] = g]
    PROVE  /\ fd' \in [Proc -> [Fd -> File \cup {NoFile}]] /\ fd'[p][m] = g
           /\ \A q \in Proc, n \in Fd : <<q, n>> # <<p, m>> => fd'[q][n] = fd[q][n]
<1>1. fd \in [Proc -> [Fd -> File \cup {NoFile}]]  BY DEF Typed, FTypeOK
<1> QED  BY <1>1

\* Clearing a descriptor takes exactly it off those that have the inode open.
LEMMA FdLost ==
    ASSUME Typed, NEW p \in Proc, NEW m \in Fd, NEW f, f = fd[p][m], f # NoFile,
           fd' = [fd EXCEPT ![p][m] = NoFile], NEW o, o = f.inode
    PROVE  /\ fd' \in [Proc -> [Fd -> File \cup {NoFile}]]
           /\ \A r \in Obj : r # o => OpenFds(r)' = OpenFds(r) /\ Denying(r)' = Denying(r)
           /\ Cardinality(OpenFds(o)') = Cardinality(OpenFds(o)) - 1
           /\ Cardinality(Denying(o)') = Cardinality(Denying(o)) - (IF f.deny_write THEN 1 ELSE 0)
<1>1. /\ fd' \in [Proc -> [Fd -> File \cup {NoFile}]] /\ fd'[p][m] = NoFile
      /\ \A q \in Proc, n \in Fd : <<q, n>> # <<p, m>> => fd'[q][n] = fd[q][n]
  BY SetsFd, ZenonT(30)
<1>2. ASSUME NEW r \in Obj, r # o PROVE OpenFds(r)' = OpenFds(r) /\ Denying(r)' = Denying(r)
  <2>1. \A q \in Proc, n \in Fd : /\ <<q, n>> \in OpenFds(r)' <=> <<q, n>> \in OpenFds(r)
                                  /\ <<q, n>> \in Denying(r)' <=> <<q, n>> \in Denying(r)
    <3> SUFFICES ASSUME NEW q \in Proc, NEW n \in Fd
                 PROVE  /\ <<q, n>> \in OpenFds(r)' <=> <<q, n>> \in OpenFds(r)
                        /\ <<q, n>> \in Denying(r)' <=> <<q, n>> \in Denying(r)
      OBVIOUS
    <3>1. CASE <<q, n>> = <<p, m>>
      <4>1. q = p /\ n = m  BY <3>1
      <4>2. fd'[q][n] = NoFile /\ fd[q][n].inode # r  BY <1>1, <1>2, <4>1
      <4> QED  BY <4>2, OpenFdsAre, OpenFdsWillBe
    <3>2. CASE <<q, n>> # <<p, m>>
      <4>1. fd'[q][n] = fd[q][n]  BY <1>1, <3>2
      <4> QED  BY <4>1, OpenFdsAre, OpenFdsWillBe
    <3> QED  BY <3>1, <3>2
  <2>2. OpenFds(r)' = OpenFds(r)
    <3>1. /\ OpenFds(r) \subseteq Proc \X Fd /\ OpenFds(r)' \subseteq Proc \X Fd
          /\ \A q \in Proc, n \in Fd : <<q, n>> \in OpenFds(r)' <=> <<q, n>> \in OpenFds(r)
      BY <2>1, OpenFdsAre, OpenFdsWillBe
    <3> QED  BY ONLY <3>1, PairSets
  <2>3. Denying(r)' = Denying(r)
    <3>1. /\ Denying(r) \subseteq Proc \X Fd /\ Denying(r)' \subseteq Proc \X Fd
          /\ \A q \in Proc, n \in Fd : <<q, n>> \in Denying(r)' <=> <<q, n>> \in Denying(r)
      BY <2>1, OpenFdsAre, OpenFdsWillBe
    <3> QED  BY ONLY <3>1, PairSets
  <2> QED  BY <2>2, <2>3
<1>3. PICK x : x = <<p, m>>  OBVIOUS
<1>4. x \in OpenFds(o) /\ (x \in Denying(o) <=> f.deny_write)  BY <1>3, OpenFdsAre
<1>5. OpenFds(o)' = OpenFds(o) \ {x} /\ Denying(o)' = Denying(o) \ {x}
  <2>1. \A q \in Proc, n \in Fd : /\ <<q, n>> \in OpenFds(o)' <=> <<q, n>> \in OpenFds(o) \ {x}
                                  /\ <<q, n>> \in Denying(o)' <=> <<q, n>> \in Denying(o) \ {x}
    <3> SUFFICES ASSUME NEW q \in Proc, NEW n \in Fd
                 PROVE  /\ <<q, n>> \in OpenFds(o)' <=> <<q, n>> \in OpenFds(o) /\ <<q, n>> # x
                        /\ <<q, n>> \in Denying(o)' <=> <<q, n>> \in Denying(o) /\ <<q, n>> # x
      OBVIOUS
    <3>1. CASE <<q, n>> = x
      <4>1. q = p /\ n = m  BY <1>3, <3>1
      <4>2. fd'[q][n] = NoFile  BY <1>1, <4>1
      <4> QED  BY <3>1, <4>2, OpenFdsWillBe
    <3>2. CASE <<q, n>> # x
      <4>1. fd'[q][n] = fd[q][n]  BY <1>1, <1>3, <3>2
      <4> QED  BY <3>2, <4>1, OpenFdsAre, OpenFdsWillBe
    <3> QED  BY <3>1, <3>2
  <2>2. OpenFds(o)' = OpenFds(o) \ {x}
    <3>1. /\ OpenFds(o) \ {x} \subseteq Proc \X Fd /\ OpenFds(o)' \subseteq Proc \X Fd
          /\ \A q \in Proc, n \in Fd : <<q, n>> \in OpenFds(o)' <=> <<q, n>> \in OpenFds(o) \ {x}
      BY <2>1, OpenFdsAre, OpenFdsWillBe
    <3> QED  BY ONLY <3>1, PairSets
  <2>3. Denying(o)' = Denying(o) \ {x}
    <3>1. /\ Denying(o) \ {x} \subseteq Proc \X Fd /\ Denying(o)' \subseteq Proc \X Fd
          /\ \A q \in Proc, n \in Fd : <<q, n>> \in Denying(o)' <=> <<q, n>> \in Denying(o) \ {x}
      BY <2>1, OpenFdsAre, OpenFdsWillBe
    <3> QED  BY ONLY <3>1, PairSets
  <2> QED  BY <2>2, <2>3
<1>6. PICK S, D : S = OpenFds(o) /\ D = Denying(o)  OBVIOUS
<1>7. IsFiniteSet(S) /\ IsFiniteSet(D) /\ Cardinality(S) \in Nat /\ Cardinality(D) \in Nat  BY <1>6, FdsFinite
<1>8. Cardinality(S \ {x}) = Cardinality(S) - 1
  <2>1. x \in S  BY <1>4, <1>6
  <2> QED  BY ONLY <1>7, <2>1, FS_RemoveElement
<1>9. Cardinality(D \ {x}) = IF x \in D THEN Cardinality(D) - 1 ELSE Cardinality(D)
  BY ONLY <1>7, FS_RemoveElement
<1>10. Cardinality(OpenFds(o)') = Cardinality(OpenFds(o)) - 1  BY <1>5, <1>6, <1>8
<1>11. Cardinality(Denying(o)') = Cardinality(Denying(o)) - (IF f.deny_write THEN 1 ELSE 0)
  BY <1>4, <1>5, <1>6, <1>7, <1>9
<1> QED  BY <1>1, <1>2, <1>10, <1>11

\* file_close(), by a process with nothing in hand.
LEMMA FileCloses ==
    ASSUME World, NEW p \in Proc, Solo(p), HoldsNothing(p), pc[p] \notin Releasing \cup {"read"},
           NEW m \in Fd, fd[p][m] # NoFile, NEW next \in {"idle", "exit"},
           fd' = [fd EXCEPT ![p][m] = NoFile], file_close(p, fd[p][m], next, NoLoc),
           UNCHANGED <<dvars, lost, file_lock, prog>>
    PROVE  FInv'
<1>1. PICK f, o, i : f = fd[p][m] /\ o = f.inode /\ i = file_allow_write(f)  OBVIOUS
<1>2. Typed /\ f \in File /\ o \in Obj /\ f.deny_write \in BOOLEAN  BY <1>1, FileIs DEF World
<1>3. <<p, m>> \in OpenFds(o) /\ (f.deny_write => <<p, m>> \in Denying(o))  BY <1>1, OpenFdsAre
<1>4. \A r \in Obj : ~Uses(p, r)  BY Constants DEF HoldsNothing, Uses
<1>5. /\ IsOpen(o) /\ inode[o] # NoInode /\ inode[o] \in Inode
      /\ inode[o].open_cnt = Cardinality(OpenFds(o)) + lost[o].n
      /\ inode[o].deny_write_cnt = Cardinality(Denying(o)) + lost[o].deny
      /\ lost[o].n \in Nat /\ lost[o].deny \in Nat
  <2>1. OpenFds(o) # {}  BY <1>3
  <2> QED  BY <1>2, <1>4, <2>1, InUse, FdsFinite DEF Typed, FTypeOK
<1>6. f.deny_write => Cardinality(Denying(o)) >= 1
  <2>1. Denying(o) # {} => Cardinality(Denying(o)) # 0
    <3>1. Denying(o) \subseteq Proc \X Fd  BY OpenFdsAre
    <3> QED  BY <3>1, FdSets
  <2> QED  BY <1>3, <2>1, FdsFinite
<1>7. /\ i \in Inode /\ i.sector = inode[o].sector /\ i.data = inode[o].data /\ i.open_cnt = inode[o].open_cnt
      /\ i.removed = inode[o].removed
      /\ i.deny_write_cnt = inode[o].deny_write_cnt - (IF f.deny_write THEN 1 ELSE 0)
  <2>1. PICK d \in Nat : d = inode[o].deny_write_cnt - (IF f.deny_write THEN 1 ELSE 0)
    BY <1>2, <1>5, <1>6, FdsFinite
  <2>2. CASE f.deny_write
    <3>1. i = [inode[o] EXCEPT !.deny_write_cnt = d]
      BY <1>1, <2>1, <2>2 DEF file_allow_write, inode_allow_write
    <3> QED  BY <1>5, <2>1, <3>1 DEF Inode
  <2>3. CASE ~f.deny_write
    <3>1. i = inode[o]  BY <1>1, <2>3 DEF file_allow_write
    <3> QED  BY <1>5, <2>3, <3>1 DEF Inode
  <2> QED  BY <1>2, <2>2, <2>3
<1>8. i.removed => i.sector \notin Reserved \cup DirSectors  BY <1>2, <1>5, <1>7 DEF World, Gone
<1>9. Closing(p, o, i, next, NoLoc)
  <2>1. NoLoc.dir # o /\ NoLoc.inode # o  BY <1>2, NoLocIs, Constants
  <2> QED  BY <1>2, <1>5, <1>7, <2>1, NoLocIs DEF Closing
<1>10. /\ fd' \in [Proc -> [Fd -> File \cup {NoFile}]]
       /\ \A r \in Obj : r # o => OpenFds(r)' = OpenFds(r) /\ Denying(r)' = Denying(r)
       /\ Cardinality(OpenFds(o)') = Cardinality(OpenFds(o)) - 1
       /\ Cardinality(Denying(o)') = Cardinality(Denying(o)) - (IF f.deny_write THEN 1 ELSE 0)
  <2>1. /\ p \in Proc /\ m \in Fd /\ f = fd[p][m] /\ f # NoFile /\ o = f.inode
        /\ fd' = [fd EXCEPT ![p][m] = NoFile]
    BY <1>1
  <2>2. fd' \in [Proc -> [Fd -> File \cup {NoFile}]]
    <3>1. fd \in [Proc -> [Fd -> File \cup {NoFile}]]  BY <1>2 DEF Typed, FTypeOK
    <3> QED  BY ONLY <2>1, <3>1
  <2>3. \A r \in Obj : r # o => OpenFds(r)' = OpenFds(r) /\ Denying(r)' = Denying(r)  BY ONLY <1>2, <2>1, FdLost, ZenonT(30)
  <2>4. Cardinality(OpenFds(o)') = Cardinality(OpenFds(o)) - 1  BY ONLY <1>2, <2>1, FdLost
  <2>5. Cardinality(Denying(o)') = Cardinality(Denying(o)) - (IF f.deny_write THEN 1 ELSE 0)
    BY ONLY <1>2, <2>1, FdLost
  <2> QED  BY <2>2, <2>3, <2>4, <2>5
<1>11. /\ UNCHANGED <<dir, disk, map_disk, lost, file_lock, prog>> /\ DirSectors' = DirSectors
       /\ dir' \in [Slot -> Entry \cup {NoEntry}] /\ \A s \in Slot : dir'[s] \in {dir[s], NoEntry}
  BY <1>2 DEF dvars, DirSectors, Typed, FTypeOK
<1>12. \A r \in Obj : r # o => (Uses(p, r) <=> NoLoc.dir = r \/ NoLoc.inode = r)
  BY <1>4, NoLocIs, Constants
<1>13. Cardinality(OpenFds(o)') + lost[o].n + 1 = i.open_cnt  BY <1>5, <1>7, <1>10, FdsFinite
<1>14. Cardinality(Denying(o)') + lost[o].deny = i.deny_write_cnt  BY <1>2, <1>5, <1>7, <1>10, FdsFinite
<1>15. Leaving(p, o, i, NoLoc)  BY <1>8, <1>10, <1>11, <1>12, <1>13, <1>14 DEF Leaving
<1>16. close_last(p, o, i, next, NoLoc)  BY <1>1 DEF file_close
<1> QED  BY <1>9, <1>15, <1>16, Closes

\* close().
LEMMA CloseKeeps == ASSUME Serialized, FInv, NEW p \in Proc, NEW m \in Fd, Close(p, m) PROVE FInv'
<1>1. World /\ Solo(p) /\ HoldsNothing(p) /\ pc[p] \notin Releasing \cup {"read"} /\ Typed
  BY Entered DEF Close, World
<1>2. UNCHANGED <<dvars, lost, file_lock, prog>>  BY DEF Close
<1>3. CASE fd[p][m] = NoFile
  <2>1. Go(p, "exit", NoLoc) /\ UNCHANGED files  BY <1>2, <1>3 DEF Close, files, dvars
  <2>2. file_lock' \in Proc \cup {NoProc} /\ prog' \in [Proc -> Name]  BY <1>1, <1>2 DEF Typed, FTypeOK
  <2> QED  BY <1>1, <2>1, <2>2, NoLocIs, WalksFree
<1>4. CASE fd[p][m] # NoFile
  <2>1. fd' = [fd EXCEPT ![p][m] = NoFile] /\ file_close(p, fd[p][m], "idle", NoLoc)  BY <1>4 DEF Close
  <2> QED  BY <1>1, <1>2, <1>4, <2>1, FileCloses
<1> QED  BY <1>3, <1>4

\* The descriptors of a process that exits.
LEMMA CloseAllKeeps == ASSUME Serialized, FInv, NEW p \in Proc, CloseAll(p) PROVE FInv'
<1>0. pc[p] = "exit" /\ pc[p] \notin Resting \cup Releasing \cup {"read"}
  BY DEF CloseAll, At, Resting, Releasing
<1>1. World /\ Solo(p) /\ Typed  BY <1>0, Turn DEF World
<1>2. HoldsNothing(p)  BY <1>0, <1>1 DEF Solo, PlaceAt
<1>3. UNCHANGED <<dvars, lost, file_lock, prog>>  BY DEF CloseAll
<1>4. ASSUME NEW m \in Fd, fd[p][m] # NoFile, fd' = [fd EXCEPT ![p][m] = NoFile],
             file_close(p, fd[p][m], "exit", NoLoc)
      PROVE  FInv'
  BY <1>0, <1>1, <1>2, <1>3, <1>4, FileCloses
<1>5. CASE Go(p, "dead", NoLoc) /\ UNCHANGED <<fd, inode, free_map>>
  <2>1. UNCHANGED files  BY <1>3, <1>5 DEF files, dvars
  <2>2. file_lock' \in Proc \cup {NoProc} /\ prog' \in [Proc -> Name]  BY <1>1, <1>3 DEF Typed, FTypeOK
  <2>3. "dead" \in Resting  BY DEF Resting
  <2> QED  BY <1>0, <1>1, <1>2, <1>5, <2>1, <2>2, <2>3, NoLocIs, WalksFree
<1> QED  BY <1>4, <1>5 DEF CloseAll

\* A call that ends with its file in a descriptor, or lost, and a program that
\* may start; x is who is in the kernel then, if anyone.
LEMMA HandsOver ==
    ASSUME World, NEW p \in Proc, Solo(p), pc[p] = "end", NEW o \in Obj, o = loc[p].inode,
           Typed', UNCHANGED <<dir, disk, map_disk, free_map>>,
           \A r \in Obj : r # o => inode'[r] = inode[r],
           inode'[o] # NoInode,
           /\ inode'[o].sector = inode[o].sector /\ inode'[o].open_cnt = inode[o].open_cnt
           /\ inode'[o].removed = inode[o].removed /\ inode'[o].data = inode[o].data,
           \A r \in Obj :
             /\ Cardinality(OpenFds(r)') + lost'[r].n = Cardinality(OpenFds(r)) + lost[r].n + (IF r = o THEN 1 ELSE 0)
             /\ lost'[r].deny =< lost'[r].n
             /\ inode'[r] # NoInode => inode'[r].deny_write_cnt = Cardinality(Denying(r)') + lost'[r].deny,
           NEW x \in Proc, \A q \in Proc : HoldsNothing(q)' /\ (q # x => pc'[q] \in Resting),
           pc'[x] \in Resting \/ (pc'[x] = "load" /\ loc'[x].call = "load")
    PROVE  FInv'
<1>0. pc[p] \notin Releasing \cup {"read"}  BY DEF Releasing
<1>1. loc[p].dir = NoObj  BY DEF Solo, PlaceAt
<1>2. Uses(p, o) /\ \A r \in Obj : Uses(p, r) => r = o  BY <1>0, <1>1, Constants DEF Uses
<1>3. inode[o] # NoInode /\ IsOpen(o)  BY <1>0, <1>2, InUse
<1>4. Fewer
  <2>1. \A r \in Obj : inode'[r] # NoInode =>
          inode[r] # NoInode /\ inode'[r].sector = inode[r].sector /\ (IsOpen(r)' => IsOpen(r))
    BY <1>3 DEF IsOpen
  <2> QED  BY <2>1 DEF Fewer
<1>5. \A r \in Obj : Gone(r)'
  <2>1. DirSectors' = DirSectors  BY DEF DirSectors
  <2> QED  BY <1>3, <2>1 DEF World, Gone
<1>6. World'
  <2>1. /\ Reserved \subseteq free_map' \cap map_disk'
        /\ \A y \in Live' : Span(y) \subseteq free_map'
    BY <1>4, Marked
  <2>2. \A y \in DirSectors' : Span(y) \subseteq map_disk'  BY <1>4, Marked
  <2> QED  BY <1>4, <1>5, <2>1, <2>2, WorldKept
<1>7. \A r \in Obj : ~Uses(x, r)' /\ ~Reads(x, r)' /\ ~Releases(x, r)'
  <2>1. pc'[x] \notin Releasing \cup {"read"}  BY DEF Resting, Releasing
  <2>2. loc'[x].dir = NoObj /\ loc'[x].inode = NoObj  BY DEF HoldsNothing
  <2> QED  BY <2>1, <2>2, Constants DEF Uses, Reads, Releases
<1>8. \A r \in Obj : ~Reads(p, r) /\ ~Releases(p, r)  BY <1>0 DEF Reads, Releases
<1>9. \A r \in Obj : BlockRead(x, r)'
  <2>1. \A r \in Obj : BlockRead(p, r)  BY DEF Solo
  <2>2. \A r \in Obj : r # o => BlockRead(x, r)'  BY <1>7, <1>8, <2>1 DEF BlockRead
  <2>3. BlockRead(x, o)'  BY <1>3, <1>7, <1>8, <2>1 DEF BlockRead
  <2> QED  BY <2>2, <2>3
<1>10. ASSUME NEW r \in Obj PROVE Counted(x, r)'
  <2>1. Counted(p, r)  BY DEF Solo
  <2>2. lost[r].n \in Nat /\ lost'[r].n \in Nat  BY DEF World, Typed, FTypeOK
  <2>3. Cardinality(OpenFds(r)) \in Nat /\ (Cardinality(OpenFds(r)) = 0 <=> OpenFds(r) = {})  BY FdsFinite
  <2>4. Cardinality(OpenFds(r)') \in Nat /\ (Cardinality(OpenFds(r)') = 0 <=> OpenFds(r)' = {})
    <3>1. OpenFds(r)' \subseteq Proc \X Fd  BY DEF OpenFds
    <3> QED  BY <3>1, FdSets, SMT
  <2>5. inode'[r] = NoInode => OpenFds(r)' = {} /\ lost'[r].n = 0
    <3> SUFFICES ASSUME inode'[r] = NoInode PROVE Cardinality(OpenFds(r)') = 0 /\ lost'[r].n = 0  BY <2>4
    <3>1. r # o  OBVIOUS
    <3>2. inode[r] = NoInode  BY <3>1
    <3>3. Cardinality(OpenFds(r)) = 0 /\ lost[r].n = 0  BY <2>1, <2>3, <3>2 DEF Counted
    <3>4. Cardinality(OpenFds(r)') + lost'[r].n = 0  BY <3>1, <3>3
    <3> QED  BY <2>2, <2>4, <3>4
  <2>6. inode'[r] # NoInode =>
          /\ inode'[r].open_cnt = Cardinality(OpenFds(r)') + lost'[r].n
          /\ inode'[r].open_cnt # 0
    <3> SUFFICES ASSUME inode'[r] # NoInode
                 PROVE  /\ inode'[r].open_cnt = Cardinality(OpenFds(r)') + lost'[r].n
                        /\ inode'[r].open_cnt # 0
      OBVIOUS
    <3>1. inode[r] # NoInode /\ inode'[r].open_cnt = inode[r].open_cnt  BY <1>3
    <3>2. inode[r].open_cnt = Cardinality(OpenFds(r)) + lost[r].n + (IF r = o THEN 1 ELSE 0)
      BY <1>2, <2>1, <3>1 DEF Counted
    <3>3. inode[r].open_cnt # 0  BY <1>8, <2>1, <3>1 DEF Counted
    <3> QED  BY <3>1, <3>2, <3>3
  <2> QED  BY <1>7, <2>2, <2>4, <2>5, <2>6 DEF Counted
<1>11. PlaceAt(x)'
  <2>1. HoldsNothing(x)' /\ loc'[x].dir = NoObj /\ loc'[x].inode = NoObj  BY DEF HoldsNothing
  <2>2. pc'[x] \notin InRoot \cup Releasing \cup Creating \cup {"read", "end"} /\ (pc'[x] = "load" => loc'[x].call = "load")
    BY DEF Resting, InRoot, Releasing, Creating
  <2> QED  BY <2>1, <2>2 DEF PlaceAt, InRoot
<1>12. HandAt(x)'
  <2>1. pc'[x] \notin Creating \cup Releasing  BY DEF Resting, Creating, Releasing
  <2> QED  BY <2>1 DEF HandAt, Creating
<1>13. Solo(x)'  BY <1>9, <1>10, <1>11, <1>12 DEF Solo
<1> QED  BY <1>6, <1>13 DEF FInv

\* Lose(), for a file that denies nobody.
LEMMA LosesOne ==
    ASSUME NEW l \in [Obj -> [n : Nat, deny : Nat]], NEW o \in Obj,
           NEW f, f = [inode |-> o, deny_write |-> FALSE]
    PROVE  /\ Lose(l, f) \in [Obj -> [n : Nat, deny : Nat]]
           /\ \A r \in Obj : /\ Lose(l, f)[r].n = l[r].n + (IF r = o THEN 1 ELSE 0)
                             /\ Lose(l, f)[r].deny = l[r].deny
<1>1. PICK k : k = [n |-> l[o].n + 1, deny |-> l[o].deny]  OBVIOUS
<1>2. k \in [n : Nat, deny : Nat] /\ k.n = l[o].n + 1 /\ k.deny = l[o].deny  BY <1>1
<1>3. Lose(l, f) = [l EXCEPT ![o] = k]
  <2>1. f.inode = o /\ f.deny_write = FALSE  OBVIOUS
  <2>2. l[o].n \in Nat /\ l[o].deny \in Nat  OBVIOUS
  <2>3. l[o].deny + (IF f.deny_write THEN 1 ELSE 0) = l[o].deny  BY <2>1, <2>2
  <2> QED  BY <1>1, <2>1, <2>3 DEF Lose
<1>4. PICK g : g = Lose(l, f)  OBVIOUS
<1>5. g = [l EXCEPT ![o] = k]  BY <1>3, <1>4
<1>6. g \in [Obj -> [n : Nat, deny : Nat]]  BY ONLY <1>2, <1>5, l \in [Obj -> [n : Nat, deny : Nat]], o \in Obj
<1>7. g[o] = k /\ \A r \in Obj : r # o => g[r] = l[r]  BY <1>5
<1>8. ASSUME NEW r \in Obj PROVE g[r].n = l[r].n + (IF r = o THEN 1 ELSE 0) /\ g[r].deny = l[r].deny
  <2>1. CASE r = o  BY <1>2, <1>7, <2>1
  <2>2. CASE r # o
    <3>1. l[r].n \in Nat  OBVIOUS
    <3> QED  BY <1>7, <2>2, <3>1
  <2> QED  BY <2>1, <2>2
<1> QED  BY <1>4, <1>6, <1>8

\* Setting a free descriptor adds exactly it.
LEMMA FdGained ==
    ASSUME Typed, NEW p \in Proc, NEW m \in Fd, fd[p][m] = NoFile, NEW g \in File,
           fd' = [fd EXCEPT ![p][m] = g], NEW o \in Obj, o = g.inode
    PROVE  /\ \A r \in Obj : r # o => OpenFds(r)' = OpenFds(r) /\ Denying(r)' = Denying(r)
           /\ Cardinality(OpenFds(o)') = Cardinality(OpenFds(o)) + 1
           /\ Cardinality(Denying(o)') = Cardinality(Denying(o)) + (IF g.deny_write THEN 1 ELSE 0)
<1>0. g # NoFile  BY Constants
<1>1. fd'[p][m] = g /\ \A q \in Proc, n \in Fd : <<q, n>> # <<p, m>> => fd'[q][n] = fd[q][n]
  <2>1. fd \in [Proc -> [Fd -> File \cup {NoFile}]]  BY DEF Typed, FTypeOK
  <2> QED  BY <2>1
<1>2. ASSUME NEW r \in Obj, r # o PROVE OpenFds(r)' = OpenFds(r) /\ Denying(r)' = Denying(r)
  <2>1. \A q \in Proc, n \in Fd : /\ <<q, n>> \in OpenFds(r)' <=> <<q, n>> \in OpenFds(r)
                                  /\ <<q, n>> \in Denying(r)' <=> <<q, n>> \in Denying(r)
    <3> SUFFICES ASSUME NEW q \in Proc, NEW n \in Fd
                 PROVE  /\ <<q, n>> \in OpenFds(r)' <=> <<q, n>> \in OpenFds(r)
                        /\ <<q, n>> \in Denying(r)' <=> <<q, n>> \in Denying(r)
      OBVIOUS
    <3>1. CASE <<q, n>> = <<p, m>>
      <4>1. q = p /\ n = m  BY <3>1
      <4>2. fd[q][n] = NoFile /\ fd'[q][n].inode # r  BY <1>1, <1>2, <4>1
      <4> QED  BY <4>2, OpenFdsAre, OpenFdsWillBe
    <3>2. CASE <<q, n>> # <<p, m>>
      <4>1. fd'[q][n] = fd[q][n]  BY <1>1, <3>2
      <4> QED  BY <4>1, OpenFdsAre, OpenFdsWillBe
    <3> QED  BY <3>1, <3>2
  <2>2. OpenFds(r)' = OpenFds(r)
    <3>1. /\ OpenFds(r) \subseteq Proc \X Fd /\ OpenFds(r)' \subseteq Proc \X Fd
          /\ \A q \in Proc, n \in Fd : <<q, n>> \in OpenFds(r)' <=> <<q, n>> \in OpenFds(r)
      BY <2>1, OpenFdsAre, OpenFdsWillBe
    <3> QED  BY ONLY <3>1, PairSets
  <2>3. Denying(r)' = Denying(r)
    <3>1. /\ Denying(r) \subseteq Proc \X Fd /\ Denying(r)' \subseteq Proc \X Fd
          /\ \A q \in Proc, n \in Fd : <<q, n>> \in Denying(r)' <=> <<q, n>> \in Denying(r)
      BY <2>1, OpenFdsAre, OpenFdsWillBe
    <3> QED  BY ONLY <3>1, PairSets
  <2> QED  BY <2>2, <2>3
<1>3. PICK x, D : x = <<p, m>> /\ D = (IF g.deny_write THEN {x} ELSE {})  OBVIOUS
<1>4. x \notin OpenFds(o) /\ x \notin Denying(o)  BY <1>3, OpenFdsAre
<1>5. OpenFds(o)' = OpenFds(o) \cup {x} /\ Denying(o)' = Denying(o) \cup D
  <2>1. \A q \in Proc, n \in Fd : /\ <<q, n>> \in OpenFds(o)' <=> <<q, n>> \in OpenFds(o) \cup {x}
                                  /\ <<q, n>> \in Denying(o)' <=> <<q, n>> \in Denying(o) \cup D
    <3> SUFFICES ASSUME NEW q \in Proc, NEW n \in Fd
                 PROVE  /\ <<q, n>> \in OpenFds(o)' <=> <<q, n>> \in OpenFds(o) \cup {x}
                        /\ <<q, n>> \in Denying(o)' <=> <<q, n>> \in Denying(o) \cup D
      OBVIOUS
    <3>1. CASE <<q, n>> = x
      <4>1. q = p /\ n = m  BY <1>3, <3>1
      <4>2. fd'[q][n] = g  BY <1>1, <4>1
      <4>3. <<q, n>> \in OpenFds(o)' /\ (<<q, n>> \in Denying(o)' <=> g.deny_write)
        BY <1>0, <4>2, OpenFdsWillBe
      <4>4. <<q, n>> \in D <=> g.deny_write  BY <1>3, <3>1
      <4> QED  BY <1>4, <3>1, <4>3, <4>4
    <3>2. CASE <<q, n>> # x
      <4>1. fd'[q][n] = fd[q][n]  BY <1>1, <1>3, <3>2
      <4>2. <<q, n>> \notin D  BY <1>3, <3>2
      <4>3. /\ <<q, n>> \in OpenFds(o)' <=> <<q, n>> \in OpenFds(o)
            /\ <<q, n>> \in Denying(o)' <=> <<q, n>> \in Denying(o)
        BY <4>1, OpenFdsAre, OpenFdsWillBe
      <4> QED  BY <3>2, <4>2, <4>3
    <3> QED  BY <3>1, <3>2
  <2>2. x \in Proc \X Fd /\ D \subseteq Proc \X Fd  BY <1>3
  <2>3. OpenFds(o)' = OpenFds(o) \cup {x}
    <3>1. /\ OpenFds(o) \cup {x} \subseteq Proc \X Fd /\ OpenFds(o)' \subseteq Proc \X Fd
          /\ \A q \in Proc, n \in Fd : <<q, n>> \in OpenFds(o)' <=> <<q, n>> \in OpenFds(o) \cup {x}
      BY <2>1, <2>2, OpenFdsAre, OpenFdsWillBe
    <3> QED  BY ONLY <3>1, PairSets
  <2>4. Denying(o)' = Denying(o) \cup D
    <3>1. /\ Denying(o) \cup D \subseteq Proc \X Fd /\ Denying(o)' \subseteq Proc \X Fd
          /\ \A q \in Proc, n \in Fd : <<q, n>> \in Denying(o)' <=> <<q, n>> \in Denying(o) \cup D
      BY <2>1, <2>2, OpenFdsAre, OpenFdsWillBe
    <3> QED  BY ONLY <3>1, PairSets
  <2> QED  BY <2>3, <2>4
<1>6. PICK S, E : S = OpenFds(o) /\ E = Denying(o)  OBVIOUS
<1>7. /\ IsFiniteSet(S) /\ IsFiniteSet(E) /\ Cardinality(S) \in Nat /\ Cardinality(E) \in Nat
      /\ x \notin S /\ x \notin E
  BY <1>4, <1>6, FdsFinite
<1>8. Cardinality(S \cup {x}) = Cardinality(S) + 1 /\ Cardinality(E \cup {x}) = Cardinality(E) + 1
  BY ONLY <1>7, FS_AddElement
<1>9. Cardinality(OpenFds(o)') = Cardinality(OpenFds(o)) + 1  BY <1>5, <1>6, <1>8
<1>10. Cardinality(Denying(o)') = Cardinality(Denying(o)) + (IF g.deny_write THEN 1 ELSE 0)
  <2>1. CASE g.deny_write  BY <1>3, <1>5, <1>6, <1>8, <2>1
  <2>2. CASE ~g.deny_write
    <3>1. Denying(o)' = Denying(o)  BY <1>3, <1>5, <2>2
    <3> QED  BY <1>6, <1>7, <2>2, <3>1
  <2> QED  BY <2>1, <2>2
<1> QED  BY <1>2, <1>9, <1>10

\* open() returns a descriptor, fails, or loses the file for want of one.
LEMMA EndOpenKeeps == ASSUME Serialized, FInv, NEW p \in Proc, EndOpen(p) PROVE FInv'
<1>0. pc[p] = "end" /\ pc[p] \notin Resting \cup Releasing \cup {"read"}
  BY DEF EndOpen, At, Resting, Releasing
<1>1. World /\ Solo(p) /\ Typed  BY <1>0, Turn DEF World
<1>2. PICK o, f, runs : /\ o = loc[p].inode /\ f = [inode |-> o, deny_write |-> FALSE]
                        /\ runs = (prog[p] = loc[p].name)
  OBVIOUS
<1>3. loc[p].dir = NoObj /\ loc[p] \in Loc /\ o \in Obj \cup {NoObj} /\ runs \in BOOLEAN
  BY <1>0, <1>1, <1>2 DEF Solo, PlaceAt, Typed, Loc, Locals
<1>4. UNCHANGED <<dir, disk, map_disk, free_map, prog>> /\ file_lock' = NoProc /\ Go(p, "idle", NoLoc)
  BY DEF EndOpen, dvars
<1>5. StepsTo(p, "idle", NoLoc)  BY <1>1, <1>4, GoSteps, NoLocIs DEF Labels, Resting
<1>6. \A q \in Proc : HoldsNothing(q)' /\ pc'[q] \in Resting
  <2>1. HoldsNothing(p)' /\ pc'[p] \in Resting  BY <1>5, NoLocIs DEF StepsTo, HoldsNothing, Resting
  <2>2. \A q \in Proc : q # p => HoldsNothing(q)' /\ pc'[q] \in Resting
    BY <1>1, <1>5 DEF Solo, StepsTo, HoldsNothing
  <2> QED  BY <2>1, <2>2
<1>7. CASE o = NoObj
  <2>1. UNCHANGED files  BY <1>2, <1>4, <1>7 DEF EndOpen, files
  <2>2. file_lock' \in Proc \cup {NoProc} /\ prog' \in [Proc -> Name]  BY <1>1, <1>4 DEF Typed, FTypeOK
  <2>3. HoldsNothing(p) /\ "idle" \in Resting  BY <1>2, <1>3, <1>7 DEF HoldsNothing, Resting
  <2> QED  BY <1>0, <1>1, <1>4, <2>1, <2>2, <2>3, NoLocIs, WalksFree
<1>8. CASE o \in Obj
  <2>1. /\ IsOpen(o) /\ inode[o] # NoInode /\ inode[o] \in Inode /\ f \in File /\ f.inode = o /\ ~f.deny_write
    <3>1. Uses(p, o)  BY <1>0, <1>2 DEF Uses
    <3> QED  BY <1>0, <1>1, <1>2, <1>8, <3>1, InUse DEF File
  <2>2. \A r \in Obj : /\ lost[r].n \in Nat /\ lost[r].deny \in Nat /\ lost[r].deny =< lost[r].n
                       /\ inode[r] # NoInode => inode[r].deny_write_cnt = Cardinality(Denying(r)) + lost[r].deny
                       /\ Cardinality(OpenFds(r)) \in Nat /\ Cardinality(Denying(r)) \in Nat
    BY <1>1, FdsFinite DEF Solo, Counted, Typed, FTypeOK
  <2>3. ASSUME NEW m \in Fd, fd[p][m] = NoFile, fd' = [fd EXCEPT ![p][m] = [f EXCEPT !.deny_write = runs]],
               inode' = IF runs THEN [inode EXCEPT ![o] = file_deny_write(f)] ELSE inode, UNCHANGED lost
        PROVE  FInv'
    <3>1. PICK g : g = [f EXCEPT !.deny_write = runs]  OBVIOUS
    <3>2. g \in File /\ g.inode = o /\ (g.deny_write <=> runs)  BY <1>2, <1>3, <2>1, <3>1 DEF File
    <3>3. PICK n \in Nat : n = inode[o].deny_write_cnt + 1  BY <2>1 DEF Inode
    <3>4. PICK j : j = IF runs THEN [inode[o] EXCEPT !.deny_write_cnt = n] ELSE inode[o]  OBVIOUS
    <3>5. /\ j \in Inode /\ j.sector = inode[o].sector /\ j.open_cnt = inode[o].open_cnt
          /\ j.removed = inode[o].removed /\ j.data = inode[o].data
          /\ j.deny_write_cnt = inode[o].deny_write_cnt + (IF runs THEN 1 ELSE 0)
      <4>1. CASE runs  BY <2>1, <3>3, <3>4, <4>1 DEF Inode
      <4>2. CASE ~runs
        <5>1. j = inode[o]  BY <3>4, <4>2
        <5> QED  BY <2>1, <4>2, <5>1 DEF Inode
      <4> QED  BY <4>1, <4>2
    <3>6. j # NoInode  BY <3>5, Constants
    <3>7. inode' \in [Obj -> Inode \cup {NoInode}] /\ inode'[o] = j /\ \A r \in Obj : r # o => inode'[r] = inode[r]
      <4>0. inode \in [Obj -> Inode \cup {NoInode}]  BY <1>1 DEF Typed, FTypeOK
      <4>1. CASE runs
        <5>1. inode' = [inode EXCEPT ![o] = j]
          BY <2>1, <2>3, <3>3, <3>4, <4>1 DEF file_deny_write, inode_deny_write
        <5> QED  BY <1>8, <3>5, <4>0, <5>1
      <4>2. CASE ~runs  BY <2>3, <3>4, <4>0, <4>2
      <4> QED  BY <1>3, <4>1, <4>2
    <3>8. fd' = [fd EXCEPT ![p][m] = g]  BY <2>3, <3>1
    <3>9. fd' \in [Proc -> [Fd -> File \cup {NoFile}]]
      <4>1. fd \in [Proc -> [Fd -> File \cup {NoFile}]]  BY <1>1 DEF Typed, FTypeOK
      <4> QED  BY <3>2, <3>8, <4>1
    <3>10. /\ \A r \in Obj : r # o => OpenFds(r)' = OpenFds(r) /\ Denying(r)' = Denying(r)
           /\ Cardinality(OpenFds(o)') = Cardinality(OpenFds(o)) + 1
           /\ Cardinality(Denying(o)') = Cardinality(Denying(o)) + (IF g.deny_write THEN 1 ELSE 0)
      BY <1>1, <1>8, <2>3, <3>2, <3>8, FdGained
    <3>11. Typed'  BY <1>1, <1>4, <1>5, <2>3, <3>7, <3>9 DEF Typed, FTypeOK, StepsTo
    <3>12. ASSUME NEW r \in Obj
           PROVE  /\ Cardinality(OpenFds(r)') + lost'[r].n = Cardinality(OpenFds(r)) + lost[r].n + (IF r = o THEN 1 ELSE 0)
                  /\ lost'[r].deny =< lost'[r].n
                  /\ inode'[r] # NoInode => inode'[r].deny_write_cnt = Cardinality(Denying(r)') + lost'[r].deny
      <4>1. lost' = lost  BY <2>3
      <4>2. CASE r # o
        <5>1. inode'[r] = inode[r]  BY <3>7, <4>2
        <5>2. OpenFds(r)' = OpenFds(r) /\ Denying(r)' = Denying(r)  BY <3>10, <4>2
        <5>3. Cardinality(OpenFds(r)) \in Nat /\ lost[r].n \in Nat  BY <2>2
        <5>4. Cardinality(OpenFds(r)') + lost'[r].n = Cardinality(OpenFds(r)) + lost[r].n  BY <4>1, <5>2
        <5>5. lost'[r].deny =< lost'[r].n  BY <2>2, <4>1
        <5>6. inode'[r] # NoInode => inode'[r].deny_write_cnt = Cardinality(Denying(r)') + lost'[r].deny
          BY <2>2, <4>1, <5>1, <5>2
        <5> QED  BY <4>2, <5>3, <5>4, <5>5, <5>6
      <4>3. CASE r = o
        <5>1. /\ Cardinality(OpenFds(r)) \in Nat /\ lost[r].n \in Nat /\ lost[r].deny \in Nat
              /\ Cardinality(Denying(r)) \in Nat
          BY <2>2
        <5>2. /\ Cardinality(OpenFds(r)') = Cardinality(OpenFds(r)) + 1
              /\ Cardinality(Denying(r)') = Cardinality(Denying(r)) + (IF runs THEN 1 ELSE 0)
          BY <3>2, <3>10, <4>3
        <5>3. Cardinality(OpenFds(r)') + lost'[r].n = Cardinality(OpenFds(r)) + lost[r].n + 1
          BY <4>1, <5>1, <5>2
        <5>4. lost'[r].deny =< lost'[r].n  BY <2>2, <4>1
        <5>5. inode[r].deny_write_cnt = Cardinality(Denying(r)) + lost[r].deny  BY <2>1, <2>2, <4>3
        <5>6. inode'[r].deny_write_cnt = inode[r].deny_write_cnt + (IF runs THEN 1 ELSE 0)
          BY <3>5, <3>7, <4>3
        <5>7. inode'[r].deny_write_cnt = Cardinality(Denying(r)') + lost'[r].deny
          BY <4>1, <5>1, <5>2, <5>5, <5>6
        <5> QED  BY <4>3, <5>3, <5>4, <5>7
      <4> QED  BY <4>2, <4>3
    <3> QED  BY <1>0, <1>1, <1>2, <1>4, <1>6, <1>8, <3>5, <3>6, <3>7, <3>11, <3>12, HandsOver
  <2>4. ASSUME lost' = Lose(lost, f), UNCHANGED <<fd, inode>>
        PROVE  FInv'
    <3>1. /\ lost' \in [Obj -> [n : Nat, deny : Nat]]
          /\ \A r \in Obj : lost'[r].n = lost[r].n + (IF r = o THEN 1 ELSE 0) /\ lost'[r].deny = lost[r].deny
      <4>1. lost \in [Obj -> [n : Nat, deny : Nat]]  BY <1>1 DEF Typed, FTypeOK
      <4> QED  BY <1>2, <1>8, <2>4, <4>1, LosesOne
    <3>2. Typed'  BY <1>1, <1>4, <1>5, <2>4, <3>1 DEF Typed, FTypeOK, StepsTo
    <3>3. \A r \in Obj : OpenFds(r)' = OpenFds(r) /\ Denying(r)' = Denying(r)  BY <2>4 DEF OpenFds, Denying
    <3>4. \A r \in Obj :
            /\ Cardinality(OpenFds(r)') + lost'[r].n = Cardinality(OpenFds(r)) + lost[r].n + (IF r = o THEN 1 ELSE 0)
            /\ lost'[r].deny =< lost'[r].n
            /\ inode'[r] # NoInode => inode'[r].deny_write_cnt = Cardinality(Denying(r)') + lost'[r].deny
      BY <2>2, <2>4, <3>1, <3>3
    <3>5. inode' = inode  BY <2>4
    <3> QED  BY <1>0, <1>1, <1>2, <1>4, <1>6, <1>8, <2>1, <3>2, <3>4, <3>5, HandsOver
  <2>5. o # NoObj  BY <1>8, Constants
  <2> QED  BY <1>2, <2>3, <2>4, <2>5 DEF EndOpen
<1> QED  BY <1>3, <1>7, <1>8

\* What a dead process left open is nobody's when its page is used again: the
\* descriptors of an inode are those that stay and those of the page.
Left(q, o) == {m \in Fd : fd[q][m] # NoFile /\ fd[q][m].inode = o}
LeftDenying(q, o) == {m \in Left(q, o) : fd[q][m].deny_write}

\* S is T and what is q's, M.
Parted(q, S, T, M) ==
    /\ S \subseteq Proc \X Fd /\ T \subseteq Proc \X Fd /\ M \subseteq Fd
    /\ \A r \in Proc, m \in Fd : <<r, m>> \in S <=> IF r = q THEN m \in M ELSE <<r, m>> \in T
    /\ \A m \in Fd : <<q, m>> \notin T

\* What a page has is taken off the rest.
LEMMA PageSets ==
    ASSUME NEW q \in Proc, NEW S, NEW T, NEW M, Parted(q, S, T, M)
    PROVE  /\ IsFiniteSet(M) /\ Cardinality(M) \in Nat
           /\ Cardinality(S) = Cardinality(T) + Cardinality(M)
<1>0. /\ S \subseteq Proc \X Fd /\ T \subseteq Proc \X Fd /\ M \subseteq Fd
      /\ \A r \in Proc, m \in Fd : <<r, m>> \in S <=> IF r = q THEN m \in M ELSE <<r, m>> \in T
      /\ \A m \in Fd : <<q, m>> \notin T
  BY Zenon DEF Parted
<1>1. PICK Q : Q = {q} \X M  OBVIOUS
<1>2. IsFiniteSet(T) /\ Cardinality(T) \in Nat  BY <1>0, FdSets
<1>3. IsFiniteSet(M) /\ Cardinality(M) \in Nat  BY <1>0, Constants, FS_Subset, FS_CardinalityType
<1>4. IsFiniteSet({q}) /\ Cardinality({q}) = 1  BY FS_Singleton
<1>5. IsFiniteSet(Q) /\ Cardinality(Q) = 1 * Cardinality(M)  BY ONLY <1>1, <1>3, <1>4, FS_Product
<1>6. T \cap Q = {}
  <2> SUFFICES ASSUME NEW f \in T, f \in Q PROVE FALSE  OBVIOUS
  <2>1. PICK m \in M : f = <<q, m>>  BY <1>1
  <2> QED  BY <1>0, <2>1
<1>7. S = T \cup Q
  <2>1. T \cup Q \subseteq Proc \X Fd  BY <1>0, <1>1
  <2>2. \A r \in Proc, m \in Fd : <<r, m>> \in Q <=> r = q /\ m \in M  BY <1>1
  <2>3. \A r \in Proc, m \in Fd : <<r, m>> \in S <=> <<r, m>> \in T \cup Q  BY <1>0, <2>2
  <2>4. S \subseteq Proc \X Fd  BY <1>0
  <2> QED  BY ONLY <2>1, <2>3, <2>4, PairSets
<1>8. Cardinality(T \cup Q) = Cardinality(T) + Cardinality(Q) - Cardinality(T \cap Q)
  BY ONLY <1>2, <1>5, FS_Union
<1>9. Cardinality(T \cap Q) = 0  BY <1>6, FS_EmptySet
<1> QED  BY <1>2, <1>3, <1>5, <1>7, <1>8, <1>9

\* The descriptors of all, when the page is used again.
LEMMA PageLost ==
    ASSUME Typed, NEW q \in Proc, fd' = [fd EXCEPT ![q] = NoFds], NEW o \in Obj
    PROVE  /\ Cardinality(Left(q, o)) \in Nat /\ Cardinality(LeftDenying(q, o)) \in Nat
           /\ Cardinality(LeftDenying(q, o)) =< Cardinality(Left(q, o))
           /\ Cardinality(OpenFds(o)) = Cardinality(OpenFds(o)') + Cardinality(Left(q, o))
           /\ Cardinality(Denying(o)) = Cardinality(Denying(o)') + Cardinality(LeftDenying(q, o))
<1>1. \A r \in Proc, m \in Fd : fd'[r][m] = IF r = q THEN NoFile ELSE fd[r][m]
  BY DEF Typed, FTypeOK, NoFds
<1>2. PICK S, T, M : S = OpenFds(o) /\ T = OpenFds(o)' /\ M = Left(q, o)  OBVIOUS
<1>3. PICK D, E, N : D = Denying(o) /\ E = Denying(o)' /\ N = LeftDenying(q, o)  OBVIOUS
<1>4. S \subseteq Proc \X Fd /\ T \subseteq Proc \X Fd /\ D \subseteq Proc \X Fd /\ E \subseteq Proc \X Fd
  BY <1>2, <1>3, OpenFdsAre, OpenFdsWillBe
<1>5. M \subseteq Fd /\ N \subseteq M  BY <1>2, <1>3 DEF Left, LeftDenying
<1>6. \A r \in Proc, m \in Fd : <<r, m>> \in S <=> IF r = q THEN m \in M ELSE <<r, m>> \in T
  <2> SUFFICES ASSUME NEW r \in Proc, NEW m \in Fd
               PROVE  <<r, m>> \in S <=> IF r = q THEN m \in M ELSE <<r, m>> \in T
    OBVIOUS
  <2>1. <<r, m>> \in S <=> fd[r][m] # NoFile /\ fd[r][m].inode = o  BY <1>2, OpenFdsAre
  <2>2. CASE r = q  BY <1>2, <2>1, <2>2 DEF Left
  <2>3. CASE r # q
    <3>1. fd'[r][m] = fd[r][m]  BY <1>1, <2>3
    <3>2. <<r, m>> \in T <=> fd'[r][m] # NoFile /\ fd'[r][m].inode = o  BY <1>2, OpenFdsWillBe
    <3> QED  BY <2>1, <2>3, <3>1, <3>2
  <2> QED  BY <2>2, <2>3
<1>7. \A m \in Fd : <<q, m>> \notin T /\ <<q, m>> \notin E  BY <1>1, <1>2, <1>3, OpenFdsWillBe
<1>8. \A r \in Proc, m \in Fd : <<r, m>> \in D <=> IF r = q THEN m \in N ELSE <<r, m>> \in E
  <2> SUFFICES ASSUME NEW r \in Proc, NEW m \in Fd
               PROVE  <<r, m>> \in D <=> IF r = q THEN m \in N ELSE <<r, m>> \in E
    BY Zenon
  <2>1. <<r, m>> \in D <=> fd[r][m] # NoFile /\ fd[r][m].inode = o /\ fd[r][m].deny_write
    BY <1>3, OpenFdsAre
  <2>2. CASE r = q  BY <1>3, <2>1, <2>2 DEF Left, LeftDenying
  <2>3. CASE r # q
    <3>1. fd'[r][m] = fd[r][m]  BY <1>1, <2>3
    <3>2. <<r, m>> \in E <=> fd'[r][m] # NoFile /\ fd'[r][m].inode = o /\ fd'[r][m].deny_write
      BY <1>3, OpenFdsWillBe
    <3> QED  BY <2>1, <2>3, <3>1, <3>2
  <2> QED  BY <2>2, <2>3
<1>9. /\ IsFiniteSet(M) /\ Cardinality(M) \in Nat /\ Cardinality(S) = Cardinality(T) + Cardinality(M)
  <2>1. q \in Proc  OBVIOUS
  <2>2. S \subseteq Proc \X Fd  BY <1>4
  <2>3. T \subseteq Proc \X Fd  BY <1>4
  <2>4. M \subseteq Fd  BY <1>5
  <2>5. \A m \in Fd : <<q, m>> \notin T  BY <1>7
  <2>6. Parted(q, S, T, M)  BY <1>6, <2>2, <2>3, <2>4, <2>5, Zenon DEF Parted
  <2> QED  BY ONLY <2>1, <2>6, PageSets
<1>10. /\ IsFiniteSet(N) /\ Cardinality(N) \in Nat /\ Cardinality(D) = Cardinality(E) + Cardinality(N)
  <2>1. q \in Proc  OBVIOUS
  <2>2. D \subseteq Proc \X Fd  BY <1>4
  <2>3. E \subseteq Proc \X Fd  BY <1>4
  <2>4. N \subseteq Fd  BY <1>5
  <2>5. \A m \in Fd : <<q, m>> \notin E  BY <1>7
  <2>6. Parted(q, D, E, N)  BY <1>8, <2>2, <2>3, <2>4, <2>5, Zenon DEF Parted
  <2> QED  BY ONLY <2>1, <2>6, PageSets
<1>11. Cardinality(N) =< Cardinality(M)  BY <1>5, <1>9, FS_Subset
<1> QED  BY <1>2, <1>3, <1>9, <1>10, <1>11

\* What is lost then.
LEMMA LoseAllIs ==
    ASSUME NEW q \in Proc
    PROVE  /\ DOMAIN LoseAll(q) = Obj
           /\ \A o \in Obj : LoseAll(q)[o] = [n |-> lost[o].n + Cardinality(Left(q, o)),
                                              deny |-> lost[o].deny + Cardinality(LeftDenying(q, o))]
BY DEF LoseAll, Left, LeftDenying

\* process_execute() drops its file and makes the child.
LEMMA EndExecKeeps == ASSUME Serialized, FInv, NEW p \in Proc, EndExec(p) PROVE FInv'
<1>0. pc[p] = "end" /\ loc[p].call = "exec" /\ pc[p] \notin Resting \cup Releasing \cup {"read"}
  BY DEF EndExec, At, Resting, Releasing
<1>1. World /\ Solo(p) /\ Typed  BY <1>0, Turn DEF World
<1>2. PICK o, f : o = loc[p].inode /\ f = [inode |-> o, deny_write |-> FALSE]  OBVIOUS
<1>3. loc[p].dir = NoObj /\ loc[p] \in Loc /\ o \in Obj \cup {NoObj}
  BY <1>0, <1>1, <1>2 DEF Solo, PlaceAt, Typed, Loc, Locals
<1>4. UNCHANGED <<dir, disk, map_disk, free_map, inode, file_lock>>  BY DEF EndExec, dvars
<1>5. /\ fd \in [Proc -> [Fd -> File \cup {NoFile}]] /\ lost \in [Obj -> [n : Nat, deny : Nat]]
      /\ prog \in [Proc -> Name] /\ pc \in [Proc -> Labels] /\ loc \in [Proc -> Loc]
      /\ file_lock' \in Proc \cup {NoProc}
  BY <1>1, <1>4 DEF Typed, FTypeOK
<1>6. \A q \in Proc : q # p => HoldsNothing(q) /\ pc[q] \in Resting  BY <1>1 DEF Solo
<1>7. /\ {"idle", "hung", "await", "load", "dead"} \subseteq Labels /\ {"idle", "hung", "await", "dead"} \subseteq Resting
      /\ "load" \notin Resting
  BY DEF Labels, Resting
<1>8. CASE o = NoObj
  <2>1. Go(p, "idle", NoLoc) /\ UNCHANGED <<fd, lost, prog>>  BY <1>2, <1>8 DEF EndExec
  <2>2. UNCHANGED files  BY <1>4, <2>1 DEF files
  <2>3. prog' \in [Proc -> Name]  BY <1>5, <2>1
  <2>4. HoldsNothing(p)  BY <1>2, <1>3, <1>8 DEF HoldsNothing
  <2> QED  BY <1>0, <1>1, <1>5, <1>7, <2>1, <2>2, <2>3, <2>4, NoLocIs, WalksFree
<1>9. CASE o \in Obj
  <2>0. o # NoObj  BY <1>9, Constants
  <2>1. /\ inode[o] # NoInode /\ f.inode = o
    <3>1. Uses(p, o)  BY <1>0, <1>2 DEF Uses
    <3> QED  BY <1>0, <1>1, <1>2, <1>9, <3>1, InUse
  <2>2. \A r \in Obj : /\ lost[r].n \in Nat /\ lost[r].deny \in Nat /\ lost[r].deny =< lost[r].n
                       /\ inode[r] # NoInode => inode[r].deny_write_cnt = Cardinality(Denying(r)) + lost[r].deny
                       /\ Cardinality(OpenFds(r)) \in Nat /\ Cardinality(Denying(r)) \in Nat
    BY <1>1, FdsFinite DEF Solo, Counted, Typed, FTypeOK
  <2>3. ASSUME lost' = Lose(lost, f), Go(p, "hung", NoLoc), UNCHANGED <<fd, prog>>
        PROVE  FInv'
    <3>1. /\ lost' \in [Obj -> [n : Nat, deny : Nat]]
          /\ \A r \in Obj : lost'[r].n = lost[r].n + (IF r = o THEN 1 ELSE 0) /\ lost'[r].deny = lost[r].deny
      BY <1>2, <1>5, <1>9, <2>3, LosesOne
    <3>2. StepsTo(p, "hung", NoLoc)  BY <1>1, <1>7, <2>3, GoSteps, NoLocIs
    <3>3. Typed'  BY <1>1, <1>4, <2>3, <3>1, <3>2 DEF Typed, FTypeOK, StepsTo
    <3>4. \A r \in Obj : OpenFds(r)' = OpenFds(r) /\ Denying(r)' = Denying(r)  BY <2>3 DEF OpenFds, Denying
    <3>5. \A r \in Obj :
            /\ Cardinality(OpenFds(r)') + lost'[r].n = Cardinality(OpenFds(r)) + lost[r].n + (IF r = o THEN 1 ELSE 0)
            /\ lost'[r].deny =< lost'[r].n
            /\ inode'[r] # NoInode => inode'[r].deny_write_cnt = Cardinality(Denying(r)') + lost'[r].deny
      BY <1>4, <2>2, <3>1, <3>4
    <3>6. \A q \in Proc : HoldsNothing(q)' /\ pc'[q] \in Resting
      <4>1. HoldsNothing(p)' /\ pc'[p] \in Resting  BY <1>7, <3>2, NoLocIs DEF StepsTo, HoldsNothing
      <4>2. \A q \in Proc : q # p => HoldsNothing(q)' /\ pc'[q] \in Resting
        BY <1>6, <3>2 DEF StepsTo, HoldsNothing
      <4> QED  BY <4>1, <4>2
    <3>7. inode' = inode  BY <1>4
    <3> QED  BY <1>0, <1>1, <1>2, <1>4, <1>9, <2>1, <3>3, <3>5, <3>6, <3>7, HandsOver
  <2>4. ASSUME NEW q \in Proc \ {main}, pc[q] = "dead", lost' = Lose(LoseAll(q), f), fd' = [fd EXCEPT ![q] = NoFds],
               prog' = [prog EXCEPT ![q] = loc[p].name], pc' = [pc EXCEPT ![p] = "await", ![q] = "load"],
               loc' = [loc EXCEPT ![p] = [NoLoc EXCEPT !.child = q], ![q] = Begin(q, "load", loc[p].name)]
        PROVE  FInv'
    <3>1. q \in Proc /\ q # p  BY <1>0, <2>4
    <3>2. PICK k : k = LoseAll(q)  OBVIOUS
    <3>3. \A r \in Obj :
            /\ Cardinality(Left(q, r)) \in Nat /\ Cardinality(LeftDenying(q, r)) \in Nat
            /\ Cardinality(LeftDenying(q, r)) =< Cardinality(Left(q, r))
            /\ Cardinality(OpenFds(r)) = Cardinality(OpenFds(r)') + Cardinality(Left(q, r))
            /\ Cardinality(Denying(r)) = Cardinality(Denying(r)') + Cardinality(LeftDenying(q, r))
            /\ Cardinality(OpenFds(r)') \in Nat /\ Cardinality(Denying(r)') \in Nat
      <4>1. \A r \in Obj : Cardinality(OpenFds(r)') \in Nat /\ Cardinality(Denying(r)') \in Nat
        BY FdSets, OpenFdsWillBe
      <4> QED  BY <1>1, <2>4, <3>1, <4>1, PageLost
    <3>4. \A r \in Obj : /\ k[r].n = lost[r].n + Cardinality(Left(q, r))
                         /\ k[r].deny = lost[r].deny + Cardinality(LeftDenying(q, r))
                         /\ k[r] \in [n : Nat, deny : Nat]
      <4> SUFFICES ASSUME NEW r \in Obj
                   PROVE  /\ k[r].n = lost[r].n + Cardinality(Left(q, r))
                          /\ k[r].deny = lost[r].deny + Cardinality(LeftDenying(q, r))
                          /\ k[r] \in [n : Nat, deny : Nat]
        OBVIOUS
      <4>1. PICK n \in Nat, d \in Nat : /\ n = lost[r].n + Cardinality(Left(q, r))
                                        /\ d = lost[r].deny + Cardinality(LeftDenying(q, r))
        BY <2>2, <3>3
      <4>2. k[r] = [n |-> n, deny |-> d]  BY <3>1, <3>2, <4>1, LoseAllIs
      <4> QED  BY <4>1, <4>2
    <3>5. k \in [Obj -> [n : Nat, deny : Nat]]
      <4>1. k = [r \in Obj |-> k[r]]  BY <3>2 DEF LoseAll
      <4> QED  BY <3>4, <4>1
    <3>6. /\ lost' \in [Obj -> [n : Nat, deny : Nat]]
          /\ \A r \in Obj : lost'[r].n = k[r].n + (IF r = o THEN 1 ELSE 0) /\ lost'[r].deny = k[r].deny
      BY <1>2, <1>9, <2>4, <3>2, <3>5, LosesOne
    <3>7. PICK a, b : a = [NoLoc EXCEPT !.child = q] /\ b = Begin(q, "load", loc[p].name)  OBVIOUS
    <3>8. a \in Loc /\ a.dir = NoObj /\ a.inode = NoObj
      <4>1. NoLoc \in Loc /\ NoLoc.dir = NoObj /\ NoLoc.inode = NoObj  BY NoLocIs
      <4> QED  BY <3>1, <3>7, <4>1 DEF Loc, Locals
    <3>9. loc[p].name \in Name  BY <1>0, <1>3 DEF Loc, Naming
    <3>10. b \in Loc /\ b.dir = NoObj /\ b.inode = NoObj /\ b.call = "load"  BY <3>7, <3>9, BeginIs
    <3>11. /\ loc' \in [Proc -> Loc] /\ loc'[p] = a /\ loc'[q] = b
           /\ \A r \in Proc : r # p /\ r # q => loc'[r] = loc[r]
      BY <1>5, <2>4, <3>1, <3>7, <3>8, <3>10
    <3>12. /\ pc' \in [Proc -> Labels] /\ pc'[p] = "await" /\ pc'[q] = "load"
           /\ \A r \in Proc : r # p /\ r # q => pc'[r] = pc[r]
      BY <1>5, <1>7, <2>4, <3>1
    <3>13. fd' \in [Proc -> [Fd -> File \cup {NoFile}]] /\ prog' \in [Proc -> Name]
      BY <1>5, <2>4, <3>1, <3>9 DEF NoFds
    <3>14. Typed'  BY <1>1, <1>4, <3>6, <3>11, <3>12, <3>13 DEF Typed, FTypeOK
    <3>15. ASSUME NEW r \in Obj
           PROVE  /\ Cardinality(OpenFds(r)') + lost'[r].n = Cardinality(OpenFds(r)) + lost[r].n + (IF r = o THEN 1 ELSE 0)
                  /\ lost'[r].deny =< lost'[r].n
                  /\ inode'[r] # NoInode => inode'[r].deny_write_cnt = Cardinality(Denying(r)') + lost'[r].deny
      <4>1. /\ lost'[r].n = lost[r].n + Cardinality(Left(q, r)) + (IF r = o THEN 1 ELSE 0)
            /\ lost'[r].deny = lost[r].deny + Cardinality(LeftDenying(q, r))
        BY <3>4, <3>6
      <4>2. Cardinality(OpenFds(r)') + lost'[r].n = Cardinality(OpenFds(r)) + lost[r].n + (IF r = o THEN 1 ELSE 0)
        BY <2>2, <3>3, <4>1
      <4>3. lost'[r].deny =< lost'[r].n  BY <2>2, <3>3, <4>1
      <4>4. inode'[r] # NoInode => inode'[r].deny_write_cnt = Cardinality(Denying(r)') + lost'[r].deny
        BY <1>4, <2>2, <3>3, <4>1
      <4> QED  BY <4>2, <4>3, <4>4
    <3>16. ASSUME NEW r \in Proc PROVE HoldsNothing(r)' /\ (r # q => pc'[r] \in Resting)
      <4>1. CASE r = p  BY <1>7, <3>8, <3>11, <3>12, <4>1 DEF HoldsNothing
      <4>2. CASE r = q  BY <3>10, <3>11, <4>2 DEF HoldsNothing
      <4>3. CASE r # p /\ r # q  BY <1>6, <3>11, <3>12, <4>3 DEF HoldsNothing
      <4> QED  BY <4>1, <4>2, <4>3
    <3>17. pc'[q] = "load" /\ loc'[q].call = "load"  BY <3>10, <3>11, <3>12
    <3>18. inode' = inode  BY <1>4
    <3> QED  BY <1>0, <1>1, <1>2, <1>4, <1>9, <2>1, <3>1, <3>14, <3>15, <3>16, <3>17, <3>18, HandsOver
  <2> QED  BY <1>2, <2>0, <2>3, <2>4 DEF EndExec
<1> QED  BY <1>3, <1>8, <1>9

-----------------------------------------------------------------------------
(* The machine starts.                                                      *)

Booted ==
  /\ dir \in [Slot -> Entry \cup {NoEntry}] /\ disk \in [Sector -> Extent] /\ map_disk \subseteq Sector
  /\ free_map = map_disk /\ Reserved \subseteq map_disk
  /\ \A s, t \in Slot : dir[s] # NoEntry /\ dir[t] # NoEntry /\ dir[s].sector = dir[t].sector => s = t
  /\ \A x \in DirSectors : Span(x) \subseteq map_disk \ Reserved
  /\ \A x, y \in DirSectors : x # y => Span(x) \cap Span(y) = {}
  /\ inode = NoInodes /\ fd = [p \in Proc |-> NoFds] /\ lost = NoneLost /\ file_lock = NoProc
  /\ prog = [p \in Proc |-> first] /\ pc = OnlyMain /\ loc = [p \in Proc |-> NoLoc]

\* The invariant holds of a machine that has just started.
LEMMA BootedHolds == Booted => FInv
<1> SUFFICES ASSUME Booted PROVE FInv  OBVIOUS
<1>1. \A o \in Obj : inode[o] = NoInode /\ lost[o].n = 0 /\ lost[o].deny = 0  BY DEF Booted, NoInodes, NoneLost
<1>2. \A p \in Proc, m \in Fd : fd[p][m] = NoFile  BY DEF Booted, NoFds
<1>3. \A p \in Proc : loc[p] = NoLoc /\ pc[p] = IF p = main THEN "idle" ELSE "dead"  BY DEF Booted, OnlyMain
<1>4. Typed
  <2>1. \A p \in Proc : first \in Name /\ NoLoc \in Loc /\ {"idle", "dead"} \subseteq Labels
    BY Constants, NoLocIs DEF Labels, Resting
  <2>2. /\ inode \in [Obj -> Inode \cup {NoInode}] /\ fd \in [Proc -> [Fd -> File \cup {NoFile}]]
        /\ lost \in [Obj -> [n : Nat, deny : Nat]]
    BY DEF Booted, NoInodes, NoFds, NoneLost
  <2>3. prog \in [Proc -> Name]  BY <2>1 DEF Booted
  <2>4. pc \in [Proc -> Labels]
    <3>1. pc = [p \in Proc |-> IF p = main THEN "idle" ELSE "dead"]  BY DEF Booted, OnlyMain
    <3> QED  BY <2>1, <3>1
  <2>5. loc \in [Proc -> Loc]  BY <2>1 DEF Booted
  <2> QED  BY <2>2, <2>3, <2>4, <2>5 DEF Booted, Typed, FTypeOK
<1>5. InMemory = {} /\ Live = DirSectors  BY <1>1 DEF InMemory, IsOpen, Live
<1>6. SpansKept  BY <1>5 DEF Booted, SpansKept
<1>7. World  BY <1>1, <1>4, <1>6 DEF World, Gone, SectorsApart
<1>8. \A p \in Proc : pc[p] \in Resting /\ HoldsNothing(p)  BY <1>3, NoLocIs DEF Resting, HoldsNothing
<1>9. PlaceAt(main) /\ HandAt(main)
  <2>1. main \in Proc /\ HoldsNothing(main) /\ pc[main] = "idle" /\ loc[main].call = "none"
    BY <1>3, <1>8, Constants, NoLocIs
  <2>2. PlaceAt(main)  BY <2>1 DEF PlaceAt, InRoot, Creating, Releasing, HoldsNothing
  <2> QED  BY <2>1, <2>2 DEF HandAt, Creating, Releasing
<1>10. ASSUME NEW o \in Obj PROVE Counted(main, o) /\ BlockRead(main, o)
  <2>1. OpenFds(o) = {}
    <3>1. OpenFds(o) \subseteq Proc \X Fd /\ \A p \in Proc, m \in Fd : <<p, m>> \notin OpenFds(o)
      BY <1>2, OpenFdsAre
    <3>2. {} \subseteq Proc \X Fd /\ \A p \in Proc, m \in Fd : <<p, m>> \notin {}  OBVIOUS
    <3> QED  BY ONLY <3>1, <3>2, PairSets
  <2>2. ~Uses(main, o)  BY <1>8, Constants DEF Uses, HoldsNothing
  <2> QED  BY <1>1, <2>1, <2>2 DEF Counted, BlockRead
<1>11. Solo(main)  BY <1>8, <1>9, <1>10 DEF Solo
<1> QED  BY <1>7, <1>11, Constants DEF FInv

\* Each program on the disk has the sector of its inode and the one after it.
LEMMA StartsBooted == FInit => Booted
<1> SUFFICES ASSUME FInit PROVE Booted  OBVIOUS
<1>1. \A s \in DOMAIN OnDisk : /\ s \in Slot /\ s \in Nat /\ s > 0 /\ OnDisk[s] \in Name
                               /\ 2 * s \in Sector /\ 2 * s + 1 \in Sector
                               /\ 2 * s \notin Reserved /\ 2 * s + 1 \notin Reserved
  BY Constants DEF Slot, Sector, Reserved
<1>2. dir \in [Slot -> Entry \cup {NoEntry}]
  <2>1. \A s \in DOMAIN OnDisk : [name |-> OnDisk[s], sector |-> 2 * s] \in Entry  BY <1>1 DEF Entry
  <2>2. dir = [s \in Slot |-> IF s \in DOMAIN OnDisk THEN [name |-> OnDisk[s], sector |-> 2 * s] ELSE NoEntry]
    BY DEF FInit
  <2> QED  BY <2>1, <2>2
<1>3. disk \in [Sector -> Extent]
  <2>1. \A x \in Sector : (\E s \in DOMAIN OnDisk : x = 2 * s) => x + 1 \in Sector  BY <1>1
  <2>2. [start |-> 0, len |-> 0] \in Extent  BY Constants DEF Extent
  <2>3. \A x \in Sector : (\E s \in DOMAIN OnDisk : x = 2 * s) => [start |-> x + 1, len |-> 1] \in Extent
    BY <2>1 DEF Extent
  <2>4. disk = [x \in Sector |-> IF \E s \in DOMAIN OnDisk : x = 2 * s
                                 THEN [start |-> x + 1, len |-> 1] ELSE [start |-> 0, len |-> 0]]
    BY DEF FInit
  <2> QED  BY <2>2, <2>3, <2>4
<1>4. map_disk \subseteq Sector /\ Reserved \subseteq map_disk /\ free_map = map_disk
  BY <1>1, Constants DEF FInit
<1>5. \A s \in Slot : dir[s] # NoEntry => s \in DOMAIN OnDisk /\ dir[s].sector = 2 * s
  BY DEF FInit
<1>6. \A s \in DOMAIN OnDisk : Span(2 * s) = {2 * s, 2 * s + 1}
  <2> SUFFICES ASSUME NEW s \in DOMAIN OnDisk PROVE Span(2 * s) = {2 * s, 2 * s + 1}  OBVIOUS
  <2>1. 2 * s \in Sector  BY <1>1
  <2>2. disk[2 * s] = [start |-> 2 * s + 1, len |-> 1]  BY <2>1 DEF FInit
  <2>3. Blocks(disk[2 * s]) = {2 * s + 1}
    <3>1. disk[2 * s].start = 2 * s + 1 /\ disk[2 * s].len = 1  BY <2>2
    <3>2. Blocks(disk[2 * s]) = (2 * s + 1) .. (2 * s + 1 + 1 - 1)  BY <3>1 DEF Blocks
    <3> QED  BY <1>1, <3>2
  <2> QED  BY <2>3 DEF Span
<1>7. \A x \in DirSectors : \E s \in DOMAIN OnDisk : x = 2 * s  BY <1>5 DEF DirSectors
<1>8. \A s, t \in Slot : dir[s] # NoEntry /\ dir[t] # NoEntry /\ dir[s].sector = dir[t].sector => s = t
  BY <1>1, <1>5
<1>9. \A s \in DOMAIN OnDisk : 2 * s \in map_disk /\ 2 * s + 1 \in map_disk  BY DEF FInit
<1>10. \A x \in DirSectors : Span(x) \subseteq map_disk \ Reserved  BY <1>1, <1>6, <1>7, <1>9
<1>11. \A x, y \in DirSectors : x # y => Span(x) \cap Span(y) = {}
  <2>1. TAKE x \in DirSectors, y \in DirSectors
  <2>2. HAVE x # y
  <2>3. PICK s \in DOMAIN OnDisk : x = 2 * s  BY <1>7
  <2>4. PICK t \in DOMAIN OnDisk : y = 2 * t  BY <1>7
  <2>5. Span(x) = {2 * s, 2 * s + 1} /\ Span(y) = {2 * t, 2 * t + 1}  BY <1>6, <2>3, <2>4
  <2>6. s \in Nat /\ t \in Nat /\ s # t  BY <1>1, <2>2, <2>3, <2>4
  <2>7. {2 * s, 2 * s + 1} \cap {2 * t, 2 * t + 1} = {}  BY <2>6
  <2> QED  BY <2>5, <2>7
<1> QED  BY <1>2, <1>3, <1>4, <1>8, <1>10, <1>11 DEF FInit, Booted

\* The disk is fit to start from, whenever the machine stops.
LEMMA Reboots == World /\ Reboot => Booted'
<1> SUFFICES ASSUME World, Reboot PROVE Booted'  OBVIOUS
<1>1. dir' = dir /\ disk' = disk /\ map_disk' = map_disk  BY DEF Reboot, dvars
<1>2. DirSectors' = DirSectors /\ \A x : Span(x)' = Span(x)  BY <1>1 DEF DirSectors, Span
<1>3. /\ Reserved \subseteq map_disk
      /\ \A s, t \in Slot : dir[s] # NoEntry /\ dir[t] # NoEntry /\ dir[s].sector = dir[t].sector => s = t
      /\ \A x \in DirSectors : Span(x) \subseteq map_disk \ Reserved
      /\ \A x, y \in DirSectors : x # y => Span(x) \cap Span(y) = {}
  BY DEF World, SpansKept, Live
<1>4. Typed  BY DEF World
<1>5. /\ dir' \in [Slot -> Entry \cup {NoEntry}] /\ disk' \in [Sector -> Extent] /\ map_disk' \subseteq Sector
  BY <1>1, <1>4 DEF Typed, FTypeOK
<1> QED  BY <1>1, <1>2, <1>3, <1>5 DEF Reboot, Booted

\* It starts again.
LEMMA RebootKeeps == FInv /\ Reboot => FInv'
<1>1. FInv => World  BY DEF FInv
<1>2. Booted => FInv  BY BootedHolds
<1> QED  BY <1>1, <1>2, Reboots, PTL

-----------------------------------------------------------------------------
(* The theorems.                                                            *)

\* Every step of a process keeps the invariant.
LEMMA StepKeeps == ASSUME Serialized, FInv, NEW p \in Proc, Step(p) PROVE FInv'
<1>1. CASE ReadInode(p) \/ ReleaseInode(p) \/ ReleaseData(p)
  BY <1>1, ReadInodeKeeps, ReleaseInodeKeeps, ReleaseDataKeeps
<1>2. CASE \/ \E n \in Name : RemoveFile(p, n) \/ Exec(p, n)
           \/ \E n \in Name, k \in 0 .. MaxLen : Create(p, n, k)
  BY <1>2, Begins
<1>3. CASE \/ \E n \in Name : Open(p, n)
           \/ \E m \in Fd \cup {1} : ReadWrite(p, "read", m) \/ ReadWrite(p, "write", m)
           \/ Exit(p)
  BY <1>3, ReadyToCall
<1>4. CASE Transfer(p) \/ Fault(p) \/ EndCreateRemove(p) \/ Loaded(p)
  BY <1>4, Passes
<1>5. CASE Kill(p) \/ Awake(p)
  BY <1>5, Unasked
<1>6. CASE Acquire(p) \/ Load(p) \/ Lookup(p)
  BY <1>6, AcquireKeeps, LoadKeeps, LookupKeeps
<1>7. CASE Alloc(p) \/ AllocData(p) \/ UndoWrite(p)
  BY <1>7, AllocKeeps, AllocDataKeeps, UndoWriteKeeps
<1>8. CASE DataWrite(p) \/ WriteInode(p)
  BY <1>8, WritesKeep
<1>9. CASE Add(p) \/ AddSlot(p)
  BY <1>9, AddsKeep
<1>10. CASE AddWrite(p) \/ Erase(p) \/ DirClose(p)
  BY <1>10, AddWriteKeeps, EraseKeeps, DirCloseKeeps
<1>11. CASE FileOpenFails(p) \/ EndLoad(p)
  BY <1>11, EndsClose
<1>12. CASE EndOpen(p) \/ EndExec(p)
  BY <1>12, EndOpenKeeps, EndExecKeeps
<1>13. CASE (\E m \in Fd : Close(p, m)) \/ CloseAll(p)
  BY <1>13, CloseKeeps, CloseAllKeeps
<1> QED
  BY <1>1, <1>2, <1>3, <1>4, <1>5, <1>6, <1>7, <1>8, <1>9, <1>10, <1>11, <1>12, <1>13, Zenon DEF Step

\* So does none.
LEMMA NobodyMoves == FInv /\ UNCHANGED vars => FInv'
<1> SUFFICES ASSUME FInv, UNCHANGED vars PROVE FInv'  OBVIOUS
<1>1. PICK p \in Proc : Solo(p)  BY DEF FInv
<1>2. UNCHANGED files /\ file_lock' = file_lock /\ prog' = prog /\ pc' = pc /\ loc' = loc
  BY DEF vars, dvars, kvars, files
<1>3. World /\ Typed  BY DEF FInv, World
<1>4. /\ pc' \in [Proc -> Labels] /\ loc' \in [Proc -> Loc] /\ prog' \in [Proc -> Name]
      /\ file_lock' \in Proc \cup {NoProc}
  BY <1>2, <1>3 DEF Typed, FTypeOK
<1>5. StepsTo(p, pc[p], loc[p])  BY <1>2, <1>4 DEF StepsTo
<1>6. SameHold(p)  BY <1>2 DEF SameHold, Uses, Reads, Releases
<1>7. PlaceAt(p)'
  <2>1. HasRoot(p)' <=> HasRoot(p)  BY <1>2 DEF HasRoot, files
  <2>2. HasEntry(p)' <=> HasEntry(p)  BY <1>2 DEF HasEntry, files
  <2>3. HoldsNothing(p)' <=> HoldsNothing(p)  BY <1>2 DEF HoldsNothing
  <2> QED  BY <1>1, <1>2, <2>1, <2>2, <2>3 DEF Solo, PlaceAt, files
<1>8. HandAt(p)'
  <2>1. Live' = Live /\ \A x : Span(x)' = Span(x)
    BY <1>2 DEF files, Live, Span, DirSectors, InMemory, IsOpen
  <2>2. \A S : Apart(S)' <=> Apart(S)  BY <2>1 DEF Apart
  <2>3. New(p)' = New(p)  BY <1>2 DEF New, Data
  <2> QED  BY <1>1, <1>2, <2>1, <2>2, <2>3 DEF Solo, HandAt, files
<1> QED  BY <1>1, <1>2, <1>3, <1>4, <1>5, <1>6, <1>7, <1>8, Walk

(* The inductive invariant, at every step of calls and reboots one at a time.*)
THEOREM FilesInvariant == Serialized => (FSpec => []FInv)
<1> SUFFICES ASSUME Serialized PROVE FSpec => []FInv  OBVIOUS
<1>1. FInit => FInv  BY StartsBooted, BootedHolds
<1>2. FInv /\ [FNext]_vars => FInv'  BY RebootKeeps, StepKeeps, NobodyMoves DEF FNext
<1> QED  BY <1>1, <1>2, PTL DEF FSpec

(* "opening a single inode twice returns the same `struct inode'" (inode.c:56),*)
(* and each counts its openers: descriptors, calls under way and lost files.*)
THEOREM InodesTrue == Serialized => (FSpec => []InodesExact)
<1> SUFFICES ASSUME Serialized PROVE FSpec => []InodesExact  OBVIOUS
<1>1. FSpec => []FInv  BY FilesInvariant
<1> QED  BY <1>1, InodesFollow, PTL

(* Writes to an inode are denied exactly by the open files that do so       *)
(* (file.c:116-141), which are no more than its openers (inode.c:326).      *)
THEOREM DenialsTrue == Serialized => (FSpec => []DenyExact)
<1> SUFFICES ASSUME Serialized PROVE FSpec => []DenyExact  OBVIOUS
<1>1. FSpec => []FInv  BY FilesInvariant
<1> QED  BY <1>1, DenialsFollow, PTL

(* The sectors of a file stay its own and marked as long as it has a name or*)
(* somebody has it open, whatever is created, removed and closed meanwhile. *)
THEOREM FilesKeepBlocks == Serialized => (FSpec => []BlocksKept)
<1> SUFFICES ASSUME Serialized PROVE FSpec => []BlocksKept  OBVIOUS
<1>1. FSpec => []FInv  BY FilesInvariant
<1>2. FInv => BlocksKept  BY BlocksFollow
<1> QED  BY <1>1, <1>2, PTL

(* The free map on the disk covers the files in the directory on the disk,  *)
(* whatever call the machine stops in.                                      *)
THEOREM StopsAnywhere == Serialized => (FSpec => []CrashSafe)
<1> SUFFICES ASSUME Serialized PROVE FSpec => []CrashSafe  OBVIOUS
<1>1. FSpec => []FInv  BY FilesInvariant
<1>2. FInv => CrashSafe  BY BlocksFollow
<1> QED  BY <1>1, <1>2, PTL
=============================================================================
