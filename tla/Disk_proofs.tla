----------------------------- MODULE Disk_proofs -----------------------------
(***************************************************************************)
(* The disks a drive's table describes are the ones the kernel finds, and   *)
(* the driver is the atomic store of BlockStore.tla: for any threads, any    *)
(* drives of one channel, any contents, and a controller that answers when   *)
(* it pleases.                                                               *)
(***************************************************************************)
EXTENDS Disk, FiniteSetTheorems, SequenceTheorems, WellFoundedInduction, TLAPS

\* What sectors hold: what they held at first, or what a thread wrote.
Stored == Value \cup UNION { Range(Contents[d]) : d \in Range(Drives) }
Datum == Stored \cup {Pending}
Drivers == {"select", "issue", "busy", "wait", "input", "unlock"}
BootPlace ==
  (Drivers \ {"busy"}) \cup
  {"reset", "await_reset", "detect", "probe", "lock", "parse", "table", "locate", "booted"}
Command == {"none", "identify", "read", "write"}

DTypeOK ==
  /\ at \in [Users -> {"idle", "return"} \cup Drivers \cup BootPlace]
  /\ \A t \in Thread : at[t] \in {"idle", "lock", "return"} \cup Drivers
  /\ at[Boot] \in BootPlace
  /\ op \in [Users -> [cmd : Command, dev : Range(Drives) \cup {NoDrive}, lba : Nat, data : Datum]]
  /\ asked \in [Thread -> Request \cup {NoRequest}]
  /\ lock \in Users \cup {Nobody} /\ expecting_interrupt \in BOOLEAN /\ completion_wait \in Nat
  /\ hw \in [dev : Range(Drives), lba : Nat, cmd : Command \cup {"reset"}, busy : BOOLEAN,
             drq : BOOLEAN, irq : BOOLEAN, taken : Datum]
  /\ disk = [d \in Range(Drives) |-> disk[d]]
  /\ \A d \in Range(Drives) : disk[d] \in [0 .. Hardware[d].capacity - 1 -> Stored]
  /\ is_ata \in [Range(Drives) -> BOOLEAN]
  /\ panicked \in BOOLEAN

-----------------------------------------------------------------------------
(***************************************************************************)
(* The channel: one thread drives it, and what the controller says belongs  *)
(* to that thread's command.                                                *)
(***************************************************************************)
Driving(t) == at[t] \in Drivers

\* Only the boot thread is about until the machine has booted; then a driver has the lock.
OneDriver ==
  /\ at[Boot] # "booted" => \A t \in Thread : at[t] = "idle" /\ op[t].cmd = "none"
  /\ \A t \in Thread : Driving(t) => lock = t

\* Nobody waits for the controller: no interrupt and no completion is on its way.
Quiet ==
  (\A t \in Users : at[t] \notin {"busy", "wait", "input"}) =>
    /\ ~hw.irq /\ completion_wait = 0 /\ ~hw.drq
    /\ hw.busy => at[Boot] = "await_reset"

Resetting == at[Boot] \in {"reset", "await_reset"} =>
  hw.taken = Pending /\ (at[Boot] = "await_reset" => hw.cmd = "reset")

\* Of the completion and the interrupt there is one, when the drive is done.
Awaiting ==
  IF hw.busy THEN ~hw.drq /\ ~hw.irq /\ completion_wait = 0
  ELSE IF hw.irq THEN completion_wait = 0 ELSE completion_wait = 1

Selected(t) == Driving(t) /\ at[t] # "select" => hw.dev = op[t].dev /\ hw.lba = op[t].lba
Issued(t) == at[t] \in {"busy", "wait"} => hw.cmd = op[t].cmd
AtBusy(t) ==
  at[t] = "busy" =>
    /\ op[t].cmd = "write" /\ hw.taken = Pending
    /\ hw.busy \/ hw.drq => ~hw.irq /\ completion_wait = 0
    /\ hw.busy => ~hw.drq
AtWait(t) ==
  at[t] = "wait" =>
    /\ Awaiting
    /\ op[t].cmd = "write" => hw.taken = op[t].data /\ ~hw.drq
    /\ op[t].cmd # "write" => hw.taken = Pending
AtInput(t) ==
  at[t] = "input" => op[t].cmd # "write" /\ ~hw.busy /\ ~hw.irq /\ completion_wait = 0

\* A command is for a sector of its drive.
InDrive(t) ==
  at[t] \in Drivers \cup {"lock"} =>
    op[t].cmd # "none" /\ op[t].dev \in Range(Drives) /\ op[t].lba < Hardware[op[t].dev].capacity

ChannelOK ==
  /\ OneDriver /\ Quiet /\ Resetting
  /\ \A t \in Users : /\ Selected(t) /\ Issued(t) /\ AtBusy(t) /\ AtWait(t) /\ AtInput(t)
                      /\ InDrive(t)

-----------------------------------------------------------------------------
(***************************************************************************)
(* What start-up has found so far.                                          *)
(***************************************************************************)
Kinds == {"raw", "kernel", "filesys", "scratch", "swap", "foreign"}

\* The blocks that lie in their drive.
Good == { b \in [dev : Range(Drives), part : Nat, type : Kinds, start : Nat, size : Nat] :
            b.start + b.size <= Hardware[b.dev].capacity }
BlocksOf(d) == { b \in Good : b.dev = d }

\* What is found on drive D once its tables are read.
Whole(d, s) ==
  IF ~is_ata[d] THEN s = <<>>
  ELSE IF Nested(d) THEN \E rest \in Seq(BlocksOf(d)) : s = <<Raw(d)>> \o rest
  ELSE s = <<Raw(d)>> \o Listed(d)

\* The blocks of the first N drives, and those drives are small enough.
AreBlocks(n, s) ==
  \/ n = 0 /\ s = <<>>
  \/ n = 1 /\ Whole(Drives[1], s)
  \/ n = 2 /\ \E a, b : Whole(Drives[1], a) /\ Whole(Drives[2], b) /\ s = a \o b
Fits(n) == \A i \in 1 .. n : is_ata[Drives[i]] => Hardware[Drives[i]].capacity < GB

\* The partitions of the table's first N entries.
Upto(d, n) ==
  CASE n = 0 -> <<>>
    [] n = 1 -> Entry(d, 1)
    [] n = 2 -> Entry(d, 1) \o Entry(d, 2)
    [] n = 3 -> Entry(d, 1) \o Entry(d, 2) \o Entry(d, 3)
    [] n = 4 -> Listed(d)

Current == op[Boot].dev
First == [sector |-> 0, primary |-> 0, i |-> 0, table |-> <<>>]
Top(n) == [First EXCEPT !.i = n, !.table = MBR(Current)]
HasTable == Contents[Current][0] \in DOMAIN Tables

Identifying == at[Boot] = "probe" \/ (op[Boot].cmd = "identify" /\ at[Boot] \in Drivers)
Reading == at[Boot] \in {"lock", "parse"} \/ (op[Boot].cmd = "read" /\ at[Boot] \in Drivers)

\* Behind the blocks of the earlier drives stand the current one and, of its partitions, S.
Begun(s) ==
  \E before : AreBlocks(Rank(Current) - 1, before) /\ all_blocks = (before \o <<Raw(Current)>>) \o s

\* The table is not read yet, is at an entry, has led to one outside the drive, or is done.
NotRead == scan = <<First>> /\ part_nr = 0 /\ Begun(<<>>)
AtEntry(n) ==
  HasTable /\ part_nr = Cardinality({ j \in Real(Current) : j < n }) /\ Begun(Upto(Current, n - 1))
PlainRead ==
  \/ NotRead
  \/ \E n \in 1 .. 5 : AtEntry(n) /\ scan = <<Top(n)>>
  \/ \E n \in 2 .. 5 : AtEntry(n) /\ \E f : /\ scan = <<Top(n), f>> /\ f.i = 0
                                         /\ f.sector >= Hardware[Current].capacity
  \/ scan = <<>> /\ AreBlocks(Rank(Current), all_blocks)

\* Where an extended partition begins in the drive, the same table is read again and again.
Frame(d) ==
  { f \in [sector : Nat, primary : Nat, i : 0 .. 5, table : {<<>>, MBR(d)}] : f.i # 0 => f.table = MBR(d) }
NestedRead ==
  part_nr \in Nat /\ scan \in Seq(Frame(Current)) /\ \E s \in Seq(BlocksOf(Current)) : Begun(s)

TableRead == IF Nested(Current) THEN NestedRead ELSE PlainRead
BeingRead == IF Nested(Current) THEN NestedRead /\ scan # <<>> ELSE NotRead

\* The drives before the current one are done; the current one has turned out to be used.
DrivesDone ==
  Current \in Range(Drives) /\ AreBlocks(Rank(Current) - 1, all_blocks) /\ Fits(Rank(Current) - 1)
InUse == Current \in Range(Drives) /\ is_ata[Current] /\ Fits(Rank(Current))

ScanOK ==
  /\ at[Boot] \in {"reset", "await_reset", "detect"} => all_blocks = <<>>
  /\ Identifying => DrivesDone
  /\ Reading \/ at[Boot] = "table" => InUse
  /\ at[Boot] \in Drivers => op[Boot].cmd \in {"identify", "read"}
  /\ Reading => BeingRead /\ op[Boot].lba = 0 /\ op[Boot].cmd = "read"
  /\ at[Boot] \in {"unlock", "parse"} => op[Boot].cmd = "read" /\ op[Boot].data = Contents[Current][0]
  /\ at[Boot] = "table" => TableRead
  /\ at[Boot] \in {"locate", "booted"} => AreBlocks(Len(Drives), all_blocks) /\ Fits(Len(Drives))
  /\ at[Boot] # "booted" => disk = Contents

-----------------------------------------------------------------------------
(***************************************************************************)
(* A role is given to a block of its type; a thread that is busy reads or    *)
(* writes for a caller.                                                     *)
(***************************************************************************)
RolesFit ==
  at[Boot] = "booted" =>
    \A r \in Role : roles[r] # 0 => all_blocks[roles[r]] \in Good /\ all_blocks[roles[r]].type = r

AskedOK(t) ==
  /\ at[t] = "idle" <=> asked[t] = NoRequest
  /\ at[t] # "idle" => op[t].cmd = "read" \/ (op[t].cmd = "write" /\ op[t].data \in Value)
  /\ at[t] \in {"unlock", "return"} /\ op[t].cmd = "read" => op[t].data \in Stored

DInv == DTypeOK /\ ChannelOK /\ ScanOK /\ RolesFit /\ \A t \in Thread : AskedOK(t)

(***************************************************************************)
(* When each role has one place: it is given to that partition, and what a   *)
(* thread does is what its caller asked for.                                *)
(***************************************************************************)
ForSector(t, r, s) ==
  /\ op[t].dev = Place[r].dev /\ op[t].lba = Place[r].start + s
  /\ \/ op[t].cmd = "read" /\ asked[t] = <<"read", <<r, s>>>>
     \/ op[t].cmd = "write" /\ asked[t] = <<"write", <<r, s>>, op[t].data>>

Placed(t) ==
  at[t] # "idle" => \E r \in DOMAIN Place : \E s \in 0 .. Place[r].size - 1 : ForSector(t, r, s)

RolesOK ==
  at[Boot] = "booted" =>
    \A r \in Role : roles[r] # 0 => r \in DOMAIN Place /\ all_blocks[roles[r]] = Place[r]

PlacesInv == RolesOK /\ \A t \in Thread : Placed(t)
-----------------------------------------------------------------------------
(***************************************************************************)
(* Lemmas about the drives and their tables.                                *)
(***************************************************************************)

\* The drives are different, and a drive's rank is its place among them.
LEMMA RankIs ==
  /\ \A i \in 1 .. Len(Drives) : Drives[i] \in Range(Drives) /\ Rank(Drives[i]) = i
  /\ \A d \in Range(Drives) : Rank(d) \in 1 .. Len(Drives) /\ Drives[Rank(d)] = d
<1>1. DOMAIN Drives = 1 .. Len(Drives)  BY DiskAssumption DEF DiskAssumption
<1>2. \A i \in 1 .. Len(Drives) : Drives[i] \in Range(Drives)  BY <1>1 DEF Range
<1>3. \A d \in Range(Drives) : \E i \in DOMAIN Drives : Drives[i] = d  BY DEF Range
<1>4. \A d \in Range(Drives) : Rank(d) \in DOMAIN Drives /\ Drives[Rank(d)] = d
  BY <1>3, Zenon DEF Rank
<1>5. \A i, j \in DOMAIN Drives : Drives[i] = Drives[j] => i = j
  BY DiskAssumption DEF DiskAssumption, IsInjective
<1> QED  BY <1>1, <1>2, <1>4, <1>5

\* The boot thread is a user of the channel and no caller, and Nobody is no user.
LEMMA UsersAre == Boot \in Users /\ Thread \subseteq Users /\ Boot \notin Thread /\ Nobody \notin Users
                  /\ (\A t \in Users : t # Boot => t \in Thread)
  BY DiskAssumption DEF DiskAssumption, Users

\* One of the drives is always selected.
LEMMA FirstDrive == Drives[1] \in Range(Drives) /\ Len(Drives) \in 1 .. 2
  BY RankIs, DiskAssumption DEF DiskAssumption

\* A drive is the master or the slave.
LEMMA MasterOrSlave ==
  ASSUME NEW d \in Range(Drives)
  PROVE  /\ Drives[Rank(d)] = d
         /\ Rank(d) = 1 \/ (Rank(d) = 2 /\ Len(Drives) = 2)
         /\ Rank(d) - 1 \in 0 .. Len(Drives) /\ Rank(d) \in 1 .. Len(Drives)
<1>1. Rank(d) \in 1 .. Len(Drives) /\ Drives[Rank(d)] = d /\ Len(Drives) \in 1 .. 2  BY RankIs, FirstDrive
<1>2. CASE Len(Drives) = 1  BY <1>1, <1>2
<1>3. CASE Len(Drives) = 2  BY <1>1, <1>3
<1> QED  BY <1>1, <1>2, <1>3

\* What an entry of a drive's table is made of.
LEMMA EntryIs ==
  ASSUME NEW d \in Range(Drives), Contents[d][0] \in DOMAIN Tables, NEW i \in 1 .. 4
  PROVE  MBR(d)[i] \in [type : 0 .. 255, offset : 0 .. MaxSector, size : 0 .. MaxSector]
<1>1. Tables[Contents[d][0]] \in [1 .. 4 -> [type : 0 .. 255, offset : 0 .. MaxSector, size : 0 .. MaxSector]]
  BY DiskAssumption, Zenon DEF DiskAssumption
<1> QED  BY <1>1 DEF MBR

\* A partition of the tables lies in its drive.
LEMMA PartitionLies ==
  ASSUME NEW d \in Range(Drives), NEW i \in Inside(d)
  PROVE  /\ i \in 1 .. 4 /\ i \in Real(d) /\ Partition(d, i).dev = d
         /\ Partition(d, i).start \in Nat /\ Partition(d, i).size \in Nat \ {0}
         /\ Partition(d, i).start + Partition(d, i).size <= Hardware[d].capacity
         /\ Partition(d, i).type = block_type(MBR(d)[i].type)
<1>1. i \in Real(d) /\ MBR(d)[i].offset + MBR(d)[i].size <= Hardware[d].capacity  BY DEF Inside
<1>2. Contents[d][0] \in DOMAIN Tables /\ i \in 1 .. 4 /\ MBR(d)[i].size # 0  BY <1>1 DEF Real
<1>3. MBR(d)[i] \in [type : 0 .. 255, offset : 0 .. MaxSector, size : 0 .. MaxSector] /\ MaxSector \in Nat
  <2>1. MaxSector \in Nat  BY DiskAssumption DEF DiskAssumption
  <2> QED  BY <1>2, <2>1, EntryIs
<1> QED  BY <1>1, <1>2, <1>3 DEF Partition

\* The sectors of a role are sectors of its drive, of as many as a block_sector_t counts.
LEMMA PlaceLies ==
  ASSUME NEW r \in DOMAIN Place
  PROVE  /\ Place[r] \in Partitions /\ Place[r].type = r /\ r \in Role
         /\ Place[r].dev \in Range(Drives) /\ Place[r].start \in Nat /\ Place[r].size \in Nat
         /\ Place[r].start + Place[r].size <= Hardware[Place[r].dev].capacity
<1>1. r \in Role /\ \E b \in Partitions : b.type = r  BY DEF Place
<1>2. Place[r] = CHOOSE b \in Partitions : b.type = r  BY <1>1 DEF Place
<1>3. Place[r] \in Partitions /\ Place[r].type = r
  <2>1. PICK p : p = CHOOSE b \in Partitions : b.type = r  OBVIOUS
  <2>2. p \in Partitions /\ p.type = r  BY <1>1, <2>1, Zenon
  <2> QED  BY <1>2, <2>1, <2>2
<1>4. PICK d \in Range(Drives) : \E i \in Inside(d) : Place[r] = Partition(d, i)
  BY <1>3 DEF Partitions
<1> QED  BY <1>1, <1>3, <1>4, PartitionLies

\* What a thread wants to write and what sectors hold is not the mark of a transfer that has
\* not been done.
LEMMA StoredIs == Pending \notin Stored /\ Value \subseteq Stored
<1>1. \A d \in Range(Drives) : Pending \notin Range(Contents[d])
  <2> SUFFICES ASSUME NEW d \in Range(Drives) PROVE Pending \notin Range(Contents[d])  OBVIOUS
  <2>1. Contents[d] \in [0 .. Hardware[d].capacity - 1 -> Range(Contents[d]) \ {Pending}]
    BY DiskAssumption DEF DiskAssumption
  <2>2. \A l \in DOMAIN Contents[d] : Contents[d][l] # Pending  BY <2>1
  <2> QED  BY <2>2 DEF Range
<1> QED  BY <1>1, DiskAssumption DEF DiskAssumption, Stored

\* What the drives hold at first is among what sectors hold.
LEMMA ContentsStored ==
  ASSUME NEW d \in Range(Drives)
  PROVE  Contents[d] \in [0 .. Hardware[d].capacity - 1 -> Stored]
<1>1. Contents[d] \in [0 .. Hardware[d].capacity - 1 -> Range(Contents[d]) \ {Pending}]
  BY DiskAssumption DEF DiskAssumption
<1>2. Range(Contents[d]) \subseteq Stored  BY DEF Stored
<1> QED  BY <1>1, <1>2

\* A drive has a sector at least.
LEMMA CapacityIs == \A d \in Range(Drives) : Hardware[d].capacity \in Nat \ {0}
  BY DiskAssumption DEF DiskAssumption

-----------------------------------------------------------------------------
(***************************************************************************)
(* The initial states.                                                      *)
(***************************************************************************)
LEMMA TypeStarts == DiskInit => DTypeOK
<1> SUFFICES ASSUME DiskInit PROVE DTypeOK  OBVIOUS
<1> USE DEF DiskInit
<1>1. Boot \in Users /\ Thread \subseteq Users /\ Boot \notin Thread
  BY DiskAssumption DEF DiskAssumption, Users
<1>2. at \in [Users -> {"idle", "return"} \cup Drivers \cup BootPlace]  BY DEF BootPlace
<1>3. (\A t \in Thread : at[t] = "idle") /\ at[Boot] = "reset"  BY <1>1
<1>4. NoOp \in [cmd : Command, dev : Range(Drives) \cup {NoDrive}, lba : Nat, data : Datum]
  BY DEF NoOp, Command, Datum
<1>5. hw \in [dev : Range(Drives), lba : Nat, cmd : Command \cup {"reset"}, busy : BOOLEAN,
              drq : BOOLEAN, irq : BOOLEAN, taken : Datum]
  BY FirstDrive DEF Command, Datum
<1>6. disk = [d \in Range(Drives) |-> disk[d]]  BY DiskAssumption DEF DiskAssumption
<1>7. \A d \in Range(Drives) : disk[d] \in [0 .. Hardware[d].capacity - 1 -> Stored]
  BY ContentsStored
<1> QED  BY <1>2, <1>3, <1>4, <1>5, <1>6, <1>7 DEF DTypeOK, BootPlace

\* At first nobody drives the channel.
LEMMA ChannelStarts == DiskInit => ChannelOK
<1> SUFFICES ASSUME DiskInit PROVE ChannelOK  OBVIOUS
<1>1. Boot \in Users /\ Thread \subseteq Users /\ Boot \notin Thread
  BY DiskAssumption DEF DiskAssumption, Users
<1>2. \A t \in Users : at[t] = IF t = Boot THEN "reset" ELSE "idle"  BY DEF DiskInit
<1>3. \A t \in Users : op[t].cmd = "none"  BY DEF DiskInit, NoOp
<1>4. ~hw.irq /\ ~hw.drq /\ ~hw.busy /\ completion_wait = 0 /\ hw.taken = Pending  BY DEF DiskInit
<1> QED
  BY <1>1, <1>2, <1>3, <1>4
     DEF ChannelOK, OneDriver, Quiet, Resetting, Selected, Issued, AtBusy, AtWait, AtInput, InDrive,
         Driving, Drivers

\* At first nothing is found, no role is taken and nobody has asked.
LEMMA RestStarts == DiskInit => ScanOK /\ RolesFit /\ \A t \in Thread : AskedOK(t)
<1> SUFFICES ASSUME DiskInit PROVE ScanOK /\ RolesFit /\ \A t \in Thread : AskedOK(t)  OBVIOUS
<1>1. Boot \in Users /\ Thread \subseteq Users /\ Boot \notin Thread
  BY DiskAssumption DEF DiskAssumption, Users
<1>2. \A t \in Users : at[t] = IF t = Boot THEN "reset" ELSE "idle"  BY DEF DiskInit
<1>3. ScanOK  BY <1>1, <1>2 DEF ScanOK, DiskInit, Identifying, Reading, Drivers
<1>4. RolesFit  BY <1>1, <1>2 DEF RolesFit
<1>5. \A t \in Thread : AskedOK(t)
  BY <1>1, <1>2 DEF AskedOK, DiskInit
<1> QED  BY <1>3, <1>4, <1>5
-----------------------------------------------------------------------------
(***************************************************************************)
(* Every step keeps the types.                                              *)
(***************************************************************************)
Places == {"idle", "return"} \cup Drivers \cup BootPlace
Ops == [cmd : Command, dev : Range(Drives) \cup {NoDrive}, lba : Nat, data : Datum]
Registers == [dev : Range(Drives), lba : Nat, cmd : Command \cup {"reset"}, busy : BOOLEAN,
              drq : BOOLEAN, irq : BOOLEAN, taken : Datum]

\* The request of a user goes to another drive.
LEMMA DevMoves ==
  ASSUME op \in [Users -> Ops], NEW t \in Users, NEW d \in Range(Drives), op' = [op EXCEPT ![t].dev = d]
  PROVE  op' \in [Users -> Ops]
<1>1. PICK o : o = [op[t] EXCEPT !.dev = d]  OBVIOUS
<1>2. o \in Ops
  <2>1. op[t] \in Ops  OBVIOUS
  <2> QED  BY <1>1, <2>1 DEF Ops
<1>3. op' = [op EXCEPT ![t] = o]  BY <1>1, Zenon
<1> QED  BY <1>2, <1>3

\* A thread goes to a place of its own.
LEMMA AtMoves ==
  ASSUME DTypeOK, NEW t \in Users, NEW p \in Places,
         t \in Thread => p \in {"idle", "lock", "return"} \cup Drivers, t = Boot => p \in BootPlace,
         at' = [at EXCEPT ![t] = p]
  PROVE  /\ at' \in [Users -> Places]
         /\ \A u \in Thread : at'[u] \in {"idle", "lock", "return"} \cup Drivers
         /\ at'[Boot] \in BootPlace
<1>1. at \in [Users -> Places]  BY DEF DTypeOK, Places
<1>2. /\ \A u \in Thread : at[u] \in {"idle", "lock", "return"} \cup Drivers
      /\ at[Boot] \in BootPlace
  BY DEF DTypeOK
<1>3. \A u \in Users : at'[u] = IF u = t THEN p ELSE at[u]  BY <1>1
<1>4. at' \in [Users -> Places]  BY <1>1
<1> QED  BY <1>2, <1>3, <1>4, UsersAre

\* What a step leaves of the type invariant to be shown.
LEMMA TypeFrom ==
  ASSUME DTypeOK,
         /\ at' \in [Users -> Places]
         /\ \A u \in Thread : at'[u] \in {"idle", "lock", "return"} \cup Drivers
         /\ at'[Boot] \in BootPlace,
         op' \in [Users -> Ops], asked' \in [Thread -> Request \cup {NoRequest}],
         lock' \in Users \cup {Nobody}, expecting_interrupt' \in BOOLEAN, completion_wait' \in Nat,
         hw' \in Registers, disk' = disk, is_ata' \in [Range(Drives) -> BOOLEAN], panicked' \in BOOLEAN
  PROVE  DTypeOK'
<1>1. disk' = [d \in Range(Drives) |-> disk'[d]]  BY DEF DTypeOK
<1>2. \A d \in Range(Drives) : disk'[d] \in [0 .. Hardware[d].capacity - 1 -> Stored]  BY DEF DTypeOK
<1> QED  BY <1>1, <1>2 DEF DTypeOK, Places, Ops, Registers

\* The steps of a thread keep the types.
LEMMA ThreadTypes ==
  ASSUME DInv, NEW t \in Users, ide_lock(t) \/ Io(t)
  PROVE  DTypeOK'
<1> USE DEF Ops, Registers, Places, Drivers, BootPlace
<1>0. DTypeOK /\ at \in [Users -> Places] /\ op \in [Users -> Ops] /\ hw \in Registers
      /\ asked \in [Thread -> Request \cup {NoRequest}]
      /\ lock \in Users \cup {Nobody} /\ expecting_interrupt \in BOOLEAN /\ completion_wait \in Nat
      /\ is_ata \in [Range(Drives) -> BOOLEAN] /\ panicked \in BOOLEAN
  BY DEF DInv, DTypeOK
<1>1. CASE ide_lock(t)
  <2>1. at' = [at EXCEPT ![t] = "select"] /\ lock' = t  BY <1>1 DEF ide_lock
  <2>2. UNCHANGED <<op, asked, expecting_interrupt, completion_wait, hw, disk, is_ata, panicked>>
    BY <1>1 DEF ide_lock, found
  <2> QED  BY <1>0, <2>1, <2>2, AtMoves, TypeFrom, UsersAre
<1>2. CASE select_sector(t)
  <2>1. at' = [at EXCEPT ![t] = "issue"] /\ at[t] = "select"  BY <1>2 DEF select_sector
  <2>2. UNCHANGED <<op, asked, lock, expecting_interrupt, completion_wait, disk, is_ata, panicked>>
    BY <1>2 DEF select_sector, found, channel
  <2>3. InDrive(t)  BY DEF DInv, ChannelOK
  <2>4. op[t].dev \in Range(Drives) /\ op[t].lba \in Nat  BY <1>0, <2>1, <2>3 DEF InDrive
  <2>5. hw' = [[hw EXCEPT !.dev = op[t].dev] EXCEPT !.lba = op[t].lba, !.irq = FALSE]
    BY <1>2 DEF select_sector, select_device
  <2>6. hw' \in Registers  BY <1>0, <2>4, <2>5
  <2> QED  BY <1>0, <2>1, <2>2, <2>6, AtMoves, TypeFrom, UsersAre
<1>3. CASE issue_pio_command(t)
  <2>1. PICK p \in {"busy", "wait"} : at' = [at EXCEPT ![t] = p] /\ (p = "busy" => op[t].cmd = "write")
    BY <1>3 DEF issue_pio_command
  <2>2. UNCHANGED <<op, asked, lock, completion_wait, disk, is_ata, panicked>> /\ expecting_interrupt' = TRUE
    BY <1>3 DEF issue_pio_command, found
  <2>3. op[t].cmd \in Command /\ Pending \in Datum  BY <1>0 DEF Datum
  <2>5. hw' = [hw EXCEPT !.cmd = op[t].cmd, !.busy = TRUE, !.taken = Pending]
    BY <1>3 DEF issue_pio_command
  <2>6. hw' \in Registers  BY <1>0, <2>3, <2>5
  <2>7. t = Boot => p # "busy"
    <3>1. t = Boot => op[Boot].cmd # "write"  BY <1>3 DEF DInv, ScanOK, issue_pio_command
    <3> QED  BY <3>1, <2>1
  <2> QED  BY <1>0, <2>1, <2>2, <2>6, <2>7, AtMoves, TypeFrom, UsersAre
<1>4. CASE output_sector(t)
  <2>1. at[t] = "busy" /\ (at' = [at EXCEPT ![t] = "wait"] \/ at' = [at EXCEPT ![t] = "busy"])
    BY <1>0, <1>4 DEF output_sector
  <2>2. UNCHANGED <<op, asked, lock, expecting_interrupt, completion_wait, disk, is_ata>> /\ panicked' \in BOOLEAN
    BY <1>0, <1>4 DEF output_sector, found, channel
  <2>3. hw' = [hw EXCEPT !.drq = FALSE, !.busy = TRUE, !.taken = op[t].data] \/ hw' = hw
    BY <1>4 DEF output_sector
  <2>4. op[t].data \in Datum  BY <1>0
  <2>6. hw' \in Registers  BY <1>0, <2>3, <2>4
  <2>7. t # Boot  BY <2>1 DEF DInv, DTypeOK
  <2> QED  BY <1>0, <2>1, <2>2, <2>6, <2>7, AtMoves, TypeFrom, UsersAre
<1>5. CASE await_completion(t)
  <2>1. PICK p \in {"unlock", "input"} : at' = [at EXCEPT ![t] = p]  BY <1>5 DEF await_completion
  <2>2. UNCHANGED <<op, asked, lock, expecting_interrupt, hw, disk, is_ata, panicked>>
    BY <1>5 DEF await_completion, found
  <2>3. completion_wait' \in Nat  BY <1>0, <1>5 DEF await_completion
  <2> QED  BY <1>0, <2>1, <2>2, <2>3, AtMoves, TypeFrom, UsersAre
<1>6. CASE input_sector(t)
  <2>1. PICK p \in {"unlock", "input"} : at' = [at EXCEPT ![t] = p]  BY <1>0, <1>6 DEF input_sector
  <2>2. UNCHANGED <<asked, lock, expecting_interrupt, completion_wait, disk, is_ata>> /\ panicked' \in BOOLEAN
    BY <1>0, <1>6 DEF input_sector, found, channel
  <2>3. hw' = [hw EXCEPT !.drq = FALSE]  BY <1>6 DEF input_sector
  <2>4. hw' \in Registers  BY <1>0, <2>3
  <2>5. disk[hw.dev][hw.lba] \in Datum
    <3>1. InDrive(t) /\ Selected(t) /\ at[t] = "input"  BY <1>6 DEF DInv, ChannelOK, input_sector
    <3>2. hw.dev \in Range(Drives) /\ hw.lba < Hardware[hw.dev].capacity /\ hw.lba \in Nat
      BY <1>0, <3>1 DEF InDrive, Selected, Driving
    <3>3. disk[hw.dev] \in [0 .. Hardware[hw.dev].capacity - 1 -> Stored]  BY <3>2 DEF DInv, DTypeOK
    <3> QED  BY <3>2, <3>3, CapacityIs DEF Datum
  <2>6. op' \in [Users -> Ops]
    <3>1. PICK v \in Datum : v = disk[hw.dev][hw.lba]  BY <2>5
    <3>2. op' = [op EXCEPT ![t].data = v] \/ op' = op  BY <1>6, <3>1 DEF input_sector
    <3> QED  BY <1>0, <3>2
  <2> QED  BY <1>0, <2>1, <2>2, <2>4, <2>6, AtMoves, TypeFrom, UsersAre
<1>7. CASE ide_unlock(t)
  <2>1. PICK p \in {"parse", "return"} : at' = [at EXCEPT ![t] = p] /\ (p = "parse" <=> t = Boot)
    BY <1>7 DEF ide_unlock
  <2>2. UNCHANGED <<op, asked, expecting_interrupt, completion_wait, hw, disk, is_ata, panicked>> /\ lock' = Nobody
    BY <1>7 DEF ide_unlock, found
  <2> QED  BY <1>0, <2>1, <2>2, AtMoves, TypeFrom, UsersAre
<1>8. CASE t # Boot /\ Return(t)
  <2>1. at' = [at EXCEPT ![t] = "idle"] /\ asked' = [asked EXCEPT ![t] = NoRequest]  BY <1>8 DEF Return
  <2>2. UNCHANGED <<op, lock, expecting_interrupt, completion_wait, hw, disk, is_ata, panicked>>
    BY <1>8 DEF Return, found, channel
  <2>3. asked' \in [Thread -> Request \cup {NoRequest}]  BY <1>0, <2>1
  <2> QED  BY <1>0, <1>8, <2>1, <2>2, <2>3, AtMoves, TypeFrom, UsersAre
<1> QED  BY <1>1, <1>2, <1>3, <1>4, <1>5, <1>6, <1>7, <1>8 DEF Io

\* The boot thread goes on to the next drive, or has looked at them all.
LEMMA NextDriveIs ==
  ASSUME DTypeOK, Current \in Range(Drives), SetBoot(NextDrive(boot))
  PROVE  \/ /\ Rank(Current) + 1 \in 1 .. Len(Drives) /\ at' = [at EXCEPT ![Boot] = "probe"]
            /\ op' = [op EXCEPT ![Boot].dev = Drives[Rank(Current) + 1]]
         \/ /\ Rank(Current) = Len(Drives) /\ at' = [at EXCEPT ![Boot] = "locate"] /\ op' = op
<1>1. op \in [Users -> Ops] /\ at \in [Users -> Places]  BY DEF DTypeOK, Ops, Places
<1>2. Rank(Current) \in 1 .. Len(Drives) /\ Len(Drives) \in 1 .. 2  BY RankIs, FirstDrive
<1>3. CASE Rank(Current) < Len(Drives)
  <2>1. NextDrive(boot) = [boot EXCEPT !.op.dev = Drives[Rank(Current) + 1], !.at = "probe"]
    BY <1>3 DEF NextDrive, Current
  <2>2. boot = [op |-> op[Boot], at |-> at[Boot]]  BY DEF boot
  <2>3. NextDrive(boot).at = "probe"
        /\ NextDrive(boot).op = [op[Boot] EXCEPT !.dev = Drives[Rank(Current) + 1]]
    BY <2>1, <2>2
  <2>4. op' = [op EXCEPT ![Boot] = [op[Boot] EXCEPT !.dev = Drives[Rank(Current) + 1]]]
        /\ at' = [at EXCEPT ![Boot] = "probe"]
    BY <2>3 DEF SetBoot
  <2> QED  BY <1>2, <1>3, <2>4, UsersAre
<1>4. CASE ~(Rank(Current) < Len(Drives))
  <2>1. NextDrive(boot) = [boot EXCEPT !.at = "locate"]  BY <1>4 DEF NextDrive, Current
  <2>2. NextDrive(boot).at = "locate" /\ NextDrive(boot).op = op[Boot]  BY <2>1 DEF boot
  <2>3. op' = [op EXCEPT ![Boot] = op[Boot]] /\ at' = [at EXCEPT ![Boot] = "locate"]
    BY <2>2 DEF SetBoot
  <2> QED  BY <1>1, <1>2, <1>4, <2>3, UsersAre
<1> QED  BY <1>3, <1>4

\* The boot thread issues a command of its own, or none.
LEMMA BootGoes ==
  ASSUME NEW p, SetBoot([boot EXCEPT !.at = p])
  PROVE  at' = [at EXCEPT ![Boot] = p] /\ op' = [op EXCEPT ![Boot] = op[Boot]]
  BY DEF SetBoot, boot

\* How start-up puts a request of its own to the channel.
LEMMA BootIssues ==
  ASSUME NEW p, NEW c, SetBoot([boot EXCEPT !.op.cmd = c, !.op.lba = 0, !.at = p])
  PROVE  at' = [at EXCEPT ![Boot] = p] /\ op' = [op EXCEPT ![Boot] = [op[Boot] EXCEPT !.cmd = c, !.lba = 0]]
  BY DEF SetBoot, boot

\* The steps of start-up keep the types.
LEMMA BootTypes == ASSUME DInv, Booting PROVE DTypeOK'
<1> USE DEF Ops, Registers, Places, Drivers, BootPlace
<1>0. DTypeOK /\ at \in [Users -> Places] /\ op \in [Users -> Ops] /\ hw \in Registers
      /\ asked \in [Thread -> Request \cup {NoRequest}]
      /\ lock \in Users \cup {Nobody} /\ expecting_interrupt \in BOOLEAN /\ completion_wait \in Nat
      /\ is_ata \in [Range(Drives) -> BOOLEAN] /\ panicked \in BOOLEAN
  BY DEF DInv, DTypeOK
<1>a. ASSUME NEW p \in BootPlace, at' = [at EXCEPT ![Boot] = p], op' \in [Users -> Ops], hw' \in Registers,
             UNCHANGED <<asked, channel, disk, panicked>>, is_ata' \in [Range(Drives) -> BOOLEAN]
      PROVE  DTypeOK'
  BY <1>0, <1>a, AtMoves, TypeFrom, UsersAre DEF channel
<1>b. ASSUME SetBoot(NextDrive(boot)), Current \in Range(Drives), hw' \in Registers,
             UNCHANGED <<asked, channel, disk, panicked>>, is_ata' \in [Range(Drives) -> BOOLEAN]
      PROVE  DTypeOK'
  <2>1. CASE at' = [at EXCEPT ![Boot] = "probe"] /\ Rank(Current) + 1 \in 1 .. Len(Drives)
             /\ op' = [op EXCEPT ![Boot].dev = Drives[Rank(Current) + 1]]
    <3>1. PICK d \in Range(Drives) : d = Drives[Rank(Current) + 1]  BY <2>1, RankIs
    <3>2. op' = [op EXCEPT ![Boot].dev = d]  BY <2>1, <3>1
    <3>3. op' \in [Users -> Ops]
      <4>1. op \in [Users -> Ops] /\ Boot \in Users  BY <1>0, UsersAre
      <4> QED  BY <3>2, <4>1, DevMoves
    <3> QED  BY <1>a, <1>b, <2>1, <3>3
  <2>2. CASE at' = [at EXCEPT ![Boot] = "locate"] /\ op' = op  BY <1>0, <1>a, <1>b, <2>2
  <2> QED  BY <1>0, <1>b, <2>1, <2>2, NextDriveIs
<1>c. ASSUME NEW p \in BootPlace, SetBoot([boot EXCEPT !.at = p]), hw' \in Registers,
             UNCHANGED <<asked, channel, disk, panicked>>, is_ata' \in [Range(Drives) -> BOOLEAN]
      PROVE  DTypeOK'
  <2>1. at' = [at EXCEPT ![Boot] = p] /\ op' = [op EXCEPT ![Boot] = op[Boot]]  BY <1>c, BootGoes
  <2>2. op' \in [Users -> Ops]  BY <1>0, <2>1
  <2> QED  BY <1>a, <1>c, <2>1, <2>2
<1>d. ASSUME NEW p \in BootPlace, NEW c \in Command, hw' = hw,
             SetBoot([boot EXCEPT !.op.cmd = c, !.op.lba = 0, !.at = p]),
             UNCHANGED <<asked, channel, disk, panicked>>, is_ata' \in [Range(Drives) -> BOOLEAN]
      PROVE  DTypeOK'
  <2>1. at' = [at EXCEPT ![Boot] = p] /\ op' = [op EXCEPT ![Boot] = [op[Boot] EXCEPT !.cmd = c, !.lba = 0]]
    BY <1>d, BootIssues
  <2>2. op' \in [Users -> Ops]
    <3>1. PICK o \in Ops : o = op[Boot]  BY <1>0, UsersAre
    <3>2. [o EXCEPT !.cmd = c, !.lba = 0] \in Ops  OBVIOUS
    <3>3. op' = [op EXCEPT ![Boot] = [o EXCEPT !.cmd = c, !.lba = 0]]  BY <2>1, <3>1
    <3> QED  BY <1>0, <3>2, <3>3
  <2> QED  BY <1>0, <1>a, <1>d, <2>1, <2>2
<1>e. ASSUME at' = at, op' = op, hw' = hw, UNCHANGED <<asked, channel, disk, panicked, is_ata>>
      PROVE  DTypeOK'
  BY <1>e, <1>0 DEF DTypeOK, channel
<1>1. CASE reset_channel
  <2>1. PICK b \in BOOLEAN, d \in Range(Drives) :
          hw' = [select_device(hw, d) EXCEPT !.cmd = "reset", !.busy = b]
    <3> DEFINE present == { i \in DOMAIN Drives : Hardware[Drives[i]].present }
               last == IF present = {} THEN 1 ELSE Max(present)
    <3>1. hw' = [select_device(hw, Drives[last]) EXCEPT !.cmd = "reset", !.busy = present # {}]
      BY <1>1 DEF reset_channel
    <3>2. DOMAIN Drives = 1 .. Len(Drives)  BY DiskAssumption DEF DiskAssumption
    <3>3. last \in 1 .. Len(Drives)
      <4>1. CASE present = {}  BY <4>1, FirstDrive
      <4>2. CASE present # {}
        <5>1. present \in SUBSET (1 .. 2) /\ present \subseteq 1 .. Len(Drives)  BY <3>2, FirstDrive
        <5>2. \E x \in present : \A y \in present : x >= y
          <6>1. present \subseteq {1, 2}  BY <5>1
          <6>2. CASE 2 \in present  BY <6>1, <6>2
          <6>3. CASE 2 \notin present  BY <4>2, <6>1, <6>3
          <6> QED  BY <6>2, <6>3
        <5>3. Max(present) \in present  BY <5>2, Zenon DEF Max
        <5> QED  BY <4>2, <5>1, <5>3
      <4> QED  BY <4>1, <4>2
    <3>4. Drives[last] \in Range(Drives)  BY <3>3, RankIs
    <3>5. (present # {}) \in BOOLEAN  OBVIOUS
    <3> HIDE DEF present, last
    <3> QED  BY <3>1, <3>4, <3>5
  <2>2. hw' \in Registers  BY <1>0, <2>1 DEF select_device
  <2> QED  BY <1>0, <1>1, <1>a, <2>2 DEF reset_channel, found
<1>2. CASE await_reset  BY <1>0, <1>2, <1>a DEF await_reset, found
<1>3. CASE detect_drives
  <2>1. op' = [op EXCEPT ![Boot].dev = Drives[1]] /\ at' = [at EXCEPT ![Boot] = "probe"]
        /\ UNCHANGED <<asked, channel, disk, panicked, hw>>
    BY <1>3 DEF detect_drives
  <2>2. op' \in [Users -> Ops]
    <3>1. PICK d \in Range(Drives) : d = Drives[1]  BY FirstDrive
    <3>2. op \in [Users -> Ops] /\ Boot \in Users  BY <1>0, UsersAre
    <3>3. op' = [op EXCEPT ![Boot].dev = d]  BY <2>1, <3>1
    <3> QED  BY <3>2, <3>3, DevMoves
  <2>3. is_ata' \in [Range(Drives) -> BOOLEAN]
    <3>1. ASSUME NEW n PROVE check_device_type(n).is_ata \in BOOLEAN
      <4> DEFINE h == Hardware[Drives[n]]
      <4>1. CASE (h.error # 1 /\ (h.error # 129 \/ n = 2)) \/ ~h.ready
        BY <4>1 DEF check_device_type
      <4>2. CASE ~((h.error # 1 /\ (h.error # 129 \/ n = 2)) \/ ~h.ready)
        <5>1. check_device_type(n).is_ata = (<<h.lbam, h.lbah>> \in {<<0, 0>>, <<60, 195>>})
          BY <4>2 DEF check_device_type
        <5>2. (<<h.lbam, h.lbah>> \in {<<0, 0>>, <<60, 195>>}) \in BOOLEAN  OBVIOUS
        <5> QED  BY <5>1, <5>2
      <4> QED  BY <4>1, <4>2
    <3> DEFINE Found(d) == LET n == CHOOSE i \in DOMAIN Drives : Drives[i] = d IN
                           check_device_type(n).is_ata /\ (n = 1 \/ check_device_type(1).more)
    <3>2. is_ata' = [d \in Range(Drives) |-> Found(d)]  BY <1>3 DEF detect_drives
    <3>3. \A d : Found(d) \in BOOLEAN  OBVIOUS
    <3> HIDE DEF Found
    <3> QED  BY <3>2, <3>3
  <2> QED  BY <1>0, <1>a, <2>1, <2>2, <2>3
<1>4. CASE probe
  <2>1. Current \in Range(Drives)  BY <1>4 DEF DInv, ScanOK, Identifying, DrivesDone, probe
  <2>2. UNCHANGED <<asked, channel, hw, disk, is_ata, panicked>>  BY <1>4 DEF probe, found
  <2>3. CASE is_ata[Current]
    BY <1>0, <1>4, <1>d, <2>2, <2>3 DEF probe, Current, Command
  <2>4. CASE ~is_ata[Current]
    BY <1>0, <1>4, <1>b, <2>1, <2>2, <2>4 DEF probe, Current
  <2> QED  BY <2>3, <2>4
<1>5. CASE identify_ata_device
  <2>1. Current \in Range(Drives)  BY <1>5 DEF DInv, ScanOK, Identifying, DrivesDone, Drivers, identify_ata_device
  <2>2. UNCHANGED <<asked, channel, disk, panicked>> /\ hw' = [hw EXCEPT !.drq = FALSE]
    BY <1>5 DEF identify_ata_device
  <2>3. hw' \in Registers  BY <1>0, <2>2
  <2>4. PICK u \in BOOLEAN : u = (hw.drq /\ Hardware[Current].capacity < GB)  OBVIOUS
  <2>5. is_ata' = [is_ata EXCEPT ![Current] = u]
        /\ SetBoot(IF u THEN [boot EXCEPT !.at = "table"] ELSE NextDrive(boot))
    BY <1>5, <2>4 DEF identify_ata_device, Current
  <2>6. is_ata' \in [Range(Drives) -> BOOLEAN]  BY <1>0, <2>5
  <2> QED  BY <1>b, <1>c, <2>1, <2>2, <2>3, <2>5, <2>6
<1>6. CASE read_partition_table
  <2>1. UNCHANGED <<asked, channel, hw, disk, is_ata, panicked>>  BY <1>6 DEF read_partition_table
  <2>2. CASE UNCHANGED <<op, at>>  BY <1>e, <2>1, <2>2
  <2>3. CASE SetBoot([boot EXCEPT !.op.cmd = "read", !.op.lba = 0, !.at = "lock"])
    BY <1>0, <1>d, <2>1, <2>3 DEF Command
  <2> QED  BY <1>6, <2>2, <2>3 DEF read_partition_table
<1>7. CASE check_signature
  BY <1>0, <1>7, <1>c DEF check_signature
<1>8. CASE parse_entry
  BY <1>8, <1>e DEF parse_entry
<1>9. CASE end_table
  <2>1. UNCHANGED <<asked, channel, hw, disk, is_ata, panicked>>  BY <1>9 DEF end_table
  <2>2. CASE UNCHANGED <<op, at>>  BY <1>e, <2>1, <2>2
  <2>3. CASE SetBoot(NextDrive(boot))
    <3>1. Current \in Range(Drives)  BY <1>9 DEF DInv, ScanOK, InUse, end_table
    <3> QED  BY <1>0, <1>b, <2>1, <2>3, <3>1
  <2> QED  BY <1>9, <2>2, <2>3 DEF end_table
<1>10. CASE locate_block_devices
  BY <1>0, <1>10, <1>a DEF locate_block_devices
<1> QED  BY <1>1, <1>2, <1>3, <1>4, <1>5, <1>6, <1>7, <1>8, <1>9, <1>10 DEF Booting

\* A call for sector S of role R is for that sector of the role's block.
LEMMA CallIs ==
  ASSUME DInv, NEW t \in Thread, NEW r \in Role, NEW s \in 0 .. MaxSector, NEW cmd, NEW v,
         Call(t, r, s, cmd, v)
  PROVE  \E b \in Good :
           /\ roles[r] # 0 /\ b = all_blocks[roles[r]] /\ s \in Nat /\ s < b.size
           /\ at[t] = "idle" /\ at[Boot] = "booted" /\ at' = [at EXCEPT ![t] = "lock"]
           /\ op' = [op EXCEPT ![t] = [cmd |-> cmd, dev |-> b.dev, lba |-> b.start + s, data |-> v]]
           /\ asked' = [asked EXCEPT ![t] = IF cmd = "read" THEN <<cmd, <<r, s>>>> ELSE <<cmd, <<r, s>>, v>>]
           /\ UNCHANGED <<channel, hw, disk, found, panicked>>
<1>1. roles[r] # 0 /\ at[Boot] = "booted"  BY DEF Call
<1>2. PICK b \in Good : b = all_blocks[roles[r]]  BY <1>1 DEF DInv, RolesFit
<1>3. s < b.size  BY <1>2 DEF Call
<1>4. s \in Nat
  <2>1. MaxSector \in Nat  BY DiskAssumption DEF DiskAssumption
  <2> QED  BY <2>1
<1> QED  BY <1>1, <1>2, <1>3, <1>4 DEF Call

\* A sector of a block that lies in its drive is a sector of the drive.
LEMMA SectorLies ==
  ASSUME NEW b \in Good, NEW s \in Nat, s < b.size
  PROVE  \E d \in Range(Drives), l \in Nat : d = b.dev /\ l = b.start + s /\ l < Hardware[d].capacity
<1>1. b.dev \in Range(Drives) /\ b.start \in Nat /\ b.size \in Nat
      /\ b.start + b.size <= Hardware[b.dev].capacity
  BY DEF Good
<1>2. Hardware[b.dev].capacity \in Nat  BY <1>1, CapacityIs
<1> QED  BY <1>1, <1>2

\* A step of DiskNext, each kind of it.
ReadCall(t, r, s) == Call(t, r, s, "read", Pending)
WriteCall(t, r, s, v) == Call(t, r, s, "write", v)

\* A step of the driver is one of start-up, of a call, of a thread or of the drive.
LEMMA StepIs ==
  ASSUME [DiskNext]_diskVars
  PROVE  \/ \E t \in Users : ~panicked /\ (ide_lock(t) \/ Io(t))
         \/ ~panicked /\ Booting
         \/ \E t \in Thread, r \in Role, s \in 0 .. MaxSector :
              ~panicked /\ (ReadCall(t, r, s) \/ \E v \in Value : WriteCall(t, r, s, v))
         \/ ~panicked /\ interrupt_handler
         \/ ~panicked /\ Drive
         \/ UNCHANGED diskVars
<1>1. ASSUME NEW t \in Thread, NEW sector \in Sectors, ~panicked,
             \/ Call(t, sector[1], sector[2], "read", Pending)
             \/ \E v \in Value : Call(t, sector[1], sector[2], "write", v)
      PROVE  \E u \in Thread, r \in Role, s \in 0 .. MaxSector :
               ~panicked /\ (ReadCall(u, r, s) \/ \E v \in Value : WriteCall(u, r, s, v))
  <2>1. PICK r \in Role, s \in 0 .. MaxSector : sector[1] = r /\ sector[2] = s  BY DEF Sectors
  <2> QED  BY <1>1, <2>1 DEF ReadCall, WriteCall
<1> QED  BY <1>1 DEF DiskNext

\* What a call asks for is a request.
LEMMA RequestIs ==
  ASSUME NEW r \in Role, NEW s \in 0 .. MaxSector
  PROVE  /\ <<"read", <<r, s>>>> \in Request
         /\ \A v \in Value : <<"write", <<r, s>>, v>> \in Request
<1>1. <<r, s>> \in Sectors  BY SMT DEF Sectors
<1>2. ASSUME NEW x \in Sectors
      PROVE  <<"read", x>> \in Request /\ \A v \in Value : <<"write", x, v>> \in Request
  <2>1. <<"read", x>> \in { <<"read", y>> : y \in Sectors }  BY Zenon
  <2>2. \A v \in Value : <<"write", x, v>> \in { <<"write", y, w>> : y \in Sectors, w \in Value }  BY SMT
  <2> QED  BY <2>1, <2>2, SMT DEF Request
<1>3. PICK x \in Sectors : x = <<r, s>>  BY <1>1
<1>4. <<"read", x>> \in Request /\ \A v \in Value : <<"write", x, v>> \in Request  BY <1>2
<1> QED  BY <1>3, <1>4, Zenon

\* A call keeps the types.
LEMMA CallTypes ==
  ASSUME DInv, NEW t \in Thread, NEW r \in Role, NEW s \in 0 .. MaxSector,
         ReadCall(t, r, s) \/ \E v \in Value : WriteCall(t, r, s, v)
  PROVE  DTypeOK'
<1> USE DEF Ops, Registers, Places, Drivers, BootPlace
<1>0. DTypeOK /\ at \in [Users -> Places] /\ op \in [Users -> Ops] /\ hw \in Registers
      /\ asked \in [Thread -> Request \cup {NoRequest}]
      /\ lock \in Users \cup {Nobody} /\ expecting_interrupt \in BOOLEAN /\ completion_wait \in Nat
      /\ is_ata \in [Range(Drives) -> BOOLEAN] /\ panicked \in BOOLEAN
  BY DEF DInv, DTypeOK
<1>1. ASSUME NEW cmd \in {"read", "write"}, NEW v \in Datum, Call(t, r, s, cmd, v),
             (IF cmd = "read" THEN <<cmd, <<r, s>>>> ELSE <<cmd, <<r, s>>, v>>) \in Request
      PROVE  DTypeOK'
  <2>1. PICK b \in Good :
             /\ s \in Nat /\ s < b.size /\ at' = [at EXCEPT ![t] = "lock"]
             /\ op' = [op EXCEPT ![t] = [cmd |-> cmd, dev |-> b.dev, lba |-> b.start + s, data |-> v]]
             /\ asked' = [asked EXCEPT ![t] = IF cmd = "read" THEN <<cmd, <<r, s>>>> ELSE <<cmd, <<r, s>>, v>>]
             /\ UNCHANGED <<channel, hw, disk, found, panicked>>
    BY <1>1, CallIs
  <2>2. PICK d \in Range(Drives), l \in Nat : d = b.dev /\ l = b.start + s  BY <2>1, SectorLies
  <2>3. [cmd |-> cmd, dev |-> d, lba |-> l, data |-> v] \in Ops  BY DEF Command
  <2>4. op' \in [Users -> Ops]  BY <1>0, <2>1, <2>2, <2>3
  <2>5. PICK q \in Request : q = IF cmd = "read" THEN <<cmd, <<r, s>>>> ELSE <<cmd, <<r, s>>, v>>
    BY <1>1
  <2>6. asked' = [asked EXCEPT ![t] = q]  BY <2>1, <2>5, Zenon
  <2>7. asked' \in [Thread -> Request \cup {NoRequest}]  BY <1>0, <2>6
  <2> QED  BY <1>0, <2>1, <2>4, <2>7, AtMoves, TypeFrom, UsersAre DEF channel, found
<1>2. CASE ReadCall(t, r, s)
  <2>1. <<"read", <<r, s>>>> \in Request  BY RequestIs
  <2> QED  BY <1>1, <1>2, <2>1 DEF ReadCall, Datum
<1>3. ASSUME NEW v \in Value, WriteCall(t, r, s, v) PROVE DTypeOK'
  <2>1. <<"write", <<r, s>>, v>> \in Request  BY RequestIs
  <2>2. v \in Datum  BY StoredIs DEF Datum
  <2> QED  BY <1>1, <1>3, <2>1, <2>2 DEF WriteCall
<1> QED  BY <1>2, <1>3

\* The steps of the drive keep the types.
LEMMA DriveTypes == ASSUME DInv, interrupt_handler \/ Drive PROVE DTypeOK'
<1> USE DEF Ops, Registers, Places, Drivers, BootPlace
<1>0. DTypeOK /\ at \in [Users -> Places] /\ op \in [Users -> Ops] /\ hw \in Registers
      /\ asked \in [Thread -> Request \cup {NoRequest}]
      /\ lock \in Users \cup {Nobody} /\ expecting_interrupt \in BOOLEAN /\ completion_wait \in Nat
      /\ is_ata \in [Range(Drives) -> BOOLEAN] /\ panicked \in BOOLEAN
      /\ (\A u \in Thread : at[u] \in {"idle", "lock", "return"} \cup Drivers) /\ at[Boot] \in BootPlace
  BY DEF DInv, DTypeOK
<1>1. CASE interrupt_handler
  <2>1. hw' \in Registers  BY <1>0, <1>1 DEF interrupt_handler
  <2>2. completion_wait' \in Nat  BY <1>0, <1>1 DEF interrupt_handler
  <2> QED  BY <1>0, <1>1, <2>1, <2>2, TypeFrom DEF interrupt_handler, found
<1>2. CASE DriveStarts
  <2>1. hw' \in Registers  BY <1>0, <1>2 DEF DriveStarts
  <2> QED  BY <1>0, <1>2, <2>1, TypeFrom DEF DriveStarts, found, channel
<1>3. CASE DriveReady
  <2>1. PICK b \in BOOLEAN : b = (hw.cmd # "write")  OBVIOUS
  <2>2. hw' = [hw EXCEPT !.busy = FALSE, !.drq = TRUE, !.irq = b]  BY <1>3, <2>1 DEF DriveReady
  <2>3. hw' \in Registers  BY <1>0, <2>2
  <2> QED  BY <1>0, <1>3, <2>3, TypeFrom DEF DriveReady, found, channel
<1>4. CASE DriveWrites
  <2>1. hw' \in Registers  BY <1>0, <1>4 DEF DriveWrites
  <2>2. hw.dev \in Range(Drives) /\ hw.taken \in Stored  BY <1>0, <1>4 DEF DriveWrites, Datum
  <2>3. PICK d \in Range(Drives), v \in Stored : d = hw.dev /\ v = hw.taken  BY <2>2
  <2>a. PICK l : l = hw.lba  OBVIOUS
  <2>4. disk' = [disk EXCEPT ![d] = [disk[d] EXCEPT ![l] = v]]  BY <1>4, <2>3, <2>a DEF DriveWrites
  <2>5. disk = [e \in Range(Drives) |-> disk[e]]
        /\ \A e \in Range(Drives) : disk[e] \in [0 .. Hardware[e].capacity - 1 -> Stored]
    BY <1>0 DEF DTypeOK
  <2>6. disk' = [e \in Range(Drives) |-> disk'[e]]
    <3>1. DOMAIN disk = Range(Drives)  BY <2>5, Zenon
    <3> QED  BY <2>4, <3>1, Zenon
  <2>7. \A e \in Range(Drives) : disk'[e] \in [0 .. Hardware[e].capacity - 1 -> Stored]
    <3>1. ASSUME NEW e \in Range(Drives), e # d PROVE disk'[e] = disk[e]  BY <2>4, <2>5, <3>1
    <3>2. disk'[d] = [disk[d] EXCEPT ![l] = v]
      <4>1. DOMAIN disk = Range(Drives)  BY <2>5, Zenon
      <4> QED  BY <2>4, <4>1
    <3>3. [disk[d] EXCEPT ![l] = v] \in [0 .. Hardware[d].capacity - 1 -> Stored]  BY <2>5
    <3> QED  BY <2>5, <3>1, <3>2, <3>3
  <2> QED  BY <1>0, <1>4, <2>1, <2>6, <2>7 DEF DTypeOK, DriveWrites, found, channel
<1>5. CASE DriveRefuses
  <2>1. hw' \in Registers  BY <1>0, <1>5 DEF DriveRefuses
  <2> QED  BY <1>0, <1>5, <2>1, TypeFrom DEF DriveRefuses, found, channel
<1> QED  BY <1>1, <1>2, <1>3, <1>4, <1>5 DEF Drive

\* Every step keeps the types.
LEMMA TypeKept == DInv /\ [DiskNext]_diskVars => DTypeOK'
<1> SUFFICES ASSUME DInv, [DiskNext]_diskVars PROVE DTypeOK'  OBVIOUS
<1>1. CASE UNCHANGED diskVars
  BY <1>1 DEF DInv, DTypeOK, diskVars, channel, found
<1> QED  BY <1>1, StepIs, ThreadTypes, BootTypes, CallTypes, DriveTypes
-----------------------------------------------------------------------------
(***************************************************************************)
(* Every step keeps the channel in order.                                   *)
(***************************************************************************)
InOrder(t) == Selected(t) /\ Issued(t) /\ AtBusy(t) /\ AtWait(t) /\ AtInput(t) /\ InDrive(t)

\* Two threads are not in the middle of a command at once.
LEMMA OneAtOnce ==
  ASSUME DInv, NEW t \in Users, NEW u \in Users, Driving(t), Driving(u)
  PROVE  t = u
<1>1. OneDriver  BY DEF DInv, ChannelOK
<1>2. ASSUME NEW x \in Thread, Driving(x) PROVE at[Boot] = "booted"
  BY <1>1, <1>2 DEF OneDriver, Driving, Drivers
<1>3. at[Boot] = "booted" => ~Driving(Boot)  BY DEF Driving, Drivers
<1>4. ASSUME NEW x \in Thread, NEW y \in Thread, Driving(x), Driving(y) PROVE x = y
  BY <1>1, <1>4 DEF OneDriver
<1> QED  BY <1>2, <1>3, <1>4, UsersAre

\* While a thread is at a command, start-up is not resetting the channel; while a thread other
\* than the boot thread is, start-up is over.
LEMMA NotResetting ==
  ASSUME DInv, NEW t \in Users, at[t] \in Drivers \cup {"lock", "return"}
  PROVE  at[Boot] \notin {"reset", "await_reset", "detect"} /\ (t # Boot => at[Boot] = "booted")
<1>1. OneDriver  BY DEF DInv, ChannelOK
<1>2. t \in Thread => at[Boot] = "booted"  BY <1>1 DEF OneDriver, Drivers
<1>3. t = Boot => at[Boot] \notin {"reset", "await_reset", "detect"}  BY DEF Drivers
<1> QED  BY <1>2, <1>3, UsersAre

\* What a step of the thread at the channel leaves to be shown: its own part.
LEMMA DriverStep ==
  ASSUME DInv, NEW t \in Users, Driving(t), NEW p, at' = [at EXCEPT ![t] = p],
         p \in Drivers \cup {"parse", "return"}, \A u \in Users : u # t => op'[u] = op[u],
         lock' = lock \/ ~Driving(t)', InOrder(t)', Quiet'
  PROVE  ChannelOK'
<1>1. at \in [Users -> Places]  BY DEF DInv, DTypeOK, Places
<1>2. at'[t] = p /\ \A u \in Users : u # t => at'[u] = at[u]  BY <1>1
<1>3. \A u \in Users : u # t => at[u] \notin Drivers  BY OneAtOnce DEF Driving
<1>4. ASSUME NEW u \in Users, u # t PROVE InOrder(u)'
  <2>1. at'[u] = at[u] /\ op'[u] = op[u] /\ at[u] \notin Drivers  BY <1>2, <1>3, <1>4
  <2>2. InDrive(u)  BY DEF DInv, ChannelOK
  <2>3. InDrive(u)'  BY <2>1, <2>2 DEF InDrive
  <2> QED  BY <2>1, <2>3
           DEF InOrder, Selected, Issued, AtBusy, AtWait, AtInput, Driving, Drivers
<1>5. at[Boot] \notin {"reset", "await_reset"} /\ (t # Boot => at[Boot] = "booted")
  BY NotResetting DEF Driving
<1>6. at'[Boot] \notin {"reset", "await_reset"}  BY <1>2, <1>5, UsersAre DEF Drivers
<1>7. OneDriver'
  <2>1. ASSUME at'[Boot] # "booted", NEW u \in Thread PROVE at'[u] = "idle" /\ op'[u].cmd = "none"
    <3>1. t = Boot  BY <1>2, <1>5, <2>1, UsersAre
    <3>2. u # t /\ u \in Users  BY <3>1, UsersAre
    <3>3. at[Boot] # "booted"  BY <3>1 DEF Driving, Drivers
    <3>4. at[u] = "idle" /\ op[u].cmd = "none"  BY <3>3 DEF DInv, ChannelOK, OneDriver
    <3> QED  BY <1>2, <3>2, <3>4
  <2>2. ASSUME NEW u \in Thread, Driving(u)' PROVE lock' = u
    <3>1. u = t  BY <1>2, <1>3, <2>2, UsersAre DEF Driving
    <3>2. lock = t  BY <3>1 DEF DInv, ChannelOK, OneDriver
    <3> QED  BY <2>2, <3>1, <3>2
  <2> QED  BY <2>1, <2>2 DEF OneDriver
<1> QED  BY <1>4, <1>6, <1>7 DEF ChannelOK, InOrder, Resetting

\* The steps of a thread keep the channel in order.
LEMMA ThreadChannel ==
  ASSUME DInv, NEW t \in Users, ide_lock(t) \/ Io(t)
  PROVE  ChannelOK'
<1>0. at \in [Users -> Places] /\ op \in [Users -> Ops] /\ hw \in Registers /\ completion_wait \in Nat
  BY DEF DInv, DTypeOK, Places, Ops, Registers
<1>a. InOrder(t) /\ Quiet /\ OneDriver /\ Resetting  BY DEF DInv, ChannelOK, InOrder
<1>b. Driving(t) => \A u \in Users : u # t => at[u] \notin Drivers  BY OneAtOnce DEF Driving
<1>1. CASE ide_lock(t)
  <2>1. at[t] = "lock" /\ lock = Nobody /\ lock' = t /\ at' = [at EXCEPT ![t] = "select"]
        /\ UNCHANGED <<op, hw, completion_wait>>
    BY <1>1 DEF ide_lock
  <2>2. at'[t] = "select" /\ \A u \in Users : u # t => at'[u] = at[u]  BY <1>0, <2>1
  <2>3. at[Boot] \notin {"reset", "await_reset", "detect"} /\ (t # Boot => at[Boot] = "booted")
    BY <2>1, NotResetting
  <2>4. ASSUME NEW u \in Users PROVE InOrder(u)'
    <3>1. CASE u = t
      BY <1>a, <2>1, <2>2, <3>1
         DEF InOrder, Selected, Issued, AtBusy, AtWait, AtInput, InDrive, Driving, Drivers
    <3>2. CASE u # t
      <4>1. InOrder(u)  BY DEF DInv, ChannelOK, InOrder
      <4> QED  BY <2>1, <2>2, <3>2, <4>1
             DEF InOrder, Selected, Issued, AtBusy, AtWait, Awaiting, AtInput, InDrive, Driving
    <3> QED  BY <3>1, <3>2
  <2>5. Quiet' /\ Resetting'
    <3>1. (\A u \in Users : at'[u] \notin {"busy", "wait", "input"})
            => \A u \in Users : at[u] \notin {"busy", "wait", "input"}
      BY <2>1, <2>2
    <3>2. at'[Boot] \notin {"reset", "await_reset"} /\ at[Boot] # "await_reset"
      BY <2>2, <2>3, UsersAre
    <3> QED  BY <1>a, <2>1, <3>1, <3>2 DEF Quiet, Resetting
  <2>6. OneDriver'
    <3>1. ASSUME at'[Boot] # "booted", NEW u \in Thread PROVE at'[u] = "idle" /\ op'[u].cmd = "none"
      BY <1>a, <2>1, <2>2, <2>3, <3>1, UsersAre DEF OneDriver
    <3>2. ASSUME NEW u \in Thread, Driving(u)' PROVE lock' = u
      <4>1. ~Driving(u)  BY <1>a, <2>1, UsersAre DEF OneDriver
      <4> QED  BY <2>1, <2>2, <3>2, <4>1, UsersAre DEF Driving
    <3> QED  BY <3>1, <3>2 DEF OneDriver
  <2> QED  BY <2>4, <2>5, <2>6 DEF ChannelOK, InOrder
<1>2. CASE select_sector(t)
  <2>1. at[t] = "select" /\ at' = [at EXCEPT ![t] = "issue"] /\ UNCHANGED <<op, lock, completion_wait>>
        /\ ~hw.busy /\ ~hw.drq
    BY <1>2 DEF select_sector, wait_until_idle, channel
  <2>2. PICK d \in Range(Drives), l \in Nat : d = op[t].dev /\ l = op[t].lba
    BY <1>0, <1>a, <2>1 DEF InOrder, InDrive, Drivers, Ops
  <2>3. hw' = [[hw EXCEPT !.dev = d] EXCEPT !.lba = l, !.irq = FALSE]
    BY <1>2, <2>2 DEF select_sector, select_device
  <2>4. hw'.dev = d /\ hw'.lba = l /\ hw'.irq = FALSE /\ hw'.busy = hw.busy /\ hw'.drq = hw.drq
    BY <1>0, <2>3 DEF Registers
  <2>5. Driving(t) /\ at'[t] = "issue" /\ \A u \in Users : u # t => at'[u] = at[u]
    BY <1>0, <2>1 DEF Driving, Drivers
  <2>6. InOrder(t)'
    BY <1>a, <2>1, <2>2, <2>4, <2>5
       DEF InOrder, Selected, Issued, AtBusy, AtWait, AtInput, InDrive, Drivers, Driving
  <2>7. Quiet'
    <3>1. \A u \in Users : at[u] \notin {"busy", "wait", "input"}  BY <1>b, <2>1, <2>5 DEF Drivers
    <3> QED  BY <1>a, <2>1, <2>4, <3>1 DEF Quiet
  <2> QED  BY <2>1, <2>5, <2>6, <2>7, DriverStep DEF Drivers
<1>3. CASE issue_pio_command(t)
  <2>1. at[t] = "issue" /\ UNCHANGED <<op, lock, completion_wait>>
        /\ hw' = [hw EXCEPT !.cmd = op[t].cmd, !.busy = TRUE, !.taken = Pending]
    BY <1>3 DEF issue_pio_command
  <2>2. PICK p \in {"busy", "wait"} : at' = [at EXCEPT ![t] = p] /\ (p = "busy" <=> op[t].cmd = "write")
    BY <1>3 DEF issue_pio_command
  <2>3. hw'.dev = hw.dev /\ hw'.lba = hw.lba /\ hw'.irq = hw.irq /\ hw'.busy /\ hw'.drq = hw.drq
        /\ hw'.taken = Pending /\ hw'.cmd = op[t].cmd
    BY <1>0, <2>1 DEF Registers
  <2>4. Driving(t) /\ at'[t] = p /\ \A u \in Users : u # t => at'[u] = at[u]
    BY <1>0, <2>1, <2>2 DEF Driving, Drivers
  <2>5. ~hw.irq /\ ~hw.drq /\ completion_wait = 0
    <3>1. \A u \in Users : at[u] \notin {"busy", "wait", "input"}  BY <1>b, <2>1, <2>4 DEF Drivers
    <3> QED  BY <1>a, <3>1 DEF Quiet
  <2>6. InOrder(t)'
    BY <1>a, <2>1, <2>2, <2>3, <2>4, <2>5
       DEF InOrder, Selected, Issued, AtBusy, AtWait, Awaiting, AtInput, InDrive, Drivers, Driving
  <2>7. Quiet'  BY <2>4 DEF Quiet
  <2> QED  BY <2>1, <2>2, <2>4, <2>6, <2>7, DriverStep DEF Drivers
<1>4. CASE output_sector(t)
  <2>1. at[t] = "busy" /\ ~hw.busy /\ UNCHANGED <<op, lock, completion_wait>>
    BY <1>4 DEF output_sector, wait_while_busy, channel
  <2>2. op[t].cmd = "write" /\ hw.cmd = op[t].cmd  BY <1>a, <2>1 DEF InOrder, AtBusy, Issued
  <2>3. CASE hw.drq
    <3>1. hw' = [hw EXCEPT !.drq = FALSE, !.busy = TRUE, !.taken = op[t].data]
          /\ at' = [at EXCEPT ![t] = "wait"]
      BY <1>4, <2>3 DEF output_sector
    <3>2. hw'.dev = hw.dev /\ hw'.lba = hw.lba /\ hw'.irq = hw.irq /\ hw'.busy /\ ~hw'.drq
          /\ hw'.taken = op[t].data /\ hw'.cmd = hw.cmd
      BY <1>0, <3>1 DEF Registers
    <3>3. Driving(t) /\ at'[t] = "wait"  BY <1>0, <2>1, <3>1 DEF Driving, Drivers
    <3>4. ~hw.irq /\ completion_wait = 0  BY <1>a, <2>1, <2>3 DEF InOrder, AtBusy
    <3>5. InOrder(t)'
      BY <1>a, <2>1, <2>2, <3>2, <3>3, <3>4
         DEF InOrder, Selected, Issued, AtBusy, AtWait, Awaiting, AtInput, InDrive, Drivers, Driving
    <3>6. Quiet'  BY <3>3 DEF Quiet
    <3> QED  BY <2>1, <3>1, <3>3, <3>5, <3>6, DriverStep DEF Drivers
  <2>4. CASE ~hw.drq
    <3>1. hw' = hw /\ at' = [at EXCEPT ![t] = "busy"]  BY <1>0, <1>4, <2>1, <2>4 DEF output_sector
    <3>2. Driving(t) /\ at'[t] = "busy"  BY <1>0, <2>1, <3>1 DEF Driving, Drivers
    <3>3. InOrder(t)'
      BY <1>a, <2>1, <3>1, <3>2
         DEF InOrder, Selected, Issued, AtBusy, AtWait, Awaiting, AtInput, InDrive, Drivers, Driving
    <3>4. Quiet'  BY <3>2 DEF Quiet
    <3> QED  BY <2>1, <3>1, <3>2, <3>3, <3>4, DriverStep DEF Drivers
  <2> QED  BY <2>3, <2>4
<1>5. CASE await_completion(t)
  <2>1. at[t] = "wait" /\ UNCHANGED <<op, lock, hw>> /\ completion_wait > 0
        /\ completion_wait' = completion_wait - 1
    BY <1>5 DEF await_completion
  <2>2. PICK p \in {"unlock", "input"} :
          at' = [at EXCEPT ![t] = p] /\ (p = "unlock" <=> op[t].cmd = "write")
    BY <1>5 DEF await_completion
  <2>3. Driving(t) /\ at'[t] = p /\ \A u \in Users : u # t => at'[u] = at[u]
    BY <1>0, <2>1, <2>2 DEF Driving, Drivers
  <2>4. ~hw.busy /\ ~hw.irq /\ completion_wait = 1
    BY <1>0, <1>a, <2>1 DEF InOrder, AtWait, Awaiting
  <2>5. InOrder(t)'
    BY <1>a, <2>1, <2>2, <2>3, <2>4
       DEF InOrder, Selected, Issued, AtBusy, AtWait, Awaiting, AtInput, InDrive, Drivers, Driving
  <2>6. Quiet'
    <3>1. CASE p = "input"  BY <2>3, <3>1 DEF Quiet
    <3>2. CASE p = "unlock"
      <4>1. ~hw.drq  BY <1>a, <2>1, <2>2, <3>2 DEF InOrder, AtWait
      <4> QED  BY <2>1, <2>4, <4>1 DEF Quiet
    <3> QED  BY <3>1, <3>2
  <2> QED  BY <2>1, <2>2, <2>3, <2>5, <2>6, DriverStep DEF Drivers
<1>6. CASE input_sector(t)
  <2>1. at[t] = "input" /\ ~hw.busy /\ UNCHANGED <<lock, completion_wait>> /\ hw' = [hw EXCEPT !.drq = FALSE]
    BY <1>6 DEF input_sector, wait_while_busy, channel
  <2>2. PICK p \in {"unlock", "input"} : at' = [at EXCEPT ![t] = p]  BY <1>0, <1>6, <2>1 DEF input_sector
  <2>3. Driving(t) /\ at'[t] = p /\ \A u \in Users : u # t => at'[u] = at[u]
    BY <1>0, <2>1, <2>2 DEF Driving, Drivers
  <2>4. hw'.dev = hw.dev /\ hw'.lba = hw.lba /\ hw'.irq = hw.irq /\ hw'.busy = hw.busy /\ ~hw'.drq
        /\ hw'.taken = hw.taken /\ hw'.cmd = hw.cmd
    BY <1>0, <2>1 DEF Registers
  <2>5. PICK v : op' = [op EXCEPT ![t].data = v] \/ op' = op  BY <1>6 DEF input_sector
  <2>6. op'[t].cmd = op[t].cmd /\ op'[t].dev = op[t].dev /\ op'[t].lba = op[t].lba
        /\ \A u \in Users : u # t => op'[u] = op[u]
    BY <1>0, <2>5 DEF Ops
  <2>7. op[t].cmd # "write" /\ ~hw.irq /\ completion_wait = 0  BY <1>a, <2>1 DEF InOrder, AtInput
  <2>8. InOrder(t)'
    BY <1>a, <2>1, <2>3, <2>4, <2>6, <2>7
       DEF InOrder, Selected, Issued, AtBusy, AtWait, Awaiting, AtInput, InDrive, Drivers, Driving
  <2>9. Quiet'  BY <2>1, <2>4, <2>7 DEF Quiet
  <2> QED  BY <2>1, <2>2, <2>3, <2>6, <2>8, <2>9, DriverStep DEF Drivers
<1>7. CASE ide_unlock(t)
  <2>1. at[t] = "unlock" /\ UNCHANGED <<op, hw, completion_wait>>
    BY <1>7 DEF ide_unlock
  <2>2. PICK p \in {"parse", "return"} : at' = [at EXCEPT ![t] = p]  BY <1>7 DEF ide_unlock
  <2>3. Driving(t) /\ at'[t] = p /\ \A u \in Users : u # t => at'[u] = at[u]
    BY <1>0, <2>1, <2>2 DEF Driving, Drivers
  <2>4. InOrder(t)'
    BY <2>3 DEF InOrder, Selected, Issued, AtBusy, AtWait, AtInput, InDrive, Drivers, Driving
  <2>5. Quiet'
    <3>1. \A u \in Users : at[u] \notin {"busy", "wait", "input"}  BY <1>b, <2>1, <2>3 DEF Drivers
    <3>2. ~hw.busy
      <4>1. at[Boot] # "await_reset"  BY <2>1, NotResetting DEF Drivers
      <4> QED  BY <1>a, <3>1, <4>1 DEF Quiet
    <3> QED  BY <1>a, <2>1, <3>1, <3>2 DEF Quiet
  <2>6. ~Driving(t)'  BY <2>3 DEF Driving, Drivers
  <2> QED  BY <2>1, <2>2, <2>3, <2>4, <2>5, <2>6, DriverStep
<1>8. CASE t # Boot /\ Return(t)
  <2>1. at[t] = "return" /\ at' = [at EXCEPT ![t] = "idle"] /\ UNCHANGED <<op, hw, lock, completion_wait>>
    BY <1>8 DEF Return, channel
  <2>2. at'[t] = "idle" /\ \A u \in Users : u # t => at'[u] = at[u]  BY <1>0, <2>1
  <2>3. at[Boot] = "booted" /\ at'[Boot] = "booted"  BY <1>8, <2>1, <2>2, NotResetting, UsersAre
  <2>4. ASSUME NEW u \in Users PROVE InOrder(u)'
    <3>1. CASE u = t
      BY <2>2, <3>1 DEF InOrder, Selected, Issued, AtBusy, AtWait, AtInput, InDrive, Driving, Drivers
    <3>2. CASE u # t
      <4>1. InOrder(u)  BY DEF DInv, ChannelOK, InOrder
      <4> QED  BY <2>1, <2>2, <3>2, <4>1
             DEF InOrder, Selected, Issued, AtBusy, AtWait, Awaiting, AtInput, InDrive, Driving
    <3> QED  BY <3>1, <3>2
  <2>5. Quiet' /\ Resetting'
    <3>1. (\A u \in Users : at'[u] \notin {"busy", "wait", "input"})
            => \A u \in Users : at[u] \notin {"busy", "wait", "input"}
      BY <2>1, <2>2
    <3> QED  BY <1>a, <2>1, <2>3, <3>1 DEF Quiet, Resetting
  <2>6. OneDriver'
    BY <1>a, <2>1, <2>2, <2>3, UsersAre DEF OneDriver, Driving, Drivers
  <2> QED  BY <2>4, <2>5, <2>6 DEF ChannelOK, InOrder
<1> QED  BY <1>1, <1>2, <1>3, <1>4, <1>5, <1>6, <1>7, <1>8 DEF Io

\* What a step of start-up leaves to be shown: the threads are idle.
LEMMA BootStep ==
  ASSUME DInv, at[Boot] # "booted", NEW p, at' = [at EXCEPT ![Boot] = p] \/ (at' = at /\ p = at[Boot]),
         \A u \in Users : u # Boot => op'[u] = op[u], InOrder(Boot)',
         ~hw'.irq /\ completion_wait' = 0 /\ ~hw'.drq, hw'.busy => p = "await_reset",
         p \in {"reset", "await_reset"} => hw'.taken = Pending /\ (p = "await_reset" => hw'.cmd = "reset")
  PROVE  ChannelOK'
<1>1. at \in [Users -> Places]  BY DEF DInv, DTypeOK, Places
<1>2. at'[Boot] = p /\ \A u \in Users : u # Boot => at'[u] = at[u]  BY <1>1, UsersAre
<1>3. \A u \in Thread : at[u] = "idle" /\ op[u].cmd = "none"  BY DEF DInv, ChannelOK, OneDriver
<1>4. \A u \in Thread : at'[u] = "idle" /\ op'[u].cmd = "none"  BY <1>2, <1>3, UsersAre
<1>5. ASSUME NEW u \in Thread PROVE InOrder(u)'
  BY <1>4 DEF InOrder, Selected, Issued, AtBusy, AtWait, AtInput, InDrive, Driving, Drivers
<1>6. OneDriver'  BY <1>4 DEF OneDriver, Driving, Drivers
<1>7. Quiet' /\ Resetting'  BY <1>2 DEF Quiet, Resetting
<1> QED  BY <1>5, <1>6, <1>7, UsersAre DEF ChannelOK, InOrder

\* Between commands of start-up the channel is quiet.
LEMMA BootQuiet ==
  ASSUME DInv, at[Boot] \notin {"booted", "busy", "wait", "input"}
  PROVE  ~hw.irq /\ completion_wait = 0 /\ ~hw.drq /\ (hw.busy => at[Boot] = "await_reset")
<1>1. \A u \in Thread : at[u] = "idle"  BY DEF DInv, ChannelOK, OneDriver
<1>2. \A u \in Users : at[u] \notin {"busy", "wait", "input"}  BY <1>1, UsersAre
<1> QED  BY <1>2 DEF DInv, ChannelOK, Quiet

\* The boot thread at a place where it is about no command.
LEMMA BootIdle ==
  ASSUME at'[Boot] \notin Drivers \cup {"lock"} PROVE InOrder(Boot)'
  BY DEF InOrder, Selected, Issued, AtBusy, AtWait, AtInput, InDrive, Driving, Drivers

\* The steps of start-up keep the channel in order.
LEMMA BootChannel == ASSUME DInv, Booting PROVE ChannelOK'
<1>0. at \in [Users -> Places] /\ op \in [Users -> Ops] /\ hw \in Registers
  BY DEF DInv, DTypeOK, Places, Ops, Registers
<1>a. ASSUME NEW p, p \notin Drivers \cup {"lock", "reset", "await_reset"}, at' = [at EXCEPT ![Boot] = p],
             \A u \in Users : u # Boot => op'[u] = op[u], UNCHANGED <<hw, completion_wait>>, ~hw.busy,
             at[Boot] \notin {"booted", "busy", "wait", "input"}
      PROVE  ChannelOK'
  <2>1. at'[Boot] = p  BY <1>0, <1>a, UsersAre
  <2> QED  BY <1>a, <2>1, BootQuiet, BootIdle, BootStep
<1>b. ASSUME SetBoot(NextDrive(boot)), Current \in Range(Drives)
      PROVE  \E p \in {"probe", "locate"} : at' = [at EXCEPT ![Boot] = p]
                                         /\ \A u \in Users : u # Boot => op'[u] = op[u]
  <2>1. DTypeOK  BY DEF DInv
  <2>2. CASE at' = [at EXCEPT ![Boot] = "probe"]
             /\ op' = [op EXCEPT ![Boot].dev = Drives[Rank(Current) + 1]]
    BY <1>0, <2>2
  <2>3. CASE at' = [at EXCEPT ![Boot] = "locate"] /\ op' = op  BY <2>3
  <2> QED  BY <1>b, <2>1, <2>2, <2>3, NextDriveIs
<1>1. CASE reset_channel
  <2>1. at[Boot] = "reset" /\ at' = [at EXCEPT ![Boot] = "await_reset"]
        /\ UNCHANGED <<op, completion_wait>>
    BY <1>1 DEF reset_channel, channel
  <2>2. \E b, d : hw' = [select_device(hw, d) EXCEPT !.cmd = "reset", !.busy = b]
    BY <1>1 DEF reset_channel
  <2>3. PICK b, d : hw' = [[hw EXCEPT !.dev = d] EXCEPT !.cmd = "reset", !.busy = b]
    BY <2>2 DEF select_device
  <2>4. hw'.irq = hw.irq /\ hw'.drq = hw.drq /\ hw'.taken = hw.taken /\ hw'.cmd = "reset"
    BY <1>0, <2>3 DEF Registers
  <2>5. hw.taken = Pending  BY <2>1 DEF DInv, ChannelOK, Resetting
  <2>6. at'[Boot] = "await_reset"  BY <1>0, <2>1, UsersAre
  <2>7. InOrder(Boot)'  BY <2>6, BootIdle DEF Drivers
  <2>8. ~hw.irq /\ completion_wait = 0 /\ ~hw.drq  BY <2>1, BootQuiet
  <2> QED  BY <2>1, <2>4, <2>5, <2>7, <2>8, BootStep
<1>2. CASE await_reset
  <2>1. at[Boot] = "await_reset" /\ at' = [at EXCEPT ![Boot] = "detect"] /\ ~hw.busy
        /\ UNCHANGED <<op, hw, completion_wait>>
    BY <1>2 DEF await_reset, channel, wait_while_busy
  <2> QED  BY <1>a, <2>1 DEF Drivers
<1>3. CASE detect_drives
  <2>1. at[Boot] = "detect" /\ at' = [at EXCEPT ![Boot] = "probe"] /\ op' = [op EXCEPT ![Boot].dev = Drives[1]]
        /\ UNCHANGED <<hw, completion_wait>>
    BY <1>3 DEF detect_drives, channel
  <2>2. \A u \in Users : u # Boot => op'[u] = op[u]  BY <1>0, <2>1
  <2>3. ~hw.busy  BY <2>1, BootQuiet
  <2> QED  BY <1>a, <2>1, <2>2, <2>3 DEF Drivers
<1>4. CASE probe
  <2>0. at[Boot] = "probe" /\ UNCHANGED <<hw, completion_wait>>  BY <1>4 DEF probe, channel
  <2>1. Current \in Range(Drives)  BY <2>0 DEF DInv, ScanOK, Identifying, DrivesDone
  <2>2. ~hw.irq /\ completion_wait = 0 /\ ~hw.drq /\ ~hw.busy  BY <2>0, BootQuiet
  <2>3. CASE is_ata[Current]
    <3>1. SetBoot([boot EXCEPT !.op.cmd = "identify", !.op.lba = 0, !.at = "select"])
      BY <1>4, <2>3 DEF probe, Current
    <3>2. at' = [at EXCEPT ![Boot] = "select"]
          /\ op' = [op EXCEPT ![Boot] = [op[Boot] EXCEPT !.cmd = "identify", !.lba = 0]]
      BY <3>1, BootIssues
    <3>3. PICK o \in Ops : o = op[Boot]  BY <1>0, UsersAre
    <3>4. op' = [op EXCEPT ![Boot] = [o EXCEPT !.cmd = "identify", !.lba = 0]]  BY <3>2, <3>3
    <3>5. op'[Boot] = [o EXCEPT !.cmd = "identify", !.lba = 0] /\ \A u \in Users : u # Boot => op'[u] = op[u]
      BY <1>0, <3>4, UsersAre
    <3>6. op'[Boot].cmd = "identify" /\ op'[Boot].lba = 0 /\ op'[Boot].dev = Current
      BY <3>3, <3>5 DEF Ops, Current
    <3>7. at'[Boot] = "select"  BY <1>0, <3>2, UsersAre
    <3>8. InOrder(Boot)'
      BY <2>1, <3>6, <3>7, CapacityIs
         DEF InOrder, Selected, Issued, AtBusy, AtWait, AtInput, InDrive, Driving, Drivers
    <3> QED  BY <2>0, <2>2, <3>2, <3>5, <3>8, BootStep
  <2>4. CASE ~is_ata[Current]
    <3>1. SetBoot(NextDrive(boot))  BY <1>4, <2>4 DEF probe, Current
    <3> QED  BY <1>a, <1>b, <2>0, <2>1, <2>2, <3>1 DEF Drivers
  <2> QED  BY <2>3, <2>4
<1>5. CASE identify_ata_device
  <2>0. at[Boot] = "input" /\ ~hw.busy /\ hw' = [hw EXCEPT !.drq = FALSE]
        /\ UNCHANGED <<completion_wait>> /\ op[Boot].cmd = "identify"
    BY <1>5 DEF identify_ata_device, channel, wait_while_busy
  <2>1. Current \in Range(Drives)  BY <2>0 DEF DInv, ScanOK, Identifying, DrivesDone, Drivers
  <2>2. ~hw.irq /\ completion_wait = 0  BY <2>0, UsersAre DEF DInv, ChannelOK, AtInput
  <2>3. hw'.irq = hw.irq /\ hw'.busy = hw.busy /\ ~hw'.drq  BY <1>0, <2>0 DEF Registers
  <2>4. \E p \in {"table", "probe", "locate"} : at' = [at EXCEPT ![Boot] = p]
                                               /\ \A u \in Users : u # Boot => op'[u] = op[u]
    <3>1. PICK u \in BOOLEAN : u = (hw.drq /\ Hardware[Current].capacity < GB)  OBVIOUS
    <3>2. SetBoot(IF u THEN [boot EXCEPT !.at = "table"] ELSE NextDrive(boot))
      BY <1>5, <3>1 DEF identify_ata_device, Current
    <3>3. CASE u
      <4>1. at' = [at EXCEPT ![Boot] = "table"] /\ op' = [op EXCEPT ![Boot] = op[Boot]]
        BY <3>2, <3>3, BootGoes
      <4>2. \A v \in Users : v # Boot => op'[v] = op[v]  BY <1>0, <4>1
      <4> QED  BY <4>1, <4>2
    <3>4. CASE ~u  BY <1>b, <2>1, <3>2, <3>4
    <3> QED  BY <3>3, <3>4
  <2>5. PICK p \in {"table", "probe", "locate"} : at' = [at EXCEPT ![Boot] = p]
                                               /\ \A u \in Users : u # Boot => op'[u] = op[u]
    BY <2>4
  <2>6. at'[Boot] = p  BY <1>0, <2>5, UsersAre
  <2>7. InOrder(Boot)'  BY <2>6, BootIdle DEF Drivers
  <2> QED  BY <2>0, <2>2, <2>3, <2>5, <2>7, BootStep
<1>6. CASE read_partition_table
  <2>0. at[Boot] = "table" /\ UNCHANGED <<hw, completion_wait>>  BY <1>6 DEF read_partition_table, channel
  <2>1. Current \in Range(Drives)  BY <2>0 DEF DInv, ScanOK, InUse
  <2>2. ~hw.irq /\ completion_wait = 0 /\ ~hw.drq /\ ~hw.busy  BY <2>0, BootQuiet
  <2>3. CASE UNCHANGED <<op, at>>
    <3>1. InOrder(Boot)'  BY <2>0, <2>3, BootIdle DEF Drivers
    <3> QED  BY <2>0, <2>2, <2>3, <3>1, BootStep
  <2>4. CASE SetBoot([boot EXCEPT !.op.cmd = "read", !.op.lba = 0, !.at = "lock"])
    <3>2. at' = [at EXCEPT ![Boot] = "lock"]
          /\ op' = [op EXCEPT ![Boot] = [op[Boot] EXCEPT !.cmd = "read", !.lba = 0]]
      BY <2>4, BootIssues
    <3>3. PICK o \in Ops : o = op[Boot]  BY <1>0, UsersAre
    <3>4. op' = [op EXCEPT ![Boot] = [o EXCEPT !.cmd = "read", !.lba = 0]]  BY <3>2, <3>3
    <3>5. op'[Boot] = [o EXCEPT !.cmd = "read", !.lba = 0] /\ \A u \in Users : u # Boot => op'[u] = op[u]
      BY <1>0, <3>4, UsersAre
    <3>6. op'[Boot].cmd = "read" /\ op'[Boot].lba = 0 /\ op'[Boot].dev = Current
      BY <3>3, <3>5 DEF Ops, Current
    <3>7. at'[Boot] = "lock"  BY <1>0, <3>2, UsersAre
    <3>8. InOrder(Boot)'
      BY <2>1, <3>6, <3>7, CapacityIs
         DEF InOrder, Selected, Issued, AtBusy, AtWait, AtInput, InDrive, Driving, Drivers
    <3> QED  BY <2>0, <2>2, <3>2, <3>5, <3>8, BootStep
  <2> QED  BY <1>6, <2>3, <2>4 DEF read_partition_table
<1>7. CASE check_signature
  <2>0. at[Boot] = "parse" /\ UNCHANGED <<hw, completion_wait>> /\ SetBoot([boot EXCEPT !.at = "table"])
    BY <1>7 DEF check_signature, channel
  <2>1. at' = [at EXCEPT ![Boot] = "table"] /\ op' = [op EXCEPT ![Boot] = op[Boot]]  BY <2>0, BootGoes
  <2>2. \A u \in Users : u # Boot => op'[u] = op[u]  BY <1>0, <2>1
  <2>3. ~hw.busy  BY <2>0, BootQuiet
  <2> QED  BY <1>a, <2>0, <2>1, <2>2, <2>3 DEF Drivers
<1>8. CASE parse_entry
  <2>0. at[Boot] = "table" /\ UNCHANGED <<at, op, hw, completion_wait>>  BY <1>8 DEF parse_entry, channel
  <2>1. InOrder(Boot)'  BY <2>0, BootIdle DEF Drivers
  <2> QED  BY <2>0, <2>1, BootQuiet, BootStep
<1>9. CASE end_table
  <2>0. at[Boot] = "table" /\ UNCHANGED <<hw, completion_wait>>  BY <1>9 DEF end_table, channel
  <2>1. Current \in Range(Drives)  BY <2>0 DEF DInv, ScanOK, InUse
  <2>2. ~hw.irq /\ completion_wait = 0 /\ ~hw.drq /\ ~hw.busy  BY <2>0, BootQuiet
  <2>3. CASE UNCHANGED <<op, at>>
    <3>1. InOrder(Boot)'  BY <2>0, <2>3, BootIdle DEF Drivers
    <3> QED  BY <2>0, <2>2, <2>3, <3>1, BootStep
  <2>4. CASE SetBoot(NextDrive(boot))
    BY <1>a, <1>b, <2>0, <2>1, <2>2, <2>4 DEF Drivers
  <2> QED  BY <1>9, <2>3, <2>4 DEF end_table
<1>10. CASE locate_block_devices
  <2>1. at[Boot] = "locate" /\ at' = [at EXCEPT ![Boot] = "booted"] /\ UNCHANGED <<op, hw, completion_wait>>
    BY <1>10 DEF locate_block_devices, channel
  <2>2. ~hw.busy  BY <2>1, BootQuiet
  <2> QED  BY <1>a, <2>1, <2>2 DEF Drivers
<1> QED  BY <1>1, <1>2, <1>3, <1>4, <1>5, <1>6, <1>7, <1>8, <1>9, <1>10 DEF Booting

\* A call leaves the channel alone.
LEMMA CallChannel ==
  ASSUME DInv, NEW t \in Thread, NEW r \in Role, NEW s \in 0 .. MaxSector,
         ReadCall(t, r, s) \/ \E v \in Value : WriteCall(t, r, s, v)
  PROVE  ChannelOK'
<1>0. at \in [Users -> Places] /\ op \in [Users -> Ops] /\ hw \in Registers /\ t \in Users
  BY UsersAre DEF DInv, DTypeOK, Places, Ops, Registers
<1>1. ASSUME NEW cmd \in {"read", "write"}, NEW v \in Datum, Call(t, r, s, cmd, v)
      PROVE  ChannelOK'
  <2>1. PICK b \in Good :
             /\ s \in Nat /\ s < b.size /\ at' = [at EXCEPT ![t] = "lock"]
             /\ op' = [op EXCEPT ![t] = [cmd |-> cmd, dev |-> b.dev, lba |-> b.start + s, data |-> v]]
             /\ UNCHANGED <<lock, completion_wait, hw>> /\ at[t] = "idle" /\ at[Boot] = "booted"
    BY <1>1, CallIs DEF channel
  <2>2. PICK d \in Range(Drives), l \in Nat :
          d = b.dev /\ l = b.start + s /\ l < Hardware[d].capacity
    BY <2>1, SectorLies
  <2>3. op' = [op EXCEPT ![t] = [cmd |-> cmd, dev |-> d, lba |-> l, data |-> v]]  BY <2>1, <2>2
  <2>4. op'[t].cmd = cmd /\ op'[t].dev = d /\ op'[t].lba = l /\ at'[t] = "lock"
        /\ \A u \in Users : u # t => at'[u] = at[u] /\ op'[u] = op[u]
    BY <1>0, <2>1, <2>3
  <2>5. ASSUME NEW u \in Users PROVE InOrder(u)'
    <3>1. CASE u = t
      BY <2>2, <2>4, <3>1
         DEF InOrder, Selected, Issued, AtBusy, AtWait, AtInput, InDrive, Driving, Drivers
    <3>2. CASE u # t
      <4>1. InOrder(u)  BY DEF DInv, ChannelOK, InOrder
      <4> QED  BY <2>1, <2>4, <3>2, <4>1
             DEF InOrder, Selected, Issued, AtBusy, AtWait, Awaiting, AtInput, InDrive, Driving
    <3> QED  BY <3>1, <3>2
  <2>6. at'[Boot] = "booted"  BY <2>1, <2>4, UsersAre
  <2>7. Quiet' /\ Resetting'
    <3>1. (\A u \in Users : at'[u] \notin {"busy", "wait", "input"})
            => \A u \in Users : at[u] \notin {"busy", "wait", "input"}
      BY <2>1, <2>4
    <3>2. Quiet  BY DEF DInv, ChannelOK
    <3> QED  BY <2>1, <2>6, <3>1, <3>2 DEF Quiet, Resetting
  <2>8. OneDriver'
    <3>1. OneDriver  BY DEF DInv, ChannelOK
    <3> QED  BY <2>1, <2>4, <2>6, <3>1, UsersAre DEF OneDriver, Driving, Drivers
  <2> QED  BY <2>5, <2>7, <2>8 DEF ChannelOK, InOrder
<1>2. \A v \in Value : v \in Datum  BY StoredIs DEF Datum
<1> QED  BY <1>1, <1>2 DEF ReadCall, WriteCall, Datum

\* The controller is at the command of a thread that waits, or starts anew.
LEMMA BusyFor ==
  ASSUME DInv, hw.busy
  PROVE  \/ at[Boot] = "await_reset" /\ hw.cmd = "reset" /\ hw.taken = Pending
         \/ \E t \in Users : at[t] \in {"busy", "wait"} /\ hw.cmd = op[t].cmd /\ hw.cmd # "reset"
<1>0. op \in [Users -> Ops]  BY DEF DInv, DTypeOK, Ops
<1>1. CASE \A u \in Users : at[u] \notin {"busy", "wait", "input"}
  <2>1. at[Boot] = "await_reset"  BY <1>1 DEF DInv, ChannelOK, Quiet
  <2> QED  BY <2>1 DEF DInv, ChannelOK, Resetting
<1>2. ASSUME NEW t \in Users, at[t] \in {"busy", "wait", "input"}
      PROVE  at[t] \in {"busy", "wait"} /\ hw.cmd = op[t].cmd /\ hw.cmd # "reset"
  <2>1. at[t] # "input"  BY DEF DInv, ChannelOK, AtInput
  <2>2. hw.cmd = op[t].cmd  BY <1>2, <2>1 DEF DInv, ChannelOK, Issued
  <2>3. op[t].cmd \in Command  BY <1>0 DEF Ops
  <2> QED  BY <1>2, <2>1, <2>2, <2>3 DEF Command
<1> QED  BY <1>1, <1>2

\* What a thread wants to write is known.
LEMMA WriteIs ==
  ASSUME DInv, NEW t \in Users, at[t] \in Drivers, op[t].cmd = "write"
  PROVE  t \in Thread /\ op[t].data \in Value /\ op[t].data # Pending
<1>1. t # Boot  BY DEF DInv, ScanOK
<1>2. t \in Thread  BY <1>1, UsersAre
<1>3. at[t] # "idle"  BY DEF Drivers
<1>4. op[t].data \in Value  BY <1>2, <1>3 DEF DInv, AskedOK
<1> QED  BY <1>2, <1>4, StoredIs

\* The steps of the drive keep the channel in order.
LEMMA DriveChannel == ASSUME DInv, interrupt_handler \/ Drive PROVE ChannelOK'
<1>0. at \in [Users -> Places] /\ op \in [Users -> Ops] /\ hw \in Registers /\ completion_wait \in Nat
  BY DEF DInv, DTypeOK, Places, Ops, Registers
<1>a. OneDriver /\ Quiet /\ Resetting /\ \A t \in Users : InOrder(t)  BY DEF DInv, ChannelOK, InOrder
<1>b. ASSUME UNCHANGED <<at, op, lock>>, Quiet', Resetting', hw'.dev = hw.dev, hw'.lba = hw.lba, hw'.cmd = hw.cmd,
             \A t \in Users : (AtBusy(t) /\ AtWait(t) /\ AtInput(t))'
      PROVE  ChannelOK'
  <2>1. OneDriver'  BY <1>a, <1>b DEF OneDriver, Driving
  <2>2. \A t \in Users : (Selected(t) /\ Issued(t) /\ InDrive(t))'
    BY <1>a, <1>b DEF InOrder, Selected, Issued, InDrive, Driving
  <2> QED  BY <1>b, <2>1, <2>2 DEF ChannelOK
<1>1. CASE interrupt_handler
  <2>1. hw' = [hw EXCEPT !.irq = FALSE] /\ completion_wait' = completion_wait + 1 /\ hw.irq
        /\ UNCHANGED <<at, op, lock>>
    BY <1>1 DEF interrupt_handler
  <2>2. hw'.dev = hw.dev /\ hw'.lba = hw.lba /\ ~hw'.irq /\ hw'.busy = hw.busy /\ hw'.drq = hw.drq
        /\ hw'.taken = hw.taken /\ hw'.cmd = hw.cmd
    BY <1>0, <2>1 DEF Registers
  <2>3. Quiet' /\ Resetting'  BY <1>a, <2>1, <2>2 DEF Quiet, Resetting
  <2>4. ASSUME NEW t \in Users PROVE (AtBusy(t) /\ AtWait(t) /\ AtInput(t))'
    <3>1. AtBusy(t) /\ AtWait(t) /\ AtInput(t)  BY <1>a DEF InOrder
    <3> QED  BY <1>0, <2>1, <2>2, <3>1 DEF AtBusy, AtWait, Awaiting, AtInput
  <2> QED  BY <1>b, <2>1, <2>2, <2>3, <2>4
<1>2. CASE DriveStarts
  <2>1. hw' = [hw EXCEPT !.busy = FALSE] /\ UNCHANGED <<at, op, lock, completion_wait>> /\ hw.busy
        /\ hw.cmd = "reset"
    BY <1>2 DEF DriveStarts, channel
  <2>2. hw'.dev = hw.dev /\ hw'.lba = hw.lba /\ hw'.irq = hw.irq /\ ~hw'.busy /\ hw'.drq = hw.drq
        /\ hw'.taken = hw.taken /\ hw'.cmd = hw.cmd
    BY <1>0, <2>1 DEF Registers
  <2>3. at[Boot] = "await_reset"  BY <2>1, BusyFor
  <2>4. ASSUME NEW t \in Users PROVE at[t] \notin {"busy", "wait", "input"}
    BY <1>a, <2>3, UsersAre DEF OneDriver
  <2>5. Quiet' /\ Resetting'  BY <1>a, <2>1, <2>2, <2>4 DEF Quiet, Resetting
  <2>6. \A t \in Users : (AtBusy(t) /\ AtWait(t) /\ AtInput(t))'
    BY <2>1, <2>4 DEF AtBusy, AtWait, AtInput
  <2> QED  BY <1>b, <2>1, <2>2, <2>5, <2>6
<1>3. ASSUME hw.busy, hw.cmd # "reset", UNCHANGED <<at, op, lock, completion_wait>>,
             hw'.dev = hw.dev, hw'.lba = hw.lba, ~hw'.busy, hw'.cmd = hw.cmd, hw'.taken = hw.taken,
             \A t \in Users : AtBusy(t)' /\ AtWait(t)'
      PROVE  ChannelOK'
  <2>1. PICK t \in Users : at[t] \in {"busy", "wait"}  BY <1>3, BusyFor
  <2>2. at[Boot] # "await_reset"  BY <1>3, <2>1, NotResetting DEF Drivers
  <2>3. Quiet' /\ Resetting'  BY <1>a, <1>3, <2>1, <2>2 DEF Quiet, Resetting
  <2>4. \A u \in Users : at[u] # "input"  BY <1>a, <1>3 DEF InOrder, AtInput
  <2>5. \A u \in Users : AtInput(u)'  BY <1>3, <2>4 DEF AtInput
  <2> QED  BY <1>b, <1>3, <2>3, <2>5
<1>4. CASE DriveReady
  <2>1. hw' = [hw EXCEPT !.busy = FALSE, !.drq = TRUE, !.irq = hw.cmd # "write"] /\ hw.taken = Pending
        /\ hw.busy /\ hw.cmd # "reset" /\ UNCHANGED <<at, op, lock, completion_wait>>
    BY <1>4 DEF DriveReady, channel
  <2>2. hw'.dev = hw.dev /\ hw'.lba = hw.lba /\ ~hw'.busy /\ hw'.drq /\ hw'.irq = (hw.cmd # "write")
        /\ hw'.taken = hw.taken /\ hw'.cmd = hw.cmd
    BY <1>0, <2>1 DEF Registers
  <2>3. ASSUME NEW t \in Users PROVE AtBusy(t)' /\ AtWait(t)'
    <3>1. AtBusy(t) /\ AtWait(t) /\ Issued(t)  BY <1>a DEF InOrder
    <3>2. at[t] = "wait" => op[t].cmd # "write"
      BY <2>1, <3>1, WriteIs DEF AtWait, Drivers
    <3> QED  BY <2>1, <2>2, <3>1, <3>2 DEF AtBusy, AtWait, Awaiting, Issued
  <2> QED  BY <1>3, <2>1, <2>2, <2>3
<1>5. CASE DriveWrites
  <2>1. hw' = [hw EXCEPT !.busy = FALSE, !.irq = TRUE] /\ hw.taken # Pending
        /\ hw.busy /\ UNCHANGED <<at, op, lock, completion_wait>>
    BY <1>5 DEF DriveWrites, channel
  <2>2. hw'.dev = hw.dev /\ hw'.lba = hw.lba /\ ~hw'.busy /\ hw'.drq = hw.drq /\ hw'.irq
        /\ hw'.taken = hw.taken /\ hw'.cmd = hw.cmd
    BY <1>0, <2>1 DEF Registers
  <2>3. hw.cmd # "reset"  BY <2>1, BusyFor
  <2>4. ASSUME NEW t \in Users PROVE AtBusy(t)' /\ AtWait(t)'
    <3>1. AtBusy(t) /\ AtWait(t)  BY <1>a DEF InOrder
    <3> QED  BY <2>1, <2>2, <3>1 DEF AtBusy, AtWait, Awaiting
  <2> QED  BY <1>3, <2>1, <2>2, <2>3, <2>4
<1>6. CASE DriveRefuses
  <2>1. hw' = [hw EXCEPT !.busy = FALSE, !.irq = TRUE] /\ hw.taken = Pending
        /\ hw.busy /\ hw.cmd # "reset" /\ UNCHANGED <<at, op, lock, completion_wait>>
    BY <1>6 DEF DriveRefuses, channel
  <2>2. hw'.dev = hw.dev /\ hw'.lba = hw.lba /\ ~hw'.busy /\ hw'.drq = hw.drq /\ hw'.irq
        /\ hw'.taken = hw.taken /\ hw'.cmd = hw.cmd
    BY <1>0, <2>1 DEF Registers
  <2>3. ASSUME NEW t \in Users PROVE AtBusy(t)' /\ AtWait(t)'
    <3>1. AtBusy(t) /\ AtWait(t)  BY <1>a DEF InOrder
    <3> QED  BY <2>1, <2>2, <3>1 DEF AtBusy, AtWait, Awaiting
  <2> QED  BY <1>3, <2>1, <2>2, <2>3
<1> QED  BY <1>1, <1>2, <1>4, <1>5, <1>6 DEF Drive

\* Every step keeps the channel in order.
LEMMA ChannelKept == DInv /\ [DiskNext]_diskVars => ChannelOK'
<1> SUFFICES ASSUME DInv, [DiskNext]_diskVars PROVE ChannelOK'  OBVIOUS
<1>1. CASE UNCHANGED diskVars
  <2>1. UNCHANGED <<at, op, lock, hw, completion_wait>>  BY <1>1 DEF diskVars, channel
  <2>2. ChannelOK  BY DEF DInv
  <2> QED  BY <2>1, <2>2
           DEF ChannelOK, OneDriver, Quiet, Resetting, Selected, Issued, AtBusy, AtWait, Awaiting, AtInput,
               InDrive, Driving
<1> QED  BY <1>1, StepIs, ThreadChannel, BootChannel, CallChannel, DriveChannel
-----------------------------------------------------------------------------
(***************************************************************************)
(* Sequences of blocks.                                                     *)
(***************************************************************************)
\* What concatenation does.
LEMMA ConcatFacts ==
  ASSUME NEW S, NEW s \in Seq(S), NEW t \in Seq(S), NEW u \in Seq(S)
  PROVE  s \o <<>> = s /\ <<>> \o s = s /\ (s \o t) \o u = s \o (t \o u) /\ s \o t \in Seq(S)
  OBVIOUS

\* The number of partitions up to an entry.
LEMMA CountStep ==
  ASSUME NEW d \in Range(Drives), NEW n \in 1 .. 4
  PROVE  /\ Cardinality({ j \in Real(d) : j < n }) \in Nat
         /\ { j \in Real(d) : j < n + 1 } = { j \in Real(d) : j <= n }
         /\ Cardinality({ j \in Real(d) : j < n + 1 }) =
              Cardinality({ j \in Real(d) : j < n }) + (IF n \in Real(d) THEN 1 ELSE 0)
<1>1. Real(d) \subseteq 1 .. 4  BY DEF Real
<1> DEFINE S == { j \in Real(d) : j < n }
           T == { j \in Real(d) : j < n + 1 }
<1>2. S \in SUBSET (1 .. 4) /\ IsFiniteSet(1 .. 4)
  <2>1. \A a, b \in Int : IsFiniteSet(a .. b)  BY FS_Interval
  <2>2. IsFiniteSet(1 .. 4)
    <3>1. 1 \in Int /\ 4 \in Int  OBVIOUS
    <3> QED  BY <2>1, <3>1, Zenon
  <2>3. S \subseteq Real(d)  OBVIOUS
  <2> HIDE DEF S, T
  <2> QED  BY <1>1, <2>2, <2>3
<1>3. IsFiniteSet(S) /\ Cardinality(S) \in Nat  BY <1>2, FS_Subset, FS_CardinalityType
<1>4. T = IF n \in Real(d) THEN S \cup {n} ELSE S
  <2>1. \A j \in Real(d) : j < n + 1 <=> (j < n \/ j = n)  BY <1>1
  <2> QED  BY <2>1
<1>5. n \notin S  OBVIOUS
<1>6. T = { j \in Real(d) : j <= n }
  <2>1. \A j \in Real(d) : j < n + 1 <=> j <= n  BY <1>1
  <2> QED  BY <2>1
<1>7. Cardinality(S \cup {n}) = Cardinality(S) + 1  BY <1>3, <1>5, FS_AddElement
<1>8. CASE n \in Real(d)  BY <1>3, <1>4, <1>6, <1>7, <1>8
<1>9. CASE n \notin Real(d)  BY <1>3, <1>4, <1>6, <1>9
<1> QED  BY <1>8, <1>9

\* A drive and the partitions its table lists lie in it.
LEMMA BlocksIn ==
  ASSUME NEW d \in Range(Drives)
  PROVE  /\ <<Raw(d)>> \in Seq(BlocksOf(d)) /\ Listed(d) \in Seq(BlocksOf(d))
         /\ \A i \in 1 .. 4 : Entry(d, i) \in Seq(BlocksOf(d))
         /\ \A i \in 0 .. 4 : Upto(d, i) \in Seq(BlocksOf(d))
         /\ BlocksOf(d) \subseteq Good
<1>1. Raw(d) \in BlocksOf(d)
  <2>1. Hardware[d].capacity \in Nat  BY CapacityIs
  <2> QED  BY <2>1 DEF Raw, BlocksOf, Good, Kinds
<1>2. ASSUME NEW i \in 1 .. 4 PROVE Entry(d, i) \in Seq(BlocksOf(d))
  <2>1. ASSUME i \in Inside(d) PROVE Partition(d, i) \in BlocksOf(d)
    <3>1. Partition(d, i).start \in Nat /\ Partition(d, i).size \in Nat
          /\ Partition(d, i).start + Partition(d, i).size <= Hardware[d].capacity
      BY <2>1, PartitionLies
    <3>2. Cardinality({ j \in Real(d) : j <= i }) \in Nat
      <4>1. /\ Cardinality({ j \in Real(d) : j < i }) \in Nat
            /\ { j \in Real(d) : j < i + 1 } = { j \in Real(d) : j <= i }
            /\ Cardinality({ j \in Real(d) : j < i + 1 }) =
                 Cardinality({ j \in Real(d) : j < i }) + (IF i \in Real(d) THEN 1 ELSE 0)
        BY CountStep
      <4> QED  BY <4>1
    <3>3. block_type(MBR(d)[i].type) \in Kinds  BY DEF block_type, Kinds
    <3> QED  BY <3>1, <3>2, <3>3 DEF Partition, BlocksOf, Good
  <2> QED  BY <2>1 DEF Entry
<1>3. ASSUME NEW i \in 0 .. 4 PROVE Upto(d, i) \in Seq(BlocksOf(d))
  <2>1. Entry(d, 1) \in Seq(BlocksOf(d)) /\ Entry(d, 2) \in Seq(BlocksOf(d))
        /\ Entry(d, 3) \in Seq(BlocksOf(d)) /\ Entry(d, 4) \in Seq(BlocksOf(d))
    BY <1>2
  <2>2. i \in {0, 1, 2, 3, 4}  OBVIOUS
  <2> QED  BY <2>1, <2>2 DEF Upto, Listed
<1>4. Listed(d) \in Seq(BlocksOf(d))
  <2>1. Upto(d, 4) \in Seq(BlocksOf(d))  BY <1>3
  <2> QED  BY <2>1 DEF Upto
<1>5. <<Raw(d)>> \in Seq(BlocksOf(d))  BY <1>1
<1>6. BlocksOf(d) \subseteq Good  BY DEF BlocksOf
<1> QED  BY <1>2, <1>3, <1>4, <1>5, <1>6

\* What a table's first entries describe, entry after entry.
LEMMA UptoStep ==
  ASSUME NEW d \in Range(Drives), NEW n \in 1 .. 4
  PROVE  Upto(d, n) = Upto(d, n - 1) \o Entry(d, n)
<1>1. Entry(d, 1) \in Seq(BlocksOf(d))  BY BlocksIn
<1>2. <<>> \o Entry(d, 1) = Entry(d, 1)  BY <1>1, ConcatFacts
<1>3. CASE n = 1
  <2>1. Upto(d, 0) = <<>> /\ Upto(d, 1) = Entry(d, 1) /\ n - 1 = 0  BY <1>3 DEF Upto
  <2> QED  BY <1>2, <1>3, <2>1
<1>4. CASE n = 2  BY <1>4 DEF Upto
<1>5. CASE n = 3  BY <1>5 DEF Upto
<1>6. CASE n = 4  BY <1>6 DEF Upto, Listed
<1> QED  BY <1>3, <1>4, <1>5, <1>6

\* The blocks of a drive are of that drive, the disk itself first.
LEMMA WholeIn ==
  ASSUME NEW d \in Range(Drives), NEW s, Whole(d, s)
  PROVE  s \in Seq(BlocksOf(d)) /\ (s = <<>> \/ s[1] = Raw(d))
<1>1. CASE ~is_ata[d]  BY <1>1 DEF Whole
<1>2. CASE is_ata[d]
  <2>1. PICK rest \in Seq(BlocksOf(d)) : s = <<Raw(d)>> \o rest
    <3>1. Listed(d) \in Seq(BlocksOf(d))  BY BlocksIn
    <3> QED  BY <1>2, <3>1 DEF Whole
  <2>2. <<Raw(d)>> \in Seq(BlocksOf(d))  BY BlocksIn
  <2> QED  BY <2>1, <2>2
<1> QED  BY <1>1, <1>2

\* The blocks of the first drives lie in their drives.
LEMMA AreTyped ==
  ASSUME NEW n \in 0 .. Len(Drives), NEW s, AreBlocks(n, s)
  PROVE  s \in Seq(Good)
<1>1. \A d \in Range(Drives) : \A a : Whole(d, a) => a \in Seq(Good)
  <2> SUFFICES ASSUME NEW d \in Range(Drives), NEW a, Whole(d, a) PROVE a \in Seq(Good)  OBVIOUS
  <2>1. a \in Seq(BlocksOf(d)) /\ BlocksOf(d) \subseteq Good  BY WholeIn, BlocksIn
  <2> QED  BY <2>1, SeqMonotonic
<1>2. Drives[1] \in Range(Drives)  BY FirstDrive
<1>3. CASE n = 0  BY <1>3 DEF AreBlocks
<1>4. CASE n = 1  BY <1>1, <1>2, <1>4 DEF AreBlocks
<1>5. CASE n = 2
  <2>1. Drives[2] \in Range(Drives)
    <3>1. 2 \in 1 .. Len(Drives)  BY <1>5, FirstDrive
    <3> QED  BY <3>1, RankIs
  <2>2. PICK a, b : Whole(Drives[1], a) /\ Whole(Drives[2], b) /\ s = a \o b  BY <1>5 DEF AreBlocks
  <2>3. a \in Seq(Good) /\ b \in Seq(Good)  BY <1>1, <1>2, <2>1, <2>2
  <2> QED  BY <2>2, <2>3
<1> QED  BY <1>3, <1>4, <1>5 DEF AreBlocks

\* The blocks of one drive more.
LEMMA AreStep ==
  ASSUME NEW d \in Range(Drives), NEW s, NEW t, AreBlocks(Rank(d) - 1, s), Whole(d, t)
  PROVE  AreBlocks(Rank(d), s \o t)
<1>1. Rank(d) = 1 \/ Rank(d) = 2  BY RankIs, FirstDrive
<1>2. Drives[Rank(d)] = d  BY RankIs
<1>3. CASE Rank(d) = 1
  <2>1. s = <<>>  BY <1>3 DEF AreBlocks
  <2>2. t \in Seq(BlocksOf(d))  BY WholeIn
  <2>3. s \o t = t  BY <2>1, <2>2, ConcatFacts
  <2> QED  BY <1>2, <1>3, <2>3 DEF AreBlocks
<1>4. CASE Rank(d) = 2
  <2>1. Whole(Drives[1], s)  BY <1>4 DEF AreBlocks
  <2> QED  BY <1>2, <1>4, <2>1 DEF AreBlocks
<1> QED  BY <1>1, <1>3, <1>4

\* A drive that is not used adds nothing.
LEMMA AreSkip ==
  ASSUME NEW d \in Range(Drives), NEW s, AreBlocks(Rank(d) - 1, s), ~is_ata[d]
  PROVE  AreBlocks(Rank(d), s)
<1>1. Whole(d, <<>>)  BY DEF Whole
<1>2. AreBlocks(Rank(d), s \o <<>>)  BY <1>1, AreStep
<1>3. s \in Seq(Good)  BY MasterOrSlave, AreTyped
<1> QED  BY <1>2, <1>3, ConcatFacts

\* The steps that keep the drives' judgement keep what it means.
LEMMA SameDrives ==
  ASSUME is_ata' = is_ata
  PROVE  \A n : Fits(n)' = Fits(n) /\ \A s : AreBlocks(n, s)' = AreBlocks(n, s)
<1>1. \A d, s : Whole(d, s)' = Whole(d, s)  BY DEF Whole
<1> QED  BY <1>1 DEF AreBlocks, Fits

\* The steps that stay at a drive and find nothing.
LEMMA BegunStays ==
  ASSUME Current' = Current, is_ata' = is_ata, all_blocks' = all_blocks
  PROVE  \A s : Begun(s)' = Begun(s)
  BY SameDrives DEF Begun

\* What has been found lies in its drives.
LEMMA BegunTyped ==
  ASSUME Current \in Range(Drives), NEW s \in Seq(Good), Begun(s)
  PROVE  all_blocks \in Seq(Good)
<1>1. PICK before : AreBlocks(Rank(Current) - 1, before)
                    /\ all_blocks = (before \o <<Raw(Current)>>) \o s
  BY DEF Begun
<1>2. before \in Seq(Good)  BY <1>1, MasterOrSlave, AreTyped
<1>3. <<Raw(Current)>> \in Seq(Good)
  <2>1. <<Raw(Current)>> \in Seq(BlocksOf(Current)) /\ BlocksOf(Current) \subseteq Good  BY BlocksIn
  <2> QED  BY <2>1, SeqMonotonic
<1> QED  BY <1>1, <1>2, <1>3, ConcatFacts

\* A step finds more blocks of the drive.
LEMMA BegunStep ==
  ASSUME Current \in Range(Drives), NEW s \in Seq(Good), NEW t \in Seq(Good), Begun(s),
         Current' = Current, is_ata' = is_ata, all_blocks' = all_blocks \o t
  PROVE  Begun(s \o t)'
<1>1. PICK before : AreBlocks(Rank(Current) - 1, before)
                    /\ all_blocks = (before \o <<Raw(Current)>>) \o s
  BY DEF Begun
<1>2. before \in Seq(Good)  BY <1>1, MasterOrSlave, AreTyped
<1>3. PICK a : a = before \o <<Raw(Current)>>  OBVIOUS
<1>4. a \in Seq(Good)
  <2>1. <<Raw(Current)>> \in Seq(BlocksOf(Current)) /\ BlocksOf(Current) \subseteq Good  BY BlocksIn
  <2>2. <<Raw(Current)>> \in Seq(Good)  BY <2>1, SeqMonotonic
  <2> QED  BY <1>2, <1>3, <2>2, ConcatFacts
<1>5. (a \o s) \o t = a \o (s \o t)  BY <1>4, ConcatFacts
<1>6. all_blocks' = (before \o <<Raw(Current)>>) \o (s \o t)  BY <1>1, <1>3, <1>5
<1>7. AreBlocks(Rank(Current) - 1, before)'  BY <1>1, SameDrives
<1> QED  BY <1>6, <1>7 DEF Begun

\* The drive's tables are read.
LEMMA BegunDone ==
  ASSUME Current \in Range(Drives), is_ata[Current], NEW s \in Seq(BlocksOf(Current)), Begun(s),
         ~Nested(Current) => s = Listed(Current)
  PROVE  AreBlocks(Rank(Current), all_blocks)
<1>1. PICK before : AreBlocks(Rank(Current) - 1, before)
                    /\ all_blocks = (before \o <<Raw(Current)>>) \o s
  BY DEF Begun
<1>2. before \in Seq(Good)  BY <1>1, MasterOrSlave, AreTyped
<1>3. PICK r : r = <<Raw(Current)>>  OBVIOUS
<1>4. r \in Seq(Good) /\ s \in Seq(Good)
  <2>1. <<Raw(Current)>> \in Seq(BlocksOf(Current)) /\ BlocksOf(Current) \subseteq Good  BY BlocksIn
  <2> QED  BY <1>3, <2>1, SeqMonotonic
<1>5. (before \o r) \o s = before \o (r \o s)  BY <1>2, <1>4, ConcatFacts
<1>6. Whole(Current, r \o s)  BY <1>3 DEF Whole
<1> QED  BY <1>1, <1>3, <1>5, <1>6, AreStep

\* What 32 bits make of the end of a partition.
LEMMA EndIs ==
  ASSUME NEW m \in Nat, NEW o \in 0 .. m, NEW s \in 1 .. m, NEW c \in 0 .. m
  PROVE  /\ o % (m + 1) = o
         /\ (o >= c \/ (o + s) % (m + 1) < o \/ (o + s) % (m + 1) > c) <=> ~(o + s <= c)
<1>1. o % (m + 1) = o  OBVIOUS
<1>2. CASE o + s <= m
  <2>1. (o + s) % (m + 1) = o + s  BY <1>2
  <2> QED  BY <1>1, <2>1
<1>3. CASE o + s > m
  <2>1. (o + s) % (m + 1) = o + s - (m + 1)  BY <1>3
  <2> QED  BY <1>1, <1>3, <2>1
<1> QED  BY <1>2, <1>3

\* Entry I of the current drive's table, when the table is in sector 0, is found as it is listed.
LEMMA FoundIs ==
  ASSUME NEW i \in Real(Current), Current \in Range(Drives), Hardware[Current].capacity < GB,
         all_blocks \in Seq(Good)
  PROVE  found_partition(MBR(Current)[i].type, (MBR(Current)[i].offset + 0) % (MaxSector + 1),
                         MBR(Current)[i].size, Cardinality({ j \in Real(Current) : j <= i }))
           = all_blocks \o Entry(Current, i)
<1>1. Contents[Current][0] \in DOMAIN Tables /\ i \in 1 .. 4 /\ MBR(Current)[i].size # 0  BY DEF Real
<1>2. MBR(Current)[i] \in [type : 0 .. 255, offset : 0 .. MaxSector, size : 0 .. MaxSector]
  BY <1>1, EntryIs
<1>3. PICK o \in 0 .. MaxSector, s \in 1 .. MaxSector : o = MBR(Current)[i].offset /\ s = MBR(Current)[i].size
  <2>1. MaxSector \in Nat  BY DiskAssumption DEF DiskAssumption
  <2> QED  BY <1>1, <1>2, <2>1
<1>4. PICK c \in 0 .. MaxSector : c = Hardware[Current].capacity
  <2>1. MaxSector \in Nat /\ GB \in 1 .. MaxSector + 1  BY DiskAssumption DEF DiskAssumption
  <2> QED  BY <2>1, CapacityIs
<1>5. MaxSector \in Nat  BY DiskAssumption DEF DiskAssumption
<1>6. o % (MaxSector + 1) = o
      /\ ((o >= c \/ (o + s) % (MaxSector + 1) < o \/ (o + s) % (MaxSector + 1) > c) <=> ~(o + s <= c))
  BY <1>5, EndIs
<1>7. (MBR(Current)[i].offset + 0) % (MaxSector + 1) = o  BY <1>3, <1>6
<1>8. i \in Inside(Current) <=> o + s <= c  BY <1>3, <1>4 DEF Inside
<1>9. Capacity = c  BY <1>4 DEF Capacity, Current
<1> DEFINE nr == Cardinality({ j \in Real(Current) : j <= i })
           blk == [dev |-> op[Boot].dev, part |-> nr, type |-> block_type(MBR(Current)[i].type),
                   start |-> o, size |-> s]
<1>10. blk = Partition(Current, i)  BY <1>3 DEF Partition, Current
<1>11. found_partition(MBR(Current)[i].type, o, s, nr) =
         IF o >= c \/ (o + s) % (MaxSector + 1) < o \/ (o + s) % (MaxSector + 1) > c THEN all_blocks
         ELSE Append(all_blocks, blk)
  BY <1>9 DEF found_partition
<1>12. i \in Inside(Current) => Partition(Current, i) \in Good
  <2>1. Entry(Current, i) \in Seq(BlocksOf(Current)) /\ BlocksOf(Current) \subseteq Good  BY <1>1, BlocksIn
  <2>2. ASSUME i \in Inside(Current) PROVE Partition(Current, i) \in BlocksOf(Current)
    <3>1. <<Partition(Current, i)>> \in Seq(BlocksOf(Current))  BY <2>1, <2>2 DEF Entry
    <3>2. Len(<<Partition(Current, i)>>) = 1 /\ <<Partition(Current, i)>>[1] = Partition(Current, i)  OBVIOUS
    <3> QED  BY <3>1, <3>2, ElementOfSeq
  <2> QED  BY <2>1, <2>2
<1> HIDE DEF nr, blk
<1>13. all_blocks \o <<>> = all_blocks  BY ConcatEmptySeq
<1>14. CASE o + s <= c
  <2>1. Entry(Current, i) = <<blk>>  BY <1>8, <1>10, <1>14 DEF Entry
  <2>2. Append(all_blocks, blk) = all_blocks \o <<blk>>
    <3>1. blk \in Good  BY <1>8, <1>10, <1>12, <1>14
    <3> QED  BY <3>1, AppendIsConcat
  <2> QED  BY <1>3, <1>6, <1>7, <1>11, <1>14, <2>1, <2>2 DEF nr
<1>15. CASE ~(o + s <= c)
  <2>1. Entry(Current, i) = <<>>  BY <1>8, <1>15 DEF Entry
  <2> QED  BY <1>3, <1>6, <1>7, <1>11, <1>13, <1>15, <2>1 DEF nr
<1> QED  BY <1>14, <1>15


\* An entry of whatever table, at whatever distance, adds a block that lies in the drive, or none.
LEMMA FoundIn ==
  ASSUME Current \in Range(Drives), Hardware[Current].capacity < GB, all_blocks \in Seq(Good),
         NEW type, NEW o \in 0 .. MaxSector, NEW s \in 0 .. MaxSector, NEW nr \in Nat
  PROVE  \E t \in Seq(BlocksOf(Current)) : found_partition(type, o, s, nr) = all_blocks \o t
<1>1. MaxSector \in Nat /\ GB \in 1 .. MaxSector + 1  BY DiskAssumption DEF DiskAssumption
<1>2. PICK c \in 0 .. MaxSector : c = Hardware[Current].capacity /\ c = Capacity
  BY <1>1, CapacityIs DEF Capacity, Current
<1>3. PICK end : end = (o + s) % (MaxSector + 1)  OBVIOUS
<1>4. PICK blk : blk = [dev |-> Current, part |-> nr, type |-> block_type(type), start |-> o, size |-> s]
  OBVIOUS
<1>5. found_partition(type, o, s, nr) =
        IF o >= c \/ end < o \/ end > c THEN all_blocks ELSE Append(all_blocks, blk)
  BY <1>2, <1>3, <1>4 DEF found_partition, Current
<1>6. CASE o >= c \/ end < o \/ end > c
  <2>1. all_blocks \o <<>> = all_blocks /\ <<>> \in Seq(BlocksOf(Current))  BY ConcatEmptySeq
  <2> QED  BY <1>5, <1>6, <2>1
<1>7. CASE ~(o >= c \/ end < o \/ end > c)
  <2>1. o + s <= c
    <3>1. CASE o + s <= MaxSector
      <4>1. (o + s) % (MaxSector + 1) = o + s  BY <1>1, <3>1
      <4> QED  BY <1>3, <1>7, <4>1
    <3>2. CASE o + s > MaxSector
      <4>1. (o + s) % (MaxSector + 1) = o + s - (MaxSector + 1)  BY <1>1, <3>2
      <4> QED  BY <1>1, <1>3, <1>7, <4>1
    <3> QED  BY <1>1, <3>1, <3>2
  <2>2. o \in Nat /\ s \in Nat  BY <1>1
  <2>3. block_type(type) \in Kinds  BY DEF block_type, Kinds
  <2>4. blk \in BlocksOf(Current)  BY <1>2, <1>4, <2>1, <2>2, <2>3 DEF BlocksOf, Good
  <2>5. blk \in Good /\ <<blk>> \in Seq(BlocksOf(Current))  BY <2>4 DEF BlocksOf
  <2>6. Append(all_blocks, blk) = all_blocks \o <<blk>>  BY <2>5, AppendIsConcat
  <2> QED  BY <1>5, <1>7, <2>5, <2>6
<1> QED  BY <1>6, <1>7

-----------------------------------------------------------------------------
(***************************************************************************)
(* Every step of start-up finds what the tables describe.                   *)
(***************************************************************************)

\* What a step leaves that finds nothing and stays at the drive.
LEMMA ScanFrame ==
  ASSUME op'[Boot].dev = op[Boot].dev, UNCHANGED <<is_ata, all_blocks, scan, part_nr>>
  PROVE  /\ DrivesDone' = DrivesDone /\ InUse' = InUse /\ BeingRead' = BeingRead /\ TableRead' = TableRead
         /\ NotRead' = NotRead
         /\ \A n : AreBlocks(n, all_blocks)' = AreBlocks(n, all_blocks) /\ Fits(n)' = Fits(n)
<1>1. Current' = Current  BY DEF Current
<1>2. \A n : Fits(n)' = Fits(n) /\ \A s : AreBlocks(n, s)' = AreBlocks(n, s)  BY SameDrives
<1>3. \A n : AreBlocks(n, all_blocks)' = AreBlocks(n, all_blocks)  BY <1>2
<1>4. \A s : Begun(s)' = Begun(s)  BY <1>1, BegunStays
<1>5. DrivesDone' = DrivesDone  BY <1>1, <1>2, <1>3 DEF DrivesDone
<1>6. InUse' = InUse  BY <1>1, <1>2 DEF InUse
<1>7. NotRead' = NotRead  BY <1>4 DEF NotRead
<1>8. NestedRead' = NestedRead  BY <1>1, <1>4 DEF NestedRead
<1>9. PlainRead' = PlainRead
  <2>1. \A n : AtEntry(n)' = AtEntry(n) /\ Top(n)' = Top(n)  BY <1>1, <1>4 DEF AtEntry, Top, HasTable
  <2> QED  BY <1>1, <1>3, <1>7, <2>1 DEF PlainRead
<1>10. BeingRead' = BeingRead /\ TableRead' = TableRead
  BY <1>1, <1>7, <1>8, <1>9 DEF BeingRead, TableRead
<1> QED  BY <1>2, <1>3, <1>5, <1>6, <1>7, <1>10

\* A step that leaves start-up where it is.
LEMMA ScanStays ==
  ASSUME DInv, at'[Boot] = at[Boot], op'[Boot] = op[Boot], UNCHANGED <<is_ata, all_blocks, scan, part_nr>>,
         at[Boot] # "booted" => disk' = disk
  PROVE  ScanOK'
<1>1. ScanOK  BY DEF DInv
<1>2. Identifying' = Identifying /\ Reading' = Reading  BY DEF Identifying, Reading
<1>3. Current' = Current  BY DEF Current
<1>4. DrivesDone' = DrivesDone /\ InUse' = InUse /\ BeingRead' = BeingRead /\ TableRead' = TableRead
      /\ \A n : AreBlocks(n, all_blocks)' = AreBlocks(n, all_blocks) /\ Fits(n)' = Fits(n)
  BY ScanFrame
<1> QED  BY <1>1, <1>2, <1>3, <1>4 DEF ScanOK

\* The boot thread's own reads.
LEMMA BootReads ==
  ASSUME DInv, ide_lock(Boot) \/ Io(Boot)
  PROVE  ScanOK'
<1>0. at \in [Users -> Places] /\ op \in [Users -> Ops] /\ Boot \in Users
  BY UsersAre DEF DInv, DTypeOK, Places, Ops
<1>1. ScanOK  BY DEF DInv
<1>a. ASSUME at[Boot] \in {"lock", "select", "issue", "wait", "unlock", "input"},
             NEW p \in {"select", "issue", "wait", "input", "unlock", "parse"}, at' = [at EXCEPT ![Boot] = p],
             op'[Boot].dev = op[Boot].dev, op'[Boot].cmd = op[Boot].cmd, op'[Boot].lba = op[Boot].lba,
             p \in {"unlock", "parse"} => op[Boot].cmd = "read" /\ op'[Boot].data = Contents[Current][0],
             UNCHANGED <<is_ata, all_blocks, scan, part_nr, disk>>
      PROVE  ScanOK'
  <2>1. at'[Boot] = p  BY <1>0, <1>a
  <2>2. DrivesDone' = DrivesDone /\ InUse' = InUse /\ BeingRead' = BeingRead  BY <1>a, ScanFrame
  <2>3. Current' = Current  BY <1>a DEF Current
  <2>4. op[Boot].cmd \in {"identify", "read"}
    <3>1. at[Boot] = "lock" => op[Boot].cmd = "read"  BY <1>1 DEF ScanOK, Reading
    <3> QED  BY <1>1, <1>a, <3>1 DEF ScanOK, Drivers
  <2>5. Identifying' => Identifying
    <3>1. at[Boot] = "lock" => op[Boot].cmd = "read"  BY <1>1 DEF ScanOK, Reading
    <3>2. p = "parse" => op[Boot].cmd = "read"  BY <1>a
    <3> QED  BY <1>a, <2>1, <3>1, <3>2 DEF Identifying, Drivers
  <2>6. Reading' => Reading
    <3>1. at[Boot] = "lock" => op[Boot].cmd = "read"  BY <1>1 DEF ScanOK, Reading
    <3>2. p = "parse" => op[Boot].cmd = "read"  BY <1>a
    <3> QED  BY <1>a, <2>1, <3>1, <3>2 DEF Reading, Drivers
  <2> QED  BY <1>1, <1>a, <2>1, <2>2, <2>3, <2>4, <2>5, <2>6 DEF ScanOK, Drivers
<1>2. CASE ide_lock(Boot)
  BY <1>2, <1>a DEF ide_lock, found
<1>3. CASE select_sector(Boot)
  BY <1>3, <1>a DEF select_sector, found
<1>4. CASE issue_pio_command(Boot)
  <2>1. op[Boot].cmd # "write"  BY <1>1, <1>4 DEF ScanOK, issue_pio_command, Drivers
  <2> QED  BY <1>4, <1>a, <2>1 DEF issue_pio_command, found
<1>5. CASE output_sector(Boot)
  <2>1. at[Boot] # "busy"  BY DEF DInv, DTypeOK, BootPlace
  <2> QED  BY <1>5, <2>1 DEF output_sector
<1>6. CASE await_completion(Boot)
  <2>1. op[Boot].cmd # "write"  BY <1>1, <1>6 DEF ScanOK, await_completion, Drivers
  <2> QED  BY <1>6, <1>a, <2>1 DEF await_completion, found
<1>7. CASE input_sector(Boot)
  <2>1. at[Boot] = "input" /\ op[Boot].cmd = "read" /\ UNCHANGED <<is_ata, all_blocks, scan, part_nr, disk>>
    BY <1>7 DEF input_sector, found
  <2>2. CASE hw.drq
    <3>1. PICK v : v = disk[hw.dev][hw.lba]  OBVIOUS
    <3>2. op' = [op EXCEPT ![Boot].data = v] /\ at' = [at EXCEPT ![Boot] = "unlock"]
      BY <1>7, <2>2, <3>1 DEF input_sector
    <3>3. Selected(Boot) /\ op[Boot].lba = 0 /\ disk = Contents
      <4>1. Reading  BY <2>1 DEF Reading, Drivers
      <4>2. Selected(Boot)  BY <1>0 DEF DInv, ChannelOK
      <4> QED  BY <1>1, <2>1, <4>1, <4>2 DEF ScanOK
    <3>4. hw.dev = op[Boot].dev /\ hw.lba = 0  BY <2>1, <3>3 DEF Selected, Driving, Drivers
    <3>5. v = Contents[Current][0]  BY <3>1, <3>3, <3>4 DEF Current
    <3>6. op'[Boot].dev = op[Boot].dev /\ op'[Boot].cmd = op[Boot].cmd /\ op'[Boot].lba = op[Boot].lba
          /\ op'[Boot].data = v
      BY <1>0, <3>2 DEF Ops
    <3> QED  BY <1>a, <2>1, <3>2, <3>5, <3>6
  <2>3. CASE ~hw.drq
    <3>1. op' = op /\ at' = [at EXCEPT ![Boot] = "input"]  BY <1>0, <1>7, <2>1, <2>3 DEF input_sector
    <3> QED  BY <1>a, <2>1, <3>1
  <2> QED  BY <2>2, <2>3
<1>8. CASE ide_unlock(Boot)
  <2>1. at[Boot] = "unlock" /\ at' = [at EXCEPT ![Boot] = "parse"] /\ op' = op
        /\ UNCHANGED <<is_ata, all_blocks, scan, part_nr, disk>>
    BY <1>8 DEF ide_unlock, found
  <2>2. op[Boot].cmd = "read" /\ op[Boot].data = Contents[Current][0]  BY <1>1, <2>1 DEF ScanOK
  <2> QED  BY <1>a, <2>1, <2>2
<1> QED  BY <1>2, <1>3, <1>4, <1>5, <1>6, <1>7, <1>8 DEF Io

\* What other threads and the controller do.
LEMMA ThreadScan ==
  ASSUME DInv, NEW t \in Thread, ide_lock(t) \/ Io(t)
  PROVE  ScanOK'
<1>0. at \in [Users -> Places] /\ op \in [Users -> Ops] /\ Boot \in Users /\ t \in Users /\ t # Boot
  BY UsersAre DEF DInv, DTypeOK, Places, Ops
<1>1. UNCHANGED <<is_ata, all_blocks, scan, part_nr, disk>> /\ (\E p : at' = [at EXCEPT ![t] = p])
      /\ (op' = op \/ \E v : op' = [op EXCEPT ![t].data = v])
  BY DEF Io, ide_lock, select_sector, issue_pio_command, output_sector, await_completion, input_sector,
         ide_unlock, Return, found
<1>2. at'[Boot] = at[Boot] /\ op'[Boot] = op[Boot]  BY <1>0, <1>1
<1> QED  BY <1>1, <1>2, ScanStays

\* A call leaves start-up alone.
LEMMA CallScan ==
  ASSUME DInv, NEW t \in Thread, NEW r \in Role, NEW s \in 0 .. MaxSector,
         ReadCall(t, r, s) \/ \E v \in Value : WriteCall(t, r, s, v)
  PROVE  ScanOK'
<1>0. at \in [Users -> Places] /\ op \in [Users -> Ops] /\ Boot \in Users /\ t \in Users /\ t # Boot
  BY UsersAre DEF DInv, DTypeOK, Places, Ops
<1>1. ASSUME NEW cmd, NEW v, Call(t, r, s, cmd, v) PROVE ScanOK'
  <2>1. UNCHANGED <<is_ata, all_blocks, scan, part_nr, disk>> /\ at' = [at EXCEPT ![t] = "lock"]
        /\ \E o : op' = [op EXCEPT ![t] = o]
    BY <1>1 DEF Call, found
  <2>2. at'[Boot] = at[Boot] /\ op'[Boot] = op[Boot]  BY <1>0, <2>1
  <2> QED  BY <2>1, <2>2, ScanStays
<1> QED  BY <1>1 DEF ReadCall, WriteCall

\* The drive leaves start-up alone.
LEMMA DriveScan == ASSUME DInv, interrupt_handler \/ Drive PROVE ScanOK'
<1>1. UNCHANGED <<at, op, is_ata, all_blocks, scan, part_nr>>
  BY DEF interrupt_handler, Drive, DriveStarts, DriveReady, DriveWrites, DriveRefuses, found
<1>2. ASSUME at[Boot] # "booted" PROVE disk' = disk
  <2>1. CASE DriveWrites
    <3>1. hw.busy /\ hw.taken # Pending  BY <2>1 DEF DriveWrites
    <3>2. PICK t \in Users : at[t] \in {"busy", "wait"}  BY <3>1, BusyFor
    <3>3. t = Boot  BY <1>2, <3>2, NotResetting DEF Drivers
    <3>4. op[t].cmd # "write"  BY <3>2, WriteIs, <3>3, UsersAre DEF Drivers
    <3>5. hw.taken = Pending  BY <3>2, <3>4 DEF DInv, ChannelOK, AtBusy, AtWait
    <3> QED  BY <3>1, <3>5
  <2>2. CASE ~DriveWrites
    BY <2>2 DEF interrupt_handler, Drive, DriveStarts, DriveReady, DriveRefuses
  <2> QED  BY <2>1, <2>2
<1> QED  BY <1>1, <1>2, ScanStays
-----------------------------------------------------------------------------
\* What is appended to a sequence of one.
LEMMA AppendSecond ==
  ASSUME NEW T, NEW o \in Seq(T), NEW y \in T, Len(o) = 1
  PROVE  Append(o, y) \in Seq(T) /\ Len(Append(o, y)) = 2 /\ Append(o, y)[1] = o[1] /\ Append(o, y)[2] = y
<1>1. PICK b : b = Append(o, y)  OBVIOUS
<1>2. b \in Seq(T) /\ Len(b) = Len(o) + 1  BY <1>1, AppendProperties
<1>3. \A i \in 1 .. Len(o) : b[i] = o[i]  BY <1>1, AppendProperties
<1>4. b[Len(o) + 1] = y  BY <1>1, AppendProperties
<1>5. b[1] = o[1] /\ b[2] = y  BY <1>3, <1>4
<1> QED  BY <1>1, <1>2, <1>5

\* A stack of one frame and of two.
LEMMA StackFacts ==
  ASSUME NEW x, NEW y
  PROVE  /\ Last(<<x>>) = x /\ Front(<<x>>) = <<>> /\ Last(<<x, y>>) = y /\ Front(<<x, y>>) = <<x>>
         /\ Append(<<>>, x) = <<x>> /\ Append(<<x>>, y) = <<x, y>>
         /\ <<x>> # <<>> /\ <<x, y>> # <<>>
<1>1. Len(<<x>>) = 1 /\ Len(<<x, y>>) = 2  OBVIOUS
<1>2. Last(<<x>>) = x /\ Last(<<x, y>>) = y  BY <1>1 DEF Last
<1>3. Front(<<x>>) = SubSeq(<<x>>, 1, 0)  BY <1>1 DEF Front
<1>5. SubSeq(<<x>>, 1, 0) = <<>>  OBVIOUS
<1>6. Front(<<x, y>>) = <<x>>
  <2>0. PICK s : s = <<x, y>>  OBVIOUS
  <2>1. s \in Seq({x, y}) /\ s = <<x, y>>
    <3>1. x \in {x, y} /\ y \in {x, y}  OBVIOUS
    <3> QED  BY <2>0, <3>1, Z3
  <2>2. Len(s) = 2 /\ s[1] = x  BY <2>1
  <2>3. PICK n \in Int : n = 1  OBVIOUS
  <2>4. PICK r : r = SubSeq(s, n, n)  OBVIOUS
  <2>9. Front(s) = r  BY <2>2, <2>3, <2>4 DEF Front
  <2>7. \A i \in n .. n : s[i] \in {x, y}  BY <2>2, <2>3
  <2>8. r \in Seq({x, y}) /\ Len(r) = (IF n <= n THEN n - n + 1 ELSE 0)
        /\ \A i \in 1 .. n - n + 1 : r[i] = s[n + i - 1]
    BY <2>4, <2>7, SubSeqProperties, Z3
  <2>5. Len(r) = 1 /\ r[1] = x  BY <2>2, <2>3, <2>8
  <2>6. r = <<x>>
    <3>1. PICK o : o = <<x>>  OBVIOUS
    <3>2. o \in Seq({x, y}) /\ Len(o) = 1 /\ o[1] = x
      <4>1. x \in {x, y}  OBVIOUS
      <4> QED  BY <3>1, <4>1, Z3
    <3>3. \A i \in 1 .. Len(r) : r[i] = o[i]  BY <2>5, <3>2
    <3> QED  BY <2>5, <2>8, <3>1, <3>2, <3>3, SeqEqual
  <2> QED  BY <2>0, <2>6, <2>9, Zenon
<1>7. Append(<<>>, x) = <<x>> /\ Append(<<x>>, y) = <<x, y>>
  <2>1. PICK T : x \in T /\ y \in T
    <3>1. x \in {x, y} /\ y \in {x, y}  OBVIOUS
    <3> QED  BY <3>1
  <2>2. PICK e, o, s : e = <<>> /\ o = <<x>> /\ s = <<x, y>>  OBVIOUS
  <2>3. e \in Seq(T) /\ Len(e) = 0 /\ o \in Seq(T) /\ Len(o) = 1 /\ o[1] = x
        /\ s \in Seq(T) /\ Len(s) = 2 /\ s[1] = x /\ s[2] = y
    BY <2>1, <2>2, Z3
  <2>4. Append(e, x) \in Seq(T) /\ Len(Append(e, x)) = 1 /\ Append(e, x)[1] = x  BY <2>1, <2>3
  <2>5. PICK b : b = Append(o, y)  OBVIOUS
  <2>a. b \in Seq(T) /\ Len(b) = 2 /\ b[1] = o[1] /\ b[2] = y  BY <2>1, <2>3, <2>5, AppendSecond
  <2>b. Len(b) = 2 /\ b[1] = x /\ b[2] = y  BY <2>3, <2>a
  <2>6. PICK a : a = Append(e, x)  OBVIOUS
  <2>7. \A i \in 1 .. Len(a) : a[i] = o[i]  BY <2>3, <2>4, <2>6
  <2>8. a = o  BY <2>3, <2>4, <2>6, <2>7, SeqEqual
  <2>9. \A i \in 1 .. Len(b) : b[i] = s[i]
    <3>1. \A i \in 1 .. 2 : i = 1 \/ i = 2  OBVIOUS
    <3> QED  BY <2>3, <2>b, <3>1
  <2>10. b = s  BY <2>3, <2>a, <2>b, <2>9, SeqEqual
  <2> QED  BY <2>2, <2>5, <2>6, <2>8, <2>10, Zenon
<1>8. <<x>> # <<>> /\ <<x, y>> # <<>>  BY <1>1
<1> QED  BY <1>2, <1>3, <1>5, <1>6, <1>7, <1>8

\* The blocks of the drives before D are those they were when D alone is judged.
LEMMA EarlierStay ==
  ASSUME DInv, NEW d \in Range(Drives), NEW u \in BOOLEAN, is_ata' = [is_ata EXCEPT ![d] = u]
  PROVE  /\ \A s : AreBlocks(Rank(d) - 1, s)' = AreBlocks(Rank(d) - 1, s)
         /\ Fits(Rank(d) - 1) => Fits(Rank(d) - 1)'
         /\ is_ata'[d] = u
<1>1. is_ata \in [Range(Drives) -> BOOLEAN]  BY DEF DInv, DTypeOK
<1>2. is_ata'[d] = u /\ \A e \in Range(Drives) : e # d => is_ata'[e] = is_ata[e]  BY <1>1
<1>3. \A i \in 1 .. Rank(d) - 1 : Drives[i] \in Range(Drives) /\ Drives[i] # d
  <2> SUFFICES ASSUME NEW i \in 1 .. Rank(d) - 1 PROVE Drives[i] \in Range(Drives) /\ Drives[i] # d  OBVIOUS
  <2>1. Rank(d) \in 1 .. Len(Drives) /\ Drives[Rank(d)] = d /\ Len(Drives) \in 1 .. 2  BY RankIs, FirstDrive
  <2>2. i \in 1 .. Len(Drives) /\ i # Rank(d)  BY <2>1
  <2>3. Drives[i] \in Range(Drives) /\ Rank(Drives[i]) = i  BY <2>2, RankIs
  <2> QED  BY <2>2, <2>3
<1>4. Rank(d) - 1 = 0 \/ Rank(d) - 1 = 1
  <2>1. Rank(d) = 1 \/ Rank(d) = 2  BY MasterOrSlave
  <2> QED  BY <2>1
<1>5. \A s : AreBlocks(Rank(d) - 1, s)' = AreBlocks(Rank(d) - 1, s)
  <2>1. CASE Rank(d) - 1 = 0  BY <2>1 DEF AreBlocks
  <2>2. CASE Rank(d) - 1 = 1
    <3>1. is_ata'[Drives[1]] = is_ata[Drives[1]]  BY <1>2, <1>3, <2>2
    <3>2. \A s : Whole(Drives[1], s)' = Whole(Drives[1], s)  BY <3>1 DEF Whole
    <3> QED  BY <2>2, <3>2 DEF AreBlocks
  <2> QED  BY <1>4, <2>1, <2>2
<1>6. Fits(Rank(d) - 1) => Fits(Rank(d) - 1)'  BY <1>2, <1>3 DEF Fits
<1> QED  BY <1>2, <1>5, <1>6

\* One drive more fits.
LEMMA FitsStep ==
  ASSUME NEW d \in Range(Drives), Fits(Rank(d) - 1), is_ata[d] => Hardware[d].capacity < GB
  PROVE  Fits(Rank(d))
<1>1. Rank(d) \in 1 .. Len(Drives) /\ Drives[Rank(d)] = d /\ Len(Drives) \in 1 .. 2  BY RankIs, FirstDrive
<1>2. ASSUME NEW i \in 1 .. Rank(d), is_ata[Drives[i]] PROVE Hardware[Drives[i]].capacity < GB
  <2>1. CASE i = Rank(d)  BY <1>1, <1>2, <2>1
  <2>2. CASE i # Rank(d)
    <3>1. i \in 1 .. Rank(d) - 1  BY <1>1, <2>2
    <3> QED  BY <1>2, <3>1 DEF Fits
  <2> QED  BY <2>1, <2>2
<1> QED  BY <1>2 DEF Fits

\* Start-up goes on to the next drive when the blocks of the current one are known.
LEMMA GoneOn ==
  ASSUME DInv, NEW d \in Range(Drives), Current = d, SetBoot(NextDrive(boot)),
         AreBlocks(Rank(d), all_blocks)', Fits(Rank(d))', disk' = disk, at[Boot] # "booted"
  PROVE  ScanOK'
<1>0. at \in [Users -> Places] /\ op \in [Users -> Ops] /\ Boot \in Users /\ DTypeOK
  BY UsersAre DEF DInv, DTypeOK, Places, Ops
<1>1. disk' = Contents  BY DEF DInv, ScanOK
<1>2. CASE Rank(d) + 1 \in 1 .. Len(Drives) /\ at' = [at EXCEPT ![Boot] = "probe"]
           /\ op' = [op EXCEPT ![Boot].dev = Drives[Rank(d) + 1]]
  <2>1. at'[Boot] = "probe"  BY <1>0, <1>2
  <2>2. Current' = Drives[Rank(d) + 1]  BY <1>0, <1>2 DEF Current, Ops
  <2>3. PICK e \in Range(Drives) : e = Drives[Rank(d) + 1] /\ Rank(e) = Rank(d) + 1  BY <1>2, RankIs
  <2>4. Rank(e) - 1 = Rank(d)
    <3>1. Rank(d) \in 1 .. Len(Drives) /\ Len(Drives) \in 1 .. 2  BY RankIs, FirstDrive
    <3> QED  BY <2>3, <3>1
  <2>5. DrivesDone'  BY <2>2, <2>3, <2>4 DEF DrivesDone
  <2> QED  BY <1>1, <2>1, <2>5 DEF ScanOK, Identifying, Reading, Drivers
<1>3. CASE Rank(d) = Len(Drives) /\ at' = [at EXCEPT ![Boot] = "locate"] /\ op' = op
  <2>1. at'[Boot] = "locate"  BY <1>0, <1>3
  <2>2. AreBlocks(Len(Drives), all_blocks)' /\ Fits(Len(Drives))'  BY <1>3
  <2> QED  BY <1>1, <2>1, <2>2 DEF ScanOK, Identifying, Reading, Drivers
<1> QED  BY <1>0, <1>2, <1>3, NextDriveIs

\* Start-up is at the tables of a drive that is used.
LEMMA AtTable ==
  ASSUME DInv, at'[Boot] = "table", InUse', TableRead', disk' = disk, at[Boot] # "booted"
  PROVE  ScanOK'
<1>1. disk' = Contents  BY DEF DInv, ScanOK
<1> QED  BY <1>1 DEF ScanOK, Identifying, Reading, Drivers

\* A disk that answers IDENTIFY is found as it is listed.
LEMMA IdentifyScan == ASSUME DInv, identify_ata_device PROVE ScanOK'
<1>0. at \in [Users -> Places] /\ op \in [Users -> Ops] /\ Boot \in Users
      /\ is_ata \in [Range(Drives) -> BOOLEAN]
  BY UsersAre DEF DInv, DTypeOK, Places, Ops
<1>1. at[Boot] = "input" /\ op[Boot].cmd = "identify" /\ disk' = disk
  BY DEF identify_ata_device
<1>2. DrivesDone  BY <1>1 DEF DInv, ScanOK, Identifying, Drivers
<1>3. PICK d \in Range(Drives) : d = Current  BY <1>2 DEF DrivesDone
<1>4. AreBlocks(Rank(d) - 1, all_blocks) /\ Fits(Rank(d) - 1)  BY <1>2, <1>3 DEF DrivesDone
<1>5. PICK u \in BOOLEAN : u = (hw.drq /\ Hardware[d].capacity < GB)  OBVIOUS
<1>6. is_ata' = [is_ata EXCEPT ![d] = u] /\ part_nr' = 0
      /\ all_blocks' = (IF u THEN Append(all_blocks, Raw(d)) ELSE all_blocks)
      /\ scan' = (IF u THEN <<First>> ELSE <<>>)
      /\ SetBoot(IF u THEN [boot EXCEPT !.at = "table"] ELSE NextDrive(boot))
  BY <1>3, <1>5 DEF identify_ata_device, Current, Raw, First
<1>7. Fits(Rank(d) - 1)' /\ is_ata'[d] = u  BY <1>4, <1>6, EarlierStay
<1>8. PICK before : before = all_blocks  OBVIOUS
<1>9. before \in Seq(Good) /\ AreBlocks(Rank(d) - 1, before)'
  <2>1. AreBlocks(Rank(d) - 1, before)  BY <1>4, <1>8
  <2>2. Rank(d) - 1 \in 0 .. Len(Drives)  BY MasterOrSlave
  <2> QED  BY <1>6, <2>1, <2>2, AreTyped, EarlierStay
<1>10. CASE u
  <2>1. at' = [at EXCEPT ![Boot] = "table"] /\ op' = [op EXCEPT ![Boot] = op[Boot]]
    BY <1>6, <1>10, BootGoes
  <2>2. at'[Boot] = "table" /\ op'[Boot] = op[Boot]  BY <1>0, <2>1
  <2>3. Current' = d  BY <1>3, <2>2 DEF Current
  <2>4. Fits(Rank(d))'
    <3>1. is_ata'[d] => Hardware[d].capacity < GB  BY <1>5, <1>10
    <3>2. Rank(d) \in 1 .. Len(Drives) /\ Drives[Rank(d)] = d /\ Len(Drives) \in 1 .. 2  BY RankIs, FirstDrive
    <3>3. ASSUME NEW i \in 1 .. Rank(d), is_ata'[Drives[i]] PROVE Hardware[Drives[i]].capacity < GB
      <4>1. CASE i = Rank(d)  BY <3>1, <3>2, <3>3, <4>1
      <4>2. CASE i # Rank(d)
        <5>1. i \in 1 .. Rank(d) - 1  BY <3>2, <4>2
        <5> QED  BY <1>7, <3>3, <5>1 DEF Fits
      <4> QED  BY <4>1, <4>2
    <3> QED  BY <3>3 DEF Fits
  <2>5. InUse'  BY <1>7, <1>10, <2>3, <2>4 DEF InUse
  <2>6. part_nr' = 0 /\ scan' = <<First>> /\ Begun(<<>>)'
    <3>1. <<Raw(d)>> \in Seq(BlocksOf(d)) /\ BlocksOf(d) \subseteq Good  BY BlocksIn
    <3>2. Raw(d) \in Good
      <4>1. Len(<<Raw(d)>>) = 1 /\ <<Raw(d)>>[1] = Raw(d)  OBVIOUS
      <4>2. Raw(d) \in BlocksOf(d)  BY <3>1, <4>1, ElementOfSeq
      <4> QED  BY <3>1, <4>2
    <3>3. Append(before, Raw(d)) = before \o <<Raw(d)>>  BY <1>9, <3>2, AppendIsConcat
    <3>4. before \o <<Raw(d)>> \in Seq(Good)  BY <1>9, <3>2
    <3>5. (before \o <<Raw(d)>>) \o <<>> = before \o <<Raw(d)>>  BY <3>4, ConcatFacts
    <3>6. all_blocks' = (before \o <<Raw(d)>>) \o <<>>  BY <1>6, <1>8, <1>10, <3>3, <3>5
    <3> QED  BY <1>6, <1>9, <1>10, <2>3, <3>6 DEF Begun
  <2>7. TableRead'
    <3>1. CASE ~Nested(d)  BY <2>3, <2>6, <3>1 DEF TableRead, PlainRead, NotRead
    <3>2. CASE Nested(d)
      <4>1. First \in Frame(d)  BY DEF First, Frame
      <4>2. <<First>> \in Seq(Frame(d)) /\ <<>> \in Seq(BlocksOf(d))  BY <4>1
      <4>3. NestedRead'  BY <2>3, <2>6, <4>2 DEF NestedRead
      <4> QED  BY <2>3, <3>2, <4>3 DEF TableRead
    <3> QED  BY <3>1, <3>2
  <2> QED  BY <1>1, <2>2, <2>5, <2>7, AtTable
<1>11. CASE ~u
  <2>4. AreBlocks(Rank(d), all_blocks)'
    <3>1. Whole(d, <<>>)'  BY <1>7, <1>11 DEF Whole
    <3>2. before \o <<>> = before /\ <<>> \o <<>> = <<>>  BY <1>9, ConcatFacts
    <3>3. Drives[Rank(d)] = d /\ (Rank(d) = 1 \/ Rank(d) = 2)  BY MasterOrSlave
    <3>4. AreBlocks(Rank(d), before)'
      <4>1. CASE Rank(d) = 1
        <5>1. before = <<>>  BY <1>9, <4>1 DEF AreBlocks
        <5> QED  BY <3>1, <3>3, <4>1, <5>1 DEF AreBlocks
      <4>2. CASE Rank(d) = 2
        <5>1. Whole(Drives[1], before)'  BY <1>9, <4>2 DEF AreBlocks
        <5> QED  BY <3>1, <3>2, <3>3, <4>2, <5>1 DEF AreBlocks
      <4> QED  BY <3>3, <4>1, <4>2
    <3>5. all_blocks' = before  BY <1>6, <1>8, <1>11
    <3> QED  BY <3>4, <3>5
  <2>5. Fits(Rank(d))'
    <3>2. Rank(d) \in 1 .. Len(Drives) /\ Drives[Rank(d)] = d /\ Len(Drives) \in 1 .. 2  BY RankIs, FirstDrive
    <3>3. ASSUME NEW i \in 1 .. Rank(d), is_ata'[Drives[i]] PROVE Hardware[Drives[i]].capacity < GB
      <4>1. i # Rank(d)  BY <1>7, <1>11, <3>2, <3>3
      <4>2. i \in 1 .. Rank(d) - 1  BY <3>2, <4>1
      <4> QED  BY <1>7, <3>3, <4>2 DEF Fits
    <3> QED  BY <3>3 DEF Fits
  <2> QED  BY <1>1, <1>3, <1>6, <1>11, <2>4, <2>5, GoneOn
<1> QED  BY <1>10, <1>11

\* The steps before the first table.
LEMMA EarlyScan ==
  ASSUME DInv, reset_channel \/ await_reset \/ detect_drives \/ probe
  PROVE  ScanOK'
<1>0. at \in [Users -> Places] /\ op \in [Users -> Ops] /\ Boot \in Users
      /\ is_ata \in [Range(Drives) -> BOOLEAN] /\ ScanOK
  BY UsersAre DEF DInv, DTypeOK, Places, Ops
<1>1. CASE reset_channel \/ await_reset
  <2>1. at[Boot] \in {"reset", "await_reset"} /\ disk' = disk /\ all_blocks' = all_blocks
        /\ (at' = [at EXCEPT ![Boot] = "await_reset"] \/ at' = [at EXCEPT ![Boot] = "detect"])
    BY <1>1 DEF reset_channel, await_reset, found
  <2>2. at'[Boot] \in {"await_reset", "detect"}  BY <1>0, <2>1
  <2> QED  BY <1>0, <2>1, <2>2 DEF ScanOK, Identifying, Reading, Drivers
<1>2. CASE detect_drives
  <2>1. at[Boot] = "detect" /\ at' = [at EXCEPT ![Boot] = "probe"] /\ disk' = disk
        /\ op' = [op EXCEPT ![Boot].dev = Drives[1]] /\ all_blocks' = all_blocks
    BY <1>2 DEF detect_drives
  <2>2. at'[Boot] = "probe" /\ Current' = Drives[1]  BY <1>0, <2>1 DEF Current, Ops
  <2>3. Drives[1] \in Range(Drives) /\ Rank(Drives[1]) = 1
    <3>1. 1 \in 1 .. Len(Drives)  BY FirstDrive
    <3> QED  BY <3>1, RankIs
  <2>4. all_blocks' = <<>>  BY <1>0, <2>1 DEF ScanOK
  <2>5. AreBlocks(0, <<>>)' /\ Fits(0)'  BY DEF AreBlocks, Fits
  <2>6. DrivesDone'  BY <2>2, <2>3, <2>4, <2>5 DEF DrivesDone
  <2> QED  BY <1>0, <2>1, <2>2, <2>6 DEF ScanOK, Identifying, Reading, Drivers
<1>3. CASE probe
  <2>1. at[Boot] = "probe" /\ disk' = disk /\ UNCHANGED <<is_ata, all_blocks, scan, part_nr>>
    BY <1>3 DEF probe, found
  <2>2. DrivesDone  BY <1>0, <2>1 DEF ScanOK, Identifying
  <2>3. PICK d \in Range(Drives) : d = Current  BY <2>2 DEF DrivesDone
  <2>4. CASE is_ata[d]
    <3>1. SetBoot([boot EXCEPT !.op.cmd = "identify", !.op.lba = 0, !.at = "select"])
      BY <1>3, <2>3, <2>4 DEF probe, Current
    <3>2. at' = [at EXCEPT ![Boot] = "select"]
          /\ op' = [op EXCEPT ![Boot] = [op[Boot] EXCEPT !.cmd = "identify", !.lba = 0]]
      BY <3>1, BootIssues
    <3>3. at'[Boot] = "select" /\ op'[Boot].cmd = "identify" /\ op'[Boot].dev = op[Boot].dev
      BY <1>0, <3>2 DEF Ops
    <3>4. DrivesDone'  BY <2>1, <2>2, <3>3, ScanFrame
    <3> QED  BY <1>0, <2>1, <3>3, <3>4 DEF ScanOK, Identifying, Reading, Drivers
  <2>5. CASE ~is_ata[d]
    <3>1. SetBoot(NextDrive(boot))  BY <1>3, <2>3, <2>5 DEF probe, Current
    <3>2. AreBlocks(Rank(d) - 1, all_blocks) /\ Fits(Rank(d) - 1)  BY <2>2, <2>3 DEF DrivesDone
    <3>5. AreBlocks(Rank(d), all_blocks)  BY <2>5, <3>2, AreSkip
    <3>6. Fits(Rank(d))  BY <2>5, <3>2, FitsStep
    <3>7. AreBlocks(Rank(d), all_blocks)' /\ Fits(Rank(d))'  BY <2>1, <3>5, <3>6, SameDrives
    <3> QED  BY <2>1, <2>3, <3>1, <3>7, GoneOn
  <2> QED  BY <2>4, <2>5
<1> QED  BY <1>1, <1>2, <1>3

\* The step that ends start-up.
LEMMA LocateScan == ASSUME DInv, locate_block_devices PROVE ScanOK'
<1>0. at \in [Users -> Places] /\ Boot \in Users /\ ScanOK
  BY UsersAre DEF DInv, DTypeOK, Places
<1>1. at[Boot] = "locate" /\ at' = [at EXCEPT ![Boot] = "booted"] /\ UNCHANGED <<is_ata, all_blocks>>
  BY DEF locate_block_devices
<1>2. at'[Boot] = "booted"  BY <1>0, <1>1
<1>3. AreBlocks(Len(Drives), all_blocks) /\ Fits(Len(Drives))  BY <1>0, <1>1 DEF ScanOK
<1>4. AreBlocks(Len(Drives), all_blocks)' /\ Fits(Len(Drives))'  BY <1>1, <1>3, SameDrives
<1> QED  BY <1>2, <1>4 DEF ScanOK, Identifying, Reading, Drivers

\* Start-up is at the tables of the same drive.
LEMMA StaysAtTable ==
  ASSUME DInv, at[Boot] \in {"table", "parse"}, at'[Boot] = "table", op'[Boot].dev = op[Boot].dev, is_ata' = is_ata,
         disk' = disk, TableRead'
  PROVE  ScanOK'
<1>1. InUse  BY DEF DInv, ScanOK, Reading
<1>2. InUse'  BY <1>1, SameDrives DEF InUse, Current
<1> QED  BY <1>2, AtTable

\* The first entry that has not been looked at.
LEMMA EntryReached ==
  ASSUME DInv, NEW n \in 1 .. 5, op'[Boot].dev = op[Boot].dev, is_ata' = is_ata,
         HasTable, part_nr' = Cardinality({ j \in Real(Current) : j < n }), NEW s, Begun(s)',
         s = Upto(Current, n - 1)
  PROVE  AtEntry(n)' /\ Top(n)' = Top(n) /\ Current' = Current
<1>1. Current' = Current  BY DEF Current
<1>2. AtEntry(n)'  BY <1>1 DEF AtEntry, HasTable
<1> QED  BY <1>1, <1>2 DEF Top

\* The innermost frame of the stacks of TableRead.
LEMMA FrameFacts ==
  /\ scan = <<First>> =>
       TableFrame = First /\ Front(scan) = <<>> /\ TableFrame.i = 0 /\ TableFrame.sector = 0 /\ scan # <<>>
  /\ \A n : scan = <<Top(n)>> =>
       /\ TableFrame = Top(n) /\ Front(scan) = <<>> /\ TableFrame.i = n /\ TableFrame.sector = 0
       /\ TableFrame.primary = 0 /\ TableFrame.table = MBR(Current) /\ scan # <<>>
  /\ \A n, f : scan = <<Top(n), f>> => TableFrame = f /\ Front(scan) = <<Top(n)>> /\ scan # <<>>
<1>1. First.i = 0 /\ First.sector = 0  BY DEF First
<1>2. \A n : Top(n).i = n /\ Top(n).sector = 0 /\ Top(n).primary = 0 /\ Top(n).table = MBR(Current)
  BY DEF Top, First
<1>3. ASSUME NEW x, scan = <<x>> PROVE TableFrame = x /\ Front(scan) = <<>> /\ scan # <<>>
  BY <1>3, StackFacts DEF TableFrame
<1>4. ASSUME NEW x, NEW y, scan = <<x, y>> PROVE TableFrame = y /\ Front(scan) = <<x>> /\ scan # <<>>
  BY <1>4, StackFacts DEF TableFrame
<1>5. scan = <<First>> => TableFrame = First /\ Front(scan) = <<>> /\ scan # <<>>  BY <1>3
<1>6. \A n : scan = <<Top(n)>> => TableFrame = Top(n) /\ Front(scan) = <<>> /\ scan # <<>>  BY <1>3
<1>7. \A n, f : scan = <<Top(n), f>> => TableFrame = f /\ Front(scan) = <<Top(n)>> /\ scan # <<>>  BY <1>4
<1> QED  BY <1>1, <1>2, <1>5, <1>6, <1>7, Zenon

\* What is popped from a stack that is not empty, and pushed back.
LEMMA StackIn ==
  ASSUME NEW S, NEW s \in Seq(S), s # <<>>
  PROVE  Last(s) \in S /\ Front(s) \in Seq(S) /\ \A x \in S : Append(Front(s), x) \in Seq(S)
<1>1. Len(s) \in Nat \ {0}  BY EmptySeq, LenProperties
<1>2. Last(s) \in S  BY <1>1, ElementOfSeq DEF Last
<1>3. Front(s) \in Seq(S)
  <2>1. PICK n \in Nat : n = Len(s) - 1  BY <1>1
  <2>2. \A i \in 1 .. n : s[i] \in S  BY <1>1, <2>1, ElementOfSeq
  <2>3. SubSeq(s, 1, n) \in Seq(S)  BY <2>1, <2>2, SubSeqProperties
  <2> QED  BY <2>1, <2>3 DEF Front
<1> QED  BY <1>2, <1>3, AppendProperties

\* What the tables of a drive with an extended partition are read into.
LEMMA NestedAt ==
  ASSUME DInv, Nested(Current), at[Boot] \in {"table", "lock", "parse"}
  PROVE  /\ HasTable /\ NestedRead /\ Current \in Range(Drives) /\ is_ata[Current]
         /\ Hardware[Current].capacity < GB
         /\ scan # <<>> => /\ TableFrame \in Frame(Current) /\ Front(scan) \in Seq(Frame(Current))
                          /\ \A f \in Frame(Current) : Append(Front(scan), f) \in Seq(Frame(Current))
<1>1. HasTable  BY DEF Nested, Chained, HasTable
<1>2. NestedRead /\ InUse  BY DEF DInv, ScanOK, Reading, BeingRead, TableRead
<1>3. scan \in Seq(Frame(Current))  BY <1>2 DEF NestedRead
<1>4. scan # <<>> => /\ Last(scan) \in Frame(Current) /\ Front(scan) \in Seq(Frame(Current))
                     /\ \A f \in Frame(Current) : Append(Front(scan), f) \in Seq(Frame(Current))
  BY <1>3, StackIn
<1>5. Hardware[Current].capacity < GB
  <2>1. Rank(Current) \in 1 .. Rank(Current) /\ Drives[Rank(Current)] = Current
    BY <1>2, MasterOrSlave DEF InUse
  <2> QED  BY <1>2, <2>1 DEF InUse, Fits
<1> QED  BY <1>1, <1>2, <1>4, <1>5 DEF InUse, TableFrame

\* A step that stays at the tables of such a drive, whatever it finds in it.
LEMMA NestedOn ==
  ASSUME DInv, at[Boot] \in {"table", "parse"}, at'[Boot] = "table", op'[Boot].dev = op[Boot].dev,
         is_ata' = is_ata, disk' = disk, Nested(Current), scan' \in Seq(Frame(Current)), part_nr' \in Nat,
         \E t \in Seq(BlocksOf(Current)) : all_blocks' = all_blocks \o t
  PROVE  ScanOK'
<1>1. Current' = Current  BY DEF Current
<1>2. NestedRead /\ Current \in Range(Drives)  BY NestedAt
<1>3. PICK s \in Seq(BlocksOf(Current)) : Begun(s)  BY <1>2 DEF NestedRead
<1>4. PICK t \in Seq(BlocksOf(Current)) : all_blocks' = all_blocks \o t  OBVIOUS
<1>5. s \in Seq(Good) /\ t \in Seq(Good)
  <2>1. BlocksOf(Current) \subseteq Good  BY DEF BlocksOf
  <2> QED  BY <2>1, SeqMonotonic
<1>6. Begun(s \o t)'  BY <1>1, <1>2, <1>3, <1>4, <1>5, BegunStep
<1>7. s \o t \in Seq(BlocksOf(Current))  BY ConcatFacts
<1>8. NestedRead'  BY <1>1, <1>6, <1>7 DEF NestedRead
<1> QED  BY <1>1, <1>8, StaysAtTable DEF TableRead

\* The frames of such a drive's stack, as its entries are gone through.
LEMMA FrameMoves ==
  ASSUME NEW d, NEW f \in Frame(d)
  PROVE  /\ [f EXCEPT !.i = 1, !.table = MBR(d)] \in Frame(d)
         /\ f.i \in 1 .. 4 => [f EXCEPT !.i = @ + 1] \in Frame(d) /\ f.table = MBR(d)
         /\ f.sector \in Nat /\ f.primary \in Nat
         /\ \A s, p \in Nat : [sector |-> s, primary |-> p, i |-> 0, table |-> <<>>] \in Frame(d)
<1>1. PICK m : m = MBR(d)  OBVIOUS
<1> DEFINE F == [sector : Nat, primary : Nat, i : 0 .. 5, table : {<<>>, m}]
<1>2. f \in F /\ (f.i # 0 => f.table = m)  BY <1>1 DEF Frame
<1>3. \A g \in F : (g.i # 0 => g.table = m) => g \in Frame(d)  BY <1>1 DEF Frame
<1>4. [f EXCEPT !.i = 1, !.table = m] \in Frame(d)
  <2>1. PICK one \in 0 .. 5 : one = 1  OBVIOUS
  <2>2. PICK h : h = [f EXCEPT !.i = one]  OBVIOUS
  <2>3. h \in F  BY <1>2, <2>2
  <2>4. PICK g : g = [h EXCEPT !.table = m]  OBVIOUS
  <2>5. g \in F  BY <2>3, <2>4
  <2>6. g.table = m  BY <2>3, <2>4
  <2>7. g = [f EXCEPT !.i = 1, !.table = m]  BY <1>2, <2>1, <2>2, <2>4
  <2> QED  BY <1>3, <2>5, <2>6, <2>7
<1>5. ASSUME f.i \in 1 .. 4 PROVE [f EXCEPT !.i = @ + 1] \in Frame(d) /\ f.table = m
  <2>1. PICK n \in 0 .. 5 : n = f.i + 1  BY <1>5
  <2>2. PICK g : g = [f EXCEPT !.i = n]  OBVIOUS
  <2>3. g \in F /\ g.table = m  BY <1>2, <1>5, <2>2
  <2> QED  BY <1>2, <1>3, <1>5, <2>1, <2>2, <2>3
<1>6. ASSUME NEW s \in Nat, NEW p \in Nat PROVE [sector |-> s, primary |-> p, i |-> 0, table |-> <<>>] \in Frame(d)
  <2>1. [sector |-> s, primary |-> p, i |-> 0, table |-> <<>>] \in F  OBVIOUS
  <2> QED  BY <1>3, <2>1
<1> QED  BY <1>1, <1>2, <1>4, <1>5, <1>6

\* Nothing is found in a step that leaves the blocks as they are.
LEMMA NothingFound ==
  ASSUME DInv, Nested(Current), at[Boot] \in {"table", "parse"}, all_blocks' = all_blocks
  PROVE  /\ all_blocks \in Seq(Good)
         /\ \E t \in Seq(BlocksOf(Current)) : all_blocks' = all_blocks \o t
<1>1. NestedRead /\ Current \in Range(Drives)  BY NestedAt
<1>2. PICK s \in Seq(BlocksOf(Current)) : Begun(s)  BY <1>1 DEF NestedRead
<1>3. s \in Seq(Good)
  <2>1. BlocksOf(Current) \subseteq Good  BY DEF BlocksOf
  <2> QED  BY <2>1, SeqMonotonic
<1>4. all_blocks \in Seq(Good)  BY <1>1, <1>2, <1>3, BegunTyped
<1>5. all_blocks \o <<>> = all_blocks /\ <<>> \in Seq(BlocksOf(Current))  BY <1>4, ConcatEmptySeq
<1> QED  BY <1>4, <1>5

\* Reading a table finds nothing yet.
LEMMA ReadScan == ASSUME DInv, read_partition_table PROVE ScanOK'
<1>0. at \in [Users -> Places] /\ op \in [Users -> Ops] /\ Boot \in Users /\ ScanOK
  BY UsersAre DEF DInv, DTypeOK, Places, Ops
<1>1. at[Boot] = "table" /\ scan # <<>> /\ TableFrame.i = 0 /\ UNCHANGED <<disk, is_ata, all_blocks, part_nr>>
  BY DEF read_partition_table
<1>2. InUse /\ TableRead  BY <1>0, <1>1 DEF ScanOK
<1>3. Current \in Range(Drives) /\ Hardware[Current].capacity \in Nat \ {0}  BY <1>2, CapacityIs DEF InUse
<1>a. CASE Nested(Current)
  <2>1. /\ TableFrame \in Frame(Current) /\ Front(scan) \in Seq(Frame(Current)) /\ NestedRead
        /\ part_nr \in Nat
    BY <1>1, <1>a, NestedAt DEF NestedRead
  <2>2. CASE TableFrame.sector >= Capacity
    <3>1. scan' = Front(scan) /\ UNCHANGED <<op, at>>  BY <2>2 DEF read_partition_table
    <3> QED  BY <1>1, <1>a, <2>1, <3>1, NothingFound, NestedOn
  <2>3. CASE ~(TableFrame.sector >= Capacity)
    <3>1. SetBoot([boot EXCEPT !.op.cmd = "read", !.op.lba = 0, !.at = "lock"]) /\ scan' = scan
      BY <2>3 DEF read_partition_table
    <3>2. at' = [at EXCEPT ![Boot] = "lock"]
          /\ op' = [op EXCEPT ![Boot] = [op[Boot] EXCEPT !.cmd = "read", !.lba = 0]]
      BY <3>1, BootIssues
    <3>3. at'[Boot] = "lock" /\ op'[Boot].cmd = "read" /\ op'[Boot].dev = op[Boot].dev /\ op'[Boot].lba = 0
      BY <1>0, <3>2 DEF Ops
    <3>4. BeingRead  BY <1>1, <1>a, <2>1 DEF BeingRead
    <3>5. BeingRead' /\ InUse'  BY <1>1, <1>2, <3>1, <3>3, <3>4, ScanFrame
    <3> QED  BY <1>0, <1>1, <3>3, <3>5 DEF ScanOK, Identifying, Reading, Drivers
  <2> QED  BY <2>2, <2>3
<1>4. CASE ~Nested(Current) /\ NotRead
  <2>1. TableFrame.sector = 0  BY <1>4, FrameFacts DEF NotRead
  <2>2. ~(TableFrame.sector >= Capacity)  BY <1>3, <2>1 DEF Capacity, Current
  <2>3. SetBoot([boot EXCEPT !.op.cmd = "read", !.op.lba = 0, !.at = "lock"]) /\ scan' = scan
    BY <2>2 DEF read_partition_table
  <2>4. at' = [at EXCEPT ![Boot] = "lock"]
        /\ op' = [op EXCEPT ![Boot] = [op[Boot] EXCEPT !.cmd = "read", !.lba = 0]]
    BY <2>3, BootIssues
  <2>5. at'[Boot] = "lock" /\ op'[Boot].cmd = "read" /\ op'[Boot].dev = op[Boot].dev /\ op'[Boot].lba = 0
    BY <1>0, <2>4 DEF Ops
  <2>6. BeingRead' /\ InUse'
    <3>1. BeingRead  BY <1>4 DEF BeingRead
    <3> QED  BY <1>1, <1>2, <2>3, <2>5, <3>1, ScanFrame
  <2> QED  BY <1>0, <1>1, <2>5, <2>6 DEF ScanOK, Identifying, Reading, Drivers
<1>5. ASSUME ~Nested(Current), NEW n \in 2 .. 5, NEW f, AtEntry(n), scan = <<Top(n), f>>,
             f.sector >= Hardware[Current].capacity
      PROVE  ScanOK'
  <2>1. TableFrame = f /\ Front(scan) = <<Top(n)>>  BY <1>5, FrameFacts
  <2>2. scan' = <<Top(n)>> /\ UNCHANGED <<op, at>>
    BY <1>5, <2>1 DEF read_partition_table, Capacity, Current
  <2>3. Current' = Current  BY <2>2 DEF Current
  <2>4. AtEntry(n)' /\ Top(n)' = Top(n)
    <3>1. \A s : Begun(s)' = Begun(s)  BY <1>1, <2>3, BegunStays
    <3> QED  BY <1>1, <1>5, <2>3, <3>1 DEF AtEntry, HasTable, Top
  <2>5. TableRead'  BY <1>5, <2>2, <2>3, <2>4 DEF TableRead, PlainRead
  <2> QED  BY <1>1, <2>2, <2>5, StaysAtTable
<1>6. ASSUME NEW n \in 1 .. 5, scan = <<Top(n)>> PROVE FALSE
  <2>1. TableFrame.i = n  BY <1>6, FrameFacts, Zenon
  <2> QED  BY <1>1, <2>1
<1> QED  BY <1>1, <1>2, <1>a, <1>4, <1>5, <1>6 DEF TableRead, PlainRead

\* A sector without a signature has no table.
LEMMA SignatureScan == ASSUME DInv, check_signature PROVE ScanOK'
<1>0. at \in [Users -> Places] /\ op \in [Users -> Ops] /\ Boot \in Users /\ ScanOK
  BY UsersAre DEF DInv, DTypeOK, Places, Ops
<1>1. at[Boot] = "parse" /\ UNCHANGED <<disk, is_ata, all_blocks, part_nr>>
      /\ SetBoot([boot EXCEPT !.at = "table"])
  BY DEF check_signature
<1>2. at'[Boot] = "table" /\ op'[Boot].dev = op[Boot].dev  BY <1>0, <1>1, BootGoes
<1>3. InUse /\ BeingRead /\ op[Boot].data = Contents[Current][0]  BY <1>0, <1>1 DEF ScanOK, Reading
<1>4. PICK d \in Range(Drives) : d = Current /\ is_ata[d] /\ Current' = d  BY <1>2, <1>3 DEF InUse, Current
<1>5. CASE Nested(d)
  <2>1. HasTable /\ TableFrame \in Frame(d) /\ part_nr \in Nat
        /\ \A f \in Frame(d) : Append(Front(scan), f) \in Seq(Frame(d))
    BY <1>1, <1>3, <1>4, <1>5, NestedAt DEF BeingRead, NestedRead
  <2>2. scan' = Append(Front(scan), [TableFrame EXCEPT !.i = 1, !.table = MBR(d)])
    BY <1>3, <1>4, <2>1 DEF check_signature, HasTable, MBR
  <2>3. [TableFrame EXCEPT !.i = 1, !.table = MBR(d)] \in Frame(d)  BY <2>1, FrameMoves
  <2>4. scan' \in Seq(Frame(d))  BY <2>1, <2>2, <2>3
  <2> QED  BY <1>1, <1>2, <1>4, <1>5, <2>1, <2>4, NothingFound, NestedOn
<1>6. CASE ~Nested(d)
  <2>1. NotRead  BY <1>3, <1>4, <1>6 DEF BeingRead
  <2>2. scan = <<First>> /\ TableFrame = First /\ Front(scan) = <<>> /\ part_nr = 0 /\ Begun(<<>>)
    BY <2>1, StackFacts DEF NotRead, TableFrame
  <2>3. Begun(<<>>)'  BY <1>1, <1>4, <2>2, BegunStays
  <2>4. CASE HasTable
    <3>1. scan' = Append(<<>>, [First EXCEPT !.i = 1, !.table = MBR(Current)])
      BY <1>3, <2>2, <2>4 DEF check_signature, HasTable, MBR
    <3>2. scan' = <<Top(1)>>  BY <3>1, StackFacts DEF Top
    <3>3. { j \in Real(d) : j < 1 } = {}  BY DEF Real
    <3>4. part_nr = Cardinality({ j \in Real(d) : j < 1 })  BY <2>2, <3>3, FS_EmptySet
    <3>5. AtEntry(1)' /\ Top(1)' = Top(1)
      <4>1. 1 \in 1 .. 5 /\ 1 - 1 = 0  OBVIOUS
      <4>2. Upto(Current, 1 - 1) = <<>>  BY <4>1 DEF Upto
      <4>3. part_nr' = Cardinality({ j \in Real(Current) : j < 1 })  BY <1>1, <1>4, <3>4
      <4> QED  BY <1>1, <1>2, <2>3, <2>4, <4>1, <4>2, <4>3, EntryReached
    <3>6. TableRead'  BY <1>4, <1>6, <3>2, <3>5 DEF TableRead, PlainRead
    <3> QED  BY <1>1, <1>2, <3>6, StaysAtTable
  <2>5. CASE ~HasTable
    <3>1. scan' = <<>>  BY <1>3, <2>2, <2>5 DEF check_signature, HasTable
    <3>2. \A i \in 1 .. 4 : Entry(d, i) = <<>>  BY <1>4, <2>5 DEF HasTable, Entry, Inside, Real
    <3>3. Listed(d) = <<>>  BY <3>2 DEF Listed
    <3>4. AreBlocks(Rank(d), all_blocks)
      <4>1. <<>> \in Seq(BlocksOf(d))  OBVIOUS
      <4> QED  BY <1>4, <2>2, <3>3, <4>1, BegunDone
    <3>5. AreBlocks(Rank(d), all_blocks)'  BY <1>1, <3>4, SameDrives
    <3>6. TableRead'  BY <1>4, <1>6, <3>1, <3>5 DEF TableRead, PlainRead
    <3> QED  BY <1>1, <1>2, <3>6, StaysAtTable
  <2> QED  BY <2>4, <2>5
<1> QED  BY <1>5, <1>6

\* The end of a table.
LEMMA EndScan == ASSUME DInv, end_table PROVE ScanOK'
<1>0. at \in [Users -> Places] /\ op \in [Users -> Ops] /\ Boot \in Users /\ ScanOK
  BY UsersAre DEF DInv, DTypeOK, Places, Ops
<1>1. at[Boot] = "table" /\ UNCHANGED <<disk, is_ata, all_blocks, part_nr>>  BY DEF end_table
<1>2. InUse /\ TableRead  BY <1>0, <1>1 DEF ScanOK
<1>3. PICK d \in Range(Drives) : d = Current /\ is_ata[d] /\ Fits(Rank(d))  BY <1>2 DEF InUse
<1>4. CASE scan = <<>>
  <2>1. SetBoot(NextDrive(boot))  BY <1>4 DEF end_table
  <2>2. AreBlocks(Rank(d), all_blocks)
    <3>1. CASE ~Nested(d)  BY <1>2, <1>3, <1>4, <3>1, StackFacts DEF TableRead, PlainRead, NotRead
    <3>2. CASE Nested(d)
      <4>1. PICK s \in Seq(BlocksOf(d)) : Begun(s)  BY <1>2, <1>3, <3>2 DEF TableRead, NestedRead
      <4> QED  BY <1>3, <3>2, <4>1, BegunDone
    <3> QED  BY <3>1, <3>2
  <2>3. AreBlocks(Rank(d), all_blocks)' /\ Fits(Rank(d))'  BY <1>1, <1>3, <2>2, SameDrives
  <2> QED  BY <1>1, <1>3, <2>1, <2>3, GoneOn
<1>6. CASE scan # <<>> /\ Nested(d)
  <2>1. scan' = Front(scan) /\ UNCHANGED <<op, at>>  BY <1>6 DEF end_table
  <2>2. Front(scan) \in Seq(Frame(d)) /\ part_nr \in Nat  BY <1>1, <1>3, <1>6, NestedAt DEF NestedRead
  <2> QED  BY <1>1, <1>3, <1>6, <2>1, <2>2, NothingFound, NestedOn
<1>5. CASE scan # <<>> /\ ~Nested(d)
  <2>1. TableFrame.i = 5 /\ scan' = Front(scan) /\ UNCHANGED <<op, at>>  BY <1>5 DEF end_table
  <2>2. ~NotRead
    <3>1. NotRead => TableFrame.i = 0  BY FrameFacts DEF NotRead
    <3> QED  BY <2>1, <3>1
  <2>3. ASSUME NEW n \in 2 .. 5, NEW f, scan = <<Top(n), f>>, f.i = 0 PROVE FALSE
    <3>1. TableFrame = f  BY <2>3, FrameFacts, Zenon
    <3> QED  BY <2>1, <2>3, <3>1
  <2>4. PICK n \in 1 .. 5 : AtEntry(n) /\ scan = <<Top(n)>>
    BY <1>2, <1>3, <1>5, <2>2, <2>3 DEF TableRead, PlainRead
  <2>5. n = 5 /\ Front(scan) = <<>>
    <3>1. TableFrame.i = n  BY <2>4, FrameFacts, Zenon
    <3> QED  BY <2>1, <2>4, <3>1, StackFacts
  <2>6. Upto(d, n - 1) = Listed(d)
    <3>1. n - 1 = 4  BY <2>5
    <3> QED  BY <3>1 DEF Upto
  <2>7. AreBlocks(Rank(d), all_blocks)
    <3>1. Begun(Listed(d))  BY <1>3, <2>4, <2>6, Zenon DEF AtEntry
    <3>2. Listed(d) \in Seq(BlocksOf(d))  BY BlocksIn
    <3> QED  BY <1>3, <3>1, <3>2, BegunDone
  <2>8. AreBlocks(Rank(d), all_blocks)' /\ Current' = d
    BY <1>1, <1>3, <2>1, <2>7, SameDrives DEF Current
  <2>9. TableRead'  BY <1>5, <2>1, <2>5, <2>8 DEF TableRead, PlainRead
  <2> QED  BY <1>1, <2>1, <2>9, StaysAtTable
<1> QED  BY <1>4, <1>5, <1>6

\* One entry of the table in sector 0.
LEMMA EntryScan == ASSUME DInv, parse_entry PROVE ScanOK'
<1>0. at \in [Users -> Places] /\ op \in [Users -> Ops] /\ Boot \in Users /\ ScanOK
  BY UsersAre DEF DInv, DTypeOK, Places, Ops
<1>1. at[Boot] = "table" /\ scan # <<>> /\ TableFrame.i \in 1 .. 4 /\ UNCHANGED <<at, op, disk, is_ata>>
  BY DEF parse_entry
<1>2. InUse /\ TableRead  BY <1>0, <1>1 DEF ScanOK
<1>3. PICK d \in Range(Drives) : d = Current /\ is_ata[d] /\ Fits(Rank(d))  BY <1>2 DEF InUse
<1>4. Hardware[d].capacity < GB
  <2>1. Rank(d) \in 1 .. Rank(d) /\ Drives[Rank(d)] = d  BY MasterOrSlave
  <2> QED  BY <1>3, <2>1 DEF Fits
<1>5. CASE Nested(d)
  <2>1. /\ HasTable /\ TableFrame \in Frame(d) /\ Front(scan) \in Seq(Frame(d)) /\ part_nr \in Nat
        /\ \A f \in Frame(d) : Append(Front(scan), f) \in Seq(Frame(d))
    BY <1>1, <1>3, <1>5, NestedAt DEF NestedRead
  <2>2. PICK n \in 1 .. 4 : n = TableFrame.i  BY <1>1
  <2>3. TableFrame.table = MBR(d) /\ TableFrame.sector \in Nat /\ TableFrame.primary \in Nat
        /\ [TableFrame EXCEPT !.i = @ + 1] \in Frame(d)
    BY <1>1, <2>1, FrameMoves
  <2>4. PICK e \in [type : 0 .. 255, offset : 0 .. MaxSector, size : 0 .. MaxSector] : e = MBR(d)[n]
    BY <1>3, <2>1, EntryIs DEF HasTable
  <2>5. PICK here : here = Append(Front(scan), [TableFrame EXCEPT !.i = @ + 1])  OBVIOUS
  <2>6. here \in Seq(Frame(d))  BY <2>1, <2>3, <2>5
  <2>7. MaxSector \in Nat  BY DiskAssumption DEF DiskAssumption
  <2>8. CASE e.size = 0 \/ e.type = 0
    <3>1. scan' = here /\ UNCHANGED <<all_blocks, part_nr>>
      BY <2>2, <2>3, <2>4, <2>5, <2>8 DEF parse_entry
    <3> QED  BY <1>1, <1>3, <1>5, <2>1, <2>6, <3>1, NothingFound, NestedOn
  <2>9. CASE ~(e.size = 0 \/ e.type = 0) /\ e.type \in Extended
    <3>1. PICK f : f = IF TableFrame.sector = 0
                       THEN [sector |-> e.offset, primary |-> e.offset, i |-> 0, table |-> <<>>]
                       ELSE [sector |-> (e.offset + TableFrame.primary) % (MaxSector + 1),
                             primary |-> TableFrame.primary, i |-> 0, table |-> <<>>]
      OBVIOUS
    <3>2. scan' = Append(here, f) /\ UNCHANGED <<all_blocks, part_nr>>
      BY <2>2, <2>3, <2>4, <2>5, <2>9, <3>1 DEF parse_entry
    <3>3. e.offset \in Nat /\ (e.offset + TableFrame.primary) % (MaxSector + 1) \in Nat  BY <2>3, <2>7
    <3>4. f \in Frame(d)  BY <2>1, <2>3, <3>1, <3>3, FrameMoves
    <3>5. scan' \in Seq(Frame(d))  BY <2>6, <3>2, <3>4, AppendProperties
    <3> QED  BY <1>1, <1>3, <1>5, <2>1, <3>2, <3>5, NothingFound, NestedOn
  <2>10. CASE ~(e.size = 0 \/ e.type = 0) /\ e.type \notin Extended
    <3>1. PICK start : start = (e.offset + TableFrame.sector) % (MaxSector + 1)  OBVIOUS
    <3>2. /\ part_nr' = part_nr + 1 /\ scan' = here
          /\ all_blocks' = found_partition(e.type, start, e.size, part_nr + 1)
      BY <2>2, <2>3, <2>4, <2>5, <2>10, <3>1 DEF parse_entry
    <3>3. start \in 0 .. MaxSector /\ e.size \in 0 .. MaxSector /\ part_nr + 1 \in Nat  BY <2>1, <2>3, <2>7, <3>1
    <3>4. all_blocks \in Seq(Good)
      <4>1. PICK s \in Seq(BlocksOf(d)) : Begun(s)  BY <1>2, <1>3, <1>5 DEF TableRead, NestedRead
      <4>2. s \in Seq(Good)
        <5>1. BlocksOf(d) \subseteq Good  BY DEF BlocksOf
        <5> QED  BY <5>1, SeqMonotonic
      <4> QED  BY <1>3, <4>1, <4>2, BegunTyped
    <3>5. \E t \in Seq(BlocksOf(Current)) : all_blocks' = all_blocks \o t
      BY <1>3, <1>4, <3>2, <3>3, <3>4, FoundIn
    <3>6. part_nr' \in Nat  BY <3>2, <3>3
    <3> QED  BY <1>1, <1>3, <1>5, <2>6, <3>2, <3>5, <3>6, NestedOn
  <2> QED  BY <2>8, <2>9, <2>10
<1>6. CASE ~Nested(d)
  <2>4. PICK n \in 1 .. 4 : AtEntry(n) /\ scan = <<Top(n)>>
    <3>1. ~NotRead
      <4>1. NotRead => TableFrame.i = 0  BY FrameFacts DEF NotRead
      <4> QED  BY <1>1, <4>1
    <3>2. ASSUME NEW n \in 2 .. 5, NEW f, scan = <<Top(n), f>>, f.i = 0 PROVE FALSE
      <4>1. TableFrame = f  BY <3>2, FrameFacts, Zenon
      <4> QED  BY <1>1, <3>2, <4>1
    <3>3. PICK n \in 1 .. 5 : AtEntry(n) /\ scan = <<Top(n)>>
      BY <1>1, <1>2, <1>3, <1>6, <3>1, <3>2 DEF TableRead, PlainRead
    <3>4. TableFrame.i = n  BY <3>3, FrameFacts, Zenon
    <3>5. n \in 1 .. 4  BY <1>1, <3>4
    <3> QED  BY <3>3, <3>5
  <2>5. TableFrame = Top(n) /\ Front(scan) = <<>> /\ TableFrame.i = n /\ TableFrame.sector = 0
        /\ TableFrame.table = MBR(d)
    BY <1>3, <2>4, FrameFacts, Zenon
  <2>6. HasTable /\ part_nr = Cardinality({ j \in Real(d) : j < n })  BY <1>3, <2>4, Zenon DEF AtEntry
  <2>7. PICK s : s = Upto(d, n - 1) /\ Begun(s)  BY <1>3, <2>4, Zenon DEF AtEntry
  <2>8. PICK e : e = MBR(d)[n]  OBVIOUS
  <2>9. n + 1 \in 2 .. 5 /\ n + 1 \in 1 .. 5 /\ (n + 1) - 1 = n  OBVIOUS
  <2>10. Append(Front(scan), [TableFrame EXCEPT !.i = @ + 1]) = <<Top(n + 1)>>
    <3>1. [TableFrame EXCEPT !.i = @ + 1] = Top(n + 1)  BY <2>5 DEF Top, First
    <3> QED  BY <2>5, <3>1, StackFacts
  <2>11. s \in Seq(Good) /\ Entry(d, n) \in Seq(Good) /\ all_blocks \in Seq(Good)
    <3>1. n - 1 \in 0 .. 4  OBVIOUS
    <3>2. s \in Seq(BlocksOf(d)) /\ Entry(d, n) \in Seq(BlocksOf(d)) /\ BlocksOf(d) \subseteq Good
      BY <2>7, <3>1, BlocksIn
    <3>3. s \in Seq(Good) /\ Entry(d, n) \in Seq(Good)  BY <3>2, SeqMonotonic
    <3> QED  BY <1>3, <2>7, <3>3, BegunTyped
  <2>12. n \in Real(d) <=> ~(e.size = 0 \/ e.type = 0) /\ e.type \notin Extended
    BY <1>3, <2>6, <2>8 DEF Real, HasTable
  <2>16. { j \in Real(d) : j < n + 1 } = { j \in Real(d) : j <= n }
         /\ Cardinality({ j \in Real(d) : j < n + 1 }) =
              Cardinality({ j \in Real(d) : j < n }) + (IF n \in Real(d) THEN 1 ELSE 0)
         /\ Cardinality({ j \in Real(d) : j < n }) \in Nat
    BY CountStep
  <2>a. ASSUME all_blocks' = all_blocks \o Entry(d, n), part_nr' = Cardinality({ j \in Real(d) : j < n + 1 })
        PROVE  AtEntry(n + 1)' /\ Top(n + 1)' = Top(n + 1) /\ Current' = Current
    <3>1. op'[Boot].dev = op[Boot].dev /\ Current' = Current  BY <1>1 DEF Current
    <3>2. PICK u : u = s \o Entry(d, n)  OBVIOUS
    <3>3. Begun(u)'  BY <1>1, <1>3, <2>7, <2>11, <2>a, <3>1, <3>2, BegunStep
    <3>4. PICK m \in 1 .. 5 : m = n + 1  BY <2>9
    <3>5. m - 1 = n  BY <3>4
    <3>6. u = Upto(Current, m - 1)  BY <1>3, <2>7, <3>2, <3>5, UptoStep
    <3>7. part_nr' = Cardinality({ j \in Real(Current) : j < m })  BY <1>3, <2>a, <3>4
    <3>8. AtEntry(m)' /\ Top(m)' = Top(m) /\ Current' = Current
      BY <1>1, <2>6, <3>1, <3>3, <3>6, <3>7, EntryReached
    <3> QED  BY <3>4, <3>8, Zenon
  <2>b. ASSUME n \notin Real(d), UNCHANGED <<all_blocks, part_nr>>
        PROVE  AtEntry(n + 1)' /\ Top(n + 1)' = Top(n + 1) /\ Current' = Current
    <3>1. Entry(d, n) = <<>>  BY <2>b DEF Entry, Inside
    <3>2. all_blocks' = all_blocks \o Entry(d, n)  BY <2>11, <2>b, <3>1, ConcatFacts
    <3>3. part_nr' = Cardinality({ j \in Real(d) : j < n + 1 })  BY <2>6, <2>16, <2>b
    <3> QED  BY <2>a, <3>2, <3>3
  <2>c. ASSUME AtEntry(n + 1)', Top(n + 1)' = Top(n + 1), scan' = <<Top(n + 1)>>, Current' = Current PROVE ScanOK'
    <3>1. TableRead'  BY <1>3, <1>6, <2>9, <2>c DEF TableRead, PlainRead
    <3> QED  BY <1>1, <3>1, StaysAtTable
  <2>17. CASE e.size = 0 \/ e.type = 0
    <3>1. scan' = <<Top(n + 1)>> /\ UNCHANGED <<all_blocks, part_nr>>
      BY <2>5, <2>8, <2>10, <2>17 DEF parse_entry
    <3>2. AtEntry(n + 1)' /\ Top(n + 1)' = Top(n + 1) /\ Current' = Current  BY <2>12, <2>17, <2>b, <3>1
    <3> QED  BY <2>c, <3>1, <3>2
  <2>18. CASE ~(e.size = 0 \/ e.type = 0) /\ e.type \in Extended
    <3>1. PICK f : f = [sector |-> e.offset, primary |-> e.offset, i |-> 0, table |-> <<>>]  OBVIOUS
    <3>2. scan' = Append(<<Top(n + 1)>>, f) /\ UNCHANGED <<all_blocks, part_nr>>
      BY <2>5, <2>8, <2>10, <2>18, <3>1 DEF parse_entry
    <3>3. scan' = <<Top(n + 1), f>>  BY <3>2, StackFacts
    <3>4. e.offset >= Hardware[d].capacity
      <4>1. e.offset \in Nat /\ Hardware[d].capacity \in Nat
        <5>1. e \in [type : 0 .. 255, offset : 0 .. MaxSector, size : 0 .. MaxSector]
          BY <1>3, <2>6, <2>8, EntryIs DEF HasTable
        <5>2. MaxSector \in Nat  BY DiskAssumption DEF DiskAssumption
        <5> QED  BY <5>1, <5>2, CapacityIs
      <4>2. n \notin Chained(d)  BY <1>6 DEF Nested
      <4> QED  BY <1>3, <2>6, <2>8, <2>18, <4>1, <4>2 DEF Chained, HasTable
    <3>5. f.i = 0 /\ f.sector >= Hardware[Current].capacity  BY <1>3, <3>1, <3>4
    <3>6. AtEntry(n + 1)' /\ Top(n + 1)' = Top(n + 1) /\ Current' = Current  BY <2>12, <2>18, <2>b, <3>2
    <3>7. TableRead'  BY <1>3, <1>6, <2>9, <3>3, <3>5, <3>6 DEF TableRead, PlainRead
    <3> QED  BY <1>1, <3>7, StaysAtTable
  <2>19. CASE ~(e.size = 0 \/ e.type = 0) /\ e.type \notin Extended
    <3>1. part_nr' = part_nr + 1 /\ scan' = <<Top(n + 1)>>
          /\ all_blocks' = found_partition(e.type, (e.offset + 0) % (MaxSector + 1), e.size, part_nr + 1)
      BY <2>5, <2>8, <2>10, <2>19 DEF parse_entry
    <3>2. n \in Real(d)  BY <2>12, <2>19
    <3>3. part_nr + 1 = Cardinality({ j \in Real(d) : j <= n }) /\ part_nr' = Cardinality({ j \in Real(d) : j < n + 1 })
      BY <2>6, <2>16, <3>1, <3>2
    <3>4. all_blocks' = all_blocks \o Entry(d, n)
      <4>1. found_partition(MBR(Current)[n].type, (MBR(Current)[n].offset + 0) % (MaxSector + 1),
                            MBR(Current)[n].size, Cardinality({ j \in Real(Current) : j <= n }))
              = all_blocks \o Entry(Current, n)
        BY <1>3, <1>4, <2>11, <3>2, FoundIs
      <4> QED  BY <1>3, <2>8, <3>1, <3>3, <4>1, Zenon
    <3> QED  BY <2>a, <2>c, <3>1, <3>3, <3>4
  <2> QED  BY <2>17, <2>18, <2>19
<1> QED  BY <1>5, <1>6

\* Every step finds what the tables say, in their order.
LEMMA ScanKept == DInv /\ [DiskNext]_diskVars => ScanOK'
<1> SUFFICES ASSUME DInv, [DiskNext]_diskVars PROVE ScanOK'  OBVIOUS
<1>1. CASE UNCHANGED diskVars
  <2>1. UNCHANGED <<at, op, is_ata, all_blocks, scan, part_nr, disk>>  BY <1>1 DEF diskVars, found
  <2> QED  BY <2>1, ScanStays
<1>2. ASSUME NEW t \in Users, ide_lock(t) \/ Io(t) PROVE ScanOK'
  <2>1. CASE t = Boot  BY <1>2, <2>1, BootReads
  <2>2. CASE t # Boot  BY <1>2, <2>2, ThreadScan, UsersAre
  <2> QED  BY <2>1, <2>2
<1>3. CASE Booting
  BY <1>3, EarlyScan, IdentifyScan, ReadScan, SignatureScan, EntryScan, EndScan, LocateScan DEF Booting
<1> QED  BY <1>1, <1>2, <1>3, StepIs, CallScan, DriveScan

-----------------------------------------------------------------------------
(***************************************************************************)
(* The roles go to the partitions that are for them.                        *)
(***************************************************************************)

\* Every set of naturals that is not empty has a least element.
LEMMA LeastNat ==
  ASSUME NEW S, S \subseteq Nat, S # {}
  PROVE  Min(S) \in S
<1>1. \E x \in S : \A y \in S : ~(<<y, x>> \in OpToRel(<, Nat))
  BY NatLessThanWellFounded, WFMin
<1>2. PICK m \in S : \A y \in S : ~(<<y, m>> \in OpToRel(<, Nat))  BY <1>1
<1>3. \A y \in S : ~(y < m)  BY <1>2 DEF OpToRel
<1>4. \E x \in S : \A y \in S : x =< y  BY <1>3
<1> QED  BY <1>4, Zenon DEF Min

\* The first element of a type, where there is one.
LEMMA FirstOf ==
  ASSUME NEW type, NEW S, all_blocks \in Seq(S)
  PROVE  \/ first_block(type) = 0
         \/ first_block(type) \in 1 .. Len(all_blocks) /\ all_blocks[first_block(type)].type = type
<1> DEFINE I == { i \in 1 .. Len(all_blocks) : all_blocks[i].type = type }
<1>1. first_block(type) = IF I # {} THEN Min(I) ELSE 0  BY DEF first_block, SelectInSeq
<1>2. CASE I # {}
  <2>1. I \in SUBSET Nat  BY LenProperties
  <2> HIDE DEF I
  <2>4. Min(I) \in I  BY <1>2, <2>1, LeastNat
  <2> QED  BY <1>1, <1>2, <2>4 DEF I
<1>3. CASE I = {}  BY <1>1, <1>3
<1> QED  BY <1>2, <1>3

\* The one partition that is for a role.
LEMMA PlaceIs ==
  ASSUME OnePlace, NEW r \in Role, NEW b \in Partitions, b.type = r
  PROVE  r \in DOMAIN Place /\ b = Place[r]
<1>1. r \in DOMAIN Place  BY DEF Place
<1>2. Place[r] \in Partitions /\ Place[r].type = r  BY <1>1, PlaceLies
<1> QED  BY <1>1, <1>2 DEF OnePlace

\* What is found where every table is the one that is read is a disk or a partition of its table.
LEMMA OnlyListed ==
  ASSUME OnePlace, NEW s, AreBlocks(Len(Drives), s), NEW i \in 1 .. Len(s), s[i].type \in Role
  PROVE  s[i] \in Partitions
<1> DEFINE Ours(d) == {Raw(d)} \cup { Partition(d, j) : j \in Inside(d) }
           All == UNION { Ours(d) : d \in Range(Drives) }
<1>1. ASSUME NEW d \in Range(Drives), NEW a, Whole(d, a) PROVE a \in Seq(All)
  <2>1. Raw(d) \in Ours(d) /\ \A j \in Inside(d) : Partition(d, j) \in Ours(d)  OBVIOUS
  <2>2. Ours(d) \subseteq All  OBVIOUS
  <2>3. PICK S : S = Ours(d)  OBVIOUS
  <2>4. Raw(d) \in S /\ \A j \in Inside(d) : Partition(d, j) \in S  BY <2>1, <2>3
  <2> HIDE DEF Ours, All
  <2>5. \A j \in 1 .. 4 : Entry(d, j) \in Seq(S)  BY <2>4 DEF Entry
  <2>6. <<Raw(d)>> \in Seq(S) /\ <<>> \in Seq(S)  BY <2>4
  <2>7. PICK p, q, u, v \in Seq(S) : p = Entry(d, 1) /\ q = Entry(d, 2) /\ u = Entry(d, 3) /\ v = Entry(d, 4)
    BY <2>5
  <2>8. Listed(d) \in Seq(S)
    <3>1. p \o q \o u \o v \in Seq(S)  OBVIOUS
    <3> QED  BY <2>7, <3>1 DEF Listed
  <2>9. ~Nested(d)  BY DEF OnePlace
  <2>10. <<Raw(d)>> \o Listed(d) \in Seq(S)  BY <2>6, <2>8, ConcatFacts
  <2>11. a \in Seq(S)  BY <1>1, <2>6, <2>9, <2>10 DEF Whole
  <2> QED  BY <2>2, <2>3, <2>11, SeqMonotonic
<1>2. s \in Seq(All)
  <2> HIDE DEF All
  <2>1. Drives[1] \in Range(Drives) /\ Len(Drives) \in 1 .. 2  BY FirstDrive
  <2>2. CASE Len(Drives) = 1  BY <1>1, <2>1, <2>2 DEF AreBlocks
  <2>3. CASE Len(Drives) = 2
    <3>1. Drives[2] \in Range(Drives)
      <4>1. 2 \in 1 .. Len(Drives)  BY <2>3
      <4> QED  BY <4>1, RankIs
    <3>2. PICK a, b : Whole(Drives[1], a) /\ Whole(Drives[2], b) /\ s = a \o b  BY <2>3 DEF AreBlocks
    <3>3. a \in Seq(All) /\ b \in Seq(All)  BY <1>1, <2>1, <3>1, <3>2
    <3> QED  BY <3>2, <3>3
  <2> QED  BY <2>1, <2>2, <2>3
<1>3. s[i] \in All
  <2> HIDE DEF All
  <2> QED  BY <1>2, ElementOfSeq
<1>4. PICK d \in Range(Drives) : s[i] \in Ours(d)  BY <1>3
<1>5. s[i] # Raw(d)
  <2>1. Raw(d).type = "raw"  BY DEF Raw
  <2>2. "raw" \notin Role  BY DEF Role
  <2> QED  BY <2>1, <2>2
<1>6. s[i] \in { Partition(d, j) : j \in Inside(d) }  BY <1>4, <1>5
<1> QED  BY <1>6 DEF Partitions

\* Where start-up goes on after a drive.
LEMMA NextGoes ==
  ASSUME SetBoot(NextDrive(boot))
  PROVE  at' = [at EXCEPT ![Boot] = "probe"] \/ at' = [at EXCEPT ![Boot] = "locate"]
<1>1. NextDrive(boot).at \in {"probe", "locate"}  BY DEF NextDrive, boot
<1> QED  BY <1>1 DEF SetBoot

\* Nothing but the last step of start-up gives the roles out.
LEMMA RolesStay ==
  ASSUME DInv, [DiskNext]_diskVars, ~locate_block_devices
  PROVE  at'[Boot] = "booted" => at[Boot] = "booted" /\ UNCHANGED <<all_blocks, roles>>
<1>0. at \in [Users -> Places] /\ Boot \in Users  BY UsersAre DEF DInv, DTypeOK, Places
<1> DEFINE Stay == at'[Boot] = "booted" => at[Boot] = "booted" /\ UNCHANGED <<all_blocks, roles>>
<1>2. CASE UNCHANGED diskVars  BY <1>2 DEF diskVars, found
<1>3. ASSUME NEW t \in Users, ide_lock(t) \/ Io(t) PROVE Stay
  <2>1. UNCHANGED <<all_blocks, roles>>
        /\ \E p \in {"select", "issue", "busy", "wait", "input", "unlock", "parse", "return", "idle"} \cup {at[t]} :
             at' = [at EXCEPT ![t] = p]
    BY <1>3
       DEF Io, ide_lock, select_sector, issue_pio_command, output_sector, await_completion, input_sector,
           ide_unlock, Return, found
  <2>2. at'[Boot] = "booted" => at[Boot] = "booted"  BY <1>0, <1>3, <2>1
  <2> QED  BY <2>1, <2>2
<1>4. ASSUME Booting PROVE at'[Boot] # "booted"
  <2>1. CASE reset_channel \/ await_reset \/ detect_drives \/ parse_entry
    <3>1. at' = [at EXCEPT ![Boot] = "await_reset"] \/ at' = [at EXCEPT ![Boot] = "detect"]
          \/ at' = [at EXCEPT ![Boot] = "probe"] \/ (at' = at /\ at[Boot] = "table")
      BY <2>1 DEF reset_channel, await_reset, detect_drives, parse_entry
    <3> QED  BY <1>0, <3>1
  <2>2. CASE probe
    <3>1. SetBoot(NextDrive(boot)) \/ SetBoot([boot EXCEPT !.op.cmd = "identify", !.op.lba = 0, !.at = "select"])
      BY <2>2 DEF probe
    <3>2. at' = [at EXCEPT ![Boot] = "probe"] \/ at' = [at EXCEPT ![Boot] = "locate"]
          \/ at' = [at EXCEPT ![Boot] = "select"]
      BY <3>1, NextGoes, BootIssues
    <3> QED  BY <1>0, <3>2
  <2>3. CASE identify_ata_device
    <3>1. SetBoot(NextDrive(boot)) \/ SetBoot([boot EXCEPT !.at = "table"])
      BY <2>3 DEF identify_ata_device
    <3>2. at' = [at EXCEPT ![Boot] = "probe"] \/ at' = [at EXCEPT ![Boot] = "locate"]
          \/ at' = [at EXCEPT ![Boot] = "table"]
      BY <3>1, NextGoes, BootGoes
    <3> QED  BY <1>0, <3>2
  <2>4. CASE read_partition_table \/ check_signature
    <3>1. SetBoot([boot EXCEPT !.op.cmd = "read", !.op.lba = 0, !.at = "lock"])
          \/ SetBoot([boot EXCEPT !.at = "table"]) \/ (at' = at /\ at[Boot] = "table")
      BY <2>4 DEF read_partition_table, check_signature
    <3>2. at' = [at EXCEPT ![Boot] = "lock"] \/ at' = [at EXCEPT ![Boot] = "table"]
          \/ (at' = at /\ at[Boot] = "table")
      BY <3>1, BootIssues, BootGoes
    <3> QED  BY <1>0, <3>2
  <2>5. CASE end_table
    <3>1. SetBoot(NextDrive(boot)) \/ (at' = at /\ at[Boot] = "table")  BY <2>5 DEF end_table
    <3>2. at' = [at EXCEPT ![Boot] = "probe"] \/ at' = [at EXCEPT ![Boot] = "locate"]
          \/ (at' = at /\ at[Boot] = "table")
      BY <3>1, NextGoes
    <3> QED  BY <1>0, <3>2
  <2> QED  BY <1>4, <2>1, <2>2, <2>3, <2>4, <2>5 DEF Booting
<1>5. ASSUME NEW t \in Thread, NEW r \in Role, NEW s \in 0 .. MaxSector,
             ReadCall(t, r, s) \/ \E v \in Value : WriteCall(t, r, s, v)
      PROVE  Stay
  BY <1>5 DEF ReadCall, WriteCall, Call, found
<1>6. CASE interrupt_handler \/ Drive
  BY <1>6 DEF interrupt_handler, Drive, DriveStarts, DriveReady, DriveWrites, DriveRefuses, found
<1> QED  BY <1>2, <1>3, <1>4, <1>5, <1>6, StepIs

\* The last step gives a role to a block of its type, and to the one place it has.
LEMMA RolesGiven ==
  ASSUME DInv, locate_block_devices
  PROVE  RolesFit' /\ (OnePlace => RolesOK')
<1>1. at[Boot] = "locate" /\ roles' = [r \in Role |-> first_block(r)] /\ all_blocks' = all_blocks
  BY DEF locate_block_devices
<1>2. AreBlocks(Len(Drives), all_blocks)  BY <1>1 DEF DInv, ScanOK
<1>3. all_blocks \in Seq(Good)
  <2>1. Len(Drives) \in 0 .. Len(Drives)
    <3>1. Len(Drives) \in 1 .. 2  BY FirstDrive
    <3> QED  BY <3>1
  <2> QED  BY <1>2, <2>1, AreTyped
<1>4. ASSUME NEW r \in Role, first_block(r) # 0
      PROVE  /\ all_blocks[first_block(r)] \in Good /\ all_blocks[first_block(r)].type = r
             /\ OnePlace => r \in DOMAIN Place /\ all_blocks[first_block(r)] = Place[r]
  <2>1. PICK i \in 1 .. Len(all_blocks) : i = first_block(r) /\ all_blocks[i].type = r
    BY <1>3, <1>4, FirstOf
  <2>2. all_blocks[i] \in Good  BY <1>3, ElementOfSeq
  <2>3. ASSUME OnePlace PROVE r \in DOMAIN Place /\ all_blocks[i] = Place[r]
    <3>1. all_blocks[i] \in Partitions  BY <1>2, <2>1, <2>3, OnlyListed
    <3> QED  BY <2>1, <2>3, <3>1, PlaceIs
  <2> QED  BY <2>1, <2>2, <2>3
<1> QED  BY <1>1, <1>4 DEF RolesFit, RolesOK

\* Every step keeps the roles where they are, and the last of start-up gives them out.
LEMMA RolesKept ==
  ASSUME DInv, [DiskNext]_diskVars
  PROVE  RolesFit' /\ (OnePlace /\ RolesOK => RolesOK')
<1>1. CASE locate_block_devices  BY <1>1, RolesGiven
<1>2. CASE ~locate_block_devices
  <2>1. at'[Boot] = "booted" => at[Boot] = "booted" /\ UNCHANGED <<all_blocks, roles>>  BY <1>2, RolesStay
  <2>2. RolesFit  BY DEF DInv
  <2>3. RolesFit'  BY <2>1, <2>2 DEF RolesFit
  <2>4. RolesOK => RolesOK'  BY <2>1 DEF RolesOK
  <2> QED  BY <2>3, <2>4
<1> QED  BY <1>1, <1>2
-----------------------------------------------------------------------------
(***************************************************************************)
(* What a thread does is what its caller asked for.                         *)
(***************************************************************************)
LEMMA AskedFrame ==
  ASSUME NEW t, AskedOK(t), at'[t] = at[t], op'[t] = op[t], asked'[t] = asked[t]
  PROVE  AskedOK(t)' /\ (Placed(t) => Placed(t)')
<1>1. \A r, s : ForSector(t, r, s)' = ForSector(t, r, s)  BY DEF ForSector
<1> QED  BY <1>1 DEF AskedOK, Placed

\* A thread goes on with its request.
LEMMA AskedMoves ==
  ASSUME NEW t, AskedOK(t), at[t] # "idle", at'[t] # "idle", asked'[t] = asked[t],
         op'[t].dev = op[t].dev, op'[t].lba = op[t].lba, op'[t].cmd = op[t].cmd,
         op'[t].data = op[t].data \/ op[t].cmd = "read",
         at'[t] \in {"unlock", "return"} /\ op[t].cmd = "read" => op'[t].data \in Stored
  PROVE  AskedOK(t)' /\ (Placed(t) => Placed(t)')
<1>1. \A r, s : ForSector(t, r, s) => ForSector(t, r, s)'  BY DEF ForSector
<1>2. AskedOK(t)'  BY DEF AskedOK
<1>3. Placed(t) => Placed(t)'  BY <1>1 DEF Placed
<1> QED  BY <1>2, <1>3

\* What is taken from the drive is what the sector holds.
LEMMA DataIs ==
  ASSUME DInv, NEW t \in Users, at[t] \in {"wait", "input", "unlock"}
  PROVE  /\ hw.dev = op[t].dev /\ hw.lba = op[t].lba /\ op[t].dev \in Range(Drives)
         /\ op[t].lba \in 0 .. Hardware[op[t].dev].capacity - 1
         /\ disk[hw.dev][hw.lba] \in Stored
<1>1. Selected(t) /\ InDrive(t) /\ op \in [Users -> Ops] /\ DTypeOK
  BY DEF DInv, ChannelOK, DTypeOK, Ops
<1>2. hw.dev = op[t].dev /\ hw.lba = op[t].lba  BY <1>1 DEF Selected, Driving, Drivers
<1>3. op[t].dev \in Range(Drives) /\ op[t].lba < Hardware[op[t].dev].capacity
  BY <1>1 DEF InDrive, Drivers
<1>4. op[t].lba \in Nat  BY <1>1 DEF Ops
<1>5. op[t].lba \in 0 .. Hardware[op[t].dev].capacity - 1  BY <1>3, <1>4, CapacityIs
<1>6. disk[op[t].dev] \in [0 .. Hardware[op[t].dev].capacity - 1 -> Stored]  BY <1>1, <1>3 DEF DTypeOK
<1> QED  BY <1>2, <1>3, <1>5, <1>6

\* Of a thread's steps, the one that takes data from the drive changes its request's.
LEMMA ThreadAsked ==
  ASSUME DInv, NEW t \in Thread, ide_lock(t) \/ Io(t)
  PROVE  AskedOK(t)' /\ (Placed(t) => Placed(t)')
<1>0. at \in [Users -> Places] /\ op \in [Users -> Ops] /\ t \in Users /\ t # Boot /\ AskedOK(t)
      /\ asked \in [Thread -> Request \cup {NoRequest}]
  BY UsersAre DEF DInv, DTypeOK, Places, Ops
<1>a. ASSUME NEW p, at' = [at EXCEPT ![t] = p], UNCHANGED <<op, asked>>, p # "idle", at[t] # "idle",
             p \in {"unlock", "return"} => at[t] = "unlock" \/ op[t].cmd = "write"
      PROVE  AskedOK(t)' /\ (Placed(t) => Placed(t)')
  <2>1. at'[t] = p  BY <1>0, <1>a
  <2>2. at'[t] \in {"unlock", "return"} /\ op[t].cmd = "read" => op'[t].data \in Stored
    BY <1>0, <1>a, <2>1 DEF AskedOK
  <2> QED  BY <1>0, <1>a, <2>1, <2>2, AskedMoves
<1>1. CASE ide_lock(t)  BY <1>a, <1>1 DEF ide_lock
<1>2. CASE select_sector(t)  BY <1>a, <1>2 DEF select_sector
<1>3. CASE issue_pio_command(t)
  <2>1. PICK p : p = IF op[t].cmd = "write" THEN "busy" ELSE "wait"  OBVIOUS
  <2> QED  BY <1>a, <1>3, <2>1 DEF issue_pio_command
<1>4. CASE output_sector(t)
  <2>1. CASE hw.drq  BY <1>a, <1>4, <2>1 DEF output_sector
  <2>2. CASE ~hw.drq
    <3>1. at' = at /\ op' = op /\ asked' = asked  BY <1>0, <1>4, <2>2 DEF output_sector
    <3> QED  BY <1>0, <3>1, AskedFrame
  <2> QED  BY <2>1, <2>2
<1>5. CASE await_completion(t)
  <2>1. CASE op[t].cmd = "write"  BY <1>a, <1>5, <2>1 DEF await_completion
  <2>2. CASE op[t].cmd # "write"  BY <1>a, <1>5, <2>2 DEF await_completion
  <2> QED  BY <2>1, <2>2
<1>6. CASE input_sector(t)
  <2>1. at[t] = "input" /\ op[t].cmd = "read" /\ asked' = asked  BY <1>6 DEF input_sector
  <2>2. CASE hw.drq
    <3>1. PICK v \in Stored : v = disk[hw.dev][hw.lba]  BY <1>0, <2>1, DataIs
    <3>2. op' = [op EXCEPT ![t].data = v] /\ at' = [at EXCEPT ![t] = "unlock"]
      BY <1>6, <2>2, <3>1 DEF input_sector
    <3>3. op'[t].dev = op[t].dev /\ op'[t].cmd = op[t].cmd /\ op'[t].lba = op[t].lba /\ op'[t].data = v
          /\ at'[t] = "unlock"
      BY <1>0, <3>2 DEF Ops
    <3> QED  BY <1>0, <2>1, <3>1, <3>3, AskedMoves
  <2>3. CASE ~hw.drq
    <3>1. at' = at /\ op' = op  BY <1>0, <1>6, <2>3 DEF input_sector
    <3> QED  BY <1>0, <2>1, <3>1, AskedFrame
  <2> QED  BY <2>2, <2>3
<1>7. CASE ide_unlock(t)
  <2>1. at[t] = "unlock" /\ at' = [at EXCEPT ![t] = "return"] /\ UNCHANGED <<op, asked>>
    BY <1>0, <1>7 DEF ide_unlock
  <2> QED  BY <1>a, <2>1
<1>8. CASE Return(t)
  <2>1. at' = [at EXCEPT ![t] = "idle"] /\ asked' = [asked EXCEPT ![t] = NoRequest]  BY <1>8 DEF Return
  <2>2. at'[t] = "idle" /\ asked'[t] = NoRequest  BY <1>0, <2>1
  <2> QED  BY <2>2 DEF AskedOK, Placed
<1> QED  BY <1>1, <1>2, <1>3, <1>4, <1>5, <1>6, <1>7, <1>8 DEF Io

\* A call begins a request, for a sector of the role's place when it has one.
LEMMA CallAsked ==
  ASSUME DInv, NEW t \in Thread, NEW r \in Role, NEW s \in 0 .. MaxSector,
         ReadCall(t, r, s) \/ \E v \in Value : WriteCall(t, r, s, v)
  PROVE  AskedOK(t)' /\ (RolesOK => Placed(t)')
<1>0. at \in [Users -> Places] /\ op \in [Users -> Ops] /\ t \in Users
      /\ asked \in [Thread -> Request \cup {NoRequest}]
  BY UsersAre DEF DInv, DTypeOK, Places, Ops
<1>a. ASSUME NEW cmd \in {"read", "write"}, NEW v, Call(t, r, s, cmd, v), cmd = "write" => v \in Value,
             NEW a, a = IF cmd = "read" THEN <<cmd, <<r, s>>>> ELSE <<cmd, <<r, s>>, v>>, a \in Request
      PROVE  AskedOK(t)' /\ (RolesOK => Placed(t)')
  <2>1. PICK b \in Good :
          /\ roles[r] # 0 /\ b = all_blocks[roles[r]] /\ s \in Nat /\ s < b.size
          /\ at[Boot] = "booted" /\ at' = [at EXCEPT ![t] = "lock"]
          /\ op' = [op EXCEPT ![t] = [cmd |-> cmd, dev |-> b.dev, lba |-> b.start + s, data |-> v]]
          /\ asked' = [asked EXCEPT ![t] = a]
    BY <1>a, CallIs
  <2>2. at'[t] = "lock" /\ asked'[t] = a /\ op'[t].cmd = cmd /\ op'[t].dev = b.dev
        /\ op'[t].lba = b.start + s /\ op'[t].data = v
    BY <1>0, <2>1
  <2>3. a # NoRequest  BY <1>a, DiskAssumption DEF DiskAssumption
  <2>4. AskedOK(t)'  BY <1>a, <2>2, <2>3 DEF AskedOK
  <2>5. ASSUME RolesOK PROVE Placed(t)'
    <3>1. r \in DOMAIN Place /\ b = Place[r]  BY <2>1, <2>5 DEF RolesOK
    <3>2. b.size \in Nat  BY DEF Good
    <3>3. s \in 0 .. Place[r].size - 1  BY <2>1, <3>1, <3>2
    <3>4. ForSector(t, r, s)'
      <4>1. CASE cmd = "read"  BY <1>a, <2>2, <3>1, <4>1 DEF ForSector
      <4>2. CASE cmd = "write"  BY <1>a, <2>2, <3>1, <4>2 DEF ForSector
      <4> QED  BY <4>1, <4>2
    <3> QED  BY <3>1, <3>3, <3>4 DEF Placed
  <2> QED  BY <2>4, <2>5
<1>1. CASE ReadCall(t, r, s)
  <2>1. <<"read", <<r, s>>>> \in Request  BY RequestIs
  <2> QED  BY <1>1, <1>a, <2>1 DEF ReadCall
<1>2. ASSUME NEW v \in Value, WriteCall(t, r, s, v) PROVE AskedOK(t)' /\ (RolesOK => Placed(t)')
  <2>1. <<"write", <<r, s>>, v>> \in Request  BY RequestIs
  <2> QED  BY <1>2, <1>a, <2>1 DEF WriteCall
<1> QED  BY <1>1, <1>2

\* A step of start-up, or of another thread, leaves a thread's request alone.
LEMMA OthersAsked ==
  ASSUME DInv, NEW t \in Thread,
         \/ Booting
         \/ \E u \in Users : u # t /\ (ide_lock(u) \/ Io(u))
         \/ interrupt_handler \/ Drive
         \/ \E u \in Thread, r \in Role, s \in 0 .. MaxSector :
              u # t /\ (ReadCall(u, r, s) \/ \E v \in Value : WriteCall(u, r, s, v))
         \/ UNCHANGED diskVars
  PROVE  AskedOK(t)' /\ (Placed(t) => Placed(t)')
<1>0. at \in [Users -> Places] /\ op \in [Users -> Ops] /\ t \in Users /\ t # Boot /\ AskedOK(t)
      /\ asked \in [Thread -> Request \cup {NoRequest}]
  BY UsersAre DEF DInv, DTypeOK, Places, Ops
<1>1. ASSUME NEW u \in Users, u # t, (at' = at \/ \E p : at' = [at EXCEPT ![u] = p]),
             op' = op \/ (\E o : op' = [op EXCEPT ![u] = o]) \/ (\E v : op' = [op EXCEPT ![u].data = v])
               \/ (\E v : op' = [op EXCEPT ![u].dev = v]),
             asked' = asked \/ \E a : asked' = [asked EXCEPT ![u] = a]
      PROVE  AskedOK(t)' /\ (Placed(t) => Placed(t)')
  <2>1. at'[t] = at[t] /\ op'[t] = op[t] /\ asked'[t] = asked[t]  BY <1>0, <1>1
  <2> QED  BY <1>0, <2>1, AskedFrame
<1>2. CASE Booting
  <2>1. asked' = asked
        /\ (at' = at \/ \E p : at' = [at EXCEPT ![Boot] = p])
        /\ (op' = op \/ (\E o : op' = [op EXCEPT ![Boot] = o]) \/ (\E v : op' = [op EXCEPT ![Boot].dev = v]))
    BY <1>2
       DEF Booting, reset_channel, await_reset, detect_drives, probe, identify_ata_device,
           read_partition_table, check_signature, parse_entry, end_table, locate_block_devices, SetBoot
  <2> QED  BY <1>0, <1>1, <2>1, UsersAre
<1>3. ASSUME NEW u \in Users, u # t, ide_lock(u) \/ Io(u) PROVE AskedOK(t)' /\ (Placed(t) => Placed(t)')
  <2>1. (asked' = asked \/ \E a : asked' = [asked EXCEPT ![u] = a]) /\ (\E p : at' = [at EXCEPT ![u] = p])
        /\ (op' = op \/ \E v : op' = [op EXCEPT ![u].data = v])
    BY <1>3
       DEF Io, ide_lock, select_sector, issue_pio_command, output_sector, await_completion, input_sector,
           ide_unlock, Return
  <2> QED  BY <1>1, <1>3, <2>1
<1>4. CASE interrupt_handler \/ Drive
  <2>1. UNCHANGED <<at, op, asked>>
    BY <1>4 DEF interrupt_handler, Drive, DriveStarts, DriveReady, DriveWrites, DriveRefuses
  <2> QED  BY <1>0, <2>1, AskedFrame
<1>5. ASSUME NEW u \in Thread, NEW r \in Role, NEW s \in 0 .. MaxSector, u # t,
             ReadCall(u, r, s) \/ \E v \in Value : WriteCall(u, r, s, v)
      PROVE  AskedOK(t)' /\ (Placed(t) => Placed(t)')
  <2>1. ASSUME NEW cmd, NEW v, Call(u, r, s, cmd, v) PROVE AskedOK(t)' /\ (Placed(t) => Placed(t)')
    <3>1. at' = [at EXCEPT ![u] = "lock"] /\ (\E o : op' = [op EXCEPT ![u] = o])
          /\ \E a : asked' = [asked EXCEPT ![u] = a]
      BY <2>1 DEF Call
    <3>2. u \in Users  BY UsersAre
    <3> QED  BY <1>1, <1>5, <3>1, <3>2
  <2> QED  BY <1>5, <2>1 DEF ReadCall, WriteCall
<1>6. CASE UNCHANGED diskVars
  <2>1. UNCHANGED <<at, op, asked>>  BY <1>6 DEF diskVars
  <2> QED  BY <1>0, <2>1, AskedFrame
<1> QED  BY <1>2, <1>3, <1>4, <1>5, <1>6

\* Every step leaves each thread at what its caller asked.
LEMMA AskedKept ==
  ASSUME DInv, [DiskNext]_diskVars, NEW t \in Thread
  PROVE  AskedOK(t)' /\ (RolesOK /\ Placed(t) => Placed(t)')
<1>1. ASSUME NEW u \in Users, ide_lock(u) \/ Io(u) PROVE AskedOK(t)' /\ (RolesOK /\ Placed(t) => Placed(t)')
  <2>1. CASE u = t  BY <1>1, <2>1, ThreadAsked
  <2>2. CASE u # t  BY <1>1, <2>2, OthersAsked
  <2> QED  BY <2>1, <2>2
<1>2. ASSUME NEW u \in Thread, NEW r \in Role, NEW s \in 0 .. MaxSector,
             ReadCall(u, r, s) \/ \E v \in Value : WriteCall(u, r, s, v)
      PROVE  AskedOK(t)' /\ (RolesOK /\ Placed(t) => Placed(t)')
  <2>1. CASE u = t  BY <1>2, <2>1, CallAsked
  <2>2. CASE u # t  BY <1>2, <2>2, OthersAsked
  <2> QED  BY <2>1, <2>2
<1> QED  BY <1>1, <1>2, StepIs, OthersAsked
-----------------------------------------------------------------------------
(***************************************************************************)
(* The inductive invariant, and what it says of the blocks.                 *)
(***************************************************************************)

\* Whatever the drives hold: what start-up has found, who is at the channel, what the controller
\* has to say and what each thread is doing belong together in every state of the disk driver.
THEOREM DiskInvariant == DiskSpec => []DInv
<1>1. DiskInit => DInv  BY TypeStarts, ChannelStarts, RestStarts DEF DInv
<1>2. DInv /\ [DiskNext]_diskVars => DInv'
  <2> SUFFICES ASSUME DInv, [DiskNext]_diskVars PROVE DInv'  OBVIOUS
  <2>1. DTypeOK' /\ ChannelOK' /\ ScanOK' /\ RolesFit' /\ \A t \in Thread : AskedOK(t)'
    BY TypeKept, ChannelKept, ScanKept, RolesKept, AskedKept
  <2> QED  BY <2>1 DEF DInv
<1> QED  BY <1>1, <1>2, PTL DEF DiskSpec

\* At first no role is taken and nobody has asked.
LEMMA PlacesStart == DiskInit => PlacesInv
<1> SUFFICES ASSUME DiskInit PROVE PlacesInv  OBVIOUS
<1>1. at = [t \in Users |-> IF t = Boot THEN "reset" ELSE "idle"]  BY DEF DiskInit
<1>2. at[Boot] = "reset" /\ \A t \in Thread : at[t] = "idle"  BY <1>1, UsersAre
<1> QED  BY <1>2 DEF PlacesInv, RolesOK, Placed

\* Every step keeps each thread at its caller's sector.
LEMMA PlacesKept ==
  ASSUME OnePlace, DInv, PlacesInv, [DiskNext]_diskVars
  PROVE  PlacesInv'
<1>1. RolesOK'  BY RolesKept DEF PlacesInv
<1>2. ASSUME NEW t \in Thread PROVE Placed(t)'  BY AskedKept DEF PlacesInv
<1> QED  BY <1>1, <1>2 DEF PlacesInv

\* Where one stretch of a sequence is of a drive, and nothing else in it.
LEMMA HoldsFirst ==
  ASSUME NEW d \in Range(Drives), NEW a \in Seq(BlocksOf(d)),
         NEW b \in Seq(Good), \A i \in 1 .. Len(b) : b[i].dev # d, all_blocks = a \o b
  PROVE  Holds(d, a)
<1>1. PICK m \in Nat, n \in Nat : m = Len(a) /\ n = Len(b)  BY LenProperties
<1>2. a \in Seq(Good) /\ \A i \in 1 .. m : a[i].dev = d
  <2>1. BlocksOf(d) \subseteq Good /\ \A x \in BlocksOf(d) : x.dev = d  BY DEF BlocksOf
  <2>2. \A i \in 1 .. m : a[i] \in BlocksOf(d)  BY <1>1, ElementOfSeq
  <2> QED  BY <2>1, <2>2, SeqMonotonic
<1>3. Len(all_blocks) = m + n /\ all_blocks \in Seq(Good)
      /\ \A i \in 1 .. m + n : all_blocks[i] = IF i <= m THEN a[i] ELSE b[i - m]
  BY <1>1, <1>2, ConcatProperties
<1>4. DOMAIN all_blocks = 1 .. m + n  BY <1>3, LenProperties
<1>5. ASSUME NEW i \in 1 .. m + n PROVE all_blocks[i].dev = d <=> i \in 1 .. m
  <2>1. CASE i <= m  BY <1>2, <1>3, <2>1
  <2>2. CASE ~(i <= m)
    <3>1. i - m \in 1 .. n  BY <2>2
    <3> QED  BY <1>1, <1>3, <2>2, <3>1
  <2> QED  BY <2>1, <2>2
<1>6. { i \in DOMAIN all_blocks : all_blocks[i].dev = d } = 0 + 1 .. 0 + m  BY <1>4, <1>5
<1>7. SubSeq(all_blocks, 0 + 1, 0 + m) = a
  <2>1. \A i \in 1 .. m : all_blocks[i] \in Good  BY <1>3, ElementOfSeq
  <2>2. /\ SubSeq(all_blocks, 1, m) \in Seq(Good) /\ Len(SubSeq(all_blocks, 1, m)) = m
        /\ \A i \in 1 .. m : SubSeq(all_blocks, 1, m)[i] = all_blocks[i]
    BY <1>3
  <2>3. \A i \in 1 .. m : SubSeq(all_blocks, 1, m)[i] = a[i]  BY <1>3, <2>2
  <2>4. SubSeq(all_blocks, 1, m) = a  BY <1>1, <1>2, <2>2, <2>3, SeqEqual
  <2> QED  BY <2>4
<1>8. 0 \in 0 .. Len(all_blocks)  BY <1>3
<1> QED  BY <1>1, <1>6, <1>7, <1>8 DEF Holds

LEMMA HoldsLast ==
  ASSUME NEW d \in Range(Drives), NEW b \in Seq(BlocksOf(d)),
         NEW a \in Seq(Good), \A i \in 1 .. Len(a) : a[i].dev # d, all_blocks = a \o b
  PROVE  Holds(d, b)
<1>1. PICK m \in Nat, n \in Nat : m = Len(a) /\ n = Len(b)  BY LenProperties
<1>2. b \in Seq(Good) /\ \A i \in 1 .. n : b[i].dev = d
  <2>1. BlocksOf(d) \subseteq Good /\ \A x \in BlocksOf(d) : x.dev = d  BY DEF BlocksOf
  <2>2. \A i \in 1 .. n : b[i] \in BlocksOf(d)  BY <1>1, ElementOfSeq
  <2> QED  BY <2>1, <2>2, SeqMonotonic
<1>3. Len(all_blocks) = m + n /\ all_blocks \in Seq(Good)
      /\ \A i \in 1 .. m + n : all_blocks[i] = IF i <= m THEN a[i] ELSE b[i - m]
  BY <1>1, <1>2, ConcatProperties
<1>4. DOMAIN all_blocks = 1 .. m + n  BY <1>3, LenProperties
<1>5. ASSUME NEW i \in 1 .. m + n PROVE all_blocks[i].dev = d <=> i \in m + 1 .. m + n
  <2>1. CASE i <= m  BY <1>1, <1>3, <2>1
  <2>2. CASE ~(i <= m)
    <3>1. i - m \in 1 .. n /\ i \in m + 1 .. m + n  BY <2>2
    <3>2. all_blocks[i] = b[i - m]  BY <1>3, <2>2
    <3>3. b[i - m].dev = d  BY <1>2, <3>1
    <3> QED  BY <3>1, <3>2, <3>3
  <2> QED  BY <2>1, <2>2
<1>6. { i \in DOMAIN all_blocks : all_blocks[i].dev = d } = m + 1 .. m + n  BY <1>4, <1>5
<1>7. SubSeq(all_blocks, m + 1, m + n) = b
  <2>1. /\ SubSeq(all_blocks, m + 1, m + n) \in Seq(Good) /\ Len(SubSeq(all_blocks, m + 1, m + n)) = n
        /\ \A i \in 1 .. n : SubSeq(all_blocks, m + 1, m + n)[i] = all_blocks[m + i]
    BY <1>3
  <2>2. \A i \in 1 .. n : SubSeq(all_blocks, m + 1, m + n)[i] = b[i]
    <3> SUFFICES ASSUME NEW i \in 1 .. n PROVE SubSeq(all_blocks, m + 1, m + n)[i] = b[i]  OBVIOUS
    <3>1. m + i \in 1 .. m + n /\ ~(m + i <= m) /\ (m + i) - m = i  OBVIOUS
    <3> QED  BY <1>3, <2>1, <3>1
  <2>3. SubSeq(all_blocks, m + 1, m + n) = b  BY <1>1, <1>2, <2>1, <2>2, SeqEqual
  <2> QED  BY <2>3
<1>8. m \in 0 .. Len(all_blocks)  BY <1>3
<1> QED  BY <1>1, <1>6, <1>7, <1>8 DEF Holds

\* The blocks found, when there are drives A and B or A alone, stand as they should.
Ordered ==
  \A i \in DOMAIN all_blocks :
    /\ all_blocks[i].start + all_blocks[i].size <= Hardware[all_blocks[i].dev].capacity
    /\ \A j \in i .. Len(all_blocks) : Rank(all_blocks[i].dev) <= Rank(all_blocks[j].dev)
    /\ (i = 1 \/ all_blocks[i - 1].dev # all_blocks[i].dev) => all_blocks[i] = Raw(all_blocks[i].dev)

LEMMA OrderedOne ==
  ASSUME NEW d \in Range(Drives), NEW a \in Seq(BlocksOf(d)), a = <<>> \/ a[1] = Raw(d), all_blocks = a
  PROVE  Ordered
<1>1. PICK m \in Nat : m = Len(a) /\ DOMAIN a = 1 .. m  BY LenProperties
<1>2. \A i \in 1 .. m : a[i] \in Good /\ a[i].dev = d
  <2>1. \A i \in 1 .. m : a[i] \in BlocksOf(d)  BY <1>1, ElementOfSeq
  <2> QED  BY <2>1 DEF BlocksOf
<1>3. ASSUME NEW i \in 1 .. m, i = 1 \/ a[i - 1].dev # a[i].dev PROVE a[i] = Raw(d)
  <2>1. i # 1 => i - 1 \in 1 .. m  OBVIOUS
  <2>2. i = 1  BY <1>2, <1>3, <2>1
  <2>3. a # <<>>  BY <1>1
  <2> QED  BY <2>2, <2>3
<1>4. \A i \in 1 .. m : a[i].start + a[i].size <= Hardware[d].capacity  BY <1>2 DEF Good
<1>5. Rank(d) \in Nat
  <2>1. Rank(d) \in 1 .. Len(Drives) /\ Len(Drives) \in 1 .. 2  BY RankIs, FirstDrive
  <2> QED  BY <2>1
<1> QED  BY <1>1, <1>2, <1>3, <1>4, <1>5 DEF Ordered

LEMMA OrderedTwo ==
  ASSUME NEW d \in Range(Drives), NEW e \in Range(Drives), Rank(d) < Rank(e),
         NEW a \in Seq(BlocksOf(d)), a = <<>> \/ a[1] = Raw(d),
         NEW b \in Seq(BlocksOf(e)), b = <<>> \/ b[1] = Raw(e), all_blocks = a \o b
  PROVE  Ordered
<1>1. PICK m \in Nat, n \in Nat : m = Len(a) /\ n = Len(b)  BY LenProperties
<1>2. /\ \A i \in 1 .. m : a[i] \in Good /\ a[i].dev = d
      /\ \A i \in 1 .. n : b[i] \in Good /\ b[i].dev = e
      /\ a \in Seq(Good) /\ b \in Seq(Good)
  <2>1. (\A i \in 1 .. m : a[i] \in BlocksOf(d)) /\ (\A i \in 1 .. n : b[i] \in BlocksOf(e))
    BY <1>1, ElementOfSeq
  <2>2. BlocksOf(d) \subseteq Good /\ BlocksOf(e) \subseteq Good  BY DEF BlocksOf
  <2> QED  BY <2>1, <2>2, SeqMonotonic DEF BlocksOf
<1>3. Len(all_blocks) = m + n /\ all_blocks \in Seq(Good)
      /\ \A i \in 1 .. m + n : all_blocks[i] = IF i <= m THEN a[i] ELSE b[i - m]
  BY <1>1, <1>2, ConcatProperties
<1>4. DOMAIN all_blocks = 1 .. m + n  BY <1>3, LenProperties
<1>5. d # e /\ Rank(d) \in Nat /\ Rank(e) \in Nat
  <2>1. Rank(d) \in 1 .. Len(Drives) /\ Rank(e) \in 1 .. Len(Drives) /\ Len(Drives) \in 1 .. 2
    BY RankIs, FirstDrive
  <2> QED  BY <2>1
<1>6. \A i \in 1 .. m + n : all_blocks[i].dev = IF i <= m THEN d ELSE e
  <2> SUFFICES ASSUME NEW i \in 1 .. m + n PROVE all_blocks[i].dev = IF i <= m THEN d ELSE e  OBVIOUS
  <2>1. CASE i <= m  BY <1>2, <1>3, <2>1
  <2>2. CASE ~(i <= m)
    <3>1. i - m \in 1 .. n  BY <2>2
    <3> QED  BY <1>2, <1>3, <2>2, <3>1
  <2> QED  BY <2>1, <2>2
<1>7. ASSUME NEW i \in 1 .. m + n, i = 1 \/ all_blocks[i - 1].dev # all_blocks[i].dev
      PROVE  all_blocks[i] = Raw(all_blocks[i].dev)
  <2>1. CASE i <= m
    <3>1. ASSUME i # 1 PROVE FALSE
      <4>1. PICK k \in 1 .. m + n : k = i - 1 /\ k <= m  BY <2>1, <3>1
      <4>2. all_blocks[k].dev = d /\ all_blocks[i].dev = d  BY <1>6, <2>1, <4>1
      <4> QED  BY <1>7, <3>1, <4>1, <4>2
    <3>2. i = 1  BY <3>1
    <3>3. a # <<>> /\ all_blocks[1] = a[1] /\ all_blocks[1].dev = d  BY <1>1, <1>3, <1>6, <2>1, <3>2
    <3> QED  BY <3>2, <3>3
  <2>2. CASE ~(i <= m)
    <3>1. i = m + 1
      <4>1. i # 1 => i - 1 \in 1 .. m + n  OBVIOUS
      <4>2. i # 1 => i - 1 <= m  BY <1>6, <1>7, <2>2, <4>1
      <4> QED  BY <2>2, <4>2
    <3>2. b # <<>> /\ all_blocks[i] = b[1] /\ all_blocks[i].dev = e
      <4>1. i - m = 1 /\ n # 0  BY <3>1
      <4> QED  BY <1>1, <1>3, <1>6, <2>2, <4>1
    <3> QED  BY <3>2
  <2> QED  BY <2>1, <2>2
<1>8. \A i \in 1 .. m + n :
        all_blocks[i].start + all_blocks[i].size <= Hardware[all_blocks[i].dev].capacity
  <2>1. \A i \in 1 .. m + n : all_blocks[i] \in Good  BY <1>3, ElementOfSeq
  <2> QED  BY <2>1 DEF Good
<1>9. ASSUME NEW i \in 1 .. m + n, NEW j \in i .. m + n
      PROVE  Rank(all_blocks[i].dev) <= Rank(all_blocks[j].dev)
  <2>1. j \in 1 .. m + n /\ (j <= m => i <= m)  OBVIOUS
  <2>2. all_blocks[i].dev = IF i <= m THEN d ELSE e  BY <1>6
  <2>3. all_blocks[j].dev = IF j <= m THEN d ELSE e  BY <1>6, <2>1
  <2> QED  BY <1>5, <2>1, <2>2, <2>3
<1> QED  BY <1>3, <1>4, <1>7, <1>8, <1>9 DEF Ordered

\* Every state of the system, whatever the drives hold: after start-up the block devices are the
\* disks in use and, behind each, what its table lists, in order; nothing found lies outside its
\* drive, also where a table in the drive is not read, and none is on a drive that is too large.
THEOREM PartitionsAreFound == DiskSpec => []PartitionsFound
<1>1. DInv => PartitionsFound
  <2> SUFFICES ASSUME DInv, at[Boot] = "booted"
               PROVE  /\ \A d \in Range(Drives) :
                           \E own : /\ Whole(d, own) /\ Holds(d, own)
                                    /\ is_ata[d] => Hardware[d].capacity < GB
                      /\ Ordered
    BY DEF PartitionsFound, Ordered, Whole
  <2>1. AreBlocks(Len(Drives), all_blocks) /\ Fits(Len(Drives))  BY DEF DInv, ScanOK
  <2>2. \A d \in Range(Drives) : is_ata[d] => Hardware[d].capacity < GB  BY <2>1, RankIs DEF Fits
  <2>3. PICK x \in Range(Drives) : x = Drives[1]  BY FirstDrive
  <2>4. CASE Len(Drives) = 1
    <3>1. Whole(x, all_blocks)  BY <2>1, <2>3, <2>4 DEF AreBlocks
    <3>2. all_blocks \in Seq(BlocksOf(x)) /\ (all_blocks = <<>> \/ all_blocks[1] = Raw(x))  BY <3>1, WholeIn
    <3>3. Ordered  BY <3>2, OrderedOne
    <3>4. <<>> \in Seq(Good) /\ Len(<<>>) = 0 /\ all_blocks = all_blocks \o <<>>  BY <3>2, ConcatFacts
    <3>5. PICK none : none = <<>>  OBVIOUS
    <3>6. none \in Seq(Good) /\ (\A i \in 1 .. Len(none) : none[i].dev # x) /\ all_blocks = all_blocks \o none
      BY <3>4, <3>5
    <3>7. Holds(x, all_blocks)  BY <3>2, <3>6, HoldsFirst
    <3>8. \A d \in Range(Drives) : d = x
      <4>1. \A d \in Range(Drives) : Rank(d) = 1 /\ Drives[Rank(d)] = d  BY <2>4, RankIs
      <4> QED  BY <2>3, <4>1
    <3> QED  BY <2>2, <3>1, <3>3, <3>7, <3>8
  <2>5. CASE Len(Drives) = 2
    <3>1. PICK y \in Range(Drives) : y = Drives[2] /\ Rank(x) = 1 /\ Rank(y) = 2
      <4>1. 2 \in 1 .. Len(Drives) /\ 1 \in 1 .. Len(Drives)  BY <2>5
      <4> QED  BY <2>3, <4>1, RankIs
    <3>2. PICK a, b : Whole(x, a) /\ Whole(y, b) /\ all_blocks = a \o b
      BY <2>1, <2>3, <2>5, <3>1 DEF AreBlocks
    <3>3. a \in Seq(BlocksOf(x)) /\ (a = <<>> \/ a[1] = Raw(x))  BY <3>2, WholeIn
    <3>4. b \in Seq(BlocksOf(y)) /\ (b = <<>> \/ b[1] = Raw(y))  BY <3>2, WholeIn
    <3>5. x # y  BY <3>1
    <3>6. a \in Seq(Good) /\ b \in Seq(Good)
          /\ (\A i \in 1 .. Len(a) : a[i].dev # y) /\ (\A i \in 1 .. Len(b) : b[i].dev # x)
      <4>1. (\A i \in 1 .. Len(a) : a[i] \in BlocksOf(x)) /\ (\A i \in 1 .. Len(b) : b[i] \in BlocksOf(y))
        BY <3>3, <3>4, ElementOfSeq
      <4>2. BlocksOf(x) \subseteq Good /\ BlocksOf(y) \subseteq Good  BY DEF BlocksOf
      <4> QED  BY <3>3, <3>4, <3>5, <4>1, <4>2, SeqMonotonic DEF BlocksOf
    <3>7. Holds(x, a)  BY <3>2, <3>3, <3>6, HoldsFirst
    <3>8. Holds(y, b)  BY <3>2, <3>4, <3>6, HoldsLast
    <3>9. Ordered
      <4>1. Rank(x) < Rank(y)  BY <3>1
      <4> QED  BY <3>2, <3>3, <3>4, <4>1, OrderedTwo
    <3>10. \A d \in Range(Drives) : d = x \/ d = y
      <4>1. \A d \in Range(Drives) : Rank(d) \in 1 .. 2 /\ Drives[Rank(d)] = d  BY <2>5, RankIs
      <4> QED  BY <2>3, <3>1, <4>1
    <3> QED  BY <2>2, <3>2, <3>7, <3>8, <3>9, <3>10
  <2> QED  BY <2>4, <2>5, FirstDrive
<1> QED  BY <1>1, DiskInvariant, PTL
-----------------------------------------------------------------------------
(***************************************************************************)
(* The driver is the atomic store: every step of it is one of the store's,  *)
(* or none.                                                                 *)
(***************************************************************************)
\* The answer a thread has, if it has one.
Ans(t) ==
  CASE op[t].cmd = "read" -> IF at[t] \in {"unlock", "return", "idle"} THEN op[t].data ELSE Pending
    [] op[t].cmd = "write" ->
         IF at[t] \in {"unlock", "return", "idle"} \/ (at[t] = "wait" /\ ~hw.busy) THEN Written ELSE Pending
    [] OTHER -> Pending

\* The answer a thread has, by where it is.
LEMMA AnswerIs ==
  /\ answered = [t \in Thread |-> Ans(t)] /\ answered' = [t \in Thread |-> Ans(t)']
  /\ \A t :
       /\ op[t].cmd = "read" =>
            Ans(t) = IF at[t] \in {"unlock", "return", "idle"} THEN op[t].data ELSE Pending
       /\ op[t].cmd = "write" =>
            Ans(t) = IF at[t] \in {"unlock", "return", "idle"} \/ (at[t] = "wait" /\ ~hw.busy)
                     THEN Written ELSE Pending
       /\ op[t].cmd \notin {"read", "write"} => Ans(t) = Pending
  /\ \A t :
       /\ op'[t].cmd = "read" =>
            Ans(t)' = IF at'[t] \in {"unlock", "return", "idle"} THEN op'[t].data ELSE Pending
       /\ op'[t].cmd = "write" =>
            Ans(t)' = IF at'[t] \in {"unlock", "return", "idle"} \/ (at'[t] = "wait" /\ ~hw'.busy)
                      THEN Written ELSE Pending
       /\ op'[t].cmd \notin {"read", "write"} => Ans(t)' = Pending
  BY DEF answered, Ans

\* A thread whose place and request stay has the answer it had, unless a drive was to write for it.
LEMMA AnswerStays ==
  ASSUME NEW u, at'[u] = at[u], op'[u] = op[u], at[u] = "wait" /\ op[u].cmd = "write" => hw'.busy = hw.busy
  PROVE  Ans(u)' = Ans(u)
<1>1. CASE op[u].cmd = "read"  BY <1>1, AnswerIs
<1>2. CASE op[u].cmd = "write"
  <2>1. (at[u] = "wait" /\ ~hw.busy) <=> (at'[u] = "wait" /\ ~hw'.busy)  BY <1>2
  <2> QED  BY <1>2, <2>1, AnswerIs
<1>3. CASE op[u].cmd \notin {"read", "write"}  BY <1>3, AnswerIs
<1> QED  BY <1>1, <1>2, <1>3

\* Steps the store does not see, and the one in which the kernel stops.
LEMMA Unseen ==
  ASSUME UNCHANGED <<disk, asked, panicked>>, \A u \in Thread : Ans(u)' = Ans(u)
  PROVE  UNCHANGED Store!bvars
<1>1. answered' = answered  BY AnswerIs
<1> QED  BY <1>1 DEF Store!bvars, StoreOf

\* A drive that fails stops the store.
LEMMA Stops ==
  ASSUME UNCHANGED <<disk, asked>>, ~panicked, panicked' = TRUE, \A u \in Thread : Ans(u)' = Ans(u)
  PROVE  Store!BNext
<1>1. answered' = answered  BY AnswerIs
<1>2. Store!Stop  BY <1>1 DEF Store!Stop, StoreOf
<1> QED  BY <1>2 DEF Store!BNext

\* What a step of one thread leaves to be shown.
LEMMA OneAnswer ==
  ASSUME DInv, NEW t \in Users, NEW p, at' = [at EXCEPT ![t] = p], \A u \in Users : u # t => op'[u] = op[u],
         hw'.busy = hw.busy \/ at[t] \in Drivers
  PROVE  \A u \in Thread : u # t => Ans(u)' = Ans(u)
<1> SUFFICES ASSUME NEW u \in Thread, u # t PROVE Ans(u)' = Ans(u)  OBVIOUS
<1>0. at \in [Users -> Places] /\ u \in Users  BY UsersAre DEF DInv, DTypeOK, Places
<1>1. at'[u] = at[u] /\ op'[u] = op[u]  BY <1>0
<1>2. at[u] = "wait" => hw'.busy = hw.busy
  <2>1. at[u] = "wait" /\ at[t] \in Drivers => u = t  BY <1>0, OneAtOnce DEF Driving, Drivers
  <2> QED  BY <2>1
<1> QED  BY <1>1, <1>2, AnswerStays

\* The sector a thread's request is for, in the store and on its drive.
LEMMA SectorIs ==
  ASSUME DInv, PlacesInv, NEW t \in Thread, at[t] # "idle"
  PROVE  \E r \in DOMAIN Place : \E s \in 0 .. Place[r].size - 1 :
           /\ ForSector(t, r, s) /\ <<r, s>> \in RoleSectors
           /\ StoreOf(disk)[<<r, s>>] = disk[Place[r].dev][Place[r].start + s]
<1>0. PICK r \in DOMAIN Place : \E s \in 0 .. Place[r].size - 1 : ForSector(t, r, s)
  BY DEF PlacesInv, Placed
<1>1. PICK s \in 0 .. Place[r].size - 1 : ForSector(t, r, s)  BY <1>0
<1>2. <<r, s>> \in RoleSectors  BY DEF RoleSectors
<1>3. StoreOf(disk)[<<r, s>>] = disk[Place[r].dev][Place[r].start + s]  BY <1>2 DEF StoreOf
<1> QED  BY <1>1, <1>2, <1>3

\* A thread that returns has the answer.
LEMMA ThreadStore ==
  ASSUME DInv, PlacesInv, ~panicked, NEW t \in Thread, ide_lock(t) \/ Io(t)
  PROVE  [Store!BNext]_(Store!bvars)
<1>0. at \in [Users -> Places] /\ op \in [Users -> Ops] /\ hw \in Registers /\ t \in Users /\ t # Boot
      /\ asked \in [Thread -> Request \cup {NoRequest}] /\ completion_wait \in Nat /\ AskedOK(t)
  BY UsersAre DEF DInv, DTypeOK, Places, Ops, Registers
<1>b. panicked = FALSE
  <2>1. panicked \in BOOLEAN  BY DEF DInv, DTypeOK
  <2> QED  BY <2>1
<1>a. ASSUME NEW p, at' = [at EXCEPT ![t] = p], op' = op, hw'.busy = hw.busy \/ at[t] \in Drivers,
             UNCHANGED <<disk, asked, panicked>>, Ans(t)' = Ans(t)
      PROVE  UNCHANGED Store!bvars
  <2>1. \A u \in Thread : u # t => Ans(u)' = Ans(u)  BY <1>0, <1>a, OneAnswer
  <2> QED  BY <1>a, <2>1, Unseen
<1>1. CASE ide_lock(t)
  <2>1. at' = [at EXCEPT ![t] = "select"] /\ at[t] = "lock" /\ UNCHANGED <<op, hw, disk, asked, panicked>>
    BY <1>1 DEF ide_lock
  <2>2. Ans(t)' = Ans(t)
    <3>1. at'[t] = "select" /\ op'[t] = op[t]  BY <1>0, <2>1
    <3> QED  BY <2>1, <3>1, AnswerIs
  <2> QED  BY <1>a, <2>1, <2>2
<1>2. CASE select_sector(t)
  <2>1. at' = [at EXCEPT ![t] = "issue"] /\ at[t] = "select" /\ UNCHANGED <<op, disk, asked, panicked>>
    BY <1>2 DEF select_sector
  <2>2. Ans(t)' = Ans(t)
    <3>1. at'[t] = "issue" /\ op'[t] = op[t]  BY <1>0, <2>1
    <3> QED  BY <2>1, <3>1, AnswerIs
  <2> QED  BY <1>a, <2>1, <2>2 DEF Drivers
<1>3. CASE issue_pio_command(t)
  <2>1. PICK p : p = IF op[t].cmd = "write" THEN "busy" ELSE "wait"  OBVIOUS
  <2>2. at' = [at EXCEPT ![t] = p] /\ at[t] = "issue" /\ UNCHANGED <<op, disk, asked, panicked>>
    BY <1>3, <2>1 DEF issue_pio_command
  <2>3. Ans(t)' = Ans(t)
    <3>1. at'[t] = p /\ op'[t] = op[t]  BY <1>0, <2>2
    <3>2. CASE op[t].cmd = "write"
      <4>1. p = "busy"  BY <2>1, <3>2
      <4> QED  BY <2>2, <3>1, <3>2, <4>1, AnswerIs
    <3>3. CASE op[t].cmd # "write"
      <4>1. p = "wait"  BY <2>1, <3>3
      <4>2. CASE op[t].cmd = "read"  BY <2>2, <3>1, <4>1, <4>2, AnswerIs
      <4>3. CASE op[t].cmd # "read"  BY <3>1, <3>3, <4>3, AnswerIs
      <4> QED  BY <4>2, <4>3
    <3> QED  BY <3>2, <3>3
  <2> QED  BY <1>a, <2>2, <2>3 DEF Drivers
<1>4. CASE output_sector(t)
  <2>1. at[t] = "busy" /\ UNCHANGED <<op, disk, asked>>  BY <1>4 DEF output_sector
  <2>2. op[t].cmd = "write"
    <3>1. AtBusy(t)  BY <1>0 DEF DInv, ChannelOK
    <3> QED  BY <2>1, <3>1 DEF AtBusy
  <2>3. CASE hw.drq
    <3>1. at' = [at EXCEPT ![t] = "wait"] /\ hw' = [hw EXCEPT !.drq = FALSE, !.busy = TRUE, !.taken = op[t].data]
          /\ panicked' = FALSE
      BY <1>4, <2>3 DEF output_sector
    <3>2. hw'.busy /\ at'[t] = "wait" /\ op'[t] = op[t]  BY <1>0, <2>1, <3>1 DEF Registers
    <3>3. Ans(t)' = Ans(t)  BY <2>1, <2>2, <3>2, AnswerIs
    <3> QED  BY <1>a, <1>b, <2>1, <3>1, <3>3 DEF Drivers
  <2>4. CASE ~hw.drq
    <3>1. at' = at /\ hw' = hw /\ panicked' = TRUE  BY <1>0, <1>4, <2>4 DEF output_sector
    <3>2. \A u \in Thread : Ans(u)' = Ans(u)  BY <2>1, <3>1, AnswerStays
    <3> QED  BY <2>1, <3>1, <3>2, Stops
  <2> QED  BY <2>3, <2>4
<1>5. CASE await_completion(t)
  <2>1. PICK p : p = IF op[t].cmd = "write" THEN "unlock" ELSE "input"  OBVIOUS
  <2>2. at' = [at EXCEPT ![t] = p] /\ at[t] = "wait" /\ completion_wait > 0
        /\ UNCHANGED <<op, hw, disk, asked, panicked>>
    BY <1>5, <2>1 DEF await_completion
  <2>3. ~hw.busy
    <3>1. AtWait(t)  BY <1>0 DEF DInv, ChannelOK
    <3> QED  BY <1>0, <2>2, <3>1 DEF AtWait, Awaiting
  <2>4. Ans(t)' = Ans(t)
    <3>1. at'[t] = p /\ op'[t] = op[t]  BY <1>0, <2>2
    <3>2. CASE op[t].cmd = "write"
      <4>1. p = "unlock"  BY <2>1, <3>2
      <4> QED  BY <2>2, <2>3, <3>1, <3>2, <4>1, AnswerIs
    <3>3. CASE op[t].cmd # "write"
      <4>1. p = "input"  BY <2>1, <3>3
      <4>2. CASE op[t].cmd = "read"  BY <2>2, <3>1, <4>1, <4>2, AnswerIs
      <4>3. CASE op[t].cmd # "read"  BY <3>1, <3>3, <4>3, AnswerIs
      <4> QED  BY <4>2, <4>3
    <3> QED  BY <3>2, <3>3
  <2> QED  BY <1>a, <2>2, <2>4
<1>6. CASE input_sector(t)
  <2>1. at[t] = "input" /\ op[t].cmd = "read" /\ asked' = asked /\ disk' = disk
        /\ hw' = [hw EXCEPT !.drq = FALSE]
    BY <1>6 DEF input_sector
  <2>2. hw'.busy = hw.busy  BY <1>0, <2>1 DEF Registers
  <2>3. CASE hw.drq
    <3>1. PICK v \in Stored : v = disk[hw.dev][hw.lba]  BY <1>0, <2>1, DataIs
    <3>2. op' = [op EXCEPT ![t].data = v] /\ at' = [at EXCEPT ![t] = "unlock"] /\ panicked' = FALSE
      BY <1>6, <2>3, <3>1 DEF input_sector
    <3>3. op'[t].cmd = "read" /\ op'[t].data = v /\ at'[t] = "unlock"
      BY <1>0, <2>1, <3>2 DEF Ops
    <3>4. Ans(t)' = v /\ Ans(t) = Pending  BY <2>1, <3>3, AnswerIs
    <3>5. \A u \in Users : u # t => op'[u] = op[u]  BY <1>0, <3>2
    <3>6. \A u \in Thread : u # t => Ans(u)' = Ans(u)  BY <1>0, <2>2, <3>2, <3>5, OneAnswer
    <3>7. answered' = [answered EXCEPT ![t] = v] /\ answered[t] = Pending  BY <3>4, <3>6, AnswerIs
    <3>a. PICK r \in DOMAIN Place : \E s \in 0 .. Place[r].size - 1 :
            /\ ForSector(t, r, s) /\ <<r, s>> \in RoleSectors
            /\ StoreOf(disk)[<<r, s>>] = disk[Place[r].dev][Place[r].start + s]
      BY <2>1, SectorIs
    <3>8. PICK s \in 0 .. Place[r].size - 1 :
            /\ ForSector(t, r, s) /\ StoreOf(disk)[<<r, s>>] = disk[Place[r].dev][Place[r].start + s]
      BY <3>a
    <3>9. asked[t] = <<"read", <<r, s>>>> /\ op[t].dev = Place[r].dev /\ op[t].lba = Place[r].start + s
      BY <2>1, <3>8 DEF ForSector
    <3>10. hw.dev = op[t].dev /\ hw.lba = op[t].lba  BY <1>0, <2>1, DataIs
    <3>11. v = StoreOf(disk)[asked[t][2]] /\ asked[t][1] = "read"  BY <3>1, <3>8, <3>9, <3>10
    <3>12. asked[t] # NoRequest  BY <1>0, <2>1 DEF AskedOK
    <3>13. Store!Perform(t)
      BY <1>b, <2>1, <3>2, <3>7, <3>11, <3>12 DEF Store!Perform, StoreOf
    <3> QED  BY <3>13 DEF Store!BNext, Store!BStep
  <2>4. CASE ~hw.drq
    <3>1. at' = at /\ op' = op /\ panicked' = TRUE  BY <1>0, <1>6, <2>4 DEF input_sector
    <3>2. \A u \in Thread : Ans(u)' = Ans(u)  BY <2>2, <3>1, AnswerStays
    <3> QED  BY <2>1, <3>1, <3>2, Stops
  <2> QED  BY <2>3, <2>4
<1>7. CASE ide_unlock(t)
  <2>1. at' = [at EXCEPT ![t] = "return"] /\ at[t] = "unlock" /\ UNCHANGED <<op, hw, disk, asked, panicked>>
    BY <1>0, <1>7 DEF ide_unlock
  <2>2. Ans(t)' = Ans(t)
    <3>1. at'[t] = "return" /\ op'[t] = op[t]  BY <1>0, <2>1
    <3>2. CASE op[t].cmd = "read"  BY <2>1, <3>1, <3>2, AnswerIs
    <3>3. CASE op[t].cmd = "write"  BY <2>1, <3>1, <3>3, AnswerIs
    <3>4. CASE op[t].cmd \notin {"read", "write"}  BY <3>1, <3>4, AnswerIs
    <3> QED  BY <3>2, <3>3, <3>4
  <2> QED  BY <1>a, <2>1, <2>2
<1>8. CASE Return(t)
  <2>1. at' = [at EXCEPT ![t] = "idle"] /\ asked' = [asked EXCEPT ![t] = NoRequest] /\ at[t] = "return"
        /\ UNCHANGED <<op, hw, disk, panicked>>
    BY <1>8 DEF Return
  <2>2. at'[t] = "idle" /\ op'[t] = op[t]  BY <1>0, <2>1
  <2>3. op[t].cmd = "read" \/ op[t].cmd = "write"  BY <1>0, <2>1 DEF AskedOK
  <2>4. Ans(t)' = Ans(t) /\ Ans(t) # Pending
    <3>1. CASE op[t].cmd = "read"
      <4>1. op[t].data \in Stored  BY <1>0, <2>1, <3>1 DEF AskedOK
      <4> QED  BY <2>1, <2>2, <3>1, <4>1, AnswerIs, StoredIs
    <3>2. CASE op[t].cmd = "write"
      <4>1. Written # Pending  BY DiskAssumption DEF DiskAssumption
      <4> QED  BY <2>1, <2>2, <3>2, <4>1, AnswerIs
    <3> QED  BY <2>3, <3>1, <3>2
  <2>5. \A u \in Thread : u # t => Ans(u)' = Ans(u)  BY <1>0, <2>1, OneAnswer
  <2>6. answered' = answered /\ answered[t] # Pending  BY <2>4, <2>5, AnswerIs
  <2>7. asked[t] # NoRequest  BY <1>0, <2>1 DEF AskedOK
  <2>8. Store!Answer(t)  BY <2>1, <2>6, <2>7 DEF Store!Answer, StoreOf
  <2> QED  BY <2>8 DEF Store!BNext, Store!BStep
<1> QED  BY <1>1, <1>2, <1>3, <1>4, <1>5, <1>6, <1>7, <1>8 DEF Io

\* The store does not see start-up, unless a drive fails in it.
LEMMA BootStore ==
  ASSUME DInv, ~panicked, ide_lock(Boot) \/ Io(Boot) \/ Booting
  PROVE  [Store!BNext]_(Store!bvars)
<1>0. at \in [Users -> Places] /\ op \in [Users -> Ops] /\ Boot \in Users /\ panicked = FALSE
  <2>1. panicked \in BOOLEAN  BY DEF DInv, DTypeOK
  <2> QED  BY <2>1, UsersAre DEF DInv, DTypeOK, Places, Ops
<1>1. CASE Booting
  <2>1. asked' = asked /\ panicked' = panicked /\ disk' = disk /\ at[Boot] # "booted"
        /\ (at' = at \/ \E p : at' = [at EXCEPT ![Boot] = p])
        /\ (op' = op \/ (\E o : op' = [op EXCEPT ![Boot] = o]) \/ (\E v : op' = [op EXCEPT ![Boot].dev = v]))
    BY <1>1
       DEF Booting, reset_channel, await_reset, detect_drives, probe, identify_ata_device,
           read_partition_table, check_signature, parse_entry, end_table, locate_block_devices, SetBoot
  <2>2. ASSUME NEW u \in Thread PROVE Ans(u)' = Ans(u)
    <3>1. u \in Users /\ u # Boot  BY UsersAre
    <3>2. at'[u] = at[u] /\ op'[u] = op[u]  BY <1>0, <2>1, <3>1
    <3>3. at[u] = "idle"  BY <2>1 DEF DInv, ChannelOK, OneDriver
    <3> QED  BY <3>2, <3>3, AnswerStays
  <2> QED  BY <2>1, <2>2, Unseen
<1>2. CASE ide_lock(Boot) \/ Io(Boot)
  <2>1. asked' = asked /\ disk' = disk /\ at[Boot] # "booted" /\ (\E p : at' = [at EXCEPT ![Boot] = p])
        /\ (op' = op \/ \E v : op' = [op EXCEPT ![Boot].data = v])
        /\ (panicked' = panicked \/ panicked' = ~hw.drq)
    BY <1>2
       DEF Io, ide_lock, select_sector, issue_pio_command, output_sector, await_completion, input_sector,
           ide_unlock
  <2>2. ASSUME NEW u \in Thread PROVE Ans(u)' = Ans(u)
    <3>1. u \in Users /\ u # Boot  BY UsersAre
    <3>2. at'[u] = at[u] /\ op'[u] = op[u]  BY <1>0, <2>1, <3>1
    <3>3. at[u] = "idle"  BY <2>1 DEF DInv, ChannelOK, OneDriver
    <3> QED  BY <3>2, <3>3, AnswerStays
  <2>3. panicked' = panicked \/ panicked' = TRUE
    <3>1. hw.drq \in BOOLEAN  BY DEF DInv, DTypeOK
    <3> QED  BY <1>0, <2>1, <3>1
  <2>4. CASE panicked' = panicked  BY <2>1, <2>2, <2>4, Unseen
  <2>5. CASE panicked' = TRUE  BY <2>1, <2>2, <2>5, Stops
  <2> QED  BY <2>3, <2>4, <2>5
<1> QED  BY <1>1, <1>2

\* A call asks the store.
LEMMA CallStore ==
  ASSUME DInv, PlacesInv, NEW t \in Thread, NEW r \in Role, NEW s \in 0 .. MaxSector,
         ReadCall(t, r, s) \/ \E v \in Value : WriteCall(t, r, s, v)
  PROVE  [Store!BNext]_(Store!bvars)
<1>0. at \in [Users -> Places] /\ op \in [Users -> Ops] /\ t \in Users /\ AskedOK(t)
      /\ asked \in [Thread -> Request \cup {NoRequest}]
  BY UsersAre DEF DInv, DTypeOK, Places, Ops
<1>a. ASSUME NEW cmd \in {"read", "write"}, NEW v, NEW a, Call(t, r, s, cmd, v),
             a = IF cmd = "read" THEN <<cmd, <<r, s>>>> ELSE <<cmd, <<r, s>>, v>>
      PROVE  Store!Ask(t, a) /\ <<r, s>> \in RoleSectors
  <2>1. r \in DOMAIN Place /\ s \in 0 .. Place[r].size - 1 /\ at[t] = "idle"
        /\ at' = [at EXCEPT ![t] = "lock"]
        /\ op' = [op EXCEPT ![t] = [cmd |-> cmd, dev |-> Place[r].dev, lba |-> Place[r].start + s,
                                    data |-> v]]
        /\ asked' = [asked EXCEPT ![t] = a] /\ UNCHANGED <<hw, disk, panicked>>
    <3>1. PICK b \in Good :
            /\ roles[r] # 0 /\ b = all_blocks[roles[r]] /\ s \in Nat /\ s < b.size
            /\ at[t] = "idle" /\ at[Boot] = "booted" /\ at' = [at EXCEPT ![t] = "lock"]
            /\ op' = [op EXCEPT ![t] = [cmd |-> cmd, dev |-> b.dev, lba |-> b.start + s, data |-> v]]
            /\ asked' = [asked EXCEPT ![t] = a] /\ UNCHANGED <<hw, disk, panicked>>
      BY <1>a, CallIs
    <3>2. r \in DOMAIN Place /\ b = Place[r]  BY <3>1 DEF PlacesInv, RolesOK
    <3>3. b.size \in Nat  BY DEF Good
    <3>4. s \in 0 .. Place[r].size - 1  BY <3>1, <3>2, <3>3
    <3> QED  BY <3>1, <3>2, <3>4
  <2>2. at'[t] = "lock" /\ op'[t].cmd = cmd  BY <1>0, <2>1
  <2>3. Ans(t)' = Pending
    <3>1. CASE cmd = "read"  BY <2>2, <3>1, AnswerIs
    <3>2. CASE cmd = "write"  BY <2>2, <3>2, AnswerIs
    <3> QED  BY <3>1, <3>2
  <2>4. \A u \in Users : u # t => op'[u] = op[u]  BY <1>0, <2>1
  <2>5. \A u \in Thread : u # t => Ans(u)' = Ans(u)  BY <1>0, <2>1, <2>4, OneAnswer
  <2>6. answered' = [answered EXCEPT ![t] = Pending]  BY <2>3, <2>5, AnswerIs
  <2>7. asked[t] = NoRequest  BY <1>0, <2>1 DEF AskedOK
  <2>8. Store!Ask(t, a)  BY <2>1, <2>6, <2>7 DEF Store!Ask, StoreOf
  <2> QED  BY <2>1, <2>8 DEF RoleSectors
<1>1. CASE ReadCall(t, r, s)
  <2>1. Store!Ask(t, <<"read", <<r, s>>>>) /\ <<r, s>> \in RoleSectors  BY <1>1, <1>a DEF ReadCall
  <2> QED  BY <2>1 DEF Store!BNext, Store!Read
<1>2. ASSUME NEW v \in Value, WriteCall(t, r, s, v) PROVE Store!BNext
  <2>1. Store!Ask(t, <<"write", <<r, s>>, v>>) /\ <<r, s>> \in RoleSectors  BY <1>2, <1>a DEF WriteCall
  <2> QED  BY <2>1 DEF Store!BNext, Store!Write
<1> QED  BY <1>1, <1>2

\* The sectors of different roles, and different sectors of a role, are different ones of a drive.
LEMMA RolesApart ==
  ASSUME OnePlace, NEW q \in DOMAIN Place, NEW r \in DOMAIN Place,
         NEW i \in 0 .. Place[q].size - 1, NEW j \in 0 .. Place[r].size - 1,
         Place[q].dev = Place[r].dev, Place[q].start + i = Place[r].start + j
  PROVE  q = r /\ i = j
<1>1. /\ Place[q] \in Partitions /\ Place[q].type = q /\ q \in Role
      /\ Place[r] \in Partitions /\ Place[r].type = r /\ r \in Role
      /\ Place[q].start \in Nat /\ Place[q].size \in Nat /\ Place[r].start \in Nat /\ Place[r].size \in Nat
  BY PlaceLies
<1>2. CASE q # r
  <2>1. Place[q].start + Place[q].size <= Place[r].start \/ Place[r].start + Place[r].size <= Place[q].start
    BY <1>1, <1>2 DEF OnePlace
  <2>2. PICK a, b, c, d \in Nat :
          a = Place[q].start /\ b = Place[q].size /\ c = Place[r].start /\ d = Place[r].size
    BY <1>1
  <2>3. i \in 0 .. b - 1 /\ j \in 0 .. d - 1 /\ a + i = c + j /\ (a + b <= c \/ c + d <= a)
    BY <2>1, <2>2
  <2> QED  BY <2>2, <2>3
<1>3. CASE q = r
  <2>1. PICK a \in Nat : a = Place[q].start  BY <1>1
  <2>2. PICK b \in Nat : b = Place[q].size  BY <1>1
  <2>3. i \in 0 .. b - 1 /\ j \in 0 .. b - 1 /\ a + i = a + j  BY <1>3, <2>1, <2>2
  <2>4. i = j  BY <2>1, <2>2, <2>3
  <2> QED  BY <1>3, <2>4
<1> QED  BY <1>2, <1>3

\* What the drives hold, as a function of drives and their sectors.
OnDrives(x) ==
  /\ x = [d \in Range(Drives) |-> x[d]]
  /\ \A d \in Range(Drives) : x[d] \in [0 .. Hardware[d].capacity - 1 -> Stored]

\* Of a store, one sector alone changes.
SectorSet(old, new, r, s, v) == new = [old EXCEPT ![<<r, s>>] = v]

\* A sector a drive has written is the one the store changes.
LEMMA StoreWritten ==
  ASSUME OnePlace, NEW r \in DOMAIN Place, NEW s \in 0 .. Place[r].size - 1, NEW v,
         NEW old, OnDrives(old),
         NEW e, e = Place[r].dev, NEW l, l = Place[r].start + s,
         NEW f, f = [old[e] EXCEPT ![l] = v], NEW new, new = [old EXCEPT ![e] = f]
  PROVE  SectorSet(StoreOf(old), StoreOf(new), r, s, v)
<1>1. Place[r].dev \in Range(Drives) /\ Place[r].start \in Nat /\ Place[r].size \in Nat
      /\ Place[r].start + Place[r].size <= Hardware[Place[r].dev].capacity
  BY PlaceLies
<1>2. e \in Range(Drives)  BY <1>1
<1>3. l \in 0 .. Hardware[e].capacity - 1
  <2>1. PICK a \in Nat, z \in Nat : a = Place[r].start /\ z = Place[r].size  BY <1>1
  <2>2. PICK c \in Nat : c = Hardware[e].capacity  BY <1>2, CapacityIs
  <2>3. s \in 0 .. z - 1 /\ a + z <= c  BY <1>1, <1>2, <2>1, <2>2
  <2>4. a + s \in Nat /\ a + s \in 0 .. c - 1  BY <2>1, <2>2, <2>3
  <2> QED  BY <2>1, <2>2, <2>4
<1>4. new = [old EXCEPT ![e] = [old[e] EXCEPT ![l] = v]]  OBVIOUS
<1>5. DOMAIN old = Range(Drives)
  <2>1. DOMAIN [d \in Range(Drives) |-> old[d]] = Range(Drives)  OBVIOUS
  <2> QED  BY <2>1 DEF OnDrives
<1>6. new[e][l] = v
  <2>1. new[e] = [old[e] EXCEPT ![l] = v]  BY <1>2, <1>4, <1>5
  <2>2. l \in DOMAIN old[e]  BY <1>2, <1>3 DEF OnDrives
  <2> QED  BY <2>1, <2>2
<1>7. ASSUME NEW d \in Range(Drives), NEW k, d # e \/ k # l PROVE new[d][k] = old[d][k]
  <2>1. CASE d # e
    <3>1. new[d] = old[d]  BY <1>4, <1>5, <2>1
    <3> QED  BY <3>1
  <2>2. CASE d = e /\ k # l
    <3>1. new[d] = [old[d] EXCEPT ![l] = v]  BY <1>4, <1>5, <2>2
    <3> QED  BY <2>2, <3>1
  <2> QED  BY <1>7, <2>1, <2>2
<1>8. <<r, s>> \in RoleSectors  BY DEF RoleSectors
<1>9. ASSUME NEW x \in RoleSectors
      PROVE  StoreOf(new)[x] = IF x = <<r, s>> THEN v ELSE StoreOf(old)[x]
  <2>1. PICK q \in DOMAIN Place : \E i \in 0 .. Place[q].size - 1 : x = <<q, i>>  BY DEF RoleSectors
  <2>2. PICK i \in 0 .. Place[q].size - 1 : x = <<q, i>>  BY <2>1
  <2>3. StoreOf(new)[x] = new[Place[q].dev][Place[q].start + i]
        /\ StoreOf(old)[x] = old[Place[q].dev][Place[q].start + i]
    BY <2>2 DEF StoreOf
  <2>4. CASE x = <<r, s>>
    <3>1. q = r /\ i = s  BY <2>2, <2>4
    <3> QED  BY <1>2, <1>3, <1>6, <2>3, <2>4, <3>1
  <2>5. CASE x # <<r, s>>
    <3>1. Place[q].dev # e \/ Place[q].start + i # l  BY <1>2, <1>3, <2>2, <2>5, RolesApart
    <3>2. Place[q].dev \in Range(Drives)  BY PlaceLies
    <3> QED  BY <1>7, <2>3, <2>5, <3>1, <3>2
  <2> QED  BY <2>4, <2>5
<1> QED  BY <1>8, <1>9 DEF StoreOf, SectorSet

\* When a drive has stored the data, the write has happened; its other steps the store does not see.
LEMMA DriveStore ==
  ASSUME OnePlace, DInv, PlacesInv, interrupt_handler \/ Drive
  PROVE  [Store!BNext]_(Store!bvars)
<1>0. at \in [Users -> Places] /\ op \in [Users -> Ops] /\ hw \in Registers /\ DTypeOK
      /\ asked \in [Thread -> Request \cup {NoRequest}]
  BY DEF DInv, DTypeOK, Places, Ops, Registers
<1>1. UNCHANGED <<at, op, asked, panicked>>
  BY DEF interrupt_handler, Drive, DriveStarts, DriveReady, DriveWrites, DriveRefuses
<1>2. CASE DriveWrites
  <2>1. hw.busy /\ hw.taken # Pending /\ hw' = [hw EXCEPT !.busy = FALSE, !.irq = TRUE]
        /\ disk' = [disk EXCEPT ![hw.dev][hw.lba] = hw.taken]
    BY <1>2 DEF DriveWrites
  <2>2. PICK t \in Users : at[t] \in {"busy", "wait"}  BY <2>1, BusyFor
  <2>3. AtBusy(t) /\ AtWait(t)  BY DEF DInv, ChannelOK
  <2>4. at[t] = "wait" /\ op[t].cmd = "write" /\ hw.taken = op[t].data
    BY <2>1, <2>2, <2>3 DEF AtBusy, AtWait
  <2>5. t \in Thread  BY <2>4, WriteIs DEF Drivers
  <2>6. AskedOK(t)  BY <2>5 DEF DInv
  <2>7. PICK r \in DOMAIN Place : \E s \in 0 .. Place[r].size - 1 : ForSector(t, r, s)
    BY <2>4, <2>5 DEF PlacesInv, Placed
  <2>8. PICK s \in 0 .. Place[r].size - 1 : ForSector(t, r, s)  BY <2>7
  <2>9. asked[t] = <<"write", <<r, s>>, op[t].data>> /\ op[t].dev = Place[r].dev
        /\ op[t].lba = Place[r].start + s
    BY <2>4, <2>8 DEF ForSector
  <2>10. hw.dev = op[t].dev /\ hw.lba = op[t].lba  BY <2>4, DataIs
  <2>11. PICK v : v = op[t].data  OBVIOUS
  <2>12. disk' = [disk EXCEPT ![Place[r].dev][Place[r].start + s] = v]
    BY <2>1, <2>4, <2>9, <2>10, <2>11
  <2>13. disk = [d \in Range(Drives) |-> disk[d]]
         /\ \A d \in Range(Drives) : disk[d] \in [0 .. Hardware[d].capacity - 1 -> Stored]
    BY <1>0 DEF DTypeOK
  <2>14. StoreOf(disk') = [StoreOf(disk) EXCEPT ![<<r, s>>] = v]
    <3>1. PICK old : old = disk  OBVIOUS
    <3>2. PICK new : new = disk'  OBVIOUS
    <3>3. PICK e, l : e = Place[r].dev /\ l = Place[r].start + s  OBVIOUS
    <3>4. PICK f : f = [old[e] EXCEPT ![l] = v]  OBVIOUS
    <3>5. new = [old EXCEPT ![e] = f]  BY <2>12, <3>1, <3>2, <3>3, <3>4
    <3>8. OnDrives(old)  BY <2>13, <3>1 DEF OnDrives
    <3>a. OnePlace /\ r \in DOMAIN Place /\ s \in 0 .. Place[r].size - 1  OBVIOUS
    <3>9. SectorSet(StoreOf(old), StoreOf(new), r, s, v)
      BY ONLY <3>a, <3>3, <3>4, <3>5, <3>8, StoreWritten, Zenon
    <3>6. StoreOf(new) = StoreOf(disk')  BY <3>2, Zenon DEF StoreOf
    <3>7. StoreOf(old) = StoreOf(disk)  BY <3>1, Zenon DEF StoreOf
    <3> QED  BY <3>9, <3>6, <3>7 DEF SectorSet
  <2>15. ~hw'.busy  BY <1>0, <2>1 DEF Registers
  <2>16. Ans(t) = Pending /\ Ans(t)' = Written  BY <1>1, <2>1, <2>4, <2>15, AnswerIs
  <2>17. ASSUME NEW u \in Thread, u # t PROVE Ans(u)' = Ans(u)
    <3>1. at[u] # "wait"  BY <2>4, <2>17, OneAtOnce, UsersAre DEF Driving, Drivers
    <3> QED  BY <1>1, <3>1, AnswerStays
  <2>18. answered' = [answered EXCEPT ![t] = Written] /\ answered[t] = Pending
    BY <2>5, <2>16, <2>17, AnswerIs
  <2>19. asked[t] # NoRequest  BY <2>4, <2>6 DEF AskedOK
  <2>20. asked[t][1] = "write" /\ asked[t][2] = <<r, s>> /\ asked[t][3] = v  BY <2>9, <2>11
  <2>21. Store!Perform(t)  BY <1>1, <2>14, <2>18, <2>19, <2>20 DEF Store!Perform
  <2> QED  BY <2>5, <2>21 DEF Store!BNext, Store!BStep
<1>3. CASE ~DriveWrites
  <2>1. disk' = disk  BY <1>3 DEF interrupt_handler, Drive, DriveStarts, DriveReady, DriveRefuses
  <2>2. ASSUME NEW u \in Thread PROVE Ans(u)' = Ans(u)
    <3>1. u \in Users  BY UsersAre
    <3>2. ASSUME at[u] = "wait", op[u].cmd = "write" PROVE hw'.busy = hw.busy
      <4>1. AtWait(u) /\ Issued(u)  BY <3>1 DEF DInv, ChannelOK
      <4>2. hw.taken # Pending
        <5>1. hw.taken = op[u].data  BY <3>2, <4>1 DEF AtWait
        <5> QED  BY <3>1, <3>2, <5>1, WriteIs DEF Drivers
      <4>3. hw.cmd = "write"  BY <3>2, <4>1 DEF Issued
      <4>4. interrupt_handler
        BY <1>3, <4>2, <4>3 DEF Drive, DriveStarts, DriveReady, DriveRefuses
      <4> QED  BY <1>0, <4>4 DEF interrupt_handler, Registers
    <3> QED  BY <1>1, <3>2, AnswerStays
  <2> QED  BY <1>1, <2>1, <2>2, Unseen
<1> QED  BY <1>2, <1>3

\* When the tables give each role one place, in every behaviour of the driver each step is a step
\* of the store, or one it does not see: each sector of a role keeps what was last written to it, a
\* read or a write takes effect at one moment between its call and its return, and a thread returns
\* with what it asked for.
THEOREM DriverIsAStore == OnePlace => (DiskSpec => Store!BInit /\ [][Store!BNext]_(Store!bvars))
<1> SUFFICES ASSUME OnePlace PROVE DiskSpec => Store!BInit /\ [][Store!BNext]_(Store!bvars)  OBVIOUS
<1>1. DiskInit => Store!BInit
  <2> SUFFICES ASSUME DiskInit PROVE Store!BInit  OBVIOUS
  <2>1. ASSUME NEW t \in Thread PROVE Ans(t) = Pending
    <3>1. op[t].cmd = "none"  BY <2>1, UsersAre DEF DiskInit, NoOp
    <3> QED  BY <3>1, AnswerIs
  <2>2. answered = [t \in Thread |-> Pending]  BY <2>1, AnswerIs
  <2> QED  BY <2>2 DEF Store!BInit, DiskInit
<1>2. DInv /\ PlacesInv /\ [DiskNext]_diskVars => [Store!BNext]_(Store!bvars)
  <2> SUFFICES ASSUME DInv, PlacesInv, [DiskNext]_diskVars PROVE [Store!BNext]_(Store!bvars)  OBVIOUS
  <2>1. ASSUME NEW t \in Users, ~panicked, ide_lock(t) \/ Io(t) PROVE [Store!BNext]_(Store!bvars)
    <3>1. CASE t = Boot  BY <2>1, <3>1, BootStore
    <3>2. CASE t # Boot  BY <2>1, <3>2, ThreadStore, UsersAre
    <3> QED  BY <3>1, <3>2
  <2>2. CASE UNCHANGED diskVars
    <3>1. UNCHANGED <<at, op, hw, disk, asked, panicked>>  BY <2>2 DEF diskVars
    <3>2. \A u \in Thread : Ans(u)' = Ans(u)  BY <3>1, AnswerStays
    <3> QED  BY <3>1, <3>2, Unseen
  <2> QED  BY <2>1, <2>2, StepIs, BootStore, CallStore, DriveStore
<1>3. DiskInit => PlacesInv  BY PlacesStart
<1>4. DInv /\ PlacesInv /\ [DiskNext]_diskVars => PlacesInv'  BY PlacesKept
<1> QED  BY <1>1, <1>2, <1>3, <1>4, DiskInvariant, PTL DEF DiskSpec
=============================================================================
