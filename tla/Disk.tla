-------------------------------- MODULE Disk --------------------------------
(***************************************************************************)
(* One ATA channel with its drives, the block devices on them and the       *)
(* partitions found at start-up (devices/ide.c, block.c, partition.c, and   *)
(* locate_block_devices() of threads/init.c).  The controller and the drives *)
(* are external: they answer a command when they please, with one interrupt. *)
(***************************************************************************)
EXTENDS Integers, SequencesExt, FiniteSets

CONSTANTS
  Thread,         \* threads that use the disks once the kernel has booted
  Boot,           \* the thread that boots
  Drives,         \* the devices of the channel, master first
  Hardware,       \* of each: [present, error, lbam, lbah, ready, capacity], its reset signature and size
  Contents,       \* of each: [0 .. capacity - 1 -> sector contents]
  Tables,         \* [sector contents -> four entries], of those that are partition tables
  Value,          \* sector contents the threads write
  GB,             \* sectors in a gigabyte: larger drives are not used
  MaxSector,      \* largest block_sector_t
  MaxDepth,       \* bound: partition tables read one inside another
  MaxRequests,    \* bound: requests the threads make
  MayFail,        \* TRUE when a drive may refuse a command
  Nobody, NoDrive, NoRequest, Pending, Written

VARIABLES
  at,             \* of each thread
  op,             \* of each thread: [cmd, dev, lba, data] of the request under way
  asked,          \* of each thread: the request as its caller sees it
  lock, expecting_interrupt, completion_wait,  \* of the channel
  hw,             \* [dev, lba, cmd, busy, drq, irq, taken]: the controller's registers
  disk,           \* of each drive: its sectors
  is_ata,         \* of each drive
  all_blocks,     \* sequence of [dev, part, type, start, size] in probe order
  roles,          \* [role -> index in all_blocks or 0]
  scan,           \* partition tables being read, innermost last: [sector, primary, i, table]
  part_nr,
  requests,       \* requests made so far
  panicked

channel == <<lock, expecting_interrupt, completion_wait>>
found == <<is_ata, all_blocks, roles, scan, part_nr>>
diskVars == <<at, op, asked, channel, hw, disk, found, requests, panicked>>

Role == {"filesys", "scratch"}
NoOp == [cmd |-> "none", dev |-> NoDrive, lba |-> 0, data |-> Pending]
Users == Thread \cup {Boot}

-----------------------------------------------------------------------------
\* Variant: the channel is not locked.
ide_lock_none(t) ==
  /\ at[t] = "lock"
  /\ lock' = t
  /\ at' = [at EXCEPT ![t] = "select"]
  /\ UNCHANGED <<op, asked, expecting_interrupt, completion_wait, hw, disk, found, requests, panicked>>

(***************************************************************************)
(* The commands of ide.c.  A thread goes through "lock", "select", "issue",  *)
(* for a write "busy", then "wait", for what has data "input", "unlock".     *)
(***************************************************************************)
\* lock_acquire() of ide_read() and ide_write(); IDENTIFY DEVICE takes no lock.
ide_lock(t) ==
  /\ at[t] = "lock" /\ lock = Nobody
  /\ lock' = t
  /\ at' = [at EXCEPT ![t] = "select"]
  /\ UNCHANGED <<op, asked, expecting_interrupt, completion_wait, hw, disk, found, requests, panicked>>

\* The waits, which give up on a drive only after many seconds: not modelled.
wait_until_idle == ~hw.busy /\ ~hw.drq
wait_while_busy == ~hw.busy
select_device(registers, d) == [registers EXCEPT !.dev = d]

\* select_sector(): waits until the channel is idle, which clears a pending interrupt.
select_sector(t) ==
  /\ at[t] = "select" /\ wait_until_idle
  /\ hw' = [select_device(hw, op[t].dev) EXCEPT !.lba = op[t].lba, !.irq = FALSE]
  /\ at' = [at EXCEPT ![t] = "issue"]
  /\ UNCHANGED <<op, asked, channel, disk, found, requests, panicked>>

issue_pio_command(t) ==
  /\ at[t] = "issue"
  /\ expecting_interrupt' = TRUE
  /\ hw' = [hw EXCEPT !.cmd = op[t].cmd, !.busy = TRUE, !.taken = Pending]
  /\ at' = [at EXCEPT ![t] = IF op[t].cmd = "write" THEN "busy" ELSE "wait"]
  /\ UNCHANGED <<op, asked, lock, completion_wait, disk, found, requests, panicked>>

\* wait_while_busy() and output_sector() of ide_write(): no DRQ is a panic.
output_sector(t) ==
  /\ at[t] = "busy" /\ wait_while_busy
  /\ panicked' = ~hw.drq
  /\ hw' = IF hw.drq THEN [hw EXCEPT !.drq = FALSE, !.busy = TRUE, !.taken = op[t].data] ELSE hw
  /\ at' = [at EXCEPT ![t] = IF hw.drq THEN "wait" ELSE @]
  /\ UNCHANGED <<op, asked, channel, disk, found, requests>>

\* sema_down() on completion_wait.
await_completion(t) ==
  /\ at[t] = "wait" /\ completion_wait > 0
  /\ completion_wait' = completion_wait - 1
  /\ at' = [at EXCEPT ![t] = IF op[t].cmd = "write" THEN "unlock" ELSE "input"]
  /\ UNCHANGED <<op, asked, lock, expecting_interrupt, hw, disk, found, requests, panicked>>

\* wait_while_busy() and input_sector() of ide_read().
input_sector(t) ==
  /\ at[t] = "input" /\ op[t].cmd = "read" /\ wait_while_busy
  /\ panicked' = ~hw.drq
  /\ hw' = [hw EXCEPT !.drq = FALSE]
  /\ op' = IF hw.drq THEN [op EXCEPT ![t].data = disk[hw.dev][hw.lba]] ELSE op
  /\ at' = [at EXCEPT ![t] = IF hw.drq THEN "unlock" ELSE @]
  /\ UNCHANGED <<asked, channel, disk, found, requests>>

ide_unlock(t) ==
  /\ at[t] = "unlock"
  /\ lock' = Nobody
  /\ at' = [at EXCEPT ![t] = IF t = Boot THEN "parse" ELSE "return"]
  /\ UNCHANGED <<op, asked, expecting_interrupt, completion_wait, hw, disk, found, requests, panicked>>

interrupt_handler ==
  /\ hw.irq /\ expecting_interrupt
  /\ hw' = [hw EXCEPT !.irq = FALSE]
  /\ completion_wait' = completion_wait + 1
  /\ UNCHANGED <<at, op, asked, lock, expecting_interrupt, disk, found, requests, panicked>>

-----------------------------------------------------------------------------
(***************************************************************************)
(* The drive that is selected, when it is done with the command.            *)
(***************************************************************************)
DriveStarts ==           \* anew, after a reset
  /\ hw.busy /\ hw.cmd = "reset"
  /\ hw' = [hw EXCEPT !.busy = FALSE]
  /\ UNCHANGED <<at, op, asked, channel, disk, found, requests, panicked>>

DriveReady ==            \* data to read, or room for the data to write
  /\ hw.busy /\ hw.cmd # "reset" /\ hw.taken = Pending
  /\ hw' = [hw EXCEPT !.busy = FALSE, !.drq = TRUE, !.irq = hw.cmd # "write"]
  /\ UNCHANGED <<at, op, asked, channel, disk, found, requests, panicked>>

DriveWrites ==
  /\ hw.busy /\ hw.taken # Pending
  /\ disk' = [disk EXCEPT ![hw.dev][hw.lba] = hw.taken]
  /\ hw' = [hw EXCEPT !.busy = FALSE, !.irq = TRUE]
  /\ UNCHANGED <<at, op, asked, channel, found, requests, panicked>>

DriveRefuses ==
  /\ MayFail /\ hw.busy /\ hw.cmd # "reset" /\ hw.taken = Pending
  /\ hw' = [hw EXCEPT !.busy = FALSE, !.irq = TRUE]
  /\ UNCHANGED <<at, op, asked, channel, disk, found, requests, panicked>>

-----------------------------------------------------------------------------
(***************************************************************************)
(* ide_init(): which devices are ATA disks, and how large they are.          *)
(***************************************************************************)
\* reset_channel(): the devices are told to start over and need a while to do so.  The
\* last one that answers is left selected.
reset_channel ==
  /\ at[Boot] = "reset"
  /\ LET present == { i \in DOMAIN Drives : Hardware[Drives[i]].present }
         last == IF present = {} THEN 1 ELSE Max(present)
     IN hw' = [select_device(hw, Drives[last]) EXCEPT !.cmd = "reset", !.busy = present # {}]
  /\ at' = [at EXCEPT ![Boot] = "await_reset"]
  /\ UNCHANGED <<op, asked, channel, disk, found, requests, panicked>>

await_reset ==
  /\ at[Boot] = "await_reset" /\ wait_while_busy
  /\ at' = [at EXCEPT ![Boot] = "detect"]
  /\ UNCHANGED <<op, asked, channel, hw, disk, found, requests, panicked>>

\* check_device_type() of drive number DEV_NO: [is_ata, more], more telling whether there
\* may be a slave.
check_device_type(dev_no) ==
  LET h == Hardware[Drives[dev_no]] IN
  IF (h.error # 1 /\ (h.error # 129 \/ dev_no = 2)) \/ ~h.ready
  THEN [is_ata |-> FALSE, more |-> h.error # 129]
  ELSE [is_ata |-> <<h.lbam, h.lbah>> \in {<<0, 0>>, <<60, 195>>}, more |-> TRUE]

detect_drives ==
  /\ at[Boot] = "detect"
  /\ is_ata' = [d \in Range(Drives) |->
                  LET n == CHOOSE i \in DOMAIN Drives : Drives[i] = d IN
                  check_device_type(n).is_ata /\ (n = 1 \/ check_device_type(1).more)]
  /\ at' = [at EXCEPT ![Boot] = "probe"]
  /\ op' = [op EXCEPT ![Boot].dev = Drives[1]]
  /\ UNCHANGED <<asked, channel, hw, disk, all_blocks, roles, scan, part_nr, requests, panicked>>

Rank(d) == CHOOSE i \in DOMAIN Drives : Drives[i] = d

\* The drive after that of the last command, or the end of ide_init().
NextDrive(b) ==
  IF Rank(op[Boot].dev) < Len(Drives)
  THEN [b EXCEPT !.op.dev = Drives[Rank(op[Boot].dev) + 1], !.at = "probe"]
  ELSE [b EXCEPT !.at = "locate"]
boot == [op |-> op[Boot], at |-> at[Boot]]
SetBoot(b) == op' = [op EXCEPT ![Boot] = b.op] /\ at' = [at EXCEPT ![Boot] = b.at]

\* identify_ata_device() of the drives that are disks, in turn.
probe ==
  /\ at[Boot] = "probe"
  /\ SetBoot(IF is_ata[op[Boot].dev]
             THEN [boot EXCEPT !.op.cmd = "identify", !.op.lba = 0, !.at = "select"]
             ELSE NextDrive(boot))
  /\ UNCHANGED <<asked, channel, hw, disk, found, requests, panicked>>

identify_ata_device ==
  LET d == op[Boot].dev
      answered == hw.drq
      usable == answered /\ Hardware[d].capacity < GB
  IN
  /\ at[Boot] = "input" /\ op[Boot].cmd = "identify" /\ wait_while_busy
  /\ hw' = [hw EXCEPT !.drq = FALSE]
  /\ is_ata' = [is_ata EXCEPT ![d] = usable]
  /\ all_blocks' = IF usable
                   THEN Append(all_blocks, [dev |-> d, part |-> 0, type |-> "raw", start |-> 0,
                                            size |-> Hardware[d].capacity])
                   ELSE all_blocks
  /\ part_nr' = 0
  /\ scan' = IF usable THEN <<[sector |-> 0, primary |-> 0, i |-> 0, table |-> <<>>]>> ELSE <<>>
  /\ SetBoot(IF usable THEN [boot EXCEPT !.at = "table"] ELSE NextDrive(boot))
  /\ UNCHANGED <<asked, channel, disk, roles, requests, panicked>>

-----------------------------------------------------------------------------
(***************************************************************************)
(* partition.c: read_partition_table(), one entry at a time.  The recursion  *)
(* is the stack "scan"; every table is read from sector 0, as the code does. *)
(***************************************************************************)
TableFrame == Last(scan)
Extended == {5, 15, 133, 197}
Capacity == Hardware[op[Boot].dev].capacity

\* The table of the innermost frame lies past the end of the device, or is read.
read_partition_table ==
  /\ at[Boot] = "table" /\ scan # <<>> /\ TableFrame.i = 0
  /\ IF TableFrame.sector >= Capacity
     THEN scan' = Front(scan) /\ UNCHANGED <<op, at>>
     ELSE /\ SetBoot([boot EXCEPT !.op.cmd = "read", !.op.lba = 0, !.at = "lock"])
          /\ UNCHANGED scan
  /\ UNCHANGED <<asked, channel, hw, disk, is_ata, all_blocks, roles, part_nr, requests, panicked>>

check_signature ==
  /\ at[Boot] = "parse"
  /\ scan' = IF op[Boot].data \in DOMAIN Tables
             THEN Append(Front(scan), [TableFrame EXCEPT !.i = 1, !.table = Tables[op[Boot].data]])
             ELSE Front(scan)
  /\ SetBoot([boot EXCEPT !.at = "table"])
  /\ UNCHANGED <<asked, channel, hw, disk, is_ata, all_blocks, roles, part_nr, requests, panicked>>

block_type(part_type) ==
  CASE part_type = 32 -> "kernel" [] part_type = 33 -> "filesys" [] part_type = 34 -> "scratch"
    [] part_type = 35 -> "swap" [] OTHER -> "foreign"

\* Variant: the end of the partition is not checked for having wrapped.
found_partition_wrap(part_type, start, size, nr) ==
  LET end == (start + size) % (MaxSector + 1) IN
  IF start >= Capacity \/ end > Capacity THEN all_blocks
  ELSE Append(all_blocks, [dev |-> op[Boot].dev, part |-> nr, type |-> block_type(part_type),
                           start |-> start, size |-> size])

\* found_partition(): START and SIZE are 32 bits wide.
found_partition(part_type, start, size, nr) ==
  LET end == (start + size) % (MaxSector + 1) IN
  IF start >= Capacity \/ end < start \/ end > Capacity THEN all_blocks
  ELSE Append(all_blocks, [dev |-> op[Boot].dev, part |-> nr, type |-> block_type(part_type),
                           start |-> start, size |-> size])

parse_entry ==
  /\ at[Boot] = "table" /\ scan # <<>> /\ TableFrame.i \in 1 .. 4
  /\ LET e == TableFrame.table[TableFrame.i]
         here == Append(Front(scan), [TableFrame EXCEPT !.i = @ + 1])
     IN  IF e.size = 0 \/ e.type = 0
         THEN scan' = here /\ UNCHANGED <<all_blocks, part_nr>>
         ELSE IF e.type \in Extended
         THEN /\ Len(scan) < MaxDepth
              /\ scan' = Append(here,
                   IF TableFrame.sector = 0
                   THEN [sector |-> e.offset, primary |-> e.offset, i |-> 0, table |-> <<>>]
                   ELSE [sector |-> (e.offset + TableFrame.primary) % (MaxSector + 1),
                         primary |-> TableFrame.primary, i |-> 0, table |-> <<>>])
              /\ UNCHANGED <<all_blocks, part_nr>>
         ELSE /\ part_nr' = part_nr + 1
              /\ all_blocks' = found_partition(e.type, (e.offset + TableFrame.sector) % (MaxSector + 1),
                                               e.size, part_nr + 1)
              /\ scan' = here
  /\ UNCHANGED <<at, op, asked, channel, hw, disk, is_ata, roles, requests, panicked>>

\* The end of a table, and of the drive's tables.
end_table ==
  /\ at[Boot] = "table"
  /\ IF scan # <<>> THEN TableFrame.i = 5 /\ scan' = Front(scan) /\ UNCHANGED <<op, at>>
     ELSE SetBoot(NextDrive(boot)) /\ UNCHANGED scan
  /\ UNCHANGED <<asked, channel, hw, disk, is_ata, all_blocks, roles, part_nr, requests, panicked>>

\* The first block of a type in probe order, 0 if there is none.
first_block(type) == SelectInSeq(all_blocks, LAMBDA b : b.type = type)

\* locate_block_devices(): without an option a role goes to the first block of its type.
locate_block_devices ==
  /\ at[Boot] = "locate"
  /\ roles' = [r \in Role |-> first_block(r)]
  /\ at' = [at EXCEPT ![Boot] = "booted"]
  /\ UNCHANGED <<op, asked, channel, hw, disk, is_ata, all_blocks, scan, part_nr, requests, panicked>>

-----------------------------------------------------------------------------
(***************************************************************************)
(* block_read() and block_write() on the device of role R.  A partition's    *)
(* sectors are those of its drive from its start on.                         *)
(***************************************************************************)
Call(t, r, s, cmd, v) ==
  LET b == all_blocks[roles[r]] IN
  /\ at[t] = "idle" /\ at[Boot] = "booted" /\ requests < MaxRequests
  /\ roles[r] # 0 /\ s < b.size
  /\ asked' = [asked EXCEPT ![t] = IF cmd = "read" THEN <<cmd, <<r, s>>>> ELSE <<cmd, <<r, s>>, v>>]
  /\ op' = [op EXCEPT ![t] = [cmd |-> cmd, dev |-> b.dev, lba |-> b.start + s, data |-> v]]
  /\ at' = [at EXCEPT ![t] = "lock"]
  /\ requests' = requests + 1
  /\ UNCHANGED <<channel, hw, disk, found, panicked>>

Return(t) ==
  /\ at[t] = "return"
  /\ asked' = [asked EXCEPT ![t] = NoRequest]
  /\ at' = [at EXCEPT ![t] = "idle"]
  /\ UNCHANGED <<op, channel, hw, disk, found, requests, panicked>>

-----------------------------------------------------------------------------
DiskInit ==
  /\ at = [t \in Users |-> IF t = Boot THEN "reset" ELSE "idle"]
  /\ op = [t \in Users |-> NoOp]
  /\ asked = [t \in Thread |-> NoRequest]
  /\ lock = Nobody /\ expecting_interrupt = FALSE /\ completion_wait = 0
  /\ hw = [dev |-> Drives[1], lba |-> 0, cmd |-> "none", busy |-> FALSE, drq |-> FALSE,
           irq |-> FALSE, taken |-> Pending]
  /\ disk = Contents
  /\ is_ata = [d \in Range(Drives) |-> FALSE]
  /\ all_blocks = <<>> /\ roles = [r \in Role |-> 0] /\ scan = <<>> /\ part_nr = 0
  /\ requests = 0 /\ panicked = FALSE

Sectors == { <<r, s>> : r \in Role, s \in 0 .. MaxSector }

Io(t) ==
  \/ select_sector(t) \/ issue_pio_command(t) \/ output_sector(t) \/ await_completion(t)
  \/ input_sector(t) \/ ide_unlock(t) \/ (t # Boot /\ Return(t))

Booting ==
  \/ reset_channel \/ await_reset \/ detect_drives \/ probe \/ identify_ata_device \/ read_partition_table
  \/ check_signature \/ parse_entry \/ end_table \/ locate_block_devices

Drive == DriveStarts \/ DriveReady \/ DriveWrites \/ DriveRefuses

DiskNext ==
  /\ ~panicked
  /\ \/ \E t \in Users : ide_lock(t) \/ Io(t)
     \/ Booting
     \/ \E t \in Thread, sector \in Sectors :
          \/ Call(t, sector[1], sector[2], "read", Pending)
          \/ \E v \in Value : Call(t, sector[1], sector[2], "write", v)
     \/ interrupt_handler \/ Drive

\* Threads are scheduled, the channel's lock is handed on first come first served, and a
\* drive answers every command.
DiskSpec ==
  /\ DiskInit /\ [][DiskNext]_diskVars
  /\ \A t \in Users : WF_diskVars(~panicked /\ Io(t)) /\ SF_diskVars(~panicked /\ ide_lock(t))
  /\ WF_diskVars(~panicked /\ Booting)
  /\ WF_diskVars(~panicked /\ interrupt_handler) /\ WF_diskVars(~panicked /\ Drive)

-----------------------------------------------------------------------------
(***************************************************************************)
(* The blocks the kernel uses are those the partition tables describe.      *)
(***************************************************************************)
\* The table in sector 0 of drive D, and its entries that describe a partition.
MBR(d) == Tables[Contents[d][0]]
Real(d) ==
  IF Contents[d][0] \in DOMAIN Tables
  THEN { i \in 1 .. 4 : MBR(d)[i].size # 0 /\ MBR(d)[i].type \notin {0} \cup Extended }
  ELSE {}
Inside(d) == { i \in Real(d) : MBR(d)[i].offset + MBR(d)[i].size <= Hardware[d].capacity }

\* The partition of entry I, with the number it has among the drive's partitions.
Partition(d, i) ==
  [dev |-> d, part |-> Cardinality({ j \in Real(d) : j <= i }), type |-> block_type(MBR(d)[i].type),
   start |-> MBR(d)[i].offset, size |-> MBR(d)[i].size]

\* The partitions of drive D that lie in it, as they stand in the table.
Entry(d, i) == IF i \in Inside(d) THEN <<Partition(d, i)>> ELSE <<>>
Listed(d) == Entry(d, 1) \o Entry(d, 2) \o Entry(d, 3) \o Entry(d, 4)

Raw(d) == [dev |-> d, part |-> 0, type |-> "raw", start |-> 0, size |-> Hardware[d].capacity]

\* The extended partitions of drive D that begin in it.
Chained(d) ==
  IF Contents[d][0] \in DOMAIN Tables
  THEN { i \in 1 .. 4 : /\ MBR(d)[i].size # 0 /\ MBR(d)[i].type \in Extended
                        /\ MBR(d)[i].offset < Hardware[d].capacity }
  ELSE {}
Nested(d) == Chained(d) # {}

(***************************************************************************)
(* After start-up the block devices of a drive stand behind one another, the *)
(* drives in their order: the disk, if it is used, and the partitions of its *)
(* table that lie in it, in the order and with the numbers of the table; one *)
(* whose end wraps or lies outside is not used.  Of a drive with an extended *)
(* partition, whose table is not the one the code reads (LogicalFound), only *)
(* the disk comes first and nothing lies outside it.                        *)
(***************************************************************************)
Holds(d, own) ==
  \E n \in 0 .. Len(all_blocks) :
    /\ { i \in DOMAIN all_blocks : all_blocks[i].dev = d } = n + 1 .. n + Len(own)
    /\ SubSeq(all_blocks, n + 1, n + Len(own)) = own
PartitionsFound ==
  at[Boot] = "booted" =>
    /\ \A d \in Range(Drives) :
         IF ~is_ata[d] THEN Holds(d, <<>>)
         ELSE /\ Hardware[d].capacity < GB
              /\ ~Nested(d) => Holds(d, <<Raw(d)>> \o Listed(d))
    /\ \A i \in DOMAIN all_blocks :
         /\ all_blocks[i].start + all_blocks[i].size <= Hardware[all_blocks[i].dev].capacity
         /\ \A j \in i .. Len(all_blocks) : Rank(all_blocks[i].dev) <= Rank(all_blocks[j].dev)
         /\ (i = 1 \/ all_blocks[i - 1].dev # all_blocks[i].dev) => all_blocks[i] = Raw(all_blocks[i].dev)

\* "Reads the partition table in the given SECTOR of BLOCK and scans it for partitions of
\* interest to Pintos" (partition.c:36): a partition that the table of an extended partition
\* describes is found, if it lies in the drive.
LogicalFound ==
  at[Boot] = "booted" =>
    \A d \in Range(Drives) : is_ata[d] => \A i \in Chained(d) :
      LET sector == MBR(d)[i].offset IN
      Contents[d][sector] \in DOMAIN Tables =>
        \A j \in 1 .. 4 :
          LET e == Tables[Contents[d][sector]][j] IN
          e.size # 0 /\ e.type \notin {0} \cup Extended /\ sector + e.offset + e.size <= Hardware[d].capacity =>
            \E k \in DOMAIN all_blocks :
              /\ all_blocks[k].dev = d /\ all_blocks[k].type = block_type(e.type)
              /\ all_blocks[k].start = sector + e.offset /\ all_blocks[k].size = e.size

(***************************************************************************)
(* The refinement of BlockStore.  A role's sectors are those of the first   *)
(* partition of its type; a write takes effect when the drive has stored the *)
(* data, a read when its data are taken from the drive.                     *)
(***************************************************************************)
Partitions == UNION { { Partition(d, i) : i \in Inside(d) } : d \in Range(Drives) }
Place ==
  [r \in Role \cap { b.type : b \in Partitions } |-> CHOOSE b \in Partitions : b.type = r]

RoleSectors == UNION { { <<r, s>> : s \in 0 .. Place[r].size - 1 } : r \in DOMAIN Place }

StoreOf(d) == [x \in RoleSectors |-> d[Place[x[1]].dev][Place[x[1]].start + x[2]]]

answered ==
  [t \in Thread |->
     CASE op[t].cmd = "read" -> IF at[t] \in {"unlock", "return", "idle"} THEN op[t].data ELSE Pending
       [] op[t].cmd = "write" ->
            IF at[t] \in {"unlock", "return", "idle"} \/ (at[t] = "wait" /\ ~hw.busy) THEN Written ELSE Pending
       [] OTHER -> Pending]

Request ==
  { <<"read", x>> : x \in Sectors } \cup { <<"write", x, v>> : x \in Sectors, v \in Value }

\* The channel has a master and maybe a slave; a disk has at least one sector and, if it is
\* used, fewer than a block_sector_t counts; a table has four entries of 32 bits.
DiskAssumption ==
  /\ Boot \notin Thread /\ Nobody \notin Users
  /\ Drives \in Seq(Range(Drives)) /\ Len(Drives) \in 1 .. 2 /\ IsInjective(Drives)
  /\ MaxSector \in Nat /\ GB \in 1 .. MaxSector + 1
  /\ Hardware \in [Range(Drives) -> [present : BOOLEAN, error : Nat, lbam : Nat, lbah : Nat,
                                     ready : BOOLEAN, capacity : Nat \ {0}]]
  /\ Contents \in [Range(Drives) -> Range(Contents)]
  /\ \A d \in Range(Drives) :
       Contents[d] \in [0 .. Hardware[d].capacity - 1 -> Range(Contents[d]) \ {Pending}]
  /\ \A c \in DOMAIN Tables :
       Tables[c] \in [1 .. 4 -> [type : 0 .. 255, offset : 0 .. MaxSector, size : 0 .. MaxSector]]
  /\ Pending \notin Value /\ Written # Pending /\ NoRequest \notin Request
ASSUME DiskAssumption

\* What the tables of drives say whose roles are for certain: none has a table in it that is
\* not read, one partition at most is for each role, and those of one drive do not overlap.
OnePlace ==
  /\ \A d \in Range(Drives) : ~Nested(d)
  /\ \A b, c \in Partitions :
       b.type \in Role /\ c.type \in Role /\ b # c =>
         /\ b.type # c.type
         /\ b.dev = c.dev => b.start + b.size <= c.start \/ c.start + c.size <= b.start

Store == INSTANCE BlockStore WITH
  Sector <- RoleSectors, InitialStore <- StoreOf(Contents), store <- StoreOf(disk),
  request <- asked, answer <- answered, stopped <- panicked

\* Every read returns what its sector holds at one moment between call and return, whoever
\* else uses the channel; partitions do not touch each other; and no completion is missed.
ImplementsBlockStore == Store!BSpec
=============================================================================
