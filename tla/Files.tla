-------------------------------- MODULE Files --------------------------------
(***************************************************************************)
(* System calls on files (userprog/syscall.c) down to the disk: file       *)
(* descriptors and the file lock, struct file, the in-memory inodes, the   *)
(* root directory and the free map (filesys/), with processes that end in  *)
(* any of the ways the kernel knows and a machine that may stop at any     *)
(* moment and be started again.                                            *)
(*                                                                         *)
(* open(), read() and write() run under file_lock; create(), remove(),     *)
(* close() and the filesys_open() of process_execute() take no lock.  An   *)
(* action is what a process does between two disk transfers: a transfer    *)
(* puts it to sleep, and another one may run.                              *)
(***************************************************************************)
EXTENDS Naturals, FiniteSets

CONSTANTS
  Proc, main,   \* the pages that hold processes; the one the kernel starts
  Name, first,  \* file names; the program main runs
  OnDisk,       \* the programs that are on the disk from the start, by slot
  Serial,       \* TRUE: a process enters a call only when no other is in one
  Obj,          \* the memory that can hold a struct inode
  MaxFd,        \* fd[] has the slots 3 .. MaxFd (127 in thread.h)
  Slots,        \* the number of entries of the root directory
  LastSector, MaxLen,
  NoProc, NoName, NoObj, NoFile, NoInode, NoEntry, Unread,
  MaxLost       \* no more open files of an inode are lost once it has so many

ROOT_DIR_SECTOR == 1
Reserved == 0 .. 1
Sector == 0 .. LastSector
Slot == 1 .. Slots
Fd == 3 .. MaxFd

ASSUME FilesAssumption ==
  /\ IsFiniteSet(Proc) /\ main \in Proc /\ first \in Name
  /\ MaxFd \in Nat /\ MaxFd >= 3 /\ Slots \in Nat \ {0} /\ LastSector \in Nat /\ LastSector >= 3
  /\ Obj \subseteq Nat /\ NoObj \notin Obj
  /\ NoProc \notin Proc /\ NoName \notin Name
  /\ Serial \in BOOLEAN /\ MaxLen \in Nat /\ MaxLost \in Nat
  /\ DOMAIN OnDisk \subseteq Slot /\ \A s \in DOMAIN OnDisk : OnDisk[s] \in Name /\ 2 * s < LastSector

VARIABLES
  dir, disk, map_disk,  \* the disk: directory entries, inode blocks, free map
  free_map, inode,      \* memory: the free map and the open inodes
  fd,                   \* fd[p][n], the open files of each process
  lost,                 \* open files no pointer leads to, by inode
  file_lock,            \* its holder
  prog,                 \* the program each process runs
  pc, loc               \* where each process is in the kernel, and its locals

dvars == <<dir, disk, map_disk>>
kvars == <<free_map, inode, fd, lost, file_lock, prog>>
vars == <<dvars, kvars, pc, loc>>

Extent == [start : Sector, len : Nat]
NoLoc == [call |-> "none", name |-> NoName, len |-> 0, fd |-> 0, sector |-> 0, start |-> 0,
          slot |-> 0, dir |-> NoObj, inode |-> NoObj, child |-> NoProc, then |-> "idle"]

(* Memory when the machine has started and main runs its program.           *)
NoInodes == [o \in Obj |-> NoInode]
NoFds == [m \in Fd |-> NoFile]
NoneLost == [o \in Obj |-> [n |-> 0, deny |-> 0]]
OnlyMain == [p \in Proc |-> IF p = main THEN "idle" ELSE "dead"]

(* The least of such disks: the program main runs, in the first slot.      *)
OneProgram == [s \in {1} |-> first]

(* A formatted disk that holds some programs of one block each.            *)
FInit ==
  /\ dir = [s \in Slot |-> IF s \in DOMAIN OnDisk THEN [name |-> OnDisk[s], sector |-> 2 * s] ELSE NoEntry]
  /\ disk = [x \in Sector |-> IF \E s \in DOMAIN OnDisk : x = 2 * s
                              THEN [start |-> x + 1, len |-> 1] ELSE [start |-> 0, len |-> 0]]
  /\ map_disk = Reserved \cup {2 * s : s \in DOMAIN OnDisk} \cup {2 * s + 1 : s \in DOMAIN OnDisk}
  /\ free_map = map_disk
  /\ inode = NoInodes /\ fd = [p \in Proc |-> NoFds] /\ lost = NoneLost /\ file_lock = NoProc
  /\ prog = [p \in Proc |-> first] /\ pc = OnlyMain /\ loc = [p \in Proc |-> NoLoc]
-----------------------------------------------------------------------------
Go(p, label, l) ==
  /\ pc' = [pc EXCEPT ![p] = label]
  /\ loc' = [loc EXCEPT ![p] = l]

At(p, label) == pc[p] = label

(* With Serial, a process begins or goes on after sleeping for the lock     *)
(* only when the others are in user mode or asleep for each other.          *)
Resting == {"idle", "dead", "await", "hung", "acquire"}
Quiet(p) == Serial => \A q \in Proc \ {p} : pc[q] \in Resting
Enter(p) == At(p, "idle") /\ Quiet(p)

(* Inodes *)

IsOpen(o) == inode[o] # NoInode /\ inode[o].open_cnt > 0
Opened(s) == {o \in Obj : IsOpen(o) /\ inode[o].sector = s}

NewInode(s) ==
  [sector |-> s, open_cnt |-> 1, deny_write_cnt |-> 0, removed |-> FALSE, data |-> Unread]

(* Mutant: an inode that is open is not looked for.                         *)
inode_open_anew(p, s, field, next, failed, l) ==
  \E o \in Obj :
    /\ inode[o] = NoInode
    /\ inode' = [inode EXCEPT ![o] = NewInode(s)]
    /\ Go(p, "read", [l EXCEPT ![field] = o, !.then = next])

(* inode_open(): the open inode of that sector gets one more opener, or a   *)
(* new one goes on the list and its block is read; without memory it fails. *)
inode_open(p, s, field, next, failed, l) ==
  LET free == {o \in Obj : inode[o] = NoInode}
  IN  \/ \E o \in Opened(s) :
           /\ inode' = [inode EXCEPT ![o].open_cnt = @ + 1]
           /\ Go(p, next, [l EXCEPT ![field] = o])
      \/ /\ Opened(s) = {} /\ free # {}
         /\ LET o == CHOOSE r \in free : \A q \in free : r =< q
            IN  /\ inode' = [inode EXCEPT ![o] = NewInode(s)]
                /\ Go(p, "read", [l EXCEPT ![field] = o, !.then = next])
      \/ /\ Opened(s) = {} /\ free = {}
         /\ UNCHANGED inode
         /\ Go(p, failed, l)

(* The block_read() that ends inode_open().                                 *)
ReadInode(p) ==
  LET l == loc[p]
      o == IF l.inode # NoObj THEN l.inode ELSE l.dir
  IN  /\ At(p, "read")
      /\ inode' = [inode EXCEPT ![o].data = disk[inode[o].sector]]
      /\ Go(p, l.then, l)
      /\ UNCHANGED <<dvars, free_map, fd, lost, file_lock, prog>>

Blocks(e) == e.start .. (e.start + e.len - 1)

(* Mutant: a removed file is freed by whoever closes it first.              *)
close_any(p, o, i, next, l) ==
  /\ inode' = [inode EXCEPT ![o] = IF i.open_cnt = 1 /\ ~i.removed THEN NoInode
                                   ELSE [i EXCEPT !.open_cnt = @ - 1]]
  /\ free_map' = free_map \ (IF i.removed THEN {i.sector} ELSE {})
  /\ IF i.removed THEN Go(p, "release_inode", [l EXCEPT !.inode = o, !.then = next]) ELSE Go(p, next, l)

(* inode_close() of an inode left as i: the last opener takes it off the    *)
(* list and, if the file has been removed, begins to free its sectors.      *)
close_last(p, o, i, next, l) ==
  IF i.open_cnt > 1
  THEN /\ inode' = [inode EXCEPT ![o] = [i EXCEPT !.open_cnt = @ - 1]]
       /\ Go(p, next, l)
       /\ UNCHANGED free_map
  ELSE IF ~i.removed
  THEN /\ inode' = [inode EXCEPT ![o] = NoInode]
       /\ Go(p, next, l)
       /\ UNCHANGED free_map
  ELSE /\ inode' = [inode EXCEPT ![o] = [i EXCEPT !.open_cnt = 0]]
       /\ free_map' = free_map \ {i.sector}
       /\ Go(p, "release_inode", [l EXCEPT !.inode = o, !.then = next])

inode_close(p, o, next, l) == close_last(p, o, inode[o], next, l)

(* Writing to a file is denied by those who run it: at most once by each    *)
(* open file, and allowed again when that is closed.                        *)
inode_deny_write(i) == [i EXCEPT !.deny_write_cnt = @ + 1]
inode_allow_write(i) == [i EXCEPT !.deny_write_cnt = @ - 1]
file_deny_write(f) == IF f.deny_write THEN inode[f.inode] ELSE inode_deny_write(inode[f.inode])
file_allow_write(f) == IF f.deny_write THEN inode_allow_write(inode[f.inode]) ELSE inode[f.inode]

(* Mutant: writes that were denied are not allowed again.                   *)
file_close_denied(p, f, next, l) == inode_close(p, f.inode, next, l)

(* file_close(): file_allow_write() and inode_close().                      *)
file_close(p, f, next, l) ==
  close_last(p, f.inode, file_allow_write(f), next, l)

(* The two free_map_release() of inode_close(): each clears bits and writes *)
(* the map.                                                                 *)
ReleaseInode(p) ==
  /\ At(p, "release_inode")
  /\ map_disk' = free_map
  /\ free_map' = free_map \ Blocks(inode[loc[p].inode].data)
  /\ Go(p, "release_data", loc[p])
  /\ UNCHANGED <<dir, disk, inode, fd, lost, file_lock, prog>>

ReleaseData(p) ==
  /\ At(p, "release_data")
  /\ map_disk' = free_map
  /\ inode' = [inode EXCEPT ![loc[p].inode] = NoInode]
  /\ Go(p, loc[p].then, [loc[p] EXCEPT !.inode = NoObj])
  /\ UNCHANGED <<dir, disk, free_map, fd, lost, file_lock, prog>>
-----------------------------------------------------------------------------
(* Calls *)

CanLose == \A o \in Obj : lost[o].n < MaxLost
Lose(l, f) == [l EXCEPT ![f.inode] = [n |-> @.n + 1, deny |-> @.deny + (IF f.deny_write THEN 1 ELSE 0)]]

Begin(p, call, n) == [NoLoc EXCEPT !.call = call, !.name = n]
open_root(p, next, l) == inode_open(p, ROOT_DIR_SECTOR, "dir", next, "end", l)

Create(p, n, k) ==
  /\ Enter(p)
  /\ open_root(p, "alloc", [Begin(p, "create", n) EXCEPT !.len = k])
  /\ UNCHANGED <<dvars, free_map, fd, lost, file_lock, prog>>

RemoveFile(p, n) ==
  /\ Enter(p)
  /\ open_root(p, "lookup", Begin(p, "remove", n))
  /\ UNCHANGED <<dvars, free_map, fd, lost, file_lock, prog>>

(* process_execute() looks whether the file is there, without the lock.     *)
Exec(p, n) ==
  /\ Enter(p) /\ CanLose
  /\ open_root(p, "lookup", Begin(p, "exec", n))
  /\ UNCHANGED <<dvars, free_map, fd, lost, file_lock, prog>>

Open(p, n) ==
  /\ Enter(p)
  /\ (\E m \in Fd : fd[p][m] = NoFile) \/ CanLose
  /\ Go(p, "acquire", Begin(p, "open", n))
  /\ UNCHANGED <<dvars, kvars>>

ReadWrite(p, call, m) ==
  /\ Enter(p)
  /\ Go(p, "acquire", [Begin(p, call, NoName) EXCEPT !.fd = m])
  /\ UNCHANGED <<dvars, kvars>>

(* lock_acquire(&file_lock) returns.  read() and write() of a descriptor    *)
(* that is not open release it again and exit.                              *)
Acquire(p) ==
  /\ At(p, "acquire") /\ file_lock = NoProc /\ Quiet(p)
  /\ UNCHANGED <<dvars, free_map, fd, lost, prog>>
  /\ \/ /\ loc[p].call = "open"
        /\ file_lock' = p
        /\ open_root(p, "lookup", loc[p])
     \/ /\ loc[p].call # "open" /\ loc[p].fd \in Fd /\ fd[p][loc[p].fd] = NoFile
        /\ Go(p, "exit", NoLoc)
        /\ UNCHANGED <<inode, file_lock>>
     \/ /\ loc[p].call # "open" /\ ~(loc[p].fd \in Fd /\ fd[p][loc[p].fd] = NoFile)
        /\ file_lock' = p
        /\ Go(p, "transfer", loc[p])
        /\ UNCHANGED inode

(* The bytes have been copied; the lock is released.                        *)
Transfer(p) ==
  /\ At(p, "transfer")
  /\ file_lock' = NoProc
  /\ Go(p, "idle", NoLoc)
  /\ UNCHANGED <<dvars, free_map, inode, fd, lost, prog>>

(* ... or the copy met an unmapped page of the buffer: page_fault() exits   *)
(* on behalf of the process, in the middle of read() or write().            *)
Fault(p) ==
  /\ At(p, "transfer")
  /\ Go(p, "exit", NoLoc)
  /\ UNCHANGED <<dvars, kvars>>

(* lookup() in the root directory.  What it finds through an inode whose    *)
(* block has not been read is anybody's guess; here: the truth or nothing.  *)
(* The file's inode is opened, for remove() by dir_remove().                *)
Lookup(p) ==
  LET l == loc[p]
      found == {s \in Slot : dir[s] # NoEntry /\ dir[s].name = l.name}
  IN  /\ At(p, "lookup")
      /\ \/ \E s \in found :
              /\ \A t \in found : s =< t
              /\ inode_open(p, dir[s].sector, "inode", IF l.call = "remove" THEN "erase" ELSE "done",
                            "done", [l EXCEPT !.slot = s])
         \/ /\ found = {} \/ inode[l.dir].data = Unread
            /\ Go(p, "done", l)
            /\ UNCHANGED inode
      /\ UNCHANGED <<dvars, free_map, fd, lost, file_lock, prog>>

(* dir_remove(): the entry is overwritten, the inode marked and closed.     *)
Erase(p) ==
  LET l == loc[p]
  IN  /\ At(p, "erase")
      /\ dir' = [dir EXCEPT ![l.slot] = NoEntry]
      /\ close_last(p, l.inode, [inode[l.inode] EXCEPT !.removed = TRUE], "done",
                    [l EXCEPT !.inode = NoObj])
      /\ UNCHANGED <<disk, map_disk, fd, lost, file_lock, prog>>

(* filesys_create(), with bitmap_scan_and_flip() taking the first fit.      *)
Fits(x, k) == x + k =< LastSector + 1 /\ Blocks([start |-> x, len |-> k]) \cap free_map = {}
FirstFit(x, k) == Fits(x, k) /\ \A y \in Sector : Fits(y, k) => x =< y

Alloc(p) ==
  /\ At(p, "alloc")
  /\ \/ \E x \in Sector :
           /\ FirstFit(x, 1)
           /\ free_map' = free_map \cup {x}
           /\ Go(p, "alloc_write", [loc[p] EXCEPT !.sector = x])
     \/ /\ \A x \in Sector : ~Fits(x, 1)
        /\ Go(p, "done", loc[p])
        /\ UNCHANGED free_map
  /\ UNCHANGED <<dvars, inode, fd, lost, file_lock, prog>>

(* A failure after that gives back the inode's sector, and only that.       *)
Undo(p) ==
  /\ free_map' = free_map \ {loc[p].sector}
  /\ Go(p, "undo_write", loc[p])

(* inode_create() finds no memory, or no run of sectors that is long enough. *)
AllocData(p) ==
  /\ At(p, "alloc_write")
  /\ map_disk' = free_map
  /\ \/ \E x \in Sector :
           /\ FirstFit(x, loc[p].len)
           /\ free_map' = free_map \cup Blocks([start |-> x, len |-> loc[p].len])
           /\ Go(p, "data_write", [loc[p] EXCEPT !.start = x])
     \/ Undo(p)
  /\ UNCHANGED <<dir, disk, inode, fd, lost, file_lock, prog>>

(* Mutant: the free map is not written before the file enters the directory. *)
DataWrite_unsaved(p) ==
  /\ At(p, "data_write")
  /\ Go(p, "write_inode", loc[p])
  /\ UNCHANGED <<dvars, kvars>>

DataWrite(p) ==
  /\ At(p, "data_write")
  /\ map_disk' = free_map
  /\ Go(p, "write_inode", loc[p])
  /\ UNCHANGED <<dir, disk, kvars>>

(* The inode's block, and zeros in the file's blocks.                       *)
WriteInode(p) ==
  /\ At(p, "write_inode")
  /\ disk' = [disk EXCEPT ![loc[p].sector] = [start |-> loc[p].start, len |-> loc[p].len]]
  /\ Go(p, "add", loc[p])
  /\ UNCHANGED <<dir, map_disk, kvars>>

(* dir_add(): the name is looked for, then a free entry, which is written.  *)
Add(p) ==
  /\ At(p, "add")
  /\ IF \E s \in Slot : dir[s] # NoEntry /\ dir[s].name = loc[p].name
     THEN Undo(p)
     ELSE Go(p, "add_slot", loc[p]) /\ UNCHANGED free_map
  /\ UNCHANGED <<dvars, inode, fd, lost, file_lock, prog>>

AddSlot(p) ==
  LET free == {s \in Slot : dir[s] = NoEntry}
  IN  /\ At(p, "add_slot")
      /\ \/ \E s \in free :
              /\ \A t \in free : s =< t
              /\ Go(p, "add_write", [loc[p] EXCEPT !.slot = s])
              /\ UNCHANGED free_map
         \/ free = {} /\ Undo(p)
      /\ UNCHANGED <<dvars, inode, fd, lost, file_lock, prog>>

AddWrite(p) ==
  /\ At(p, "add_write")
  /\ dir' = [dir EXCEPT ![loc[p].slot] = [name |-> loc[p].name, sector |-> loc[p].sector]]
  /\ Go(p, "done", loc[p])
  /\ UNCHANGED <<disk, map_disk, kvars>>

UndoWrite(p) ==
  /\ At(p, "undo_write")
  /\ map_disk' = free_map
  /\ Go(p, "done", loc[p])
  /\ UNCHANGED <<dir, disk, kvars>>
-----------------------------------------------------------------------------
(* dir_close(), and what each caller does with the inode it was given.      *)
DirClose(p) ==
  /\ At(p, "done")
  /\ inode_close(p, loc[p].dir, "end", [loc[p] EXCEPT !.dir = NoObj])
  /\ UNCHANGED <<dvars, fd, lost, file_lock, prog>>

(* file_open() without memory.                                              *)
FileOpenFails(p) ==
  /\ At(p, "end") /\ loc[p].inode # NoObj
  /\ inode_close(p, loc[p].inode, "end", [loc[p] EXCEPT !.inode = NoObj])
  /\ UNCHANGED <<dvars, fd, lost, file_lock, prog>>

EndCreateRemove(p) ==
  /\ At(p, "end") /\ loc[p].call \in {"create", "remove"}
  /\ Go(p, "idle", NoLoc)
  /\ UNCHANGED <<dvars, kvars>>

(* open(): the first free descriptor; a process is denied writes to a file  *)
(* it opens under its own name.  Without a free descriptor the file stays   *)
(* open.                                                                    *)
EndOpen(p) ==
  LET o == loc[p].inode
      f == [inode |-> o, deny_write |-> FALSE]
      runs == prog[p] = loc[p].name
      free == {m \in Fd : fd[p][m] = NoFile}
  IN  /\ At(p, "end") /\ loc[p].call = "open"
      /\ \/ /\ o = NoObj
            /\ UNCHANGED <<fd, inode, lost>>
         \/ /\ o # NoObj
            /\ \E m \in free :
                  /\ \A k \in free : m =< k
                  /\ fd' = [fd EXCEPT ![p][m] = [f EXCEPT !.deny_write = runs]]
            /\ inode' = IF runs THEN [inode EXCEPT ![o] = file_deny_write(f)] ELSE inode
            /\ UNCHANGED lost
         \/ /\ o # NoObj /\ free = {}
            /\ lost' = Lose(lost, f)
            /\ UNCHANGED <<fd, inode>>
      /\ file_lock' = NoProc
      /\ Go(p, "idle", NoLoc)
      /\ UNCHANGED <<dvars, free_map, prog>>

(* What a process left in its page when it died is gone for good.           *)
LoseAll(q) ==
  LET left(o) == {m \in Fd : fd[q][m] # NoFile /\ fd[q][m].inode = o}
  IN  [o \in Obj |-> [n |-> lost[o].n + Cardinality(left(o)),
                      deny |-> lost[o].deny + Cardinality({m \in left(o) : fd[q][m].deny_write})]]

(* process_execute() drops the file it opened and makes a thread in a free  *)
(* page, which loads the program while its parent sleeps; without a page it *)
(* sleeps all the same.                                                     *)
EndExec(p) ==
  LET f == [inode |-> loc[p].inode, deny_write |-> FALSE]
      pages == {q \in Proc \ {main} : pc[q] = "dead"}
  IN  /\ At(p, "end") /\ loc[p].call = "exec"
      /\ \/ /\ loc[p].inode = NoObj
            /\ Go(p, "idle", NoLoc)
            /\ UNCHANGED <<fd, lost, prog>>
         \/ /\ loc[p].inode # NoObj /\ pages = {}
            /\ lost' = Lose(lost, f)
            /\ Go(p, "hung", NoLoc)
            /\ UNCHANGED <<fd, prog>>
         \/ /\ loc[p].inode # NoObj
            /\ \E q \in pages :
                  /\ lost' = Lose(LoseAll(q), f)
                  /\ fd' = [fd EXCEPT ![q] = NoFds]
                  /\ prog' = [prog EXCEPT ![q] = loc[p].name]
                  /\ pc' = [pc EXCEPT ![p] = "await", ![q] = "load"]
                  /\ loc' = [loc EXCEPT ![p] = [NoLoc EXCEPT !.child = q],
                                        ![q] = Begin(q, "load", loc[p].name)]
      /\ UNCHANGED <<dvars, free_map, inode, file_lock>>

(* load() in the child: the file is opened, read and closed, unless there   *)
(* is no page for a page directory.                                         *)
Load(p) ==
  /\ At(p, "load")
  /\ \/ open_root(p, "lookup", loc[p])
     \/ Go(p, "exit", NoLoc) /\ UNCHANGED inode
  /\ UNCHANGED <<dvars, free_map, fd, lost, file_lock, prog>>

EndLoad(p) ==
  /\ At(p, "end") /\ loc[p].call = "load"
  /\ UNCHANGED <<dvars, fd, lost, file_lock, prog>>
  /\ \/ /\ loc[p].inode = NoObj
        /\ Go(p, "exit", NoLoc)
        /\ UNCHANGED <<inode, free_map>>
     \/ /\ loc[p].inode # NoObj
        /\ inode_close(p, loc[p].inode, "loaded", [loc[p] EXCEPT !.inode = NoObj])

(* It runs, or the image is bad.                                            *)
Loaded(p) ==
  /\ At(p, "loaded")
  /\ Go(p, "idle", NoLoc) \/ Go(p, "exit", NoLoc)
  /\ UNCHANGED <<dvars, kvars>>

Awake(p) ==
  /\ At(p, "await") /\ loc[loc[p].child].call # "load"
  /\ Go(p, "idle", NoLoc)
  /\ UNCHANGED <<dvars, kvars>>
-----------------------------------------------------------------------------
Close(p, m) ==
  /\ Enter(p)
  /\ UNCHANGED <<dvars, lost, file_lock, prog>>
  /\ IF fd[p][m] = NoFile
     THEN Go(p, "exit", NoLoc) /\ UNCHANGED <<fd, inode, free_map>>
     ELSE fd' = [fd EXCEPT ![p][m] = NoFile] /\ file_close(p, fd[p][m], "idle", NoLoc)

Exit(p) ==
  /\ Enter(p)
  /\ Go(p, "exit", NoLoc)
  /\ UNCHANGED <<dvars, kvars>>

(* exit() closes its descriptors one after the other, then the thread dies. *)
CloseAll(p) ==
  LET open == {m \in Fd : fd[p][m] # NoFile}
  IN  /\ At(p, "exit")
      /\ \/ \E m \in open :
              /\ \A k \in open : m =< k
              /\ fd' = [fd EXCEPT ![p][m] = NoFile]
              /\ file_close(p, fd[p][m], "exit", NoLoc)
         \/ /\ open = {}
            /\ Go(p, "dead", NoLoc)
            /\ UNCHANGED <<fd, inode, free_map>>
      /\ UNCHANGED <<dvars, lost, file_lock, prog>>

(* kill() on an exception in user mode goes to thread_exit() at once.       *)
Kill(p) ==
  /\ At(p, "idle")
  /\ Go(p, "dead", NoLoc)
  /\ UNCHANGED <<dvars, kvars>>

(* The machine stops at any moment and starts again, if main's program is   *)
(* still there: memory is lost and the free map is read from the disk.      *)
Reboot ==
  /\ \E s \in Slot : dir[s] # NoEntry /\ dir[s].name = first
  /\ free_map' = map_disk
  /\ inode' = NoInodes /\ fd' = [p \in Proc |-> NoFds] /\ lost' = NoneLost /\ file_lock' = NoProc
  /\ prog' = [p \in Proc |-> first] /\ pc' = OnlyMain /\ loc' = [p \in Proc |-> NoLoc]
  /\ UNCHANGED dvars

Step(p) ==
  \/ ReadInode(p) \/ ReleaseInode(p) \/ ReleaseData(p)
  \/ \E n \in Name : RemoveFile(p, n) \/ Exec(p, n) \/ Open(p, n)
  \/ \E n \in Name, k \in 0 .. MaxLen : Create(p, n, k)
  \/ \E m \in Fd \cup {1} : ReadWrite(p, "read", m) \/ ReadWrite(p, "write", m)
  \/ Acquire(p) \/ Transfer(p) \/ Fault(p)
  \/ Lookup(p) \/ Erase(p)
  \/ Alloc(p) \/ AllocData(p) \/ DataWrite(p) \/ WriteInode(p)
  \/ Add(p) \/ AddSlot(p) \/ AddWrite(p) \/ UndoWrite(p)
  \/ DirClose(p) \/ FileOpenFails(p) \/ EndCreateRemove(p) \/ EndOpen(p) \/ EndExec(p)
  \/ Load(p) \/ EndLoad(p) \/ Loaded(p) \/ Awake(p)
  \/ \E m \in Fd : Close(p, m)
  \/ Exit(p) \/ CloseAll(p) \/ Kill(p)

FNext == Reboot \/ \E p \in Proc : Step(p)
FSpec == FInit /\ [][FNext]_vars
-----------------------------------------------------------------------------
(* Properties *)

Labels == Resting \cup {"read", "lookup", "erase", "alloc", "alloc_write", "data_write", "write_inode",
                        "add", "add_slot", "add_write", "undo_write", "done", "end", "release_inode",
                        "release_data", "transfer", "load", "loaded", "exit"}
Inode == [sector : Sector, open_cnt : Nat, deny_write_cnt : Nat, removed : BOOLEAN,
          data : Extent \cup {Unread}]
File == [inode : Obj, deny_write : BOOLEAN]
Entry == [name : Name, sector : Sector]

ASSUME MarksAssumption ==
  NoInode \notin Inode /\ NoFile \notin File /\ NoEntry \notin Entry /\ Unread \notin Extent

(* Every variable has its type.                                             *)
FTypeOK ==
  /\ dir \in [Slot -> Entry \cup {NoEntry}]
  /\ disk \in [Sector -> Extent]
  /\ map_disk \subseteq Sector /\ free_map \subseteq Sector
  /\ inode \in [Obj -> Inode \cup {NoInode}]
  /\ fd \in [Proc -> [Fd -> File \cup {NoFile}]]
  /\ lost \in [Obj -> [n : Nat, deny : Nat]]
  /\ file_lock \in Proc \cup {NoProc}
  /\ prog \in [Proc -> Name]
  /\ pc \in [Proc -> Labels]

OpenFds(o) == {f \in Proc \X Fd : fd[f[1]][f[2]] # NoFile /\ fd[f[1]][f[2]].inode = o}
InCall(o) == {p \in Proc : loc[p].dir = o} \cup
             {p \in Proc : loc[p].inode = o /\ pc[p] \notin {"release_inode", "release_data"}}

(* "opening a single inode twice returns the same `struct inode'"           *)
(* (inode.c:56-57): two inodes of one sector would be two truths about its  *)
(* openers, its removal and its writers.                                    *)
UniqueInode == \A s \in Sector : Cardinality(Opened(s)) =< 1

(* An inode counts exactly its openers: the descriptors of all processes,   *)
(* the files that nobody can close any more and the calls under way.  One   *)
(* too few frees an inode, and a removed file's sectors, under a reader;    *)
(* one too many keeps them for ever.                                        *)
OpenCountExact ==
  \A o \in Obj : IsOpen(o) \/ OpenFds(o) # {} =>
    inode[o] # NoInode /\ inode[o].open_cnt = Cardinality(OpenFds(o)) + lost[o].n + Cardinality(InCall(o))

(* The writers denied are exactly the open files that deny them             *)
(* (file.c:116-141), never more than the openers: ASSERT in                 *)
(* inode_deny_write() and inode_allow_write(), inode.c:326,335-336.         *)
DenyExact ==
  \A o \in Obj : IsOpen(o) =>
    /\ inode[o].deny_write_cnt =
         Cardinality({f \in OpenFds(o) : fd[f[1]][f[2]].deny_write}) + lost[o].deny
    /\ inode[o].deny_write_cnt =< inode[o].open_cnt

(* What memory says of the inodes is true: one struct inode for a sector,   *)
(* and its count is that of its openers.                                    *)
InodesExact == UniqueInode /\ OpenCountExact

(* The files that can still be reached, in the directory or open: sector of *)
(* the inode and extent.                                                    *)
Entries == {<<dir[s].sector, disk[dir[s].sector]>> : s \in {t \in Slot : dir[t] # NoEntry}}
OpenFiles == {<<inode[o].sector, inode[o].data>> :
                o \in {q \in Obj : IsOpen(q) /\ inode[q].sector \notin Reserved /\ inode[q].data # Unread}}
Sectors(f) == {f[1]} \cup Blocks(f[2])

(* What can still be reached is marked in the free map, a removed file as   *)
(* long as somebody has it open: what free_map_release() asserts            *)
(* (free-map.c:47) when its turn comes.                                     *)
LiveBlocksMarked == \A f \in Entries \cup OpenFiles : Sectors(f) \subseteq free_map

(* No sector belongs to two files that can still be reached.                *)
BlocksDisjoint ==
  \A f, g \in Entries \cup OpenFiles : f # g => Sectors(f) \cap (Sectors(g) \cup Reserved) = {}

(* The sectors of every file that can be reached, removed ones with openers *)
(* included, stay marked and belong to that file alone, whatever call is    *)
(* where.                                                                   *)
BlocksKept == LiveBlocksMarked /\ BlocksDisjoint

(* Whenever the machine stops, the disk is fit to start from: the free map  *)
(* on it covers every file in the directory on it, and no two of them share *)
(* a sector, so that no file created later overwrites an earlier one.       *)
CrashSafe ==
  /\ \A f \in Entries : Sectors(f) \subseteq map_disk \ Reserved
  /\ \A f, g \in Entries : f # g => Sectors(f) \cap Sectors(g) = {}
-----------------------------------------------------------------------------
(* What the sources say and the program does not keep *)

(* filesys_create() "Fails if a file named NAME already exists"             *)
(* (filesys.c:43).                                                          *)
NamesUnique ==
  \A s, t \in Slot : dir[s] # NoEntry /\ dir[t] # NoEntry /\ dir[s].name = dir[t].name => s = t

(* ASSERT (!lock_held_by_current_thread (lock)) in lock_acquire()           *)
(* (synch.c:197), for file_lock.                                            *)
LockNotHeldByCaller == \A p \in Proc : pc[p] = "acquire" => file_lock # p
=============================================================================
