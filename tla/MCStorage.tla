------------------------------ MODULE MCStorage ------------------------------
(***************************************************************************)
(* Files, Memory and Loader for TLC: who has which sector, which block and *)
(* which page.  A behaviour is of one of them: the others stay as they     *)
(* begin.                                                                  *)
(***************************************************************************)
EXTENDS Files, Memory, Loader, TLC

VARIABLE system

(***************************************************************************)
(* Files: two processes whose calls come one at a time, dying in every way *)
(* the kernel knows, on a machine that may stop after any step.  While      *)
(* there are two, or files that nobody can close, one name is enough.      *)
(***************************************************************************)
CONSTANTS fileA, fileB, second

\* The bounds: a second name, or the last sector, only for a process alone, and then no more than
\* one sector with the block of a file that is gone.
NameInUse(n) == (\E s \in Slot : dir[s] # NoEntry /\ dir[s].name = n) \/ \E p \in Proc : loc[p].name = n
Alone == pc[second] = "dead" /\ fd[second] = NoFds /\ lost = NoneLost
Old(x) == disk[x].len > 0 /\ (\A s \in Slot : dir[s] = NoEntry \/ dir[s].sector # x)
                          /\ (\A o \in Obj : inode[o] = NoInode \/ inode[o].sector # x)
FewOld == Cardinality({x \in Sector : Old(x)}) =< 1
OneName == ~NameInUse(fileB) /\ LastSector \notin free_map \cup map_disk /\ disk[LastSector].len = 0

\* With two processes alive, files are lost only while neither has one open.
FewLost == lost = NoneLost \/ (\E p \in Proc : pc[p] = "dead") \/ (\A p \in Proc : fd[p] = NoFds)
Bounded == ((Alone /\ FewOld) \/ OneName) /\ FewLost

\* Processes may end or sleep for good, and the bounds may leave no step; not where main is alone
\* in user mode.
MayRest == ~Alone \/ pc[main] # "idle"

(***************************************************************************)
(* Memory: pages of 12 bytes, which hold two blocks of 4.                  *)
(***************************************************************************)
MCFactors == {<<3, 1>>, <<5, 13>>}

(***************************************************************************)
(* Loader: pages of 40 bytes with the stack's at 200, tables of three      *)
(* pages and a user space of two tables; four pages of each kind: enough   *)
(* for one program of the largest size only.  Names are of one letter.     *)
(***************************************************************************)
LoadHeader(offset, vaddr, filesz, memsz, writable) ==
    [type |-> "load", offset |-> offset, vaddr |-> vaddr, filesz |-> filesz,
     memsz |-> memsz, writable |-> writable]
Kind(type) == [type |-> type]
Executable(length, headers) == [valid |-> TRUE, length |-> length, headers |-> headers]

MCPrograms ==
    \* code that begins inside a page, and data with zeros over two pages
    (<<2>> :> Executable(120, <<LoadHeader(0, 40, 30, 30, FALSE),
                                LoadHeader(47, 87, 38, 60, TRUE)>>))
    \* zeros only, up to the page below the stack's
    @@ (<<3>> :> Executable(10, <<LoadHeader(5, 125, 0, 60, TRUE)>>))
    \* two segments of one page: refused
    @@ (<<4>> :> Executable(120, <<LoadHeader(0, 40, 10, 10, FALSE), LoadHeader(20, 60, 10, 10, TRUE)>>))
    \* a segment that ends beyond the file, one that wraps, one over the stack
    @@ (<<5>> :> Executable(60, <<LoadHeader(40, 40, 30, 30, FALSE)>>))
    @@ (<<6>> :> Executable(60, <<LoadHeader(0, 160, 10, 200, FALSE)>>))
    @@ (<<7>> :> Executable(60, <<LoadHeader(0, 160, 40, 70, TRUE)>>))
    \* headers of other kinds
    @@ (<<8>> :> Executable(60, <<Kind("ignored"), LoadHeader(0, 40, 10, 10, FALSE), Kind("dynamic")>>))
    @@ (<<9>> :> [Executable(60, <<>>) EXCEPT !.valid = FALSE])
Large == <<2, 1, 1, 7, 8, 1, 9, 1>>
MCCommands ==
    {Large, <<3>>, <<4>>, <<5>>, <<6>>, <<7>>, <<8>>, <<9>>, <<11>>}

\* The bound: of two processes one loads the large program.
OneLarge == \E p \in Task : ps[p].pc = "none" \/ ps[p].command = Large

Symmetry == Permutations(Thread) \cup Permutations(Task)

-----------------------------------------------------------------------------
MCInit == FInit /\ MInit /\ LoaderInit /\ system \in {"files", "memory", "loader"}
MCNext ==
    /\ \/ system = "files" /\ FNext /\ Bounded' /\ UNCHANGED <<memoryVars, loaderVars>>
       \/ system = "memory" /\ MNext /\ UNCHANGED <<vars, loaderVars>>
       \/ system = "loader" /\ LoaderNext /\ OneLarge' /\ UNCHANGED <<vars, memoryVars>>
       \/ system = "files" /\ MayRest /\ UNCHANGED <<vars, memoryVars, loaderVars>>
    /\ UNCHANGED system
MCSpec == MCInit /\ [][MCNext]_<<vars, memoryVars, loaderVars, system>>
=============================================================================
