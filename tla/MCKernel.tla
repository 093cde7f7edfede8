----------------------------- MODULE MCKernel -----------------------------
(***************************************************************************)
(* Disk, Startup, Boot, Clock and Calls for TLC.  A behaviour is of one of *)
(* them: the others stay as they begin.                                    *)
(***************************************************************************)
EXTENDS Disk, Startup, Boot, Clock, Calls

VARIABLE system

(***************************************************************************)
(* Disk: two drives, one partition of interest on each.                    *)
(***************************************************************************)
CONSTANTS hda, hdb, mbr, mbr2, t1, t2, v0, v1

MCDrives == <<hda, hdb>>

\* The signatures of a parallel and of a serial ATA disk.
MCHardware ==
  (hda :> [present |-> TRUE, error |-> 1, lbam |-> 0, lbah |-> 0, ready |-> TRUE, capacity |-> 3]) @@
  (hdb :> [present |-> TRUE, error |-> 1, lbam |-> 60, lbah |-> 195, ready |-> TRUE, capacity |-> 2])

MCContents ==
  (hda :> (0 :> mbr @@ 1 :> v0 @@ 2 :> v0)) @@ (hdb :> (0 :> mbr2 @@ 1 :> v0))

TableEntry(type, first, sectors) == [type |-> type, offset |-> first, size |-> sectors]
Unused == TableEntry(0, 0, 0)

\* An extended table past the end of the drive, a partition whose end wraps to 1; an extended
\* table inside the drive.
MCTables ==
  (mbr :> << TableEntry(5, 5, 1), TableEntry(33, 1, 1), TableEntry(34, 2, 7), TableEntry(131, 2, 1) >>) @@
  (mbr2 :> << Unused, TableEntry(34, 1, 1), TableEntry(15, 1, 1), TableEntry(131, 0, 1) >>)

(***************************************************************************)
(* Startup: sectors of two bytes, a scratch device of six; names of four   *)
(* bytes at most and numbers of four digits, the largest 2047.             *)
(***************************************************************************)
A == 97
B == 98
MCDevs == <<[name |-> "hda", type |-> "filesys"], [name |-> "hdb", type |-> "scratch"],
            [name |-> "hdc", type |-> "raw"]>>
BytesOf(name) == CASE name = <<A>> -> <<1, 2, 3>> [] name = <<B>> -> <<>> [] OTHER -> <<4, 0, 5, 6>>
Content(name) == [name |-> name, bytes |-> BytesOf(name)]
MCFirstFiles == <<B>> :> <<7>> @@ <<DOT, SLASH, B>> :> <<8, 9>>

Laid(sectors) == [s \in ScratchSectors |-> IF s < Len(sectors) THEN sectors[s + 1] ELSE Blank]
Archived(as, name) ==
    <<Header(ustar_make_header(as, REGULAR, Len(BytesOf(name))))>>
      \o [i \in 1 .. (Len(BytesOf(name)) + SectorSize - 1) \div SectorSize |->
            Chunk(BytesOf(name), (i - 1) * SectorSize)]
Directory == <<Header(ustar_make_header(<<A, B>>, DIRECTORY, 0))>>
Good == [sectors |-> Laid(Archived(<<A>>, <<A>>)), files |-> {Content(<<A>>)}]
\* A directory between two files, one of them with a name to be stripped.
Two == [sectors |-> Laid(Archived(<<DOT, DOT, SLASH, SLASH, A>>, <<A>>) \o Directory
                           \o Archived(<<A, B>>, <<A, B>>)),
        files |-> {Content(<<A>>), Content(<<A, B>>)}]
\* A file the file system has already, and an empty name.
Again == [sectors |-> Laid(Archived(<<A>>, <<A>>) \o Archived(<<B>>, <<B>>)),
          files |-> {Content(<<A>>), Content(<<B>>)}]
\* One that does not end on the device.
Cut == [sectors |-> [s \in ScratchSectors |->
                      IF s < ScratchSize - 1 THEN Directory[1]
                      ELSE Archived(<<A>>, <<A>>)[1]],
        files |-> {Content(<<A>>)}]
\* One byte of a header is another.
Damaged ==
    LET h == Archived(<<A>>, <<A>>)[1].header
    IN {[sectors |-> [Good.sectors EXCEPT ![0].header[change[1]][change[2]] = change[3]],
         files |-> Good.files] :
          change \in {c \in Fields \X (1 .. NameWidth) \X {NUL, SPACE, SLASH, ZERO, ZERO + 4, DIRECTORY, A} :
                        c[2] \in DOMAIN h[c[1]] /\ h[c[1]][c[2]] # c[3]}}
\* Sizes no file has, summed up rightly.
Forged(digits) ==
    LET h == [Archived(<<A>>, <<A>>)[1].header EXCEPT !.size = digits, !.chksum = Padded(<<>>, NumberWidth)]
    IN [sectors |-> [Good.sectors EXCEPT
                       ![0] = Header([h EXCEPT !.chksum = OctalField(calculate_chksum(h), NumberWidth)])],
        files |-> Good.files]
Sized == {Forged(<<ZERO + 4, ZERO, ZERO, ZERO, NUL>>), Forged(<<ZERO, ZERO + 4, ZERO, ZERO, NUL>>),
          Forged(<<SPACE, ZERO, ZERO, ZERO, NUL>>), Forged(<<ZERO + 3, SPACE, ZERO, ZERO, NUL>>)}

Option(opt, value) == [opt |-> opt, value |-> value]
Q == Option("-q", None)
Do(action) == [action |-> action, name |-> <<>>]
File(name) == [action |-> None, name |-> name]
Lines ==
    {<<Q, Do("extract"), Do("append"), File(<<A>>)>>,
     <<Q, Option("-f", None), Do("extract"), Do("cat"), File(<<A>>), Do("ls")>>,
     <<Option("-r", None), Do("rm"), File(<<B>>), Do("extract"), Do("run"), File(<<A>>)>>,
     <<Option("-rs", "7"), Do("append"), File(<<B>>), Do("append"), File(<<DOT, SLASH, B>>), Do("append"), File(<<A, B>>)>>,
     <<Option("-scratch", "hdc"), Do("append"), File(<<B>>), Do("extract")>>,
     <<Do("extract"), Do("extract")>>,
     <<Option("-filesys", "hdx")>>, <<Option("-h", None)>>, <<Option("-x", None), Q>>,
     <<Option("-mlfqs", None), Option("-ul", "3"), Do("rm")>>, <<Do("eject")>>}
MCSessions ==
    [line : Lines, archive : {Kept, Two}]
    \cup [line : {<<Q, Option("-f", None), Do("extract"), Do("cat"), File(<<A>>), Do("ls")>>},
          archive : {Good, Again, Cut} \cup Sized \cup Damaged]

(***************************************************************************)
(* Boot: drives with five partition tables, signatures below, above and at *)
(* the right one, and sectors that cannot be read; two page tables of two. *)
(***************************************************************************)
Part(flag, type, first, sectors) == [flag |-> flag, type |-> type, first |-> first, sectors |-> sectors]
BootDrive(sig, table, readable) == [signature |-> sig, table |-> table, readable |-> readable]
Foreign == Part(128, 131, 1, 1)
Inactive == Part(0, 32, 1, 2)
TablesOfOne == {<<Unmapped, Unmapped, Unmapped, Unmapped>>, <<Foreign, Inactive, Unmapped, Part(128, 32, 2, 3)>>,
           <<Unmapped, Part(128, 32, 1, 9), Part(128, 32, 4, 1), Foreign>>,
           <<Foreign, Part(128, 32, 5, 4), Unmapped, Inactive>>, <<Part(128, 32, 3, 0), Unmapped, Inactive, Foreign>>}
MCBootDrives == [signature : {0, 43605, 65535}, table : TablesOfOne, readable : {0 .. 11, 0 .. 3, 1 .. 3}]
MCMachines ==
    [drives : SeqOf(MCBootDrives, 1), kb : {0, 5, 11, 12, 40}]
              \cup [drives : {<<d, e>> : d, e \in MCBootDrives}, kb : {12}]

(***************************************************************************)
(* Clock: dates before the turn of a minute, a month and a year, processors *)
(* of four speeds.                                                         *)
(***************************************************************************)
Date(y, mo, d, h, mi, s) == [year |-> y, mon |-> mo, mday |-> d, hour |-> h, min |-> mi, sec |-> s]
MCDates == {Date(99, 12, 31, 23, 59, 58), Date(0, 2, 28, 23, 59, 59), Date(3, 2, 28, 23, 59, 59), Date(70, 1, 1, 0, 0, 0),
            Date(18, 5, 9, 10, 59, 57)}
Amount(n, d) == [num |-> n, denom |-> d]
MCAmounts == {Amount(1, 4), Amount(3, 4), Amount(5, 4)}

(***************************************************************************)
(* Calls: words of four bits, two files of two and three bytes, two        *)
(* descriptors, a stack of six words.                                      *)
(***************************************************************************)
Invocation(fn, args) == [fn |-> fn, args |-> args]
MCFileAt == (2 :> "f") @@ (5 :> "g")
MCFirstContent == [f |-> <<1, 2, 3>>, g |-> <<4, 5>>]
MCAnswers == {-1, 5}
MCInvocations == 
   {Invocation("pibo", <<k>>) : k \in {0, 2, 5, 15}} \cup {Invocation("sum4", <<1, 2, 6, 15>>), Invocation("sum4", <<15, 0, 0, 0>>)}
   \cup {Invocation("open", <<a>>) : a \in {0, 2, 5, 7, 12}}
   \cup {Invocation(fn, <<fd>>) : fn \in {"close", "filesize", "tell"}, fd \in {2, 3, 4}}
   \cup {Invocation("seek", <<fd, p>>) : fd \in {3, 4}, p \in {1, 4, 9}}
   \cup {Invocation(fn, <<fd, a, size>>) : fn \in {"read", "write"}, fd \in {0, 1, 3, 4}, a \in {6, 12}, size \in {1, 2, 8}}
   \cup {Invocation("halt", <<>>), Invocation("exit", <<2>>), Invocation("wait", <<3>>), Invocation("exec", <<2>>), Invocation("create", <<0, 2>>),
         Invocation("remove", <<12>>), Invocation("create", <<2, 3>>), Invocation("mmap", <<3, 7>>), Invocation("inumber", <<3>>)}

-----------------------------------------------------------------------------
MCInit ==
    /\ DiskInit /\ StartupInit /\ BootInit /\ ClockInit /\ CallsInit
    /\ system \in {"disk", "startup", "boot", "clock", "calls"}
    /\ system # "boot" => bios = [drives |-> <<>>, kb |-> 0]
    /\ system # "clock" => chip = Date(70, 1, 1, 0, 0, 0) /\ speed = 13
OthersThan(name) ==
    /\ name # "disk" => UNCHANGED diskVars
    /\ name # "startup" => UNCHANGED startupVars
    /\ name # "boot" => UNCHANGED bootVars
    /\ name # "clock" => UNCHANGED clockVars
    /\ name # "calls" => UNCHANGED callsVars
MCNext ==
    /\ \/ system = "disk" /\ DiskNext
       \/ system = "startup" /\ StartupNext
       \/ system = "boot" /\ BootNext
       \/ system = "clock" /\ ClockNext
       \/ system = "calls" /\ CallsNext
    /\ OthersThan(system)
    /\ UNCHANGED system
\* What Disk's specification calls fair, of a behaviour of its own.
DiskRuns == system = "disk" /\ ~panicked
MCSpec ==
    /\ MCInit /\ [][MCNext]_<<diskVars, startupVars, bootVars, clockVars, callsVars, system>>
    /\ \A t \in Users : WF_diskVars(DiskRuns /\ Io(t)) /\ SF_diskVars(DiskRuns /\ ide_lock(t))
    /\ WF_diskVars(DiskRuns /\ Booting)
    /\ WF_diskVars(DiskRuns /\ interrupt_handler) /\ WF_diskVars(DiskRuns /\ Drive)
=============================================================================
