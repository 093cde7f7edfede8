------------------------------ MODULE Startup ------------------------------
(* What the kernel does for its command line (threads/init.c): options,     *)
(* devices, then one action after another, among them those of              *)
(* filesys/fsutil.c that move files between the file system and a ustar     *)
(* archive on the scratch device; and how the machine stops                 *)
(* (devices/shutdown.c).  Between two boots the host may put an archive on  *)
(* the scratch device; the power may fail at any time.                      *)
EXTENDS Ustar

CONSTANTS SectorSize,   \* bytes of a sector
          ScratchSize,  \* sectors of the scratch devices
          Devices,      \* the disks found, in probe order: [name, type]
          NameMax,      \* longest name of the file system
          Sessions,     \* what the host may start: [line, archive], a command line
                        \* as a sequence of words and what it puts on the scratch device
          FirstFiles,   \* what the file system holds at first
          Kept,         \* the host leaves the scratch device as it is
          None,
          MaxBoots

VARIABLES machine,      \* how far the boot is, "off", "panic" or "idle"
          line,         \* the command line in the boot sector
          argv,         \* what is left of it
          config,       \* what the options set
          fs,           \* the files of the file system: name to bytes
          drives,         \* the sectors of the other devices
          extracting,   \* fsutil_extract(): its static sector, and the copy in progress
          appending,    \* fsutil_append(): the same
          boots,
          \* what the properties are about, no variable of the code:
          meant,        \* the contents each file is meant to have, None for any
          given,        \* the host's last archive, while nothing was appended over it
          owed,         \* its files that nobody removed
          torn,         \* files whose copying was cut short
          archived      \* what was appended since the machine started

startupVars == <<machine, line, argv, config, fs, drives, extracting, appending, boots,
          meant, given, owed, torn, archived>>
ghosts == <<meant, given, owed, torn, archived>>

ScratchSectors == 0 .. ScratchSize - 1
NoCopy == [name |-> None, left |-> 0, pos |-> 0]
AtStart == [sector |-> 0, copy |-> NoCopy]
Unset == [how |-> None, format |-> FALSE, filesys |-> None, scratch |-> None, seed |-> "none",
          mlfqs |-> FALSE, limit |-> None]

\* A sector is a header, or bytes; a header is no file's bytes.
Header(h) == [header |-> h, bytes |-> [i \in 1 .. SectorSize |-> SPACE]]
Data(bytes) == [header |-> None, bytes |-> bytes]
Blank == Data([i \in 1 .. SectorSize |-> 0])
Parsed(sector) ==
    IF sector.header # None THEN ustar_parse_header(sector.header)
    ELSE IF sector = Blank THEN [type |-> EOF] ELSE [error |-> "not a ustar archive"]
Chunk(bytes, pos) ==
    Data([i \in 1 .. SectorSize |-> IF pos + i <= Len(bytes) THEN bytes[pos + i] ELSE 0])
Write(bytes, pos, data, cnt) ==
    [i \in 1 .. Len(bytes) |-> IF i \in pos + 1 .. pos + cnt THEN data[i - pos] ELSE bytes[i]]
ChunkSize(left) == Min({left, SectorSize})

Panic == machine' = "panic"

\* With the boot the kernel's variables are as the linker and bss_init() left them.
Start(words) ==
    /\ machine' = "options" /\ argv' = words /\ config' = Unset
    /\ extracting' = AtStart /\ appending' = AtStart /\ archived' = <<>>
    /\ boots' = boots + 1

----------------------------------------------------------------------------
\* Options

\* A word begins with a dash, or it is the name of an action or of a file.
IsOption(word) == "opt" \in DOMAIN word
Given(option) ==
    CASE option.opt = "-q" -> [config EXCEPT !.how = "power_off"]
      [] option.opt = "-r" -> [config EXCEPT !.how = "reboot"]
      [] option.opt = "-f" -> [config EXCEPT !.format = TRUE]
      [] option.opt = "-filesys" -> [config EXCEPT !.filesys = option.value]
      [] option.opt = "-scratch" -> [config EXCEPT !.scratch = option.value]
      [] option.opt = "-rs" -> [config EXCEPT !.seed = option.value]
      [] option.opt = "-mlfqs" -> [config EXCEPT !.mlfqs = TRUE]
      [] option.opt = "-ul" -> [config EXCEPT !.limit = option.value]
KnownOptions == {"-q", "-r", "-f", "-filesys", "-scratch", "-rs", "-mlfqs", "-ul"}

parse_options ==
    /\ machine = "options" /\ argv # <<>> /\ IsOption(Head(argv))
    /\ CASE Head(argv).opt = "-h" -> machine' = "halt" /\ UNCHANGED <<argv, config>>
         [] Head(argv).opt \in KnownOptions ->
              argv' = Tail(argv) /\ config' = Given(Head(argv)) /\ UNCHANGED machine
         [] OTHER -> Panic /\ UNCHANGED <<argv, config>>
    /\ UNCHANGED <<line, fs, drives, extracting, appending, boots, ghosts>>

\* The device for a role: the one that was named or the first of its type;
\* Missing if a device was named that is not there.
Missing == "missing"
locate_block_device(type, name) ==
    LET wanted(d) == IF name # None THEN d.name = name ELSE d.type = type
        first == {i \in DOMAIN Devices : wanted(Devices[i])}
    IN IF first # {} THEN Devices[Min(first)].name ELSE IF name # None THEN Missing ELSE None

\* The host's archive is on the scratch device as the host put it there.
Whole == given # None /\ drives["hdb"] = given.sectors

\* The rest of main() up to the actions; the seed is taken from the clock
\* whatever the options said.  Formatting forgets every file.
BootMachine ==
    LET filesys == locate_block_device("filesys", config.filesys)
        scratch == locate_block_device("scratch", config.scratch)
    IN /\ machine = "options" /\ (argv # <<>> => ~IsOption(Head(argv)))
       /\ config' = [config EXCEPT !.seed = "clock", !.filesys = filesys, !.scratch = scratch]
       /\ IF filesys \in {Missing, None} \/ scratch = Missing
          THEN Panic /\ UNCHANGED <<fs, owed, torn>>
          ELSE /\ machine' = "actions"
               /\ fs' = IF config.format THEN <<>> ELSE fs
               /\ owed' = IF config.format /\ ~Whole THEN {} ELSE owed
               /\ torn' = IF config.format THEN {} ELSE torn
       /\ UNCHANGED <<line, argv, drives, extracting, appending, boots, meant, given, archived>>

----------------------------------------------------------------------------
\* Actions

argc == ("run" :> 2) @@ ("ls" :> 1) @@ ("cat" :> 2) @@ ("rm" :> 2) @@ ("extract" :> 1)
          @@ ("append" :> 2)
\* The next word is the name of an action that has its arguments.
Acting(name) ==
    /\ machine = "actions" /\ argv # <<>>
    /\ Head(argv).action = name /\ Len(argv) >= argc[name]
Consume(n) == argv' = SubSeq(argv, n + 1, Len(argv))

\* A word that is no action, or an action without its arguments.
BadAction ==
    /\ machine = "actions" /\ argv # <<>>
    /\ \A name \in DOMAIN argc : ~Acting(name)
    /\ Panic
    /\ UNCHANGED <<line, argv, config, fs, drives, extracting, appending, boots, ghosts>>

\* A program changes nothing here; a listing and the contents of a file
\* are printed.
run_task ==
    /\ Acting("run") /\ Consume(2)
    /\ UNCHANGED <<machine, line, config, fs, drives, extracting, appending, boots, ghosts>>
fsutil_ls ==
    /\ Acting("ls") /\ Consume(1)
    /\ UNCHANGED <<machine, line, config, fs, drives, extracting, appending, boots, ghosts>>
fsutil_cat ==
    /\ Acting("cat")
    /\ IF argv[2].name \in DOMAIN fs THEN Consume(2) /\ UNCHANGED machine ELSE Panic /\ UNCHANGED argv
    /\ UNCHANGED <<line, config, fs, drives, extracting, appending, boots, ghosts>>
fsutil_rm ==
    /\ Acting("rm")
    /\ IF argv[2].name \in DOMAIN fs
       THEN /\ Consume(2)
            /\ fs' = [n \in DOMAIN fs \ {argv[2].name} |-> fs[n]]
            /\ UNCHANGED machine
       ELSE Panic /\ UNCHANGED <<argv, fs>>
    /\ owed' = owed \ {argv[2].name}
    /\ torn' = torn \ {argv[2].name}
    /\ UNCHANGED <<line, config, drives, extracting, appending, boots, meant, given, archived>>

\* fsutil_extract(): an action of its own for every sector.
BeginExtract ==
    /\ Acting("extract")
    /\ IF config.scratch = None THEN Panic /\ UNCHANGED argv
       ELSE machine' = "extract" /\ Consume(1)
    /\ UNCHANGED <<line, config, fs, drives, extracting, appending, boots, ghosts>>

Scratch == drives[config.scratch]
ReadAt(sector) == sector \in ScratchSectors
\* A creation fails for a name that is there, empty or too long, and
\* when the directory or the drives is full.
CanCreate(name) == name \notin DOMAIN fs /\ Len(name) \in 1 .. NameMax

Taken(entry) ==
    \/ /\ CanCreate(entry.name)
       /\ fs' = [n \in DOMAIN fs \cup {entry.name} |->
                   IF n = entry.name THEN [i \in 1 .. entry.size |-> 0] ELSE fs[n]]
       /\ extracting' = [sector |-> extracting.sector + 1,
                         copy |-> [name |-> entry.name, left |-> entry.size, pos |-> 0]]
       /\ UNCHANGED machine
    \/ /\ Panic
       /\ UNCHANGED <<fs, extracting>>

\* Variant: a directory ends the archive.
ExtractHeader_stops ==
    LET entry == Parsed(Scratch[extracting.sector])
    IN /\ machine = "extract" /\ extracting.copy.left = 0
       /\ IF ~ReadAt(extracting.sector) \/ "error" \in DOMAIN entry
          THEN Panic /\ UNCHANGED <<fs, extracting>>
          ELSE IF entry.type = REGULAR THEN Taken(entry)
          ELSE /\ machine' = "erase"
               /\ extracting' = [sector |-> extracting.sector + 1, copy |-> NoCopy]
               /\ UNCHANGED fs
       /\ UNCHANGED <<line, argv, config, drives, appending, boots, ghosts>>
ExtractHeader ==
    LET entry == Parsed(Scratch[extracting.sector])
    IN /\ machine = "extract" /\ extracting.copy.left = 0
       /\ IF ~ReadAt(extracting.sector) \/ "error" \in DOMAIN entry
          THEN Panic /\ UNCHANGED <<fs, extracting>>
          ELSE IF entry.type = REGULAR THEN Taken(entry)
          ELSE /\ machine' = IF entry.type = EOF THEN "erase" ELSE "extract"
               /\ extracting' = [sector |-> extracting.sector + 1, copy |-> NoCopy]
               /\ UNCHANGED fs
       /\ UNCHANGED <<line, argv, config, drives, appending, boots, ghosts>>

ExtractData ==
    LET copy == extracting.copy
        cnt == ChunkSize(copy.left)
    IN /\ machine = "extract" /\ copy.left > 0
       /\ IF ReadAt(extracting.sector)
          THEN /\ fs' = [fs EXCEPT ![copy.name] =
                           Write(@, copy.pos, Scratch[extracting.sector].bytes, cnt)]
               /\ extracting' = [sector |-> extracting.sector + 1,
                    copy |-> [copy EXCEPT !.left = @ - cnt, !.pos = @ + cnt]]
               /\ UNCHANGED <<machine, torn>>
          ELSE Panic /\ torn' = torn \cup {copy.name} /\ UNCHANGED <<fs, extracting>>
       /\ UNCHANGED <<line, argv, config, drives, appending, boots, meant, given, owed, archived>>

\* The first two sectors of the archive are cleared, one after the other.
Erase ==
    /\ machine \in {"erase", "erase2"}
    /\ drives' = [drives EXCEPT ![config.scratch][IF machine = "erase" THEN 0 ELSE 1] = Blank]
    /\ machine' = IF machine = "erase" THEN "erase2" ELSE "actions"
    /\ archived' = IF appending.sector = 0 THEN archived ELSE None
    /\ UNCHANGED <<line, argv, config, fs, extracting, appending, boots, meant, given, owed, torn>>

\* fsutil_append(): the file is opened before the device is looked for.
BeginAppend ==
    LET name == argv[2].name
        h == ustar_make_header(name, REGULAR, Len(fs[name]))
    IN /\ Acting("append")
       /\ IF name \notin DOMAIN fs \/ config.scratch = None \/ h = TooLong
          THEN Panic /\ UNCHANGED <<argv, drives, appending, meant, given, owed>>
          ELSE IF ~ReadAt(appending.sector)
          THEN Panic /\ UNCHANGED <<argv, drives, appending, meant, given, owed>>
          ELSE /\ drives' = [drives EXCEPT ![config.scratch][appending.sector] = Header(h)]
               /\ appending' = [sector |-> appending.sector + 1,
                    copy |-> [name |-> name, left |-> Len(fs[name]), pos |-> 0]]
               /\ machine' = "append"
               /\ Consume(2)
               /\ meant' = meant \cup {[name |-> strip_antisocial_prefixes(name), bytes |-> fs[name]]}
               /\ given' = IF config.scratch = "hdb" THEN None ELSE given
               /\ owed' = IF config.scratch = "hdb" THEN {} ELSE owed
       /\ UNCHANGED <<line, config, fs, extracting, boots, torn, archived>>

AppendData ==
    LET copy == appending.copy
        cnt == ChunkSize(copy.left)
    IN /\ machine = "append" /\ copy.left > 0
       /\ IF ReadAt(appending.sector)
          THEN /\ drives' = [drives EXCEPT ![config.scratch][appending.sector] =
                             Chunk(fs[copy.name], copy.pos)]
               /\ appending' = [sector |-> appending.sector + 1,
                    copy |-> [copy EXCEPT !.left = @ - cnt, !.pos = @ + cnt]]
               /\ UNCHANGED machine
          ELSE Panic /\ UNCHANGED <<drives, appending>>
       /\ UNCHANGED <<line, argv, config, fs, extracting, boots, ghosts>>

Appended(name) ==
    IF archived = None THEN None
    ELSE Append(archived, [name |-> strip_antisocial_prefixes(name), bytes |-> fs[name]])

\* The end of the archive is written twice to the same sector, the second
\* time from one byte further on: its last byte is what follows the buffer.
AppendMarker ==
    /\ machine = "append" /\ appending.copy.left = 0
    /\ IF ReadAt(appending.sector)
       THEN /\ \E past \in {0, 1} :
                 drives' = [drives EXCEPT ![config.scratch][appending.sector] =
                            [Blank EXCEPT !.bytes[SectorSize] = past]]
            /\ machine' = "actions"
            /\ appending' = [appending EXCEPT !.copy = NoCopy]
            /\ archived' = Appended(appending.copy.name)
       ELSE Panic /\ UNCHANGED <<drives, appending, archived>>
    /\ UNCHANGED <<line, argv, config, fs, extracting, boots, meant, given, owed, torn>>

----------------------------------------------------------------------------
\* The end, and the world outside

\* The actions are done, or the kernel has panicked: shutdown() stops the
\* machine as it was told to, or the kernel idles.
shutdown ==
    /\ \/ machine = "actions" /\ argv = <<>>
       \/ machine = "panic"
    /\ \/ config.how = "power_off" /\ machine' = "halt"
       \/ config.how = "reboot" /\ machine' = "reboot"
       \/ config.how = None /\ machine' = "idle"
    /\ UNCHANGED <<line, argv, config, fs, drives, extracting, appending, boots, ghosts>>

\* After a reboot the same command line is found in the boot sector.
Reboot ==
    /\ machine = "reboot" /\ boots < MaxBoots
    /\ Start(line)
    /\ UNCHANGED <<line, fs, drives, meant, given, owed, torn>>

\* The power fails, or the machine that is to be off is; memory is lost.
PowerLoss ==
    /\ machine # "off"
    /\ machine' = "off" /\ argv' = <<>> /\ config' = Unset
    /\ extracting' = AtStart /\ appending' = AtStart /\ archived' = <<>>
    /\ torn' = IF machine = "extract" /\ extracting.copy.left > 0
               THEN torn \cup {extracting.copy.name} ELSE torn
    /\ meant' = IF machine = "append" /\ appending.copy.left > 0
                THEN meant \cup {[name |-> strip_antisocial_prefixes(appending.copy.name),
                                  bytes |-> None]} ELSE meant
    /\ UNCHANGED <<line, fs, drives, boots, given, owed>>

\* The host writes a command line, and an archive or none, and starts the machine.
PowerOn ==
    /\ machine = "off" /\ boots < MaxBoots
    /\ \E session \in Sessions :
         LET archive == session.archive IN
         /\ line' = session.line /\ Start(session.line)
         /\ IF archive = Kept THEN UNCHANGED <<drives, meant, given, owed>>
            ELSE /\ drives' = [drives EXCEPT !["hdb"] = archive.sectors]
                 /\ meant' = meant \cup archive.files
                 /\ given' = archive
                 /\ owed' = {file.name : file \in archive.files}
    /\ UNCHANGED <<fs, torn>>

StartupInit ==
    /\ machine = "off" /\ line = <<>> /\ argv = <<>> /\ config = Unset
    /\ fs = FirstFiles
    /\ drives = [d \in {"hdb", "hdc"} |-> [s \in ScratchSectors |-> Blank]]
    /\ extracting = AtStart /\ appending = AtStart /\ boots = 0
    /\ meant = {[name |-> n, bytes |-> FirstFiles[n]] : n \in DOMAIN FirstFiles}
    /\ given = None /\ owed = {} /\ torn = {} /\ archived = <<>>
StartupNext ==
    \/ PowerOn \/ PowerLoss \/ Reboot
    \/ parse_options \/ BootMachine \/ BadAction
    \/ run_task \/ fsutil_ls \/ fsutil_cat \/ fsutil_rm
    \/ BeginExtract \/ ExtractHeader \/ ExtractData \/ Erase
    \/ BeginAppend \/ AppendData \/ AppendMarker
    \/ shutdown
StartupSpec == StartupInit /\ [][StartupNext]_startupVars
----------------------------------------------------------------------------
\* A file whose copying has not come to its end, or never will.
Unfinished(n) ==
    n \in torn \/ (machine = "extract" /\ extracting.copy.left > 0 /\ extracting.copy.name = n)

\* Every file is one the host meant to be there, with the bytes it meant it
\* to have: no damaged header, no misread size and no prefix of a name puts
\* a file under another name, with another length or with the bytes of
\* another; one that was cut short has its bytes or zeros (fsutil_extract(),
\* ustar_parse_header()).  Nothing is said of a file whose archiving the
\* power cut short: its header is there and its data may be older.
PutExact ==
    \A n \in DOMAIN fs :
      \E m \in meant :
        /\ m.name = n
        /\ IF m.bytes = None THEN TRUE
           ELSE IF Unfinished(n)
           THEN /\ Len(fs[n]) = Len(m.bytes)
                /\ \A i \in DOMAIN fs[n] : fs[n][i] \in {m.bytes[i], 0}
           ELSE fs[n] = m.bytes

\* Whenever the power fails or the kernel panics, a file of the host's
\* archive is in the file system with all its bytes or the archive is still
\* whole, so that it can be extracted again (the order of extracting and
\* erasing in fsutil_extract()).
NothingLost ==
    ~Whole => \A n \in owed :
      /\ n \in DOMAIN fs /\ ~Unfinished(n)
      /\ [name |-> n, bytes |-> fs[n]] \in meant

\* The sectors a file takes in an archive, and where the K-th begins.
Span(file) == 1 + (Len(file.bytes) + SectorSize - 1) \div SectorSize
PlaceOf(k) == FoldLeft(LAMBDA sum, file : sum + Span(file), 0, SubSeq(archived, 1, k - 1))

\* The archive on the scratch device is the files appended since the machine
\* started, in their order, each whole, one right after the other, over the
\* end-of-archive marker of the one before (fsutil_append()).
ArchiveExact ==
    (archived # None /\ archived # <<>> /\ appending.copy = NoCopy) =>
      /\ appending.sector = PlaceOf(Len(archived) + 1)
      /\ \A k \in DOMAIN archived :
           LET file == archived[k]
           IN /\ Parsed(Scratch[PlaceOf(k)]) =
                   [type |-> REGULAR, size |-> Len(file.bytes), name |-> file.name]
              /\ \A i \in 1 .. Len(file.bytes) :
                   Scratch[PlaceOf(k) + 1 + ((i - 1) \div SectorSize)].bytes
                     [((i - 1) % SectorSize) + 1] = file.bytes[i]

\* What the host wrote and what the kernel wrote on the scratch device.
ArchivesKept == NothingLost /\ ArchiveExact
=============================================================================
