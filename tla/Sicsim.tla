------------------------------ MODULE Sicsim -------------------------------
(***************************************************************************)
(* The command loop of the SIC/XE simulator and its linking loader: main(),*)
(* pass1_loader() and pass2_loader() of 20141543.c, over the globals they  *)
(* share.  One step is one command line; what it prints is kept in shown.  *)
(*                                                                         *)
(* An object file is its records: the H record, the D and R records as     *)
(* sequences, the T records, and the M records.  Assembling a file is the  *)
(* business of Assembler; here it is one of the outcomes it can have.      *)
(* Addresses a user types lie in the memory: edit and fill do not check.   *)
(***************************************************************************)
EXTENDS Integers, Sequences, FiniteSets, SequencesExt, Functions

CONSTANTS
  MaxMemory,    \* bytes of memory
  ObjFile,      \* file name -> object file
  NoFile,       \* an argument that names no file
  AsmResult,    \* what an assembly leaves: [ok, syms]
  Args,         \* file arguments of loader lines, one to three
  Addresses,    \* operands of progaddr, edit, fill, dump, bp
  EditValue,        \* a byte
  DumpLength,   \* 160: bytes of a dump
  MaxLines,     \* bound of the runs
  Unset          \* what a variable nobody has set may hold

ASSUME SicsimAssumption ==
  /\ MaxMemory \in Nat \ {0} /\ DumpLength \in Nat \ {0}
  /\ Addresses \subseteq 0 .. MaxMemory - 1 /\ EditValue \in 0 .. 255
  /\ NoFile \notin DOMAIN ObjFile
  /\ \A args \in Args : Len(args) \in 1 .. 3 /\ Range(args) \subseteq DOMAIN ObjFile \cup {NoFile}

VARIABLES
  memory,       \* address -> byte
  address,      \* where the next dump starts
  progaddr,
  exsym,        \* the external symbols, in the order they were entered
  sim_error,   \* shared by the assembler, progaddr and the loader
  symbols,       \* what the last assembly left: symbols in order
  bp_list,
  flag,         \* TRUE until a command is in the history
  input3,       \* the third file argument, kept from line to line
  added,        \* nodes the command put into the history
  shown,        \* what it showed
  loads,        \* loads since progaddr was set: [base, files, done]
  prompting,      \* FALSE after quit or a null pointer
  lines         \* command lines so far, at most MaxLines

sicsimVars == <<memory, address, progaddr, exsym, sim_error, symbols, bp_list, flag, input3, added,
          shown, loads, prompting, lines>>

SicsimInit ==
  /\ memory = [a \in 0 .. MaxMemory - 1 |-> 0]
  /\ address = 0 /\ progaddr = 0
  /\ exsym = << >> /\ sim_error = FALSE /\ symbols = << >> /\ bp_list = << >>
  /\ flag = TRUE /\ input3 = NoFile /\ added = 0 /\ shown = << >>
  /\ loads = << >> /\ prompting = TRUE /\ lines = 0

Sum(s) == FoldLeft(+, 0, s)

-----------------------------------------------------------------------------
(* The linking loader, as a function of the files and what it starts from. *)

check_EXSYM(tab, name) ==
  LET found == {i \in DOMAIN tab : tab[i].sym = name}
  IN IF found = {} THEN -1 ELSE tab[CHOOSE i \in found : \A j \in found : i <= j].address

make_EXSYM(type, name, addr, len) == [type |-> type, sym |-> name, address |-> addr, len |-> len]

(* Entering the symbols of one section; dup ends the whole pass.           *)
Enter(s, e) ==
  IF s.dup THEN s
  ELSE IF check_EXSYM(s.tab, e.sym) # -1 THEN [s EXCEPT !.dup = TRUE]
  ELSE [s EXCEPT !.tab = Append(@, e)]

pass1_section(s, f) ==
  LET o == ObjFile[f]
      names == <<make_EXSYM(1, o.H.name, s.at, o.H.len)>>
               \o [i \in DOMAIN o.D |-> make_EXSYM(2, o.D[i].sym, s.at + o.D[i].addr - o.H.addr, 0)]
      entered == FoldLeft(Enter, s, names)
  IN IF entered.dup THEN entered
     ELSE [entered EXCEPT !.at = IF o.T # << >> THEN @ + o.H.len ELSE @]

(* print_Load_map() takes the lengths of all sections off progaddr again.  *)
print_Load_map(at, tab) == at - Sum([i \in DOMAIN tab |-> tab[i].len])

pass1_loader(files) ==
  LET s == FoldLeft(pass1_section, [tab |-> << >>, at |-> progaddr, dup |-> FALSE], files)
  IN IF s.dup THEN s ELSE [s EXCEPT !.at = print_Load_map(@, s.tab)]

\* The three bytes at a as a number, highest first.
SicWord(byte(_), a) == 65536 * byte(a) + 256 * byte(a + 1) + byte(a + 2)

(* An M record adds to, or takes from, the three bytes at its address; of  *)
(* type 5, with the byte in front as a fourth.  A load in progress: the    *)
(* memory, and whether a record was refused.                               *)
ModifyRecord(s, m) ==
  IF s.err \/ m.type \notin {5, 6} THEN [s EXCEPT !.err = TRUE]
  ELSE LET a == s.at + m.addr
           old(b) == s.mem[b]
           v == SicWord(old, a) + m.sign * s.ref[m.ref]
       IN [s EXCEPT !.mem = [b \in DOMAIN @ |->
             CASE b \in a .. a + 2 -> (v \div (256 ^ (a + 2 - b))) % 256
               [] b = a - 1 /\ m.type = 5 -> (@[b] + v \div (256 ^ 3)) % 256
               [] OTHER -> @[b]]]

TextRecord(s, t) ==
  [s EXCEPT !.mem = [b \in DOMAIN @ |-> IF b - s.at - t.addr \in 0 .. Len(t.bytes) - 1
                                         THEN t.bytes[b - s.at - t.addr + 1] ELSE @[b]]]

(* Where the next section starts.  (A variant with a mistake, for the runs:*)
(* behind the text, without the area it reserves.)                         *)
NextSection_text(at, o) == at + Sum([i \in DOMAIN o.T |-> Len(o.T[i].bytes)])
NextSection(at, o) == at + o.H.len

(* pass2_loader() of one file.  A symbol no section defines leaves its     *)
(* place, and those behind it, in ref_arr unset: junk.                     *)
Unresolved(tab, o) == {i \in DOMAIN o.R : check_EXSYM(tab, o.R[i]) = -1}
pass2_loader(s, f, tab, junk) ==
  LET o == ObjFile[f]
      missing == Unresolved(tab, o)
      ref == [i \in 1 .. Len(o.R) + 1 |->
                IF i = 1 THEN check_EXSYM(tab, o.H.name)
                ELSE IF \E j \in missing : j <= i - 1 THEN junk ELSE check_EXSYM(tab, o.R[i - 1])]
      text == FoldLeft(TextRecord, [mem |-> s.mem, at |-> s.at, ref |-> ref, err |-> FALSE], o.T)
      done == FoldLeft(ModifyRecord, text, o.M)
  IN [mem |-> done.mem, at |-> NextSection(s.at, o), err |-> s.err \/ missing # {} \/ done.err]

pass2(files, p1, junk) ==
  FoldLeft(LAMBDA s, f : pass2_loader(s, f, p1.tab, junk),
           [mem |-> memory, at |-> p1.at, err |-> FALSE], files)

-----------------------------------------------------------------------------
(* The commands                                                            *)

(* createNode() n times; flag says that there has been a command.          *)
History(n) == added' = n /\ flag' = FALSE
NoHistory == added' = 0 /\ UNCHANGED flag

\* A line of two tokens or less leaves input[3] alone, but may overwrite the
\* text it points to; other lines may also make it null or a number.
ShortLine == input3' \in {input3, NoFile}

Same == UNCHANGED <<memory, address, progaddr, exsym, sim_error, symbols, bp_list, loads>>

Show(what) ==                              \* help, dir, opcodelist
  /\ what \in {"help", "dir", "opcodelist"}
  /\ shown' = <<what>> /\ History(1) /\ ShortLine /\ Same /\ UNCHANGED prompting

Opcode(known) ==
  /\ shown' = <<"opcode", known>>
  /\ added' = (IF known THEN 1 ELSE 0) /\ flag' = FALSE
  /\ ShortLine /\ Same /\ UNCHANGED prompting

Quit == /\ prompting' = FALSE /\ symbols' = << >> /\ shown' = <<"quit">> /\ NoHistory /\ ShortLine
        /\ UNCHANGED <<memory, address, progaddr, exsym, sim_error, bp_list, loads>>

PrintHistory ==
  /\ added' = 1 /\ flag' = FALSE /\ shown' = IF flag THEN << >> ELSE <<"history">>
  /\ ShortLine /\ Same /\ UNCHANGED prompting

(* print_dump(): the end is cut at the end of the memory.                  *)
Dump(start, end) ==
  LET last == IF end >= MaxMemory THEN MaxMemory - 1 ELSE end IN
  /\ IF start > last
     THEN shown' = << >> /\ added' = 0 /\ UNCHANGED address
     ELSE /\ shown' = [i \in 1 .. last - start + 1 |-> memory[start + i - 1]]
          /\ address' = (last + 1) % MaxMemory /\ added' = 1
  /\ flag' = FALSE
  /\ UNCHANGED <<memory, progaddr, exsym, sim_error, symbols, bp_list, loads, prompting>>

DumpNext == Dump(address, address + DumpLength - 1) /\ ShortLine
DumpFrom(a) == Dump(a, a + DumpLength - 1) /\ ShortLine
DumpRange(a, b) == Dump(a, b) /\ ShortLine

Store(mem) ==
  /\ memory' = mem /\ loads' = << >>
  /\ shown' = << >> /\ History(1) /\ ShortLine
  /\ UNCHANGED <<address, progaddr, exsym, sim_error, symbols, bp_list, prompting>>

Edit(a) == Store([memory EXCEPT ![a] = EditValue])
\* find_command_f() does not end the text it reads the value from: digits of
\* an earlier line may be part of it.
Fill(a, b) ==
  /\ a <= b
  /\ \E v \in {EditValue} \cup Unset :
       Store([x \in DOMAIN memory |-> IF x \in a .. b THEN v ELSE memory[x]])
FillRefused(a, b) == /\ a > b /\ NoHistory /\ shown' = << >> /\ ShortLine /\ Same
                     /\ UNCHANGED prompting
Reset == Store([x \in DOMAIN memory |-> 0])

TypeFile(found) ==
  /\ shown' = <<"file", found>> /\ History(IF found THEN 2 ELSE 1)
  /\ ShortLine /\ Same /\ UNCHANGED prompting

(* assemble: the old symbols are freed first.  An assembly that fails      *)
(* leaves those it had entered, and sim_error set; a file that is not     *)
(* there leaves sim_error as it was.                                      *)
Assemble(r) ==
  /\ symbols' = r.syms /\ sim_error' = ~r.ok
  /\ History(IF r.ok THEN 2 ELSE 1) /\ shown' = << >> /\ ShortLine
  /\ UNCHANGED <<memory, address, progaddr, exsym, bp_list, loads, prompting>>

AssembleMissing ==
  /\ symbols' = << >> /\ History(1) /\ shown' = << >> /\ ShortLine
  /\ UNCHANGED <<memory, address, progaddr, exsym, sim_error, bp_list, loads, prompting>>

(* A line that uses a name whose chain is empty reads a null pointer.      *)
AssembleCrash ==
  /\ prompting' = FALSE /\ shown' = << >> /\ NoHistory /\ ShortLine
  /\ \E r \in AsmResult : symbols' = r.syms
  /\ UNCHANGED <<memory, address, progaddr, exsym, sim_error, bp_list, loads>>

Symbol ==
  /\ IF sim_error THEN shown' = << >> /\ NoHistory
     ELSE shown' = Reverse(symbols) /\ History(1)
  /\ ShortLine /\ Same /\ UNCHANGED prompting

Progaddr(a) ==
  /\ progaddr' = a /\ loads' = << >> /\ shown' = << >> /\ History(1) /\ ShortLine
  /\ UNCHANGED <<memory, address, exsym, sim_error, symbols, bp_list, prompting>>

ProgaddrRefused ==
  /\ sim_error' = TRUE /\ shown' = << >> /\ History(1) /\ ShortLine
  /\ UNCHANGED <<memory, address, progaddr, exsym, symbols, bp_list, loads, prompting>>

(* The file arguments of a loader line: the third may be that of an        *)
(* earlier line.  Files that are there are counted, and as many are read   *)
(* from the first on: one that is not there in front of one that is makes  *)
(* the loader read through a null pointer.                                 *)
Arguments(args) == IF Len(args) = 1 THEN <<args[1], NoFile, input3>>
                   ELSE IF Len(args) = 2 THEN Append(args, NoFile) ELSE args
There(a) == {i \in 1 .. 3 : a[i] # NoFile}
Fits(at, files) == /\ at >= 0
                   /\ at + Sum([i \in DOMAIN files |->
                                 ObjFile[files[i]].H.addr + ObjFile[files[i]].H.len]) <= MaxMemory

LoaderArguments(args) ==
  IF Len(args) = 1 THEN ShortLine ELSE input3' = Arguments(args)[3]

LoaderCrash(args) ==
  /\ LET a == Arguments(args) IN \E i \in 1 .. Cardinality(There(a)) : a[i] = NoFile
  /\ prompting' = FALSE /\ shown' = << >> /\ NoHistory /\ LoaderArguments(args)
  /\ UNCHANGED <<memory, address, progaddr, exsym, sim_error, symbols, bp_list, loads>>

\* Without the success of both passes, no history; a symbol defined twice
\* ends pass 1 with an error message but not with sim_error set.
Loader(args, junk) ==
  LET a == Arguments(args)
      files == SubSeq(a, 1, Cardinality(There(a)))
      p1 == pass1_loader(files)
      p2 == pass2(files, p1, junk)
  IN /\ NoFile \notin Range(files) /\ Fits(p1.at, files) /\ Fits(progaddr, files)
     /\ exsym' = p1.tab
     /\ IF p1.dup
        THEN /\ sim_error' = FALSE /\ progaddr' = p1.at /\ History(1)
             /\ UNCHANGED <<memory, loads>>
        ELSE /\ memory' = p2.mem /\ progaddr' = p2.at /\ sim_error' = p2.err
             /\ IF p2.err THEN NoHistory ELSE History(1)
             /\ loads' = Append(loads, [base |-> progaddr, files |-> files, ok |-> ~p2.err])
     /\ shown' = << >> /\ LoaderArguments(args)
     /\ UNCHANGED <<address, symbols, bp_list, prompting>>

Run ==
  /\ shown' = IF bp_list = << >> THEN <<"end">> ELSE <<Head(bp_list)>>
  /\ bp_list' = IF bp_list = << >> THEN << >> ELSE Tail(bp_list)
  /\ History(1) /\ ShortLine
  /\ UNCHANGED <<memory, address, progaddr, exsym, sim_error, symbols, loads, prompting>>

MaxBreakpoints == 1                        \* bound of the runs
Breakpoint(a) ==
  /\ Len(bp_list) < MaxBreakpoints
  /\ bp_list' = Append(bp_list, a) /\ shown' = <<a>> /\ History(1) /\ ShortLine
  /\ UNCHANGED <<memory, address, progaddr, exsym, sim_error, symbols, loads, prompting>>
BreakpointsClear ==
  /\ bp_list' = << >> /\ shown' = << >> /\ History(1) /\ ShortLine
  /\ UNCHANGED <<memory, address, progaddr, exsym, sim_error, symbols, loads, prompting>>
BreakpointsPrint == shown' = bp_list /\ History(1) /\ ShortLine /\ Same /\ UNCHANGED prompting

\* Outside the loop's lines: none of the commands, or one with bad operands.
WrongInput == NoHistory /\ shown' = << >> /\ ShortLine /\ Same /\ UNCHANGED prompting

SicsimNext ==
  /\ prompting /\ lines < MaxLines /\ lines' = lines + 1
  /\ \/ \E w \in {"help", "dir", "opcodelist"} : Show(w)
     \/ \E k \in BOOLEAN : Opcode(k) \/ TypeFile(k)
     \/ Quit \/ PrintHistory \/ DumpNext \/ Reset \/ AssembleMissing \/ AssembleCrash \/ Symbol \/ ProgaddrRefused
     \/ Run \/ BreakpointsClear \/ BreakpointsPrint \/ WrongInput
     \/ \E a \in Addresses : DumpFrom(a) \/ Edit(a) \/ Progaddr(a) \/ Breakpoint(a)
     \/ \E a, b \in Addresses : DumpRange(a, b) \/ Fill(a, b) \/ FillRefused(a, b)
     \/ \E r \in AsmResult : Assemble(r)
     \/ \E args \in Args : LoaderCrash(args) \/ \E junk \in Unset : Loader(args, junk)

SicsimSpec == SicsimInit /\ [][SicsimNext]_sicsimVars

-----------------------------------------------------------------------------
(* What linked sections look like, computed from the object files alone    *)

SectionBase(l, k) == l.base + Sum([i \in 1 .. k - 1 |-> ObjFile[l.files[i]].H.len])

\* The address of external symbol n of a load, whichever section has it.
External(l, n) ==
  LET places == {<<k, a>> \in (DOMAIN l.files) \X (0 .. MaxMemory) :
                   LET o == ObjFile[l.files[k]] IN
                   \/ n = o.H.name /\ a = o.H.addr
                   \/ \E i \in DOMAIN o.D : o.D[i].sym = n /\ o.D[i].addr = a}
      p == CHOOSE x \in places : TRUE
  IN SectionBase(l, p[1]) + p[2] - ObjFile[l.files[p[1]]].H.addr

TextByte(o, a) == LET t == CHOOSE t \in Range(o.T) : a - t.addr \in 0 .. Len(t.bytes) - 1
                  IN t.bytes[a - t.addr + 1]
TextAddrs(o) == UNION {t.addr .. t.addr + Len(t.bytes) - 1 : t \in Range(o.T)}
\* What the M records of a word add to it.
Added(l, o, a) ==
  Sum([i \in DOMAIN o.M |->
        IF o.M[i].addr # a THEN 0
        ELSE o.M[i].sign * External(l, IF o.M[i].ref = 1 THEN o.H.name ELSE o.R[o.M[i].ref - 1])])

SectionLinked(l, k) ==
  LET o == ObjFile[l.files[k]]
      at == SectionBase(l, k)
      words == {o.M[i].addr : i \in DOMAIN o.M}
      inside == UNION {a .. a + 2 : a \in words}
      placed(a) == TextByte(o, a)
      found(a) == memory[at + a]
  IN /\ \A a \in TextAddrs(o) \ inside : found(a) = placed(a)
     /\ \A a \in words : SicWord(found, a) = SicWord(placed, a) + Added(l, o, a)

\* A section with text, assembled from address 0.
Ordinary(o) == o.T # << >> /\ o.H.addr = 0

\* Every section of every load since progaddr was last set is in memory, at
\* its place in the load and one load behind the other, each address in it
\* resolved to where the sections with the symbols are, through all that is
\* typed in between and loads that fail; no load overwrites an earlier one.
\* This holds while no loaded section only reserves space, or starts at an
\* address of its own.  The former pass 1 does not count (lines 1917-1918)
\* and pass 2 and the load map do (2058, 2147), so that the sections land
\* below where their symbols say; the symbols of the latter are entered
\* relative to its start (1914), its text is not placed so (2010).
Linked ==
  (\A i \in DOMAIN loads : \A f \in Range(loads[i].files) : Ordinary(ObjFile[f]))
    => \A i \in DOMAIN loads : loads[i].ok =>
         \A k \in DOMAIN loads[i].files : SectionLinked(loads[i], k)
=============================================================================
