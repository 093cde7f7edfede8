----------------------------- MODULE MCPrograms -----------------------------
(***************************************************************************)
(* Assembler, Sicsim, Commands, Shell, Minesweeper and Library for TLC.  A *)
(* behaviour is of one of them: the others stay as they begin.             *)
(***************************************************************************)
EXTENDS Assembler, Sicsim, Commands, Shell, Minesweeper, Library, TLC

VARIABLE system

(***************************************************************************)
(* Assembler: all programs of up to three lines, and those of four without *)
(* errors, out of sixteen lines: the three instruction formats, both       *)
(* relative addressings, areas shorter and longer than what follows,       *)
(* constants, comments, errors of every kind.                              *)
(***************************************************************************)
Mnemonic(code, f) == [op |-> code, form |-> f]
MCOptab == [LDA |-> Mnemonic(0, "3/4"), LDB |-> Mnemonic(104, "3/4"), CLEAR |-> Mnemonic(180, "2"),
            FIX |-> Mnemonic(196, "1")]
MCLetter == [P |-> "P", AA |-> "A", AB |-> "A", BA |-> "B"]

Id(s) == [NoTok EXCEPT !.id = s]
Prefixed(p, s) == [NoTok EXCEPT !.pre = p, !.id = s]
Num(n) == [NoTok EXCEPT !.id = "num", !.val = <<n>>]
Const(k, v) == [pre |-> "", id |-> k, val |-> v]
Src(toks) == Line(toks, 0, FALSE, FALSE)

Plainly == {
  Src(<<Id("LDA"), Id("AA")>>),
  Src(<<Id("AA"), Prefixed("+", "LDA"), Prefixed("#", "BA")>>),
  Src(<<Id("AB"), Id("CLEAR"), Id("X")>>),
  Src(<<Id("BA"), Id("RESB"), Num(5000)>>),
  Src(<<Id("AB"), Id("RESW"), Num(1)>>),
  Src(<<Id("AA"), Id("BYTE"), Const("C'", <<69, 70>>)>>),
  Src(<<Id("BASE"), Id("AA")>>),
  Src(<<Id("LDB"), Id("BA"), Id("X")>>),
  Src(<<Id("FIX")>>)}
Oddly == {
  Src(<<Id("BA"), Id("BYTE"), Const("X'", <<15, 1, 5>>)>>),
  Src(<<Id("BA"), Id("BYTE"), Const("X'", <<15, 16>>)>>),
  Line(<<Id("LDA"), Prefixed("@", "AB")>>, 2, FALSE, FALSE),
  Line(<<Id("remark")>>, 0, FALSE, TRUE),
  Src(<<Id("NOBASE")>>),
  Src(<<Id("BA"), Id("WORD"), Num(1)>>),
  Src(<<Id("FIX"), Id("AA")>>)}
MCSources == SeqOf(Plainly \cup Oddly, 3) \cup [1 .. 4 -> Plainly]
(***************************************************************************)
(* Sicsim: five object files, two that refer to each other, one that       *)
(* refers to a symbol nobody defines and has a bad M record, one that only *)
(* reserves space, and one that starts at an address of its own.           *)
(***************************************************************************)
SectionHeader(n, len) == [name |-> n, addr |-> 0, len |-> len]
DefRecord(s, a) == [sym |-> s, addr |-> a]
TextAt(a, bs) == [addr |-> a, bytes |-> bs]
ModRecord(a, type, sign, ref) == [addr |-> a, type |-> type, sign |-> sign, ref |-> ref]

MCObjFile == [
  proga |-> [H |-> SectionHeader("A", 4), D |-> <<DefRecord("LISTA", 1)>>, R |-> <<"LISTB">>,
             T |-> <<TextAt(0, <<3, 16, 0, 1>>)>>, M |-> <<ModRecord(1, 5, 1, 2)>>],
  progb |-> [H |-> SectionHeader("B", 5), D |-> <<DefRecord("LISTB", 2)>>, R |-> <<"LISTA">>,
             T |-> <<TextAt(0, <<7>>), TextAt(1, <<0, 1, 5>>)>>,
             M |-> <<ModRecord(1, 6, 1, 2), ModRecord(1, 6, -1, 1)>>],
  progc |-> [H |-> SectionHeader("C", 3), D |-> << >>, R |-> <<"NONE">>,
             T |-> <<TextAt(0, <<0, 0, 9>>)>>, M |-> <<ModRecord(0, 6, 1, 2), ModRecord(0, 7, 1, 1)>>],
  progd |-> [H |-> SectionHeader("D", 1), D |-> <<DefRecord("AREA", 0)>>, R |-> << >>,
             T |-> << >>, M |-> << >>],
  proge |-> [H |-> [SectionHeader("E", 2) EXCEPT !.addr = 1], D |-> <<DefRecord("LISTB", 2)>>,
             R |-> << >>, T |-> <<TextAt(1, <<8, 9>>)>>, M |-> << >>]]
FileArg == {"proga", "progb", "progc", "none"}
MCArgs == (SeqOf(FileArg, 3) \ {<< >>})
            \cup {<<"progd", "proga">>, <<"proge">>}
MCAsmResult == {[ok |-> TRUE, syms |-> <<"FIRST", "LAST">>], [ok |-> FALSE, syms |-> <<"FIRST">>]}

(***************************************************************************)
(* Commands: words of one or two characters with a comma before, behind,   *)
(* between them or nowhere, three chains of which one is empty, four nodes *)
(* at most.                                                                *)
(***************************************************************************)
MCOpcodeFile == <<[opcode |-> 24, mnemonic |-> "ADD"], [opcode |-> 80, mnemonic |-> "LDCH"],
                  [opcode |-> 76, mnemonic |-> "RSUB"], [opcode |-> 88, mnemonic |-> "ADD"]>>
MCCharSum == [ADD |-> 201, LDCH |-> 282, RSUB |-> 300, CADD |-> 204, J |-> 74]
OneDigit == <<1>>
TwoDigits == <<2, 27>>
NotHex == <<11, NOHEX>>
MCWords ==
    {<< >>, <<OneDigit, OneDigit>>, <<OneDigit>>, <<TwoDigits>>, <<OneDigit \o <<COMMA>> \o TwoDigits>>, <<<<COMMA>> \o OneDigit>>,
     <<TwoDigits \o <<COMMA>>, TwoDigits>>, <<OneDigit \o <<COMMA>>, NotHex>>,
     <<TwoDigits, <<COMMA>> \o OneDigit>>, <<OneDigit, <<COMMA>> \o OneDigit>>, <<TwoDigits, <<COMMA>>>>,
     <<OneDigit, <<COMMA>>, TwoDigits>>, <<NotHex, <<COMMA>>, TwoDigits>>,
     <<OneDigit \o <<COMMA>>, OneDigit, OneDigit>>}
MCResidue == {<< >>, <<13>>}
MCFillWords == {<<<<1, COMMA, 2, COMMA>> \o TwoDigits>>, <<<<1, COMMA>>, <<2, 3, COMMA>>, NotHex>>,
     <<<<1>>, <<2, COMMA, 3, 0, COMMA, 4>>>>, <<<<2, COMMA, 1, COMMA, 3>>>>,
     <<<<1, COMMA, COMMA, 3>>>>, <<<<1, COMMA, 2>>>>}

(* What later loads and the property depend on.                            *)
LoaderView == <<memory, progaddr, input3, loads, prompting, lines>>

(***************************************************************************)
(* Shell: two slots of each kind, lists of up to three elements, tables    *)
(* that double at four elements, and bitmaps of up to four bits in words   *)
(* of three with instructions on two.  A session has up to two lists (so   *)
(* the table of lists can be full), or a table, or a bitmap.  What is      *)
(* printed is not part of the view: no command reads it.                   *)
(***************************************************************************)
MCKey == {-1, 0, 1, 2}
MCHashOf == [k \in MCKey |-> CASE k = -1 -> 2 [] k = 2 -> 3 [] OTHER -> k]
MCMix == {<<1, 0, 0>>, <<2, 0, 0>>, <<0, 1, 0>>, <<0, 0, 1>>}
(***************************************************************************)
(* Minesweeper: a field of three by three with one or two mines.           *)
(***************************************************************************)
MCMines == <<2, 1>>

(***************************************************************************)
(* Library: words of four bits, lines of four columns, units of eight      *)
(* bytes, memory of five bytes of three values, a generator of five values. *)
(***************************************************************************)
MCArgBits == [CHAR |-> 4, SHORT |-> 6, INT |-> 12, LONG |-> 12, LONGLONG |-> 20,
           INTMAX |-> 20, PTRDIFFT |-> 12, SIZET |-> 12]
MCElements == UNION {[1 .. n -> 1 .. 3] : n \in 0 .. 6}
\* 127, 128 and 129 are around the largest number of two words of 4 bits.
MCNumbers ==
    {blanks \o sign \o digits \o rest :
       blanks \in {<<>>, <<SPACE, SPACE>>}, sign \in {<<>>, <<PLUS>>, <<MINUS>>},
       digits \in {<<>>, <<0>>, <<0, 7>>, <<1, 2, 7>>, <<1, 2, 8>>, <<1, 2, 9>>},
       rest \in {<<>>, <<LETTER, 3>>, <<MINUS>>, <<SPACE>>}}
NoNumber == [kind |-> "none", n |-> 0]
Given(n) == [kind |-> "number", n |-> n]
Star(n) == [kind |-> "star", n |-> n]
MCFlags == {<<>>, <<"-">>, <<"+">>, <<" ">>, <<"#">>, <<"0">>, <<"'">>, <<"0", "-">>,
            <<"+", "0">>, <<"#", "0">>, <<" ", "+">>, <<"'", "0">>, <<"#", "-">>}
MCWidths == {NoNumber, Given(7), Star(-6), Star(4)}
MCPrecisions == {NoNumber, Given(0), Given(3), Star(-1), Star(5)}
MCSpecs ==
    [flags : MCFlags, width : MCWidths, precision : MCPrecisions, type : {"INT"},
     letter : {"d", "o", "u", "x"}, arg : {0, 5, -3, 1234}]
    \cup [flags : {<<>>, <<"0">>}, width : MCWidths, precision : {NoNumber},
          type : DOMAIN MCArgBits, letter : {"i", "X", "p"}, arg : {0, 21, -5, 2047}]
    \cup [flags : {<<>>, <<"-">>}, width : MCWidths, precision : MCPrecisions, type : {"INT"},
          letter : {"s"}, arg : {<<>>, <<"h", "i">>, <<"w", "o", "r", "l", "d">>}]
MCDumps == [ofs : 0 .. 9, buf : {SubSeq(<<"A", "B", "C", "D", "E", "F", "G", "H", "I">>, 1, n) : n \in 0 .. 9}]
MCSizes == 0 .. 3 \cup {7, 8, 9, 63, 64, 65, 511, 512, 4095, 4096, 32767, 32768, 40000}
MCSeeds == [1 .. 2 -> 0 .. 4]

Contents == <<list_arr, l_cnt, hash_arr, h_cnt, bit_arr, b_cnt, m, applied, running>>
-----------------------------------------------------------------------------
Symmetry == Permutations(Elem) \cup Permutations(ObjName)
MCView == <<system, assemblerVars, LoaderView, commandsVars, Contents, gameVars, libraryVars>>

MCInit ==
    /\ AssemblerInit /\ SicsimInit /\ CommandsInit /\ ShellInit /\ GameInit /\ LibraryInit
    /\ system \in {"assembler", "sicsim", "commands", "shell", "game", "library"}
    /\ system # "assembler" => Len(asm) = 1 /\ disp = 0
OthersThan(name) ==
    /\ name # "assembler" => UNCHANGED assemblerVars
    /\ name # "sicsim" => UNCHANGED sicsimVars
    /\ name # "commands" => UNCHANGED commandsVars
    /\ name # "shell" => UNCHANGED shellVars
    /\ name # "game" => UNCHANGED gameVars
    /\ name # "library" => UNCHANGED libraryVars
MCNext ==
    /\ \/ system = "assembler" /\ AssemblerNext
       \/ system = "sicsim" /\ SicsimNext
       \/ system = "commands" /\ CommandsNext
       \/ system = "shell" /\ ShellNext
       \/ system = "game" /\ GameNext
       \/ system = "library" /\ LibraryNext
    /\ OthersThan(system)
    /\ UNCHANGED system
MCSpec == MCInit /\ [][MCNext]_<<assemblerVars, sicsimVars, commandsVars, shellVars, gameVars, libraryVars, system>>
=============================================================================
