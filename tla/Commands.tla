----------------------------- MODULE Commands ------------------------------
(***************************************************************************)
(* What main() of 20141543.c makes of a command line: how the operands of  *)
(* dump, edit, fill, progaddr and opcode are read, the hash table of       *)
(* opcodes, and the nodes the commands allocate and free.  What the        *)
(* commands do to memory and to the loader is the business of Sicsim.      *)
(*                                                                         *)
(* A line is its command and the words strtok() finds behind it; a word is *)
(* a sequence of characters: 0 .. 15 for hexadecimal digits, Lower + d for *)
(* those in lower case, COMMA, and NOHEX for what is neither.  Numbers are *)
(* short enough for an int.                                                *)
(***************************************************************************)
EXTENDS Integers, Sequences, FiniteSets, SequencesExt, Functions

CONSTANTS
  MAX_HASH,     \* 20: chains of the table
  OpcodeFile,   \* the lines of opcode.txt: [opcode, mnemonic]
  CharSum,      \* mnemonic -> the sum of its characters
  Words,        \* what may be typed behind dump, edit, progaddr
  FillWords,    \* and behind fill
  Residue,      \* digits an earlier call of find_command_f() may have left
  MaxNodes      \* bound of the runs: nodes allocated

ASSUME CommandsAssumption ==
  /\ MAX_HASH \in Nat \ {0} /\ MaxNodes \in Nat
  /\ \A i \in DOMAIN OpcodeFile : OpcodeFile[i].mnemonic \in DOMAIN CharSum

VARIABLES
  nodes,        \* nodes allocated and not freed
  hist,         \* the history, first command first
  symtab_nodes, \* nodes the symbol table leads to
  exsym_nodes,  \* those of the external symbol table
  bp_nodes,     \* the breakpoints in order
  reply,       \* what the last line led to
  looping       \* FALSE after quit, or a null pointer

commandsVars == <<nodes, hist, symtab_nodes, exsym_nodes, bp_nodes, reply, looping>>

-----------------------------------------------------------------------------
(* Characters and numbers                                                  *)

COMMA == 40
NOHEX == 41
Lower == 16

hex_to_dec(c) == IF c \in 0 .. 15 THEN c ELSE -1
IsHexDigit(c) == c \in 0 .. 15 \cup Lower + 10 .. Lower + 15
dump_check(word) == \A i \in DOMAIN word : IsHexDigit(word[i])

\* Digit by digit from the last, with growing powers of 16; -1 at any other
\* character, and at digits in lower case.
str_to_hex(word) ==
  IF \E i \in DOMAIN word : hex_to_dec(word[i]) = -1 THEN -1
  ELSE LET n == Len(word)
           Step(acc, i) == [sum |-> acc.sum + hex_to_dec(word[n + 1 - i]) * acc.j, j |-> 16 * acc.j]
       IN FoldLeft(Step, [sum |-> 0, j |-> 1], [i \in 1 .. n |-> i]).sum

(* strtol() and sscanf("%X"): the digits in front, in either case.         *)
HexPrefix(word) == IF dump_check(word) THEN word
                ELSE SubSeq(word, 1, (CHOOSE i \in DOMAIN word :
                       ~IsHexDigit(word[i]) /\ \A j \in 1 .. i - 1 : IsHexDigit(word[j])) - 1)
strtol(word) == FoldLeft(LAMBDA v, c : 16 * v + (c % Lower), 0, HexPrefix(word))

CommaAt(word) == IF COMMA \in Range(word) THEN CHOOSE i \in DOMAIN word : word[i] = COMMA ELSE 0
Behind(word, i) == SubSeq(word, i + 1, Len(word))

-----------------------------------------------------------------------------
(* The operands of dump and edit                                           *)

Refused == <<-1>>

\* start,end
OneWord(word) ==
  LET at == CommaAt(word) IN
  IF at \in {1, Len(word)} \/ ~dump_check(SelectSeq(word, LAMBDA c : c # COMMA)) THEN Refused
  ELSE <<strtol(word), strtol(Behind(word, at))>>

\* start, end or start ,end.  A start of one character has k = 0.
(* (A variant with a mistake, for the runs: the comma in front of the      *)
(* second operand is not overwritten.)                                     *)
TwoWords_uncleared(first, second) ==
  LET k == Len(first)
      Both(a, b) == IF dump_check(a) /\ dump_check(b) THEN <<strtol(a), strtol(b)>> ELSE Refused
  IN IF k > 1 /\ first[k] = COMMA THEN Both(SubSeq(first, 1, k - 1), second) ELSE Refused
TwoWords(first, second) ==
  LET k == Len(first)
      Both(a, b) == IF dump_check(a) /\ dump_check(b) THEN <<strtol(a), strtol(b)>> ELSE Refused
  IN IF k > 1 /\ first[k] = COMMA THEN Both(SubSeq(first, 1, k - 1), second)
     ELSE IF k > 1 /\ second[1] = COMMA THEN Both(first, [second EXCEPT ![1] = 0])
     ELSE Refused

\* start , end
ThreeWords(first, second, third) ==
  IF second = <<COMMA>> /\ dump_check(first) /\ dump_check(third)
  THEN <<strtol(first), strtol(third)>> ELSE Refused

find_command(words) ==
  CASE Len(words) = 1 -> OneWord(words[1])
    [] Len(words) = 2 -> TwoWords(words[1], words[2])
    [] Len(words) = 3 -> ThreeWords(words[1], words[2], words[3])
    [] OTHER -> Refused

CommaCount(words) == Len(SelectSeq(FlattenSeq(words), LAMBDA c : c = COMMA))

\* dump goes on where the last one ended, or shows 160 bytes from start on.
DumpOperands(words) ==
  CASE CommaCount(words) = 1 -> find_command(words)
    [] CommaCount(words) = 0 /\ Len(words) <= 1 /\ dump_check(FlattenSeq(words)) ->
         [i \in DOMAIN words |-> strtol(words[i])]
    [] OTHER -> Refused
EditOperands(words) == IF CommaCount(words) = 1 THEN find_command(words) ELSE Refused

(* The operands of fill: the words are put together in tmp_co, which is    *)
(* not terminated, so that what an earlier call left there may go on the   *)
(* value.  The first and the last character may be no comma, and a second  *)
(* one not stand behind a first.                                           *)
find_command_f(words, left) ==
  LET text == FlattenSeq(words)
      n == Len(text)
      first == CommaAt(text)
      end == Behind(text, first)
      value == Behind(end, CommaAt(end)) \o left
  IN IF \/ COMMA \in {text[1], text[n], end[1]}
        \/ ~dump_check(SelectSeq(text, LAMBDA c : c # COMMA))
        \/ strtol(text) > strtol(end)
     THEN Refused
     ELSE <<strtol(text), strtol(end), strtol(value)>>

-----------------------------------------------------------------------------
(* The opcodes                                                             *)

hash_Func(mnemonic) == CharSum[mnemonic] % MAX_HASH
createHashTable(table, entry) == [table EXCEPT ![hash_Func(entry.mnemonic)] = Append(@, entry)]
Read_Op == FoldLeft(createHashTable, [key \in 0 .. MAX_HASH - 1 |-> << >>], OpcodeFile)

(* What printHashNode() prints.  The loop that looks at all elements but   *)
(* the last stops at the one it prints, and the test behind the loop finds *)
(* it again.                                                               *)
printHashNode(mnemonic, chain) ==
  LET found == {i \in DOMAIN chain : chain[i].mnemonic = mnemonic}
      at == CHOOSE i \in found : \A j \in found : i <= j
      op == chain[at].opcode
  IN IF found = {} THEN << >> ELSE IF at < Len(chain) THEN <<op, op>> ELSE <<op>>

printHashTable == FlattenSeq([i \in 1 .. MAX_HASH |-> Read_Op[i - 1]])

-----------------------------------------------------------------------------
(* The command lines                                                       *)

CommandsInit ==
  /\ nodes = {} /\ hist = << >> /\ symtab_nodes = << >> /\ exsym_nodes = << >> /\ bp_nodes = << >>
  /\ reply = [to |-> "start"] /\ looping = TRUE

\* The first n nodes that are free, in order.
Fresh(n, used) ==
  SubSeq(SelectSeq([i \in 1 .. MaxNodes |-> i], LAMBDA i : i \notin used), 1, n)
Room(n, used) == Cardinality(used) + n <= MaxNodes

\* n nodes for the history, when the nodes of used are in use.
createNode(n, used) ==
  /\ Room(n, used)
  /\ hist' = hist \o Fresh(n, used) /\ nodes' = used \cup Range(Fresh(n, used))
NoNode == UNCHANGED <<hist, nodes>>
KeepNodes == UNCHANGED <<symtab_nodes, exsym_nodes, bp_nodes>>

(* A chain that is empty is a null pointer the loop reads through.         *)
FindOpcode(mnemonic, chain) ==
  /\ KeepNodes
  /\ \/ /\ chain # << >> /\ UNCHANGED looping
        /\ \E printed \in {printHashNode(mnemonic, chain)} :
             /\ reply' = [to |-> "opcode", mnemonic |-> mnemonic, printed |-> printed]
             /\ IF printed = << >> THEN NoNode ELSE createNode(1, nodes)
     \/ chain = << >> /\ looping' = FALSE /\ NoNode /\ reply' = [to |-> "crash"]

OpcodeList ==
  /\ reply' = [to |-> "opcodelist", printed |-> printHashTable]
  /\ createNode(1, nodes) /\ KeepNodes /\ UNCHANGED looping

DumpOrEdit(command, words) ==
  \E operands \in {IF command = "dump" THEN DumpOperands(words) ELSE EditOperands(words)} :
  /\ reply' = [to |-> command, words |-> words, operands |-> operands]
  /\ IF \/ operands = Refused
        \/ command = "dump" /\ Len(operands) = 2 /\ operands[1] > operands[2]
     THEN NoNode ELSE createNode(1, nodes)
  /\ KeepNodes /\ UNCHANGED looping

Filling(words, left) ==
  \E operands \in {IF CommaCount(words) = 2 THEN find_command_f(words, left) ELSE Refused} :
  /\ reply' = [to |-> "fill", words |-> words, operands |-> operands, left |-> left]
  /\ IF operands = Refused THEN NoNode ELSE createNode(1, nodes)
  /\ KeepNodes /\ UNCHANGED looping

SetProgaddr(word) ==
  /\ reply' = [to |-> "progaddr", word |-> word, value |-> str_to_hex(word)]
  /\ createNode(1, nodes) /\ KeepNodes /\ UNCHANGED looping

(* assemble frees the symbols of the one before.  A label that is defined  *)
(* twice may cut others off its chain: nothing leads to their nodes.       *)
AssembleSymbols(n, cut) ==
  LET rest == nodes \ Range(symtab_nodes)
      new == Fresh(n, rest)
  IN /\ Room(n, rest) /\ symtab_nodes' = Behind(new, cut)
     /\ createNode(IF cut = 0 THEN 2 ELSE 1, rest \cup Range(new))
     /\ reply' = [to |-> "assemble"] /\ UNCHANGED <<exsym_nodes, bp_nodes, looping>>

LoadSymbols(n, ok) ==
  LET rest == nodes \ Range(exsym_nodes)
      new == Fresh(n, rest)
  IN /\ Room(n, rest) /\ exsym_nodes' = new
     /\ IF ok THEN createNode(1, rest \cup Range(new))
        ELSE nodes' = rest \cup Range(new) /\ UNCHANGED hist
     /\ reply' = [to |-> "loader"] /\ UNCHANGED <<symtab_nodes, bp_nodes, looping>>

SetBreakpoint ==
  LET new == Fresh(1, nodes) IN
  /\ Room(1, nodes) /\ bp_nodes' = bp_nodes \o new /\ createNode(1, nodes \cup Range(new))
  /\ reply' = [to |-> "bp"] /\ UNCHANGED <<symtab_nodes, exsym_nodes, looping>>

(* (A variant with a mistake, for the runs: bp_list is not moved on.)      *)
free_bp_kept == UNCHANGED bp_nodes
free_bp == bp_nodes' = << >>
ClearBreakpoints ==
  /\ free_bp /\ createNode(1, nodes \ Range(bp_nodes))
  /\ reply' = [to |-> "bp clear"] /\ UNCHANGED <<symtab_nodes, exsym_nodes, looping>>

\* Run() takes a breakpoint off the list and does not free it.
RunOn ==
  /\ bp_nodes' = IF bp_nodes = << >> THEN << >> ELSE Tail(bp_nodes)
  /\ createNode(1, nodes) /\ reply' = [to |-> "run"]
  /\ UNCHANGED <<symtab_nodes, exsym_nodes, looping>>

(* quit frees the symbols, the table of opcodes and the history.           *)
Leave ==
  /\ looping' = FALSE /\ reply' = [to |-> "quit"]
  /\ nodes' = nodes \ (Range(symtab_nodes) \cup Range(hist))
  /\ symtab_nodes' = << >> /\ hist' = << >> /\ UNCHANGED <<exsym_nodes, bp_nodes>>

CommandsNext ==
  /\ looping
  /\ \/ \E mnemonic \in DOMAIN CharSum : FindOpcode(mnemonic, Read_Op[hash_Func(mnemonic)])
     \/ OpcodeList
     \/ \E command \in {"dump", "edit"}, words \in Words : DumpOrEdit(command, words)
     \/ \E words \in FillWords, left \in Residue : Filling(words, left)
     \/ \E words \in Words : Len(words) = 1 /\ SetProgaddr(words[1])
     \/ AssembleSymbols(1, 0) \/ AssembleSymbols(3, 1)
     \/ \E ok \in BOOLEAN : LoadSymbols(1, ok)
     \/ SetBreakpoint \/ ClearBreakpoints \/ RunOn \/ Leave

CommandsSpec == CommandsInit /\ [][CommandsNext]_commandsVars

-----------------------------------------------------------------------------
(* What a user means by a line, from its text without the blanks           *)

Cut(text) == FoldLeft(LAMBDA parts, c : IF c = COMMA THEN Append(parts, << >>)
                                        ELSE [parts EXCEPT ![Len(parts)] = Append(@, c)],
                      << << >> >>, text)
Numeral(text) == LET n == Len(text)
                     p[i \in 0 .. n] == IF i = 0 THEN 0 ELSE 16 * p[i - 1] + (text[i] % Lower)
                 IN p[n]
Parts(words) == Cut(FlattenSeq(words))
NumbersOf(parts) == [i \in DOMAIN parts |-> Numeral(parts[i])]
AllDigits(parts) == \A i \in DOMAIN parts : dump_check(parts[i])

Complete(parts) == \A i \in DOMAIN parts : parts[i] # << >>

\* The ways to write two numbers that the comments name: no blank inside one.
TwoNumbers(words) ==
  /\ Len(Parts(words)) = 2 /\ AllDigits(Parts(words)) /\ Complete(Parts(words))
  /\ \/ Len(words) = 1
     \/ Len(words) = 2 /\ COMMA \in {Last(words[1]), Head(words[2])}
     \/ Len(words) = 3 /\ words[2] = <<COMMA>>
\* One of them the code refuses, whatever it is commented as: 4 ,5.
Missed(words) == Len(words) = 2 /\ Len(words[1]) = 1
OneNumber(words) == Len(words) = 1 /\ CommaCount(words) = 0 /\ AllDigits(words)

OperandsRead ==
  CASE reply.to \in {"dump", "edit"} ->
         LET parts == Parts(reply.words)
             taken == reply.operands # Refused
         IN /\ taken => AllDigits(parts)
            /\ taken /\ Complete(parts) => reply.operands = NumbersOf(parts)
            /\ TwoNumbers(reply.words) /\ ~Missed(reply.words) => taken
            /\ reply.to = "dump" /\ (reply.words = << >> \/ OneNumber(reply.words)) => taken
    [] reply.to = "fill" /\ reply.operands # Refused ->
         LET parts == Parts(reply.words) IN
         /\ AllDigits(parts) /\ reply.operands[1] <= reply.operands[2]
         /\ SubSeq(reply.operands, 1, 2) = SubSeq(NumbersOf(parts), 1, 2)
         /\ reply.left = << >> => reply.operands[3] = Numeral(parts[3])
    [] reply.to = "progaddr" ->
         reply.value = IF \E c \in Range(reply.word) : c \notin 0 .. 15 THEN -1
                        ELSE Numeral(reply.word)
    [] OTHER -> TRUE

OpcodesFound ==
  CASE reply.to = "opcode" ->
         LET lines == SelectSeq(OpcodeFile, LAMBDA e : e.mnemonic = reply.mnemonic) IN
         IF lines = << >> THEN reply.printed = << >>
         ELSE Range(reply.printed) = {lines[1].opcode}
    [] reply.to = "opcodelist" ->
         \A e \in Range(OpcodeFile) \cup Range(reply.printed) :
           Cardinality({i \in DOMAIN reply.printed : reply.printed[i] = e})
             = Cardinality({i \in DOMAIN OpcodeFile : OpcodeFile[i] = e})
    [] OTHER -> TRUE

NodeLists == <<hist, symtab_nodes, exsym_nodes, bp_nodes>>
NodesOwned ==
  /\ \A i \in 1 .. 4 : IsInjective(NodeLists[i]) /\ Range(NodeLists[i]) \subseteq nodes
  /\ \A i, j \in 1 .. 4 : i # j => Range(NodeLists[i]) \cap Range(NodeLists[j]) = {}

(* A line leads to the call its text says: dump and edit get the numbers   *)
(* in front of and behind the comma in the four ways of writing them that  *)
(* the comments name, dump also one number or none, fill its range,        *)
(* progaddr its address, and what has a character that is no digit is      *)
(* refused; a mnemonic gets the opcode of its first line in opcode.txt     *)
(* whatever chain it is in.  No command frees a node a list still leads    *)
(* to, and none is in two lists.  Two things are not claimed, for the code *)
(* does them otherwise: start ,end with a start of one digit is refused    *)
(* (lines 611-628, against the comment at 628), and a comma with nothing   *)
(* behind it (edit 12 ,) gives a zero (line 629).                          *)
CommandsExact == OperandsRead /\ OpcodesFound /\ NodesOwned
=============================================================================
