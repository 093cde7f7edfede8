----------------------------- MODULE Assembler -----------------------------
(***************************************************************************)
(* The two-pass SIC/XE assembler: pass() of 20141543.c and the functions   *)
(* it calls.  Pass 1 gives every statement its address and collects the    *)
(* labels; pass 2 reads the intermediate file pass 1 wrote, encodes the    *)
(* statements and packs the code into text records.                        *)
(*                                                                         *)
(* A source line is the tokens sscanf() cuts it into: a token has a prefix *)
(* ("+", "@", "#" or none), an identifier, and, for numbers and constants, *)
(* its value.  One step handles one line of a pass.  A program's first     *)
(* line is its START line (without one, the address of the first text      *)
(* record is a variable nobody has set).                                   *)
(***************************************************************************)
EXTENDS Integers, Sequences, FiniteSets, SequencesExt

CONSTANTS
  Optab,        \* mnemonic -> [op, form], from opcode.txt
  Letter,       \* name -> its first letter, the key of its chain
  Programs,     \* the lines between START and END of some programs
  StartAddr,    \* the operands of START
  MaxText       \* 30: bytes in a text record

ASSUME AssemblerAssumption ==
  /\ \A m \in DOMAIN Optab : Optab[m].op \in 0 .. 255 /\ Optab[m].form \in {"1", "2", "3/4"}
  /\ StartAddr \subseteq Nat /\ MaxText \in Nat

reg_num == [A |-> 0, X |-> 1, L |-> 2, PC |-> 8, SW |-> 9, B |-> 3, S |-> 4, T |-> 5, F |-> 6]

VARIABLES
  asm,         \* the source: START, statements, END
  ln,          \* the line to be read next
  phase,       \* "pass1", "pass2", "done", "failed", "crashed"
  locctr,      \* location counter of pass 1
  symtab,      \* letter -> chain of [sym, loc]
  base_tmp,    \* operand of the last BASE line, or ""
  inter,       \* intermediate file: [loc, pc, form, line]
  base,        \* pass 2: the base register, -1 for none
  disp,        \* the local variable of that name: keeps its value
  error_flag,
  noob,        \* no_ob_flag, pc_tmp, loc_res_tmp
  text,        \* the text record being filled: [addr, len, objF]
  records,     \* text records written
  listing      \* code written: [loc, pc, line, obj, base]

assemblerVars == <<asm, ln, phase, locctr, symtab, base_tmp, inter, base, disp, error_flag, noob, text,
          records, listing>>

NoTok == [pre |-> "", id |-> "", val |-> << >>]
Line(toks, commas, edge, dot) == [toks |-> toks, commas |-> commas, edge |-> edge, dot |-> dot]
Least(a, b) == IF a < b THEN a ELSE b

scanf_flag(l) == Least(Len(l.toks), 4)
Tok(l, i) == IF i <= scanf_flag(l) THEN l.toks[i] ELSE NoTok

\* '+' is taken off the first token, or else off the second.
ext(l) == Tok(l, 1).pre = "+" \/ Tok(l, 2).pre = "+"
is_OP(l, i) == /\ Tok(l, i).id \in DOMAIN Optab
               /\ Tok(l, i).pre = "" \/ (Tok(l, i).pre = "+" /\ (i = 2 => Tok(l, 1).pre # "+"))

(* Where the mnemonic stands: 1, 2 after a label, 0 if nowhere.            *)
MnemonicAt(l) == IF is_OP(l, 1) THEN 1 ELSE IF scanf_flag(l) >= 2 /\ is_OP(l, 2) THEN 2 ELSE 0
Operands(l) == scanf_flag(l) - MnemonicAt(l)
Cal_form(m) == IF Optab[m].form = "1" THEN 1 ELSE IF Optab[m].form = "2" THEN 2 ELSE 3
form(l) == IF MnemonicAt(l) = 0 THEN -1
           ELSE IF ext(l) THEN 4 ELSE Cal_form(Tok(l, MnemonicAt(l)).id)

Directive(l, d, n) == Tok(l, 2).id = d /\ MnemonicAt(l) = 0 /\ scanf_flag(l) = n
IsHex(t) == \A i \in DOMAIN t.val : t.val[i] \in 0 .. 15
Cal_byte(t) == IF t.id = "X'" THEN (Len(t.val) + 1) \div 2 ELSE Len(t.val)
IsByte(l) == Tok(l, 2).id = "BYTE" /\ MnemonicAt(l) = 0 /\ scanf_flag(l) >= 3

(* The bytes a statement takes; OperandError and UnknownOp are not sizes.  *)
OperandError == -1
UnknownOp == -2
Size(l) ==
  CASE MnemonicAt(l) > 0 ->
         IF \/ Operands(l) > 2
            \/ form(l) = 1 /\ Operands(l) > 0
            \/ form(l) = 2 /\ scanf_flag(l) = 1
         THEN OperandError ELSE form(l)
    [] Directive(l, "WORD", 3) -> 3
    [] Directive(l, "RESW", 3) -> 3 * Tok(l, 3).val[1]
    [] Directive(l, "RESB", 3) -> Tok(l, 3).val[1]
    [] IsByte(l) -> IF Tok(l, 3).id = "X'" /\ ~IsHex(Tok(l, 3)) THEN OperandError
                    ELSE Cal_byte(Tok(l, 3))
    [] OTHER -> UnknownOp

(* make_SYMTAB() compares with all elements of the chain but the last, and *)
(* hangs the new one behind the first that has the name.                   *)
Duplicates(chain, name) == {i \in 1 .. Len(chain) - 1 : chain[i].sym = name}
make_SYMTAB(st, name, loc) ==
  LET chain == st[Letter[name]]
      dup == Duplicates(chain, name)
      kept == IF dup = {} THEN chain ELSE SubSeq(chain, 1, CHOOSE i \in dup : \A j \in dup : i <= j)
  IN [st EXCEPT ![Letter[name]] = Append(kept, [sym |-> name, loc |-> loc])]

(* is_SYM(): -1 for a number, 0 if not found, else the last one's address. *)
is_SYM(t) ==
  IF t.id = "num" THEN -1
  ELSE LET chain == symtab[Letter[t.id]]
           found == {i \in DOMAIN chain : chain[i].sym = t.id}
       IN IF found = {} THEN 0 ELSE chain[CHOOSE i \in found : \A j \in found : j <= i].loc
ChainEmpty(t) == t.id # "num" /\ symtab[Letter[t.id]] = << >>

Letters == {Letter[n] : n \in DOMAIN Letter}
NoText == [addr |-> 0, len |-> 0, objF |-> << >>]
NoGap == [flag |-> FALSE, pc |-> 0, loc |-> 0]

AssemblerInit ==
  /\ \E a \in StartAddr, body \in Programs :
       /\ asm = body \o <<Line(<<[NoTok EXCEPT !.id = "END"], NoTok>>, 0, FALSE, FALSE)>>
       /\ locctr = a
       /\ inter = <<[loc |-> a, pc |-> -1, form |-> -1, line |-> Line(<< >>, 0, FALSE, FALSE)]>>
  /\ ln = 1 /\ phase = "pass1"
  /\ symtab = [c \in Letters |-> << >>]
  /\ base_tmp = "" /\ base = -1 /\ error_flag = FALSE
  /\ disp \in {0, 5}
  /\ noob = NoGap /\ text = NoText /\ records = << >> /\ listing = << >>

-----------------------------------------------------------------------------
(* Pass 1                                                                  *)

l1 == asm[ln]
Reads == phase = "pass1"
CommaError == l1.edge \/ l1.commas >= 2
IsEnd(l) == Tok(l, 1).id = "END" /\ scanf_flag(l) >= 2
BaseLine == Tok(l1, 1).id = "BASE" /\ scanf_flag(l1) = 2
IsStatement == Reads /\ ~CommaError /\ ~IsEnd(l1) /\ ~l1.dot /\ ~BaseLine
Defines == ~is_OP(l1, 1) /\ scanf_flag(l1) >= 3

PassTwoVars == <<base, disp, noob, records, listing>>

Write(loc, pc, fo, l) == inter' = Append(inter, [loc |-> loc, pc |-> pc, form |-> fo, line |-> l])

(* Closing the intermediate file: the line at which pass 1 stopped goes    *)
(* into it, and pass 2 starts unless there was an error.                   *)
Pass1Over ==
  /\ Write(-1, -1, -1, l1)
  /\ phase' = "pass2" /\ ln' = 2
  /\ text' = [NoText EXCEPT !.addr = inter[1].loc]
  /\ UNCHANGED <<asm, locctr, base_tmp, error_flag>> /\ UNCHANGED PassTwoVars

Pass1Failed ==
  /\ phase' = "failed" /\ error_flag' = TRUE
  /\ UNCHANGED <<asm, ln, locctr, base_tmp, inter, text>> /\ UNCHANGED PassTwoVars

Pass1Comma ==
  /\ Reads /\ CommaError
  /\ Pass1Failed /\ UNCHANGED symtab

Pass1End ==
  /\ Reads /\ ~CommaError /\ IsEnd(l1)
  /\ Pass1Over /\ UNCHANGED symtab

Pass1Skip ==
  /\ Reads /\ ~CommaError /\ ~IsEnd(l1) /\ (l1.dot \/ BaseLine)
  /\ Write(-1, -1, -1, l1)
  /\ base_tmp' = IF l1.dot THEN base_tmp ELSE Tok(l1, 2).id
  /\ ln' = ln + 1
  /\ UNCHANGED <<asm, phase, locctr, symtab, error_flag, text>> /\ UNCHANGED PassTwoVars

SymbolLoc == IF Defines THEN symtab' = make_SYMTAB(symtab, Tok(l1, 1).id, locctr) ELSE UNCHANGED symtab
Duplicate == Defines /\ Duplicates(symtab[Letter[Tok(l1, 1).id]], Tok(l1, 1).id) # {}

Pass1Statement ==
  /\ IsStatement /\ ~Duplicate /\ Size(l1) >= 0
  /\ SymbolLoc
  /\ Write(locctr, locctr + Size(l1), form(l1), l1)
  /\ locctr' = locctr + Size(l1)
  /\ ln' = ln + 1
  /\ UNCHANGED <<asm, phase, base_tmp, error_flag, text>> /\ UNCHANGED PassTwoVars

Pass1Error ==
  /\ IsStatement /\ (Duplicate \/ Size(l1) = OperandError)
  /\ SymbolLoc
  /\ Pass1Failed

(* "Invalid Operation Code" leaves the loop without setting error_flag.    *)
Pass1Unknown ==
  /\ IsStatement /\ ~Duplicate /\ Size(l1) = UnknownOp
  /\ SymbolLoc
  /\ Pass1Over

-----------------------------------------------------------------------------
(* Pass 2: the code of a statement                                         *)

r2 == inter[ln]
l2 == r2.line
arg(i) == Tok(l2, MnemonicAt(l2) + i)
IsReg(t) == t.pre = "" /\ t.id \in DOMAIN reg_num

(* check_indi_imm() sees the operand, or the mnemonic if there is none; it *)
(* is not called for a labelled statement with none or two.                *)
Checked == MnemonicAt(l2) = 1 \/ Operands(l2) = 1
ni == IF ~Checked \/ r2.form < 3 THEN 0
      ELSE IF Operands(l2) > 0 /\ arg(1).pre = "@" THEN 2
      ELSE IF Operands(l2) > 0 /\ arg(1).pre = "#" THEN 1 ELSE 3
Plain(t) == IF Checked /\ r2.form >= 3 /\ t.pre \in {"@", "#"} THEN [t EXCEPT !.pre = ""] ELSE t

PcRelative(d) == d \in -2048 .. 2047
check_pb(d) == IF PcRelative(d) THEN 0 ELSE 1

\* A displacement with what the operand adds to the flags: pb is pb_flag,
\* x the index bit; err sets error_flag, crash follows a null chain.
Value(d, pb, x) == [d |-> d, pb |-> pb, x |-> x, err |-> FALSE, crash |-> FALSE]
Relative(sym, x) ==
  LET d == sym - r2.pc
  IN Value(IF check_pb(d) = 0 THEN d ELSE sym - base, check_pb(d), x)
Bad == [Value(disp, -1, 0) EXCEPT !.err = TRUE]

OneOperand ==
  LET t == Plain(arg(1)) IN
  CASE IsReg(t) -> Value(reg_num[t.id] * 16, -1, 0)
    [] ~IsReg(t) /\ ChainEmpty(t) -> [Bad EXCEPT !.crash = TRUE]
    [] ~IsReg(t) /\ t.id = "num" -> Value(t.val[1], -1, 0)
    [] OTHER -> IF is_SYM(t) = 0 THEN Bad
                ELSE IF ext(l2) THEN Value(is_SYM(t), -1, 0) ELSE Relative(is_SYM(t), 0)

TwoOperands ==
  LET t == Plain(arg(1)) IN
  CASE IsReg(t) /\ IsReg(arg(2)) -> Value(reg_num[t.id] * 16 + reg_num[arg(2).id], -1, 0)
    [] ~(IsReg(t) /\ IsReg(arg(2))) /\ ChainEmpty(t) -> [Bad EXCEPT !.crash = TRUE]
    [] OTHER -> IF ~IsReg(t) /\ arg(2).id = "X" /\ ni \in {0, 3} THEN Relative(is_SYM(t), 8)
                ELSE Bad

cal_obj_disp == CASE Operands(l2) = 1 -> OneOperand
                  [] Operands(l2) = 2 -> TwoOperands
                  [] OTHER -> Value(IF MnemonicAt(l2) = 1 THEN 0 ELSE disp, -1, 0)

\* Remainder and quotient as C computes them.
Rem(d, q) == IF d >= 0 THEN d % q ELSE -((-d) % q)
Quo(d, q) == IF d >= 0 THEN d \div q ELSE -((-d) \div q)

(* cal_obj(): the digits of the object code; the last `fo' of them hold    *)
(* the displacement.                                                       *)
cal_obj(fo, op, v) ==
  LET d == IF v.pb = 0 /\ v.d < 0 THEN 4096 + v.d ELSE v.d
      flags == (IF ext(l2) THEN 1 ELSE 0) + v.x
               + (CASE v.pb = 0 -> 2 [] v.pb = 1 /\ base >= 0 -> 4 [] OTHER -> 0)
      digit(i) == (CASE i = 0 -> op \div 16 [] i = 1 -> (op % 16) + ni
                     [] i = 2 /\ fo >= 2 -> flags [] OTHER -> 0)
                  + (IF fo > 1 /\ i >= fo THEN Rem(Quo(d, 16 ^ (2 * fo - 1 - i)), 16) ELSE 0)
  IN [i \in 1 .. 2 * fo |-> digit(i - 1)]

\* BYTE: the hexadecimal digits, a leading 0 if they are odd in number, or
\* the characters, which are printed as two digits each.
cal_BYTE_obj(t) == IF t.id = "X'" THEN (IF Len(t.val) % 2 = 1 THEN <<0>> ELSE << >>) \o t.val
                   ELSE FlattenSeq([i \in DOMAIN t.val |-> <<t.val[i] \div 16, t.val[i] % 16>>])
byte_cnt(t) == IF t.id = "X'" THEN Len(cal_BYTE_obj(t)) ELSE Len(t.val)

-----------------------------------------------------------------------------
(* Pass 2: the lines                                                       *)

Encodes == phase = "pass2"
SkipsCode(l) == (Tok(l, 2).id \in {"RESW", "RESB"} \/ Tok(l, 1).id = "BASE") /\ scanf_flag(l) >= 2
IsGap == ~l2.dot /\ ~IsEnd(l2) /\ SkipsCode(l2)
IsNoBase == ~l2.dot /\ ~IsEnd(l2) /\ ~SkipsCode(l2) /\ Tok(l2, 1).id = "NOBASE"
IsCode == ~l2.dot /\ ~IsEnd(l2) /\ ~SkipsCode(l2) /\ ~IsNoBase

More == /\ ln' = ln + 1
        /\ UNCHANGED <<asm, locctr, symtab, base_tmp, inter>>

Pass2Comment ==
  /\ Encodes /\ ln <= Len(inter) /\ ~IsEnd(l2) /\ l2.dot
  /\ More
  /\ UNCHANGED <<phase, base, disp, error_flag, noob, text, records, listing>>

(* BASE takes the operand of the last BASE line of the program.            *)
Pass2Gap ==
  /\ Encodes /\ ln <= Len(inter) /\ IsGap
  /\ LET b == [NoTok EXCEPT !.id = base_tmp] IN
     IF Tok(l2, 1).id = "BASE" /\ base_tmp # ""
     THEN IF ChainEmpty(b)
          THEN phase' = "crashed" /\ UNCHANGED base
          ELSE base' = is_SYM(b) /\ UNCHANGED phase
     ELSE UNCHANGED <<base, phase>>
  /\ noob' = [flag |-> TRUE, pc |-> r2.pc, loc |-> r2.loc]
  /\ More
  /\ UNCHANGED <<disp, error_flag, text, records, listing>>

Pass2NoBase ==
  /\ Encodes /\ ln <= Len(inter) /\ IsNoBase
  /\ base' = -1
  /\ More
  /\ UNCHANGED <<phase, disp, error_flag, noob, text, records, listing>>

Pass2Invalid ==
  /\ Encodes /\ ln <= Len(inter) /\ IsCode /\ MnemonicAt(l2) = 0 /\ ~IsByte(l2)
  /\ error_flag' = TRUE /\ phase' = "failed"
  /\ UNCHANGED <<asm, ln, locctr, symtab, base_tmp, inter, base, disp, noob, text, records, listing>>

(* The code goes into the text record.  After lines without code the       *)
(* record ends if the last of them is longer than the code, and also if    *)
(* it would become longer than MaxText.                                    *)
(* (A variant with a mistake, for the runs: the gap looked for at the next *)
(* statement only if the record is not empty.)                             *)
LongGap_nonempty(n) == noob.flag /\ noob.pc - noob.loc > n /\ text.len > 0
LongGap(n) == noob.flag /\ noob.pc - noob.loc > n

Emit(obj, n) ==
  LET fresh(a) == [addr |-> a, len |-> n, objF |-> obj]
      full == text.len + n > MaxText
  IN /\ noob' = [noob EXCEPT !.flag = FALSE]
     /\ IF LongGap(n)
        THEN records' = Append(records, text) /\ text' = fresh(noob.pc)
        ELSE IF full
        THEN records' = Append(records, text) /\ text' = fresh(r2.loc)
        ELSE /\ text' = [text EXCEPT !.len = @ + n, !.objF = @ \o obj]
             /\ UNCHANGED records

List(obj) ==
  listing' = Append(listing, [at |-> ln, loc |-> r2.loc, pc |-> r2.pc, line |-> l2, obj |-> obj, base |-> base])

Pass2Code ==
  /\ Encodes /\ ln <= Len(inter) /\ IsCode /\ MnemonicAt(l2) > 0
  /\ LET v == cal_obj_disp
         obj == cal_obj(r2.form, Optab[Tok(l2, MnemonicAt(l2)).id].op, v)
     IN IF v.crash
        THEN phase' = "crashed" /\ UNCHANGED <<disp, error_flag, noob, text, records, listing>>
        ELSE /\ disp' = v.d
             /\ error_flag' = (error_flag \/ v.err)
             /\ List(obj) /\ Emit(obj, r2.form)
             /\ UNCHANGED phase
  /\ More /\ UNCHANGED base

Pass2Byte ==
  /\ Encodes /\ ln <= Len(inter) /\ IsCode /\ IsByte(l2)
  /\ List(cal_BYTE_obj(Tok(l2, 3))) /\ Emit(cal_BYTE_obj(Tok(l2, 3)), byte_cnt(Tok(l2, 3)))
  /\ More
  /\ UNCHANGED <<phase, base, disp, error_flag>>

(* The end: the last text record is written, or the files are removed.     *)
Pass2End ==
  /\ Encodes /\ (ln <= Len(inter) => (~l2.dot /\ IsEnd(l2)))
  /\ IF error_flag THEN phase' = "failed" /\ UNCHANGED <<records, text>>
     ELSE phase' = "done" /\ records' = Append(records, text) /\ text' = NoText
  /\ UNCHANGED <<asm, ln, locctr, symtab, base_tmp, inter, base, disp, error_flag, noob, listing>>

AssemblerNext ==
  \/ Pass1Comma \/ Pass1End \/ Pass1Skip \/ Pass1Statement \/ Pass1Error \/ Pass1Unknown
  \/ Pass2Comment \/ Pass2Gap \/ Pass2NoBase \/ Pass2Invalid \/ Pass2Code \/ Pass2Byte \/ Pass2End

AssemblerSpec == AssemblerInit /\ [][AssemblerNext]_assemblerVars

-----------------------------------------------------------------------------
(* What the object program has to say, computed from the source alone      *)

Labelled(l) == ~is_OP(l, 1) /\ scanf_flag(l) >= 3 /\ ~l.dot
IsBase(l) == Tok(l, 1).id = "BASE" /\ scanf_flag(l) = 2
Bytes(l) == IF l.dot \/ IsBase(l) THEN 0 ELSE Size(l)
Address(i) == inter[1].loc + FoldLeft(+, 0, [j \in 1 .. i - 1 |-> Bytes(asm[j])])

LinesOf(name) == {i \in 1 .. Len(asm) - 1 : Labelled(asm[i]) /\ Tok(asm[i], 1).id = name}

(* The address an instruction refers to, decoded as the machine does.      *)
Number(digits) == FoldLeft(LAMBDA n, d : 16 * n + d, 0, digits)
Target(it) ==
  LET flags == it.obj[3]
      d == Number(SubSeq(it.obj, 4, Len(it.obj)))
  IN CASE flags % 2 = 1 -> d
       [] flags \in {2, 10} -> it.pc + (IF d >= 2048 THEN d - 4096 ELSE d)
       [] flags \in {4, 12} -> it.base + d
       [] OTHER -> d

Operand(it) == Tok(it.line, MnemonicAt(it.line) + 1)
Refers(it) ==
  /\ MnemonicAt(it.line) > 0 /\ Len(it.obj) >= 6 /\ Operands(it.line) > 0
  /\ ~IsReg(Operand(it)) /\ Operand(it).id # "num"
Reachable(it, a) ==
  IF ext(it.line) THEN a < 2 ^ 16 /\ Operands(it.line) = 1
  ELSE PcRelative(a - it.pc) \/ (it.base >= 0 /\ a - it.base \in 0 .. 4095)

\* In a finished program, the code of every instruction that names a label
\* leads to the statement with that label, if PC- or base-relative addressing
\* (or 16 bits of an extended format) reach it: pass 1's location counter,
\* the symbol chains and pass 2's displacements and flags agree.
TargetsResolve ==
  phase = "done" =>
    \A k \in DOMAIN listing : LET it == listing[k] IN
      (Refers(it) /\ Cardinality(LinesOf(Operand(it).id)) = 1) =>
        \A i \in LinesOf(Operand(it).id) :
          (Reachable(it, Address(i)) /\ Address(i) > 0) => Target(it) = Address(i)

(* A gap in the addresses is seen if it ends in an area longer than the    *)
(* code behind it.                                                         *)
HasCode(l) == ~l.dot /\ (MnemonicAt(l) > 0 \/ IsByte(l))
Reserved(l) == IF HasCode(l) THEN 0 ELSE Bytes(l)
Before(i) == {j \in 1 .. i - 1 : \A k \in j .. i - 1 : ~HasCode(asm[k])}
GapSeen(i) ==
  LET gap == {j \in Before(i) : ~asm[j].dot}
  IN \/ \A j \in gap : Reserved(asm[j]) = 0
     \/ Reserved(asm[Max(gap)]) > Size(asm[i])
NoHexConstants == \A i \in DOMAIN asm : IsByte(asm[i]) => Tok(asm[i], 3).id # "X'"
AllKnown == \A i \in 1 .. Len(asm) - 1 : ~asm[i].dot /\ ~IsBase(asm[i]) => Size(asm[i]) >= 0

Image == UNION {{<<2 * r.addr + n - 1, r.objF[n]>> : n \in DOMAIN r.objF} : r \in Range(records)}
CodeOf(i) == LET S == {k \in DOMAIN listing : listing[k].at = i + 1}
             IN IF S = {} THEN << >> ELSE listing[CHOOSE k \in S : TRUE].obj

\* The text records of a finished program hold the code of every statement,
\* each digit at the address of its statement and nothing else, and their
\* length fields count their bytes - provided every gap between two
\* statements is seen, no constant is hexadecimal (its length is counted in
\* digits) and pass 1 knew every statement (else the program is cut short).
TextPlaced ==
  (/\ phase = "done" /\ NoHexConstants /\ AllKnown
   /\ \A i \in 1 .. Len(asm) - 1 : HasCode(asm[i]) => GapSeen(i)) =>
    /\ Image = UNION {{<<2 * Address(i) + n - 1, CodeOf(i)[n]>> : n \in DOMAIN CodeOf(i)}
                        : i \in {j \in 1 .. Len(asm) - 1 : HasCode(asm[j])}}
    /\ \A i \in 1 .. Len(asm) - 1 : HasCode(asm[i]) => Len(CodeOf(i)) = 2 * Size(asm[i])
    /\ \A r \in Range(records) : Len(r.objF) = 2 * r.len /\ r.len <= MaxText

\* What a finished object program is to be: its code leads where the source
\* says, and stands at the addresses the source gives it.
Assembled == TargetsResolve /\ TextPlaced
=============================================================================
