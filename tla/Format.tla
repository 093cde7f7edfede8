------------------------------- MODULE Format -------------------------------
(* Formatted output of the C library (lib/stdio.c): __vprintf() over a      *)
(* format and its arguments.  Formats and output are sequences of           *)
(* one-character strings.                                                   *)
EXTENDS Integers, Sequences, SequencesExt

CONSTANTS ArgBits,         \* the width of each type of argument
          PerLine,      \* bytes on a line of hex_dump(): 16 in the code
          Factor        \* from one unit of size to the next: 1024 in the code

base_d == [base |-> 10, digits |-> <<"0","1","2","3","4","5","6","7","8","9">>,
           x |-> "none", group |-> 3]
base_o == [base |-> 8, digits |-> base_d.digits, x |-> "none", group |-> 3]
base_x == [base |-> 16, digits |-> base_d.digits \o <<"a","b","c","d","e","f">>,
           x |-> "x", group |-> 4]
base_X == [base |-> 16, digits |-> base_d.digits \o <<"A","B","C","D","E","F">>,
           x |-> "X", group |-> 4]
IsDigit(ch) == \E i \in 1 .. 10 : base_d.digits[i] = ch
DigitOf(ch) == CHOOSE i \in 0 .. 9 : base_d.digits[i + 1] = ch

\* The character at I, NUL after the last.
CharAt(format, i) == IF i <= Len(format) THEN format[i] ELSE "NUL"
Dup(ch, cnt) == [i \in 1 .. cnt |-> ch]
SignedOf(n, bits) ==
    LET low == n % 2^bits IN IF low >= 2^(bits - 1) THEN low - 2^bits ELSE low

----------------------------------------------------------------------------
\* parse_conversion(): what a conversion asks for, where its letter stands
\* and which arguments are left.

Flag(ch) == CASE ch = "-" -> {"MINUS"} [] ch = "+" -> {"PLUS"} [] ch = " " -> {"SPACE"}
              [] ch = "#" -> {"POUND"} [] ch = "0" -> {"ZERO"} [] ch = "'" -> {"GROUP"}
              [] OTHER -> {}
Normalised(flags) == flags \ ((IF "MINUS" \in flags THEN {"ZERO"} ELSE {})
                               \cup (IF "PLUS" \in flags THEN {"SPACE"} ELSE {}))
ReadFlags(format, c) ==
    LET end == Min({j \in c.next .. Len(format) + 1 : Flag(CharAt(format, j)) = {}})
    IN [c EXCEPT !.next = end,
                 !.flags = Normalised(UNION {Flag(format[j]) : j \in c.next .. end - 1})]

\* A number in the format, or the next argument for a star.
ReadNumber(format, i, args) ==
    LET end == Min({j \in i .. Len(format) + 1 : ~IsDigit(CharAt(format, j))})
    IN IF CharAt(format, i) = "*" THEN [next |-> i + 1, n |-> Head(args), args |-> Tail(args)]
       ELSE [next |-> end, args |-> args,
             n |-> FoldLeft(LAMBDA v, ch : v * 10 + DigitOf(ch), 0, SubSeq(format, i, end - 1))]

\* A negative width asks for the left; the zero flag it meets stays.
Wide(c, number) ==
    [c EXCEPT !.next = number.next, !.args = number.args,
              !.width = IF number.n < 0 THEN -number.n ELSE number.n,
              !.flags = @ \cup (IF number.n < 0 THEN {"MINUS"} ELSE {})]
ReadWidth(format, c) == Wide(c, ReadNumber(format, c.next, c.args))

\* A precision that is not negative takes back the zero flag.
Precise(c, number) ==
    [c EXCEPT !.next = number.next, !.args = number.args,
              !.precision = IF number.n < 0 THEN -1 ELSE number.n,
              !.flags = @ \ (IF number.n < 0 THEN {} ELSE {"ZERO"})]
ReadPrecision(format, c) ==
    IF CharAt(format, c.next) = "." THEN Precise(c, ReadNumber(format, c.next + 1, c.args)) ELSE c

Typed(c, one, two) ==
    LET is(type, length) == [c EXCEPT !.type = type, !.next = @ + length]
    IN CASE one = "h" /\ two = "h" -> is("CHAR", 2)
         [] one = "h" /\ two # "h" -> is("SHORT", 1)
         [] one = "l" /\ two = "l" -> is("LONGLONG", 2)
         [] one = "l" /\ two # "l" -> is("LONG", 1)
         [] one = "j" -> is("INTMAX", 1)
         [] one = "t" -> is("PTRDIFFT", 1)
         [] one = "z" -> is("SIZET", 1)
         [] OTHER -> c
ReadType(format, c) == Typed(c, CharAt(format, c.next), CharAt(format, c.next + 1))

parse_conversion(format, i, args) ==
    ReadType(format, ReadPrecision(format, ReadWidth(format, ReadFlags(format,
        [next |-> i, args |-> args, flags |-> {}, width |-> 0, precision |-> -1,
         type |-> "INT"]))))

----------------------------------------------------------------------------
\* Integers and strings

\* The digits, with a comma after each group; none for the value 0.
Digits(value, base, grouped) ==
    LET place[n \in Nat] == IF n = 0 THEN value ELSE place[n - 1] \div base.base
        cnt == Min({n \in 0 .. 32 : place[n] = 0})
        shown(n) == <<base.digits[(place[n] % base.base) + 1]>>
                      \o (IF grouped /\ n > 0 /\ n % base.group = 0 THEN <<",">> ELSE <<>>)
    IN FoldLeft(LAMBDA out, n : shown(n) \o out, <<>>, [i \in 1 .. cnt |-> i - 1])

\* Digits as many as the precision asks for, and an octal number marked.
Filled(digits, precision) == Dup("0", Max({0, precision - Len(digits)})) \o digits
Marked(digits, mark) == IF mark /\ CharAt(digits, 1) # "0" THEN <<"0">> \o digits ELSE digits
SignOf(is_signed, negative, flags) ==
    IF ~is_signed THEN <<>>
    ELSE IF negative THEN <<"-">>
    ELSE IF "PLUS" \in flags THEN <<"+">>
    ELSE IF "SPACE" \in flags THEN <<" ">> ELSE <<>>
Padded(sign, x, digits, c) ==
    LET pad(ch, asked) ==
          IF asked THEN Dup(ch, Max({0, c.width - Len(digits) - Len(x) - Len(sign)})) ELSE <<>>
    IN pad(" ", c.flags \cap {"MINUS", "ZERO"} = {}) \o sign \o x
         \o pad("0", "ZERO" \in c.flags) \o digits \o pad(" ", "MINUS" \in c.flags)

format_integer(value, is_signed, negative, base, c) ==
    Padded(SignOf(is_signed, negative, c.flags),
           IF "POUND" \in c.flags /\ value # 0 /\ base.x # "none" THEN <<"0", base.x>> ELSE <<>>,
           Marked(Filled(Digits(value, base, "GROUP" \in c.flags),
                         IF c.precision < 0 THEN 1 ELSE c.precision),
                  "POUND" \in c.flags /\ base.base = 8),
           c)

format_string(string, c) ==
    LET pad == Dup(" ", Max({0, c.width - Len(string)}))
    IN IF "MINUS" \in c.flags THEN string \o pad ELSE pad \o string

\* The argument as the type of the conversion takes it.
SignedArg(arg, type) == SignedOf(arg, ArgBits[type])
UnsignedArg(arg, type) == arg % 2^ArgBits[type]

\* One conversion letter: its output and the arguments it leaves.
Converted(letter, c, arg) ==
    LET unsigned(type, base, how) == format_integer(UnsignedArg(arg, type), FALSE, FALSE, base, how)
        signed(value) == format_integer(IF value < 0 THEN -value ELSE value, TRUE, value < 0, base_d, c)
        cut == IF c.precision < 0 THEN Len(arg) ELSE Min({c.precision, Len(arg)})
    IN CASE letter \in {"d", "i"} -> signed(SignedArg(arg, c.type))
         [] letter \in {"o", "u", "x", "X"} ->
              unsigned(c.type, CASE letter = "o" -> base_o [] letter = "u" -> base_d
                                 [] letter = "x" -> base_x [] letter = "X" -> base_X, c)
         [] letter = "c" -> format_string(<<arg>>, c)
         [] letter = "s" -> format_string(SubSeq(arg, 1, cut), c)
         [] letter = "p" -> unsigned("SIZET", base_x, [c EXCEPT !.flags = {"POUND"}])
Convert(letter, c) ==
    IF letter \in {"d", "i", "o", "u", "x", "X", "c", "s", "p"}
    THEN [out |-> Converted(letter, c, Head(c.args)), args |-> Tail(c.args)]
    ELSE [out |-> <<"<<no", letter, ">>">>, args |-> c.args]

RECURSIVE Output(_, _, _), Onwards(_, _, _), Conversion(_, _)
Onwards(format, i, done) == done.out \o Output(format, i, done.args)
Conversion(format, c) == Onwards(format, c.next + 1, Convert(CharAt(format, c.next), c))
Output(format, i, args) ==
    IF i > Len(format) THEN <<>>
    ELSE IF format[i] # "%" THEN <<format[i]>> \o Output(format, i + 1, args)
    ELSE IF CharAt(format, i + 1) = "%" THEN <<"%">> \o Output(format, i + 2, args)
    ELSE Conversion(format, parse_conversion(format, i + 1, args))
vprintf(format, args) == Output(format, 1, args)

\* The buffer's characters and the value returned.
InBuffer(buf_size, out) ==
    [ret |-> Len(out),
     buffer |-> IF buf_size = 0 THEN <<>>
                ELSE SubSeq(out, 1, Min({buf_size - 1, Len(out)})) \o <<"NUL">>]
vsnprintf(buf_size, format, args) == InBuffer(buf_size, vprintf(format, args))

----------------------------------------------------------------------------
\* The lines of hex_dump(): an address and PerLine columns, "none" where
\* the dump has no byte.
RECURSIVE Dumped(_, _)
Dumped(ofs, buf) ==
    LET start == ofs % PerLine
        end == Min({PerLine, start + Len(buf)})
        line == [address |-> ofs - start,
                 columns |-> [i \in 1 .. PerLine |->
                                IF i > start /\ i <= end THEN buf[i - start] ELSE "none"]]
    IN IF buf = <<>> THEN <<>>
       ELSE <<line>> \o Dumped(ofs + end - start, SubSeq(buf, end - start + 1, Len(buf)))
hex_dump(ofs, buf) == Dumped(ofs, buf)

Units == <<"bytes", "kB", "MB", "GB", "TB">>
print_human_readable_size(size) ==
    LET scaled[n \in 0 .. 4] == IF n = 0 THEN size ELSE scaled[n - 1] \div Factor
        unit == Min({n \in 0 .. 4 : n = 4 \/ scaled[n] < Factor})
    IN IF size = 1 THEN [n |-> 1, unit |-> "byte"]
       ELSE [n |-> scaled[unit], unit |-> Units[unit + 1]]
=============================================================================
