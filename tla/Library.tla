------------------------------ MODULE Library ------------------------------
(* A program that calls the C library: one call at a time, over every input *)
(* of the sets below; what each promises, stated apart from how it works.   *)
EXTENDS Strings, Arithmetic, Format, FiniteSets

CONSTANTS MemSize,      \* bytes of memory the string functions work in
          ByteValues,        \* their values, NUL among them
          Elements,     \* arrays to sort and to search
          Numbers,      \* texts for atoi(), as sequences of characters
          Specs,        \* conversions to print: see FormatOf
          BufSizes, Dumps, SizesShown,
          Seeds         \* of the random numbers: sequences of bytes

VARIABLES call,         \* the call in progress and its arguments
          result

libraryVars == <<call, result>>

Memories == {m \in [0 .. MemSize - 1 -> ByteValues] : m[MemSize - 1] = NUL}
Idle == [fn |-> "none"]

----------------------------------------------------------------------------
\* A conversion is flags, a width and a precision (none, a number or a
\* star with its argument), a type, a letter and an argument.
NumberText(n) == IF n.kind = "none" THEN <<>> ELSE IF n.kind = "star" THEN <<"*">>
                 ELSE <<base_d.digits[n.n + 1]>>
NumberArgs(n) == IF n.kind = "star" THEN <<n.n>> ELSE <<>>
TypeText == [INT |-> <<>>, CHAR |-> <<"h", "h">>, SHORT |-> <<"h">>, LONG |-> <<"l">>,
             LONGLONG |-> <<"l", "l">>, INTMAX |-> <<"j">>, PTRDIFFT |-> <<"t">>, SIZET |-> <<"z">>]
FormatOf(s) == <<"a", "%">> \o s.flags \o NumberText(s.width)
               \o (IF s.precision.kind = "none" THEN <<>> ELSE <<".">> \o NumberText(s.precision))
               \o TypeText[s.type] \o <<s.letter, "%", "%">>
ArgsOf(s) == NumberArgs(s.width) \o NumberArgs(s.precision) \o <<s.arg>>

----------------------------------------------------------------------------
\* The calls.  A block or a string lies inside the memory, and what a
\* function copies without care for overlap does not overlap.

Inside(p, size) == p + size <= MemSize
Apart(p, size, q, length) == p + size <= q \/ q + length <= p

Move ==
    \E m \in Memories, dst, src \in 0 .. MemSize, size \in 0 .. MemSize :
        /\ Inside(dst, size)
        /\ Inside(src, size)
        /\ call' = [fn |-> "memmove", mem |-> m, dst |-> dst, src |-> src, size |-> size]
        /\ result' = memmove(m, dst, src, size)

Copy ==
    \E m \in Memories, dst, src \in 0 .. MemSize - 1, size \in 0 .. MemSize :
        /\ Inside(dst, size)
        /\ Apart(dst, size, src, strlen(m, src) + 1)
        /\ \/ /\ call' = [fn |-> "strlcpy", mem |-> m, dst |-> dst, src |-> src, size |-> size]
              /\ result' = strlcpy(m, dst, src, size)
           \/ /\ call' = [fn |-> "strlcat", mem |-> m, dst |-> dst, src |-> src, size |-> size]
              /\ result' = strlcat(m, dst, src, size)

Tokens ==
    \E m \in Memories, s \in 0 .. MemSize - 1, delimiters \in SUBSET (ByteValues \ {NUL}) :
        /\ call' = [fn |-> "strtok_r", mem |-> m, s |-> s, delimiters |-> delimiters]
        /\ result' = Tokenize(m, s, delimiters)

Scan ==
    \E m \in Memories, s, other \in 0 .. MemSize - 1, set \in SUBSET (ByteValues \ {NUL}) :
        /\ call' = [fn |-> "scan", mem |-> m, s |-> s, other |-> other, set |-> set]
        /\ result' = [cmp |-> strcmp(m, s, other), rev |-> strcmp(m, other, s),
                      str |-> strstr(m, s, other), pbrk |-> strpbrk(m, s, set),
                      cspn |-> strcspn(m, s, set), spn |-> strspn(m, s, set),
                      first |-> [c \in set |-> strchr(m, s, c)],
                      last |-> [c \in set |-> strrchr(m, s, c)],
                      mem |-> [c \in set |-> memchr(m, s, c, strlen(m, s))],
                      nlen |-> strnlen(m, s, strlen(m, other)),
                      fill |-> memset(m, s, NUL, strlen(m, s)).mem]

Divide ==
    \E n, d \in 0 .. b^2 - 1 :
        /\ d # 0
        /\ call' = [fn |-> "udivdi3", n |-> n, d |-> d]
        /\ result' = [q |-> udiv64(n, d), r |-> umod64(n, d)]
DivideSigned ==
    \E n, d \in -(b^2 \div 2) .. b^2 \div 2 - 1 :
        /\ d # 0
        /\ call' = [fn |-> "divdi3", n |-> n, d |-> d]
        /\ result' = [q |-> sdiv64(n, d), r |-> smod64(n, d)]

Sort ==
    \E array \in Elements :
        /\ call' = [fn |-> "sort", array |-> array]
        /\ result' = sort(array)
Look ==
    \E array \in Elements : \E key \in Range(array) \cup {0} :
        /\ \A i \in 1 .. Len(array) - 1 : array[i] <= array[i + 1]
        /\ call' = [fn |-> "bsearch", array |-> array, key |-> key]
        /\ result' = binary_search(key, array)
Read ==
    \E s \in Numbers :
        /\ call' = [fn |-> "atoi", s |-> s]
        /\ result' = atoi(s)

\* The bytes of two requests one after the other, and of one for both.
Draw ==
    \E seed \in Seeds, first, second \in 0 .. RandomSize :
        /\ call' = [fn |-> "random_bytes"]
        /\ result' = LET one == random_bytes(random_init(seed), first)
                        two == random_bytes(one, second)
                    IN [s |-> two.s, parts |-> one.out \o two.out,
                        whole |-> random_bytes(random_init(seed), first + second).out]

PrintOne ==
    \E s \in Specs, size \in BufSizes :
        /\ call' = [fn |-> "snprintf", spec |-> s, size |-> size]
        /\ result' = [out |-> vprintf(FormatOf(s), ArgsOf(s)),
                      written |-> vsnprintf(size, FormatOf(s), ArgsOf(s))]
DumpOne ==
    \E d \in Dumps :
        /\ call' = [fn |-> "hex_dump", ofs |-> d.ofs, buf |-> d.buf]
        /\ result' = hex_dump(d.ofs, d.buf)
SizeOne ==
    \E size \in SizesShown :
        /\ call' = [fn |-> "print_human_readable_size", size |-> size]
        /\ result' = print_human_readable_size(size)

EndCall == call # Idle /\ call' = Idle /\ result' = <<>>

LibraryInit == call = Idle /\ result = <<>>
LibraryNext ==
    \/ /\ call = Idle
       /\ \/ Move \/ Copy \/ Tokens \/ Scan \/ Divide \/ DivideSigned
          \/ Sort \/ Look \/ Read \/ Draw \/ PrintOne \/ DumpOne \/ SizeOne
    \/ EndCall
LibrarySpec == LibraryInit /\ [][LibraryNext]_libraryVars

----------------------------------------------------------------------------
\* string.c

Unchanged(old, new, but) == \A p \in DOMAIN old \ but : new[p] = old[p]
Prefix(s, n) == SubSeq(s, 1, Min({n, Len(s)}))

\* The longest stretches of the string at S without a delimiter.
Stretches(m, s, delimiters) ==
    LET end == s + strlen(m, s)
    IN {r \in (s .. end) \X (s .. end) :
          /\ r[1] < r[2]
          /\ \A p \in r[1] .. r[2] - 1 : m[p] \notin delimiters
          /\ r[1] = s \/ m[r[1] - 1] \in delimiters
          /\ r[2] = end \/ m[r[2]] \in delimiters}

Moved(c, r) ==
    /\ \A i \in 0 .. c.size - 1 : r.mem[c.dst + i] = c.mem[c.src + i]
    /\ Unchanged(c.mem, r.mem, c.dst .. c.dst + c.size - 1)
    /\ c.dst >= c.src => r.ret = c.dst

\* Joined(c, r, kept, text): behind the KEPT bytes of the destination, which
\* leave room for a terminator or are left alone, is TEXT as far as it goes.
Joined(c, r, kept, text) ==
    /\ r.ret = Len(kept \o text)
    /\ IF Len(kept) < c.size
       THEN /\ Text(r.mem, c.dst) = Prefix(kept \o text, c.size - 1)
            /\ Unchanged(c.mem, r.mem, c.dst .. c.dst + c.size - 1)
       ELSE r.mem = c.mem

Tokenized(c, r) ==
    LET stretches == Stretches(c.mem, c.s, c.delimiters)
        ends(i) == <<r.tokens[i], r.tokens[i] + strlen(r.mem, r.tokens[i])>>
    IN /\ Len(r.tokens) = Cardinality(stretches)
       /\ \A i \in DOMAIN r.tokens :
            /\ ends(i) \in stretches
            /\ i > 1 => r.tokens[i - 1] < r.tokens[i]
            /\ SubSeq(Text(c.mem, r.tokens[i]), 1, strlen(r.mem, r.tokens[i]))
                 = Text(r.mem, r.tokens[i])
       /\ Unchanged(c.mem, r.mem, {ends(i)[2] : i \in DOMAIN r.tokens})

Scanned(c, r) ==
    LET s == Text(c.mem, c.s)
        other == Text(c.mem, c.other)
    IN /\ (r.cmp = 0) <=> (s = other)
       /\ r.cmp = -r.rev
       /\ (r.str # NOWHERE) <=> \E i \in 1 .. Len(s) + 1 : IsPrefix(other, SubSeq(s, i, Len(s)))
       /\ r.str # NOWHERE => IsPrefix(other, Text(c.mem, r.str))
       /\ r.pbrk = IF r.cspn = Len(s) THEN NOWHERE ELSE c.s + r.cspn
       /\ r.spn = Len(s) \/ s[r.spn + 1] \notin c.set
       /\ r.spn > 0 => r.cspn = 0
       /\ \A ch \in c.set : /\ r.first[ch] <= r.last[ch]
                            /\ r.first[ch] = r.mem[ch]
                            /\ (r.first[ch] = NOWHERE) <=> (r.last[ch] = NOWHERE)
       /\ r.nlen = Min({Len(s), Len(other)})
       /\ Text(r.fill, c.s) = <<>>

\* What the string functions promise: a block that is moved arrives as it
\* was though the two overlap; a copy or an appended string is cut to its
\* room, is terminated and touches nothing else, and its length is told in
\* full; the tokens are the longest stretches without a delimiter, in their
\* order, and only the byte that ends each is changed; and the functions
\* that search agree with each other.  Two promises of the comments are
\* claimed only in part: strlcat() to a string that fills its room already
\* leaves it without a terminator (string.c:365, against 345-349), and
\* memmove() to a lower address does not return DST (45, against 21-22).
StringsExact ==
    CASE call.fn = "memmove" -> Moved(call, result)
      [] call.fn = "strlcpy" -> Joined(call, result, <<>>, Text(call.mem, call.src))
      [] call.fn = "strlcat" ->
           Joined(call, result, Text(call.mem, call.dst), Text(call.mem, call.src))
      [] call.fn = "strtok_r" -> Tokenized(call, result)
      [] call.fn = "scan" -> Scanned(call, result)
      [] OTHER -> TRUE

----------------------------------------------------------------------------
\* arithmetic.c and stdlib.c

\* N is D times the quotient and a remainder of N's sign, nearer to 0 than D.
\* Remainders are returned in one word: those that need two are not claimed.
WordRange(c) == IF c.fn = "udivdi3" THEN 0 .. b - 1 ELSE -(b \div 2) .. b \div 2 - 1
Divided(c, r) ==
    LET rest == c.n - c.d * r.q
    IN /\ Abs(rest) < Abs(c.d)
       /\ rest # 0 => (rest < 0) = (c.n < 0)
       /\ rest \in WordRange(c) => r.r = rest

CountOf(s, v) == Cardinality({i \in DOMAIN s : s[i] = v})
Sorted(array, r) ==
    /\ \A i \in 1 .. Len(r) - 1 : r[i] <= r[i + 1]
    /\ \A v \in Range(array) \cup Range(r) : CountOf(array, v) = CountOf(r, v)

\* The number whose decimal digits a text shows after blanks and a sign.
Meant(s) ==
    LET blanks == Max({i \in 0 .. Len(s) : \A j \in 1 .. i : s[j] = SPACE})
        rest == SubSeq(s, blanks + 1, Len(s))
        signed == rest # <<>> /\ rest[1] \in {PLUS, MINUS}
        body == IF signed THEN Tail(rest) ELSE rest
        cnt == Max({i \in 0 .. Len(body) : \A j \in 1 .. i : body[j] <= 9})
    IN (IF signed /\ rest[1] = MINUS THEN -1 ELSE 1)
         * FoldLeft(LAMBDA v, ch : 10 * v + ch, 0, Prefix(body, cnt))

\* What the arithmetic of the library promises: dividing never traps but by
\* zero and gives the quotient rounded towards zero (and the least number by
\* -1 itself) and the remainder, if it fits one word (arithmetic.c:131 and
\* 150 cut off the rest, against the comments above them); sorting gives the same elements in order, searching finds an
\* element that is there, and a text is read as the number it shows, the
\* least of all included.  The state of the random numbers is never but a
\* permutation of the bytes, and what is drawn does not depend on how much
\* is asked for at a time.
ArithmeticExact ==
    CASE call.fn \in {"udivdi3", "divdi3"} ->
           \/ Divided(call, result)
           \/ call.d = -1 /\ call.n = -(b^2 \div 2) /\ result.q = call.n
      [] call.fn = "sort" -> Sorted(call.array, result)
      [] call.fn = "bsearch" ->
           IF call.key \in Range(call.array) THEN call.array[result] = call.key ELSE result = 0
      [] call.fn = "random_bytes" ->
           /\ result.parts = result.whole
           /\ Range(result.s) = DOMAIN result.s
           /\ Range(result.whole) \subseteq DOMAIN result.s
      [] call.fn = "atoi" ->
           Meant(call.s) \in -(b^2 \div 2) .. b^2 \div 2 - 1 => result = Meant(call.s)
      [] OTHER -> TRUE

----------------------------------------------------------------------------
\* stdio.c

BaseOf(letter) == IF letter \in {"d", "i", "u"} THEN base_d
                  ELSE IF letter = "o" THEN base_o
                  ELSE IF letter = "X" THEN base_X ELSE base_x

\* Shows(core, v, base, grouped): CORE is the number V in its digits.
Shows(core, v, base, grouped) ==
    LET plain == SelectSeq(core, LAMBDA ch : ch # ",")
        worth(ch) == CHOOSE i \in 0 .. base.base - 1 : base.digits[i + 1] = ch
        comma(i) == grouped /\ (Len(core) - i + 1) % (base.group + 1) = 0
    IN /\ Range(plain) \subseteq {base.digits[i] : i \in 1 .. base.base}
       /\ \A i \in DOMAIN core : (core[i] = ",") = comma(i)
       /\ FoldLeft(LAMBDA n, ch : n * base.base + worth(ch), 0, plain) = v
       /\ plain # <<>> => plain[1] # "0"

\* A zero flag and a negative width from an argument pad on both sides, and
\* a precision counts the commas: no promise is made of those.
Promised(s) ==
    /\ ~(s.width.kind = "star" /\ s.width.n < 0 /\ \E i \in DOMAIN s.flags : s.flags[i] = "0")
    /\ ~(s.precision.kind # "none" /\ \E i \in DOMAIN s.flags : s.flags[i] = "'")

Printed(s, out) ==
    LET asked == {s.flags[i] : i \in DOMAIN s.flags}
        wide == IF s.width.kind = "none" THEN 0 ELSE Abs(s.width.n)
        left == /\ s.letter # "p"
                /\ "-" \in asked \/ (s.width.kind = "star" /\ s.width.n < 0)
        exact == IF s.precision.kind = "none" \/ s.precision.n < 0 THEN -1 ELSE s.precision.n
        zeros == "0" \in asked /\ ~left /\ exact < 0 /\ s.letter # "p"
        signed == s.letter \in {"d", "i"}
        v == IF signed THEN SignedArg(s.arg, s.type)
             ELSE UnsignedArg(s.arg, IF s.letter = "p" THEN "SIZET" ELSE s.type)
        alternate == "#" \in asked \/ s.letter = "p"
        sign == IF ~signed THEN <<>> ELSE IF v < 0 THEN <<"-">>
                ELSE IF "+" \in asked THEN <<"+">> ELSE IF " " \in asked THEN <<" ">> ELSE <<>>
        prefix == IF alternate /\ v # 0 /\ s.letter \in {"x", "X", "p"}
                  THEN <<"0", BaseOf(s.letter).x>> ELSE <<>>
        grouped == "'" \in asked /\ s.letter # "p"
        least == IF exact < 0 THEN 1 ELSE exact
    IN \E l, z, t \in 0 .. Len(out) :
         LET head == Dup(" ", l) \o sign \o prefix \o Dup("0", z)
             core == SubSeq(out, Len(head) + 1, Len(out) - t)
             digits == z + Len(core)
         IN /\ Len(out) >= Len(head) + t
            /\ out = head \o core \o Dup(" ", t)
            /\ Shows(core, Abs(v), BaseOf(s.letter), grouped)
            /\ Len(out) >= wide
            /\ l > 0 => ~left /\ ~zeros /\ Len(out) = wide
            /\ t > 0 => left /\ Len(out) = wide
            /\ digits >= least
            /\ s.letter = "o" /\ alternate => z > 0
            /\ z > 0 => \/ digits = least
                        \/ zeros /\ Len(out) = wide
                        \/ s.letter = "o" /\ alternate /\ z = 1

PrintedText(s, out) ==
    LET cut == IF s.precision.kind = "none" \/ s.precision.n < 0 THEN Len(s.arg) ELSE s.precision.n
        text == Prefix(s.arg, cut)
        wide == IF s.width.kind = "none" THEN 0 ELSE Abs(s.width.n)
        left == (\E i \in DOMAIN s.flags : s.flags[i] = "-") \/ (s.width.kind = "star" /\ s.width.n < 0)
        pad == Dup(" ", Max({0, wide - Len(text)}))
    IN out = IF left THEN text \o pad ELSE pad \o text

\* What formatted output promises: a number is shown in its base, whole,
\* with the sign, prefix, digits and commas asked for, at least as wide and
\* as precise as asked and padded no further, on the side asked for; the
\* text around it stands; a buffer gets what fits, terminated, and the
\* length of it all; a dump shows every byte once, in the column of its
\* address; and a size is told in the largest unit it fills.
FormatExact ==
    CASE call.fn = "snprintf" ->
           LET out == result.out
               inner == SubSeq(out, 2, Len(out) - 1)
           IN /\ out = <<"a">> \o inner \o <<"%">>
              /\ Promised(call.spec) =>
                   IF call.spec.letter = "s" THEN PrintedText(call.spec, inner)
                   ELSE Printed(call.spec, inner)
              /\ result.written.ret = Len(out)
              /\ result.written.buffer =
                   IF call.size = 0 THEN <<>> ELSE Prefix(out, call.size - 1) \o <<"NUL">>
      [] call.fn = "hex_dump" ->
           /\ \A i \in DOMAIN result : result[i].address % PerLine = 0
           /\ \A i, j \in DOMAIN result : i < j => result[i].address < result[j].address
           /\ {<<result[i].address + c - 1, result[i].columns[c]>> :
                 <<i, c>> \in {e \in (DOMAIN result) \X (1 .. PerLine) :
                                 result[e[1]].columns[e[2]] # "none"}}
                = {<<call.ofs + k - 1, call.buf[k]>> : k \in DOMAIN call.buf}
      [] call.fn = "print_human_readable_size" ->
           LET k == CHOOSE u \in 0 .. 4 : Units[u + 1] = IF call.size = 1 THEN "bytes" ELSE result.unit
           IN /\ result.n = call.size \div Factor^k
              /\ k > 0 => result.n > 0
              /\ k < 4 => result.n < Factor
      [] OTHER -> TRUE

\* What the numbers of the library are is right and what is shown of them.
NumbersExact == ArithmeticExact /\ FormatExact
=============================================================================
