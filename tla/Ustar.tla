------------------------------- MODULE Ustar -------------------------------
(* Headers of ustar archives (lib/ustar.c).  A header is a record of its    *)
(* fields, each a sequence of bytes as wide as the field; "rest" stands for *)
(* the fields that are always the same (mode, owners, time, link, devices). *)
EXTENDS Integers, SequencesExt, FiniteSetsExt

CONSTANTS NameWidth,    \* 100 in the code
          NumberWidth,  \* of the size and of the checksum: 12 and 8 in the code
          ULONG_MAX, INT_MAX

NUL == 0
SPACE == 32
DOT == 46
SLASH == 47
ZERO == 48      \* the digits follow it

\* enum ustar_type
REGULAR == 48
DIRECTORY == 53
EOF == -1

ByteAt(s, i) == IF i <= Len(s) THEN s[i] ELSE NUL
\* Padded(s, width): the string S in a field that was cleared before.
Padded(s, width) == [i \in 1 .. width |-> ByteAt(s, i)]
\* The string a field holds.
StringIn(field) ==
    SubSeq(field, 1, Min({i \in 1 .. Len(field) + 1 : ByteAt(field, i) = NUL}) - 1)
\* What snprintf() leaves of an octal number as wide as the field allows.
OctalField(value, width) ==
    Padded([i \in 1 .. width - 1 |-> ZERO + ((value \div 8^(width - 1 - i)) % 8)], width)

Fields == {"name", "rest", "size", "chksum", "typeflag", "magic", "version", "prefix"}
Sum(bytes) == FoldLeft(LAMBDA total, byte : total + byte, 0, bytes)

\* Variant: the size is not among the bytes that are summed up.
calculate_chksum_size(h) ==
    SPACE * NumberWidth + FoldSet(LAMBDA field, total : total + Sum(h[field]), 0,
                                  Fields \ {"chksum", "size"})
\* The field of the checksum counts as blanks.
calculate_chksum(h) ==
    SPACE * NumberWidth + FoldSet(LAMBDA field, total : total + Sum(h[field]), 0,
                                  Fields \ {"chksum"})

\* A name without the slashes, "./" and "../" it begins with.
strip_antisocial_prefixes(name) ==
    LET antisocial(i) == \/ ByteAt(name, i) = SLASH
                         \/ ByteAt(name, i) = DOT /\ ByteAt(name, i + 1) = SLASH
                         \/ /\ ByteAt(name, i) = DOT /\ ByteAt(name, i + 1) = DOT
                            /\ ByteAt(name, i + 2) = SLASH
        next(i) == Min({j \in i .. Len(name) : name[j] = SLASH}) + 1
        from[i \in 1 .. Len(name) + 1] == IF antisocial(i) THEN from[next(i)] ELSE i
        stripped == SubSeq(name, from[1], Len(name))
    IN IF stripped \in {<<>>, <<DOT, DOT>>} THEN <<DOT>> ELSE stripped

TooLong == [error |-> "name too long for ustar format"]
ustar_make_header(file_name, type, size) ==
    LET name == strip_antisocial_prefixes(file_name)
        h == [name |-> Padded(name, NameWidth), rest |-> <<SPACE>>,
              size |-> OctalField(size, NumberWidth), chksum |-> Padded(<<>>, NumberWidth),
              typeflag |-> <<type>>, magic |-> <<1, 2, NUL>>, version |-> <<ZERO, ZERO>>,
              prefix |-> <<NUL>>]
    IN IF Len(name) > NameWidth - 1 THEN TooLong
       ELSE [h EXCEPT !.chksum = OctalField(calculate_chksum(h), NumberWidth)]

\* The number in an octal field, -1 if there is none or it is too large.
BAD == -1
parse_octal_field(s) ==
    LET digit(c) == c \in ZERO .. ZERO + 7
        end == Min({i \in 1 .. Len(s) + 1 : i = Len(s) + 1 \/ ~digit(s[i])})
        shift(value, c) == IF value = BAD \/ value > ULONG_MAX \div 8 THEN BAD
                           ELSE c - ZERO + value * 8
        value == FoldLeft(shift, 0, SubSeq(s, 1, end - 1))
    IN IF end > Len(s) \/ end = 1 \/ ~(ByteAt(s, end) \in {SPACE, NUL}) THEN BAD ELSE value

is_all_zeros(bytes) == \A i \in DOMAIN bytes : bytes[i] = NUL

\* What a header says: the end of the archive, an error, or a file.
ustar_parse_header(h) ==
    LET size == IF h.typeflag[1] = REGULAR THEN parse_octal_field(h.size) ELSE 0
        error(text) == [error |-> text]
    IN IF \A field \in Fields : is_all_zeros(h[field]) THEN [type |-> EOF]
       ELSE IF h.magic # <<1, 2, NUL>> THEN error("not a ustar archive")
       ELSE IF h.version # <<ZERO, ZERO>> THEN error("invalid ustar version")
       ELSE IF parse_octal_field(h.chksum) = BAD THEN error("corrupt chksum field")
       ELSE IF parse_octal_field(h.chksum) # calculate_chksum(h) THEN error("checksum mismatch")
       ELSE IF h.name[NameWidth] # NUL \/ h.prefix[1] # NUL THEN error("file name too long")
       ELSE IF h.typeflag[1] \notin {REGULAR, DIRECTORY} THEN error("unimplemented file type")
       ELSE IF size = BAD THEN error("corrupt file size field")
       ELSE IF size > INT_MAX THEN error("file too large")
       ELSE [type |-> h.typeflag[1], size |-> size,
             name |-> strip_antisocial_prefixes(StringIn(h.name))]
=============================================================================
