------------------------------ MODULE Strings ------------------------------
(* Strings and blocks of memory of the C library (lib/string.c).  Memory is *)
(* a function from addresses to bytes; a pointer is an address, NULL is -1. *)
(* A function that writes returns the memory it leaves and its value.       *)
EXTENDS Integers, SequencesExt, FiniteSetsExt

NUL == 0
NOWHERE == -1

\* Lowest(S): the lowest address of S, or the null pointer.
Lowest(S) == IF S = {} THEN NOWHERE ELSE Min(S)
Highest(S) == IF S = {} THEN NOWHERE ELSE Max(S)
Sign(a, b) == IF a > b THEN 1 ELSE IF a < b THEN -1 ELSE 0

strlen(m, s) == Min({p \in DOMAIN m : p >= s /\ m[p] = NUL}) - s
Text(m, s) == [i \in 1 .. strlen(m, s) |-> m[s + i - 1]]
strnlen(m, s, maxlen) ==
    Min({n \in 0 .. maxlen : n = maxlen \/ (s + n \in DOMAIN m /\ m[s + n] = NUL)})

\* The two loops that copy a block, byte by byte, upwards and downwards.
CopyUp(m, dst, src, size) ==
    LET after[n \in 0 .. size] ==
          IF n = 0 THEN m
          ELSE [after[n - 1] EXCEPT ![dst + n - 1] = after[n - 1][src + n - 1]]
    IN after[size]
CopyDown(m, dst, src, size) ==
    LET after[n \in 0 .. size] ==
          IF n = 0 THEN m
          ELSE [after[n - 1] EXCEPT ![dst + size - n] = after[n - 1][src + size - n]]
    IN after[size]

memcpy(m, dst, src, size) == [mem |-> CopyUp(m, dst, src, size), ret |-> dst]

\* Copying upwards returns the pointer the loop has moved, not DST.
memmove_up(m, dst, src, size) == [mem |-> CopyUp(m, dst, src, size), ret |-> dst + size]
memmove(m, dst, src, size) ==
    IF dst < src
    THEN [mem |-> CopyUp(m, dst, src, size), ret |-> dst + size]
    ELSE [mem |-> CopyDown(m, dst, src, size), ret |-> dst]

memset(m, dst, value, size) ==
    [mem |-> [p \in DOMAIN m |-> IF p \in dst .. dst + size - 1 THEN value ELSE m[p]],
     ret |-> dst]

memcmp(m, a, b, size) ==
    LET differ == {i \in 0 .. size - 1 : m[a + i] # m[b + i]}
    IN IF differ = {} THEN 0 ELSE Sign(m[a + Min(differ)], m[b + Min(differ)])

strcmp(m, a, b) ==
    LET shorter == Min({strlen(m, a), strlen(m, b)})
        i == Min({j \in 0 .. shorter : m[a + j] = NUL \/ m[a + j] # m[b + j]})
    IN Sign(m[a + i], m[b + i])

memchr(m, block, ch, size) == Lowest({p \in block .. block + size - 1 : m[p] = ch})

\* The terminator belongs to what strchr() searches, not to what strrchr() does.
strchr(m, s, c) == Lowest({p \in s .. s + strlen(m, s) : m[p] = c})
strrchr(m, s, c) == Highest({p \in s .. s + strlen(m, s) - 1 : m[p] = c})
strpbrk(m, s, stop) == Lowest({p \in s .. s + strlen(m, s) - 1 : m[p] \in stop})
strcspn(m, s, stop) == Min({n \in 0 .. strlen(m, s) : m[s + n] \in stop \cup {NUL}})
strspn(m, s, skip) == Min({n \in 0 .. strlen(m, s) : m[s + n] \notin skip})

strstr(m, haystack, needle) ==
    Lowest({p \in haystack .. haystack + strlen(m, haystack) - strlen(m, needle) :
             memcmp(m, p, needle, strlen(m, needle)) = 0})

strlcpy(m, dst, src, size) ==
    LET src_len == strlen(m, src)
        dst_len == Min({src_len, size - 1})
    IN [mem |-> IF size = 0 THEN m
                ELSE [CopyUp(m, dst, src, dst_len) EXCEPT ![dst + dst_len] = NUL],
        ret |-> src_len]

strlcat(m, dst, src, size) ==
    LET src_len == strlen(m, src)
        dst_len == strlen(m, dst)
        copy_cnt == Min({src_len, size - dst_len - 1})
    IN [mem |-> IF size = 0 \/ dst_len >= size THEN m
                ELSE [CopyUp(m, dst + dst_len, src, copy_cnt)
                        EXCEPT ![dst + dst_len + copy_cnt] = NUL],
        ret |-> src_len + dst_len]

\* One call of strtok_r(), at S or at the saved place.
strtok_r(m, s, delimiters) ==
    LET token == Min({p \in s .. s + strlen(m, s) : m[p] \notin delimiters})
        end == Min({p \in token .. s + strlen(m, s) : m[p] \in delimiters \cup {NUL}})
    IN IF m[token] = NUL THEN [mem |-> m, ret |-> NOWHERE, save |-> token]
       ELSE IF m[end] = NUL THEN [mem |-> m, ret |-> token, save |-> end]
       ELSE [mem |-> [m EXCEPT ![end] = NUL], ret |-> token, save |-> end + 1]

\* All tokens of a string: the loop its comment shows; where each begins.
Tokenize(m, s, delimiters) ==
    LET turn(done, n) ==
          LET one == strtok_r(done.mem, done.save, delimiters)
          IN IF one.ret = NOWHERE THEN done
             ELSE [mem |-> one.mem, save |-> one.save, tokens |-> Append(done.tokens, one.ret)]
    IN FoldLeft(turn, [mem |-> m, save |-> s, tokens |-> <<>>],
                [n \in 1 .. strlen(m, s) + 1 |-> n])
=============================================================================
