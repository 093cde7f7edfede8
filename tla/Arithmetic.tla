----------------------------- MODULE Arithmetic -----------------------------
(* The division routines of the C library (lib/arithmetic.c), for words of  *)
(* W bits and double words of 2W bits; and sorting, searching and reading   *)
(* numbers (lib/stdlib.c); and the random numbers of lib/random.c.          *)
EXTENDS Integers, Sequences, SequencesExt

CONSTANTS W,            \* 32 in the code: a power of two
          RandomSize    \* 256: values of a byte and length of the generator's state

ASSUME WAssumption == W \in Nat \ {0} /\ \E k \in 0 .. W : 2^k = W

b == 2^W
TRAP == -1              \* the processor's divide error

\* Wrapped(x, bits): the signed number with the low BITS bits of x.
Wrapped(x, bits) ==
    LET low == x % 2^bits IN IF low >= 2^(bits - 1) THEN low - 2^bits ELSE low

divl(n, d) == IF n \div d >= b THEN TRAP ELSE n \div d

\* Leading zeros by halves: W/2, W/4, ..., 1.
nlz(x) ==
    LET halves == [i \in 1 .. CHOOSE k \in 0 .. W : 2^k = W |-> W \div 2^i]
        step(acc, h) ==
            IF acc.x < 2^(W - h) THEN [n |-> acc.n + h, x |-> acc.x * 2^h] ELSE acc
    IN FoldLeft(step, [n |-> 0, x |-> x], halves).n

\* Variant: the estimate of the quotient is not corrected.
udiv64_estimate(n, d) ==
    IF d < b
    THEN LET q == divl(b * ((n \div b) % d) + (n % b), d)
         IN IF q = TRAP THEN TRAP ELSE q + b * ((n \div b) \div d)
    ELSE IF n < d THEN 0
    ELSE LET s == nlz(d \div b)
             q == divl(n \div 2, ((d * 2^s) % b^2) \div b)
         IN IF q = TRAP THEN TRAP ELSE q \div 2^(W - 1 - s)
udiv64(n, d) ==
    IF d < b
    THEN LET q == divl(b * ((n \div b) % d) + (n % b), d)
         IN IF q = TRAP THEN TRAP ELSE q + b * ((n \div b) \div d)
    ELSE IF n < d THEN 0
    ELSE LET s == nlz(d \div b)
             estimate == divl(n \div 2, ((d * 2^s) % b^2) \div b)
             q == estimate \div 2^(W - 1 - s)
         IN IF estimate = TRAP THEN TRAP
            ELSE IF (n - (q - 1) * d) % b^2 < d THEN q - 1 ELSE q

\* The remainders are returned in one word.
umod64(n, d) == (n - d * udiv64(n, d)) % b

Abs(n) == IF n < 0 THEN -n ELSE n
sdiv64(n, d) ==
    LET q_abs == udiv64(Abs(n), Abs(d))
    IN IF q_abs = TRAP THEN TRAP
       ELSE Wrapped(IF (n < 0) = (d < 0) THEN q_abs ELSE -q_abs, 2 * W)
smod64(n, d) == Wrapped(n - d * sdiv64(n, d), W)

----------------------------------------------------------------------------
\* stdlib.c.  An array is a sequence of numbers, compared as numbers.

do_swap(array, i, j) == [array EXCEPT ![i] = array[j], ![j] = array[i]]

RECURSIVE heapify(_, _, _)
heapify(array, i, cnt) ==
    LET left == IF 2 * i <= cnt /\ array[2 * i] > array[i] THEN 2 * i ELSE i
        max == IF 2 * i + 1 <= cnt /\ array[2 * i + 1] > array[left] THEN 2 * i + 1 ELSE left
    IN IF max = i THEN array ELSE heapify(do_swap(array, i, max), max, cnt)

sort(array) ==
    LET cnt == Len(array)
        heap == FoldLeft(LAMBDA a, i : heapify(a, i, cnt),
                         array, [i \in 1 .. cnt \div 2 |-> cnt \div 2 + 1 - i])
        take(a, i) == heapify(do_swap(a, 1, i), 1, i - 1)
    IN FoldLeft(take, heap, [i \in 1 .. cnt - 1 |-> cnt + 1 - i])

\* The index of a match, 0 for the null pointer; [first, last) is searched.
RECURSIVE Search(_, _, _, _)
Search(key, array, first, last) ==
    LET middle == first + (last - first) \div 2
    IN IF first >= last THEN 0
       ELSE IF key < array[middle] THEN Search(key, array, first, middle)
       ELSE IF key > array[middle] THEN Search(key, array, middle + 1, last)
       ELSE middle
binary_search(key, array) == Search(key, array, 1, Len(array) + 1)

\* Characters are digits 0 .. 9 or one of these.
SPACE == 10
PLUS == 11
MINUS == 12
LETTER == 13

\* The digits are read as a negative number: the negative range is the larger one.
atoi(s) ==
    LET start == Min({i \in 1 .. Len(s) + 1 : i = Len(s) + 1 \/ s[i] # SPACE})
        signed == start <= Len(s) /\ s[start] \in {PLUS, MINUS}
        from == IF signed THEN start + 1 ELSE start
        end == Min({i \in from .. Len(s) + 1 : i = Len(s) + 1 \/ s[i] > 9})
        value == FoldLeft(LAMBDA v, c : Wrapped(v * 10 - c, 2 * W), 0, SubSeq(s, from, end - 1))
    IN IF signed /\ s[start] = MINUS THEN value ELSE Wrapped(-value, 2 * W)

----------------------------------------------------------------------------
\* random.c.  The state is s[], s_i and s_j; a seed is the sequence of its bytes.

swap_byte(s, i, j) == [s EXCEPT ![i] = s[j], ![j] = s[i]]

\* The keyed shuffle: j runs on by the element and by the bytes of the seed in turn.
random_init(seed) ==
    LET shuffle(v, i) ==
          LET j == (v.j + v.s[i] + seed[(i % Len(seed)) + 1]) % RandomSize
          IN [s |-> swap_byte(v.s, i, j), j |-> j]
        identity == [i \in 0 .. RandomSize - 1 |-> i]
    IN [s |-> FoldLeft(shuffle, [s |-> identity, j |-> 0], [i \in 1 .. RandomSize |-> i - 1]).s,
        i |-> 0, j |-> 0]

random_byte(g) ==
    LET i == (g.i + 1) % RandomSize
        j == (g.j + g.s[i]) % RandomSize
        s == swap_byte(g.s, i, j)
    IN [s |-> s, i |-> i, j |-> j, out |-> Append(g.out, s[(s[i] + s[j]) % RandomSize])]
random_bytes(g, size) ==
    FoldLeft(LAMBDA v, k : random_byte(v), [s |-> g.s, i |-> g.i, j |-> g.j, out |-> <<>>],
             [k \in 1 .. size |-> k])
=============================================================================
