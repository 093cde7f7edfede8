--------------------------- MODULE Squish_proofs ---------------------------
(* What the relaying programs of Squish keep for every size of their buffers, *)
(* every input and every order of partial reads and writes: no byte is        *)
(* doubled or overtaken, none stays behind when the emulator's death is       *)
(* noticed, and what stays behind when the line is closed is in the pipes.    *)
EXTENDS Squish, SequenceTheorems, TLAPS

Bytes == Seq(Nat)
PipeState == [in : BOOLEAN, out : BOOLEAN, buf : Bytes, ofs : Nat, active : BOOLEAN]

STypeOK ==
    /\ program \in {"pty", "unix"}
    /\ at_call \in {"select", "r1", "w1", "r2", "w2", "final", "accept", "ended"}
    /\ pipes \in [1 .. 2 -> PipeState]
    /\ stdin \in 0 .. Len(Input)
    /\ stdout \in Bytes /\ passed \in Bytes /\ said \in Bytes
    /\ link \in [open : BOOLEAN, up : Bytes, down : Bytes]
    /\ child \in {"alive", "dead"} /\ sigchld \in {"none", "sent", "noticed"}
    /\ exit_code \in {"none", "died", "closed", "SIGPIPE", "over"}

\* What a pipe holds lies within its buffer.
PipesFit == \A i \in 1 .. 2 : size(pipes[i]) + pipes[i].ofs <= BUFSIZ

\* A relay that has given up its connection.
Dropped == at_call = "accept" \/ exit_code = "over"
\* A byte the child wrote is on stdout, in the second pipe or on the link, and
\* these three in a row are what it wrote.
FromChild ==
    /\ (stdout \o pipes[2].buf) \o link.up = said
    /\ Dropped => ~link.open
\* A byte read of stdin has been passed on or is in the first pipe.
ToChild == passed \o pipes[1].buf = SubSeq(Input, 1, stdin)
\* SIGCHLD tells the truth, and is acted on when all is on stdout.
Death ==
    /\ sigchld # "none" => child = "dead"
    /\ child = "dead" => ~link.open
    /\ at_call = "final" => child = "dead"
    /\ exit_code # "none" <=> at_call = "ended"
    /\ exit_code = "died" => child = "dead" /\ stdout = said

SInv == STypeOK /\ PipesFit /\ FromChild /\ ToChild /\ Death

\* What select() allowed to be read has room until it is read.
ReadHasRoom ==
    /\ at_call \in {"r1", "w1", "r2"} /\ <<"r", 2>> \in ready
    => size(pipes[2]) + pipes[2].ofs < BUFSIZ
-----------------------------------------------------------------------------
(* Sequences: what is cut off one and put behind another.                   *)

\* A part read or written and the rest of it are the whole.
LEMMA CutSeq ==
    ASSUME NEW s \in Bytes, NEW n \in 0 .. Len(s)
    PROVE  /\ SubSeq(s, 1, n) \in Bytes /\ SubSeq(s, n + 1, Len(s)) \in Bytes
           /\ Len(SubSeq(s, 1, n)) = n /\ Len(SubSeq(s, n + 1, Len(s))) = Len(s) - n
           /\ SubSeq(s, 1, n) \o SubSeq(s, n + 1, Len(s)) = s
<1>1. Len(s) \in Nat  BY LenProperties DEF Bytes
<1>2. \A i \in 1 .. Len(s) : s[i] \in Nat  BY ElementOfSeq DEF Bytes
<1>3. SubSeq(s, 1, n) \in Seq(Nat) /\ Len(SubSeq(s, 1, n)) = n
  <2>1. \A i \in 1 .. n : s[i] \in Nat  BY <1>1, <1>2
  <2> QED  BY <1>1, <2>1, SubSeqProperties, Z3
<1>4. SubSeq(s, n + 1, Len(s)) \in Seq(Nat) /\ Len(SubSeq(s, n + 1, Len(s))) = Len(s) - n
  <2>1. \A i \in n + 1 .. Len(s) : s[i] \in Nat  BY <1>1, <1>2
  <2>2. n + 1 \in Int /\ Len(s) \in Int  BY <1>1
  <2> QED  BY <1>1, <2>1, <2>2, SubSeqProperties, Z3
<1>5. SubSeq(s, 1, n) \o SubSeq(s, n + 1, Len(s)) = SubSeq(s, 1, Len(s))
  <2>1. 1 \in 1 .. Len(s) + 1 /\ n \in 1 - 1 .. Len(s) /\ Len(s) \in n .. Len(s)  BY <1>1
  <2> QED  BY <2>1, ConcatAdjacentSubSeq DEF Bytes
<1>6. SubSeq(s, 1, Len(s)) = s  BY SubSeqFull DEF Bytes
<1> QED  BY <1>3, <1>4, <1>5, <1>6 DEF Bytes

\* Bytes behind bytes are bytes, and none is lost.
LEMMA JoinSeq ==
    ASSUME NEW s \in Bytes, NEW t \in Bytes
    PROVE  s \o t \in Bytes /\ Len(s \o t) = Len(s) + Len(t)
BY ConcatProperties DEF Bytes

\* Three runs of bytes in a row, however they are grouped.
LEMMA JoinAssociative ==
    ASSUME NEW s \in Bytes, NEW t \in Bytes, NEW u \in Bytes
    PROVE  (s \o t) \o u = s \o (t \o u)
BY ConcatAssociative, SMTT(30) DEF Bytes

\* Moving the first n bytes of b behind a moves none of them against another.
LEMMA MovedBytes ==
    ASSUME NEW a \in Bytes, NEW b \in Bytes, NEW n \in 0 .. Len(b)
    PROVE  (a \o SubSeq(b, 1, n)) \o SubSeq(b, n + 1, Len(b)) = a \o b
<1> DEFINE first == SubSeq(b, 1, n)
           rest == SubSeq(b, n + 1, Len(b))
<1>1. first \in Bytes /\ rest \in Bytes /\ first \o rest = b  BY CutSeq
<1>2. (a \o first) \o rest = a \o (first \o rest)
  <2> HIDE DEF first, rest
  <2> QED  BY <1>1, JoinAssociative, ZenonT(30)
<1> QED  BY <1>1, <1>2

\* What comes first is a prefix of the whole.
LEMMA PrefixOfJoin ==
    ASSUME NEW s \in Bytes, NEW t \in Bytes
    PROVE  IsPrefix(s, s \o t)
<1>1. Len(s) \in Nat /\ Len(t) \in Nat  BY LenProperties DEF Bytes
<1>2. Len(s \o t) = Len(s) + Len(t)  BY JoinSeq
<1>3. SubSeq(s, 1, Len(s)) = s  BY SubSeqFull DEF Bytes
<1>4. SubSeq(s \o t, 1, Len(s)) = s
  <2>1. CASE Len(s) = 0
    <3>1. s = <<>>  BY <2>1, EmptySeq DEF Bytes
    <3>2. SubSeq(s \o t, 1, 0) = <<>>  BY SubSeqEmpty
    <3> QED  BY <2>1, <3>1, <3>2
  <2>2. CASE Len(s) # 0
    <3>1. 1 \in 1 .. Len(s) /\ Len(s) \in 1 .. Len(s)  BY <1>1, <2>2
    <3>2. SubSeq(s \o t, 1, Len(s)) = SubSeq(s, 1, Len(s))  BY <3>1, SubSeqOfConcat1 DEF Bytes
    <3> QED  BY <1>3, <3>2
  <2> QED  BY <2>1, <2>2
<1> QED  BY <1>1, <1>2, <1>3, <1>4 DEF IsPrefix

\* Bytes are a prefix of themselves.
LEMMA PrefixOfItself ==
    ASSUME NEW s \in Bytes
    PROVE  IsPrefix(s, s)
BY LenProperties DEF IsPrefix, Bytes

-----------------------------------------------------------------------------
(* The invariant.                                                           *)

\* Two new pipes.
LEMMA PairOf ==
    ASSUME NEW S, NEW a \in S
    PROVE  <<a, a>> \in [1 .. 2 -> S] /\ <<a, a>>[1] = a /\ <<a, a>>[2] = a
OBVIOUS

\* The invariant holds at the start.
LEMMA SInvInit == SquishInit => SInv
<1> SUFFICES ASSUME SquishInit PROVE SInv  OBVIOUS
<1> USE SquishAssumption DEF SquishInit, PtyStarted, UnixStarted, Wire, Pipe
<1>1. <<>> \in Bytes /\ Len(<<>>) = 0  BY EmptySeq DEF Bytes
<1>2. pipes[1] = Pipe /\ pipes[2] = Pipe /\ pipes \in [1 .. 2 -> PipeState]
  <2>1. Pipe \in PipeState  BY <1>1 DEF PipeState
  <2> QED  BY <2>1, PairOf DEF SquishInit
<1>3. Len(Input) \in Nat /\ SubSeq(Input, 1, 0) = <<>>
  <2>1. Input \in Seq(Nat)  OBVIOUS
  <2>2. Len(Input) \in Nat  BY <2>1, LenProperties
  <2>3. SubSeq(Input, 1, 0) = <<>>  BY SubSeqEmpty
  <2> QED  BY <2>2, <2>3
<1>4. STypeOK
  <2>0. \E o \in BOOLEAN : link = [open |-> o, up |-> <<>>, down |-> <<>>]  OBVIOUS
  <2>1. link \in [open : BOOLEAN, up : Bytes, down : Bytes]  BY ONLY <1>1, <2>0
  <2>2. stdin \in 0 .. Len(Input)  BY <1>3
  <2> QED  BY <1>1, <1>2, <2>1, <2>2 DEF STypeOK
<1>5. PipesFit  BY <1>1, <1>2 DEF PipesFit, size
<1>6. <<>> \o <<>> = <<>>  BY ConcatEmptySeq, <1>1 DEF Bytes
<1>7. FromChild  BY <1>1, <1>2, <1>6, PrefixOfItself DEF FromChild, Dropped
<1>8. ToChild  BY <1>2, <1>3, <1>6 DEF ToChild
<1>9. Death  BY DEF Death
<1> QED  BY <1>4, <1>5, <1>7, <1>8, <1>9 DEF SInv

\* A step that leaves the bytes and the pipes alone.
LEMMA SInvQuiet ==
    ASSUME SInv, ChildDied \/ Select \/ (\E call \in {"r", "w"}, i \in 1 .. 2 : Skip(call, i))
                 \/ AcceptInterrupted \/ Hear \/ Close \/ Connect \/ Die \/ Send \/ Signal
    PROVE  SInv'
<1> USE SquishAssumption
        DEF SInv, ChildDied, Select, Skip, AcceptInterrupted, Hear, Close, Connect, Die, Send, Signal,
            Rest, world, Continue, End, After, Name
<1>0. UNCHANGED <<pipes, stdin, stdout, passed, said, program>>  OBVIOUS
<1>1. link' \in [open : BOOLEAN, up : Bytes, down : Bytes] /\ link'.up = link.up
      /\ (~link.open => ~link'.open)
  <2>1. CASE Hear
    <3>1. link.down # <<>> => Tail(link.down) \in Bytes
      BY HeadTailProperties DEF STypeOK, Bytes
    <3> QED  BY <2>1, <3>1 DEF STypeOK
  <2>2. CASE ~Hear  BY <2>2 DEF STypeOK
  <2> QED  BY <2>1, <2>2
<1>2. at_call' \in {"select", "r1", "w1", "r2", "w2", "final", "accept", "ended"}
      /\ child' \in {"alive", "dead"} /\ sigchld' \in {"none", "sent", "noticed"}
      /\ exit_code' \in {"none", "died", "closed", "SIGPIPE", "over"}
  BY DEF STypeOK
<1>3. STypeOK'  BY <1>0, <1>1, <1>2 DEF STypeOK
<1>4. PipesFit'  BY <1>0 DEF PipesFit, size
<1>5. Dropped' <=> Dropped  BY DEF STypeOK, Dropped, Death
<1>6. FromChild'  BY <1>0, <1>1, <1>5 DEF FromChild
<1>7. ToChild'  BY <1>0 DEF ToChild
<1>8. Death'  BY <1>0, <1>1 DEF Death, STypeOK
<1> QED  BY <1>3, <1>4, <1>6, <1>7, <1>8

\* The child writes to its terminal or socket.
LEMMA SInvSay == ASSUME SInv, Say PROVE SInv'
<1> USE DEF SInv, Say, Rest
<1> DEFINE x == Len(said) + 1
<1>1. x \in Nat  BY LenProperties DEF STypeOK, Bytes
<1>2. /\ Append(said, x) \in Bytes /\ Append(said, x) = said \o <<x>>
      /\ Append(link.up, x) \in Bytes /\ Append(link.up, x) = link.up \o <<x>>
  <2>1. x \in Nat /\ said \in Seq(Nat) /\ link.up \in Seq(Nat)  BY <1>1 DEF STypeOK, Bytes
  <2> HIDE DEF x
  <2>2. Append(said, x) \in Seq(Nat) /\ Append(said, x) = said \o <<x>>
    BY ONLY <2>1, AppendProperties, AppendIsConcat
  <2>3. Append(link.up, x) \in Seq(Nat) /\ Append(link.up, x) = link.up \o <<x>>
    BY ONLY <2>1, AppendProperties, AppendIsConcat
  <2> QED  BY <2>2, <2>3 DEF Bytes
<1>3. link' = [link EXCEPT !.up = Append(link.up, x)] /\ said' = Append(said, x)  OBVIOUS
<1>a. <<x>> \in Bytes  BY <1>1 DEF Bytes
<1> HIDE DEF x
<1>4. STypeOK'  BY <1>2, <1>3 DEF STypeOK
<1>5. PipesFit'  BY DEF PipesFit, size
<1>6. FromChild'
  <2>1. link.open /\ link'.open /\ ~Dropped /\ ~Dropped'  BY <1>3 DEF Dropped, FromChild, STypeOK
  <2>2. stdout \o pipes[2].buf \in Bytes /\ link.up \in Bytes
    BY JoinSeq DEF STypeOK, PipeState
  <2>3. ((stdout \o pipes[2].buf) \o link.up) \o <<x>> = (stdout \o pipes[2].buf) \o (link.up \o <<x>>)
    BY <2>2, <1>a, JoinAssociative
  <2>4. link'.up = link.up \o <<x>> /\ said' = said \o <<x>>  BY <1>2, <1>3 DEF STypeOK
  <2> QED  BY <2>1, <2>3, <2>4 DEF FromChild
<1>7. ToChild'  BY DEF ToChild
<1>8. Death'  BY <1>3 DEF Death, STypeOK
<1> QED  BY <1>4, <1>5, <1>6, <1>7, <1>8

SetSecond(ps, b, o) == [ps EXCEPT ![2].buf = b, ![2].ofs = o]

\* Setting buffer and offset of the second pipe leaves the first alone.
LEMMA SecondPipeSet ==
    ASSUME NEW ps \in [1 .. 2 -> PipeState], NEW b \in Bytes, NEW o \in Nat
    PROVE  /\ SetSecond(ps, b, o) \in [1 .. 2 -> PipeState]
           /\ SetSecond(ps, b, o)[1] = ps[1]
           /\ SetSecond(ps, b, o)[2].buf = b /\ SetSecond(ps, b, o)[2].ofs = o
<1> DEFINE q == [ps EXCEPT ![2].buf = b, ![2].ofs = o]
           second == [ps[2] EXCEPT !.buf = b, !.ofs = o]
<1>1. q[1] = ps[1]  OBVIOUS
<1>2. q[2] = second  OBVIOUS
<1>3. DOMAIN q = 1 .. 2  OBVIOUS
<1>4. ps[2] \in PipeState  OBVIOUS
<1>5. second \in PipeState /\ second.buf = b /\ second.ofs = o  BY <1>4 DEF PipeState
<1>6. q = [i \in 1 .. 2 |-> q[i]]  OBVIOUS
<1> HIDE DEF second, q
<1>7. q \in [1 .. 2 -> PipeState]  BY <1>1, <1>2, <1>5, <1>6
<1> QED  BY <1>1, <1>2, <1>5, <1>7 DEF q, SetSecond

\* squish-pty writes what is left after the death of the child.
LEMMA SInvFinalWrite == ASSUME SInv, FinalWrite PROVE SInv'
<1> USE DEF SInv, world
<1> DEFINE b == pipes[2].buf
<1>0. b \in Bytes /\ Len(b) \in Nat /\ pipes[2].ofs \in Nat
  BY LenProperties DEF STypeOK, PipeState, Bytes
<1>1. PICK n \in 1 .. Len(b) :
        /\ stdout' = stdout \o SubSeq(b, 1, n)
        /\ pipes' = [pipes EXCEPT ![2].buf = SubSeq(b, n + 1, Len(b)), ![2].ofs = pipes[2].ofs + n]
  BY DEF FinalWrite, size
<1> DEFINE first == SubSeq(b, 1, n)
           rest == SubSeq(b, n + 1, Len(b))
<1>n. n \in 0 .. Len(b)  BY <1>0
<1>s. stdout \in Bytes  BY DEF STypeOK
<1>2. first \in Bytes /\ rest \in Bytes /\ Len(rest) = Len(b) - n
  <2> HIDE DEF b
  <2> QED  BY <1>0, <1>n, CutSeq
<1>3. (stdout \o first) \o rest = stdout \o b
  <2> HIDE DEF b
  <2> QED  BY <1>0, <1>n, <1>s, MovedBytes
<1>4. stdout' \in Bytes  BY <1>1, <1>2, JoinSeq DEF STypeOK
<1>5. /\ pipes' \in [1 .. 2 -> PipeState] /\ pipes'[1] = pipes[1]
      /\ pipes'[2].buf = rest /\ pipes'[2].ofs = pipes[2].ofs + n
  <2>1. pipes \in [1 .. 2 -> PipeState] /\ pipes[2].ofs + n \in Nat  BY <1>0 DEF STypeOK
  <2>2. pipes' = [pipes EXCEPT ![2].buf = rest, ![2].ofs = pipes[2].ofs + n]  BY <1>1
  <2> HIDE DEF rest
  <2>3. pipes' = SetSecond(pipes, rest, pipes[2].ofs + n)  BY <2>2 DEF SetSecond
  <2> DEFINE o == pipes[2].ofs + n
  <2>4. pipes \in [1 .. 2 -> PipeState] /\ rest \in Bytes /\ o \in Nat  BY <1>2, <2>1
  <2> HIDE DEF o
  <2>5. /\ SetSecond(pipes, rest, o) \in [1 .. 2 -> PipeState]
        /\ SetSecond(pipes, rest, o)[1] = pipes[1]
        /\ SetSecond(pipes, rest, o)[2].buf = rest /\ SetSecond(pipes, rest, o)[2].ofs = o
    BY ONLY <2>4, SecondPipeSet
  <2>6. pipes' = SetSecond(pipes, rest, o)  BY <2>3 DEF o
  <2> QED  BY ONLY <2>5, <2>6 DEF o
<1> HIDE DEF first, rest
<1>6. STypeOK'  BY <1>4, <1>5 DEF STypeOK, FinalWrite
<1>7. PipesFit'
  <2>1. \A i \in 1 .. 2 : i = 1 \/ i = 2  OBVIOUS
  <2>2. size(pipes'[2]) + pipes'[2].ofs = size(pipes[2]) + pipes[2].ofs
    BY <1>0, <1>2, <1>5, SMT DEF size
  <2>3. size(pipes'[1]) = size(pipes[1])  BY <1>5 DEF size
  <2> QED  BY <1>5, <2>1, <2>2, <2>3 DEF PipesFit, size
<1>8. FromChild'  BY <1>1, <1>3, <1>5 DEF FromChild, Dropped, FinalWrite, first, rest, Death
<1>9. ToChild'  BY <1>5 DEF ToChild, FinalWrite
<1>10. Death'  BY DEF Death, FinalWrite
<1> QED  BY <1>6, <1>7, <1>8, <1>9, <1>10

\* squish-pty reads what is left after the death of the child.
LEMMA SInvFinalRead == ASSUME SInv, FinalRead PROVE SInv'
<1> USE SquishAssumption DEF SInv
<1> DEFINE u == link.up
           n == Smaller(BUFSIZ, Len(u))
           first == SubSeq(u, 1, n)
           rest == SubSeq(u, n + 1, Len(u))
<1>0. u \in Bytes /\ Len(u) \in Nat /\ n \in 0 .. Len(u) /\ n <= BUFSIZ /\ (n = 0 => Len(u) = 0)
  BY LenProperties DEF STypeOK, Bytes, Smaller
<1>1. stdout \in Bytes /\ pipes[2].buf = <<>>
  BY EmptySeq DEF STypeOK, FinalRead, size, PipeState, Bytes
<1>2. stdout \o <<>> = stdout  BY <1>1, ConcatEmptySeq DEF Bytes
<1>3. ~Dropped /\ ~Dropped'  BY DEF FinalRead, Dropped, End, Death
<1>4. stdout \o u = said  BY <1>1, <1>2, <1>3 DEF FromChild
<1>5. CASE n > 0
  <2>1. /\ pipes' = [pipes EXCEPT ![2].buf = first, ![2].ofs = 0]
        /\ link' = [link EXCEPT !.up = rest]
        /\ UNCHANGED <<at_call, exit_code, program, ready, stdin, stdout, passed, said, calls, child, sigchld>>
    BY <1>5 DEF FinalRead
  <2>2. first \in Bytes /\ rest \in Bytes /\ Len(first) = n
    <3> HIDE DEF u, n
    <3> QED  BY <1>0, CutSeq
  <2>3. (stdout \o first) \o rest = stdout \o u
    <3> HIDE DEF u, n
    <3> QED  BY <1>0, <1>1, MovedBytes
  <2> HIDE DEF first, rest, n
  <2>4. /\ pipes' \in [1 .. 2 -> PipeState] /\ pipes'[1] = pipes[1]
        /\ pipes'[2].buf = first /\ pipes'[2].ofs = 0
    <3>1. pipes \in [1 .. 2 -> PipeState] /\ 0 \in Nat  BY DEF STypeOK
    <3>2. pipes' = [pipes EXCEPT ![2].buf = first, ![2].ofs = 0]  BY <2>1
    <3>3. pipes' = SetSecond(pipes, first, 0)  BY <3>2 DEF SetSecond
    <3>4. /\ SetSecond(pipes, first, 0) \in [1 .. 2 -> PipeState]
          /\ SetSecond(pipes, first, 0)[1] = pipes[1]
          /\ SetSecond(pipes, first, 0)[2].buf = first /\ SetSecond(pipes, first, 0)[2].ofs = 0
      BY ONLY <2>2, <3>1, SecondPipeSet
    <3> QED  BY ONLY <3>3, <3>4
  <2>6. link' \in [open : BOOLEAN, up : Bytes, down : Bytes] /\ link'.up = rest /\ link'.open = link.open
    BY <2>1, <2>2 DEF STypeOK
  <2>7. STypeOK'  BY <2>1, <2>4, <2>6 DEF STypeOK
  <2>8. PipesFit'
    <3>1. \A i \in 1 .. 2 : i = 1 \/ i = 2  OBVIOUS
    <3>2. size(pipes'[2]) + pipes'[2].ofs <= BUFSIZ  BY <1>0, <2>2, <2>4 DEF size
    <3> QED  BY <2>4, <3>1, <3>2 DEF PipesFit, size
  <2>9. FromChild'  BY <1>3, <1>4, <2>1, <2>3, <2>4, <2>6 DEF FromChild
  <2>10. ToChild'  BY <2>1, <2>4 DEF ToChild
  <2>11. Death'  BY <2>1, <2>6 DEF Death
  <2> QED  BY <2>7, <2>8, <2>9, <2>10, <2>11
<1>6. CASE ~(n > 0)
  <2>1. /\ at_call' = "ended" /\ exit_code' = "died"
        /\ UNCHANGED <<pipes, link, program, ready, stdin, stdout, passed, said, calls, child, sigchld>>
    BY <1>6 DEF FinalRead, End
  <2>2. u = <<>>
    <3>1. Len(u) = 0  BY <1>0, <1>6
    <3> HIDE DEF u, n
    <3> QED  BY <1>0, <3>1, EmptySeq DEF Bytes
  <2>3. stdout = said  BY <1>2, <1>4, <2>2
  <2>4. STypeOK'  BY <2>1 DEF STypeOK
  <2>5. PipesFit'  BY <2>1 DEF PipesFit, size
  <2>6. FromChild'  BY <1>3, <2>1 DEF FromChild
  <2>7. ToChild'  BY <2>1 DEF ToChild
  <2>8. Death'  BY <2>1, <2>3 DEF Death, FinalRead
  <2> QED  BY <2>4, <2>5, <2>6, <2>7, <2>8
<1> QED  BY <1>5, <1>6

\* The lesser of two numbers is one of them.
LEMMA SmallerOf ==
    ASSUME NEW x \in Int, NEW y \in Int
    PROVE  Smaller(x, y) \in Int /\ Smaller(x, y) <= x /\ Smaller(x, y) <= y
           /\ (Smaller(x, y) = x \/ Smaller(x, y) = y)
BY DEF Smaller

\* What is free in a buffer.
LEMMA SpaceOf ==
    ASSUME NEW p \in PipeState
    PROVE  /\ Space(p) \in Int /\ Space(p) = BUFSIZ - p.ofs - Len(p.buf)
           /\ size(p) = Len(p.buf) /\ Len(p.buf) \in Nat /\ p.ofs \in Nat /\ BUFSIZ \in Nat
<1>1. p.buf \in Seq(Nat) /\ p.ofs \in Nat  BY DEF PipeState, Bytes
<1>2. Len(p.buf) \in Nat  BY <1>1, LenProperties
<1>3. BUFSIZ \in Nat  BY SquishAssumption
<1> QED  BY ONLY <1>1, <1>2, <1>3 DEF Space, size

\* What Filled and Wrote do to a pipe.
LEMMA FilledPipe ==
    ASSUME NEW p \in PipeState, NEW bytes \in Bytes, size(p) + p.ofs + Len(bytes) <= BUFSIZ
    PROVE  /\ Filled(p, bytes) \in PipeState
           /\ Filled(p, bytes).buf = p.buf \o bytes
           /\ size(Filled(p, bytes)) + Filled(p, bytes).ofs <= BUFSIZ
<1> DEFINE b == p.buf \o bytes
           q == [p EXCEPT !.buf = b, !.active = TRUE]
<1>1. b \in Bytes /\ Len(b) = Len(p.buf) + Len(bytes)  BY JoinSeq DEF PipeState
<1>2. Len(p.buf) \in Nat /\ Len(bytes) \in Nat  BY LenProperties DEF PipeState, Bytes
<1>3. Filled(p, bytes) = IF size(q) = BUFSIZ /\ q.ofs # 0 THEN [q EXCEPT !.ofs = 0] ELSE q
  BY DEF Filled
<1> HIDE DEF b
<1>4. q \in PipeState /\ q.buf = b /\ q.ofs = p.ofs  BY <1>1 DEF PipeState
<1>5. [q EXCEPT !.ofs = 0] \in PipeState /\ [q EXCEPT !.ofs = 0].buf = b /\ [q EXCEPT !.ofs = 0].ofs = 0
  BY <1>1 DEF PipeState
<1>6. p.ofs \in Nat  BY DEF PipeState
<1> HIDE DEF q
<1> USE SquishAssumption
<1>7. Filled(p, bytes) = q \/ (Filled(p, bytes) = [q EXCEPT !.ofs = 0])  BY <1>3
<1>8. size(q) + q.ofs <= BUFSIZ /\ size([q EXCEPT !.ofs = 0]) <= BUFSIZ
  BY <1>1, <1>2, <1>4, <1>5, <1>6, SMTT(30) DEF size
<1>9. Filled(p, bytes) \in PipeState /\ Filled(p, bytes).buf = b
      /\ size(Filled(p, bytes)) + Filled(p, bytes).ofs <= BUFSIZ
  <2>1. CASE Filled(p, bytes) = q  BY <1>4, <1>8, <2>1
  <2>2. CASE Filled(p, bytes) = [q EXCEPT !.ofs = 0]
    <3>1. size([q EXCEPT !.ofs = 0]) + 0 <= BUFSIZ  BY <1>1, <1>2, <1>5, <1>8 DEF size
    <3> QED  BY <1>5, <2>2, <3>1
  <2> QED  BY <1>7, <2>1, <2>2
<1> QED  BY <1>9 DEF b

\* Writing the first n bytes of a pipe takes them off its front.
LEMMA WrotePipe ==
    ASSUME NEW p \in PipeState, NEW n \in 0 .. size(p), size(p) + p.ofs <= BUFSIZ
    PROVE  /\ Wrote(p, n) \in PipeState
           /\ Wrote(p, n).buf = SubSeq(p.buf, n + 1, Len(p.buf))
           /\ size(Wrote(p, n)) + Wrote(p, n).ofs <= BUFSIZ
<1> DEFINE b == SubSeq(p.buf, n + 1, Len(p.buf))
           q == [p EXCEPT !.buf = b, !.ofs = p.ofs + n]
<1>0. p.buf \in Bytes /\ p.ofs \in Nat /\ Len(p.buf) \in Nat /\ n \in 0 .. Len(p.buf)
  BY LenProperties DEF PipeState, Bytes, size
<1>1. b \in Bytes /\ Len(b) = Len(p.buf) - n  BY <1>0, CutSeq
<1>3. Wrote(p, n) = IF size(q) = 0 THEN [q EXCEPT !.ofs = 0] ELSE q
  BY DEF Wrote
<1> HIDE DEF b
<1>a. p.ofs + n \in Nat  BY <1>0
<1>4. q \in PipeState /\ q.buf = b /\ q.ofs = p.ofs + n
  <2> DEFINE o == p.ofs + n
  <2>1. o \in Nat  BY <1>a
  <2> HIDE DEF o
  <2>2. [p EXCEPT !.buf = b, !.ofs = o] \in PipeState /\ [p EXCEPT !.buf = b, !.ofs = o].buf = b
        /\ [p EXCEPT !.buf = b, !.ofs = o].ofs = o
    BY <1>1, <2>1 DEF PipeState
  <2> QED  BY <2>2 DEF o
<1>5. [q EXCEPT !.ofs = 0] \in PipeState /\ [q EXCEPT !.ofs = 0].buf = b /\ [q EXCEPT !.ofs = 0].ofs = 0
  BY <1>0, <1>1 DEF PipeState
<1> HIDE DEF q
<1> USE SquishAssumption
<1>7. Wrote(p, n) = q \/ (Wrote(p, n) = [q EXCEPT !.ofs = 0])  BY <1>3
<1>8. size(q) + q.ofs <= BUFSIZ /\ size([q EXCEPT !.ofs = 0]) <= BUFSIZ
  BY <1>0, <1>1, <1>4, <1>5, Z3T(30) DEF size
<1>9. Wrote(p, n) \in PipeState /\ Wrote(p, n).buf = b
      /\ size(Wrote(p, n)) + Wrote(p, n).ofs <= BUFSIZ
  <2>1. CASE Wrote(p, n) = q  BY <1>4, <1>8, <2>1
  <2>2. CASE Wrote(p, n) = [q EXCEPT !.ofs = 0]
    <3>1. size([q EXCEPT !.ofs = 0]) + 0 <= BUFSIZ  BY <1>0, <1>1, <1>5, <1>8 DEF size
    <3> QED  BY <1>5, <2>2, <3>1
  <2> QED  BY <1>7, <2>1, <2>2
<1> QED  BY <1>9 DEF b

\* A read of stdin into the first pipe.
LEMMA SInvReadStdin == ASSUME SInv, ReadStdin PROVE SInv'
<1> USE SquishAssumption DEF SInv
<1>1. /\ UNCHANGED <<program, ready, stdout, passed, link, said, calls, child, sigchld, exit_code>>
      /\ at_call = "r1" /\ at_call' = "w1"
  BY DEF ReadStdin, Continue, world
<1>2. Dropped' <=> Dropped  BY <1>1 DEF Dropped
<1>3. Death'  BY <1>1 DEF Death
<1>4. \A i \in 1 .. 2 : i = 1 \/ i = 2  OBVIOUS
<1>5. pipes \in [1 .. 2 -> PipeState] /\ pipes[1] \in PipeState /\ pipes[2] \in PipeState
      /\ passed \in Bytes
  BY DEF STypeOK
<1>6. CASE stdin = Len(Input)
  <2>1. pipes' = [pipes EXCEPT ![1].in = FALSE] /\ stdin' = stdin  BY <1>6 DEF ReadStdin
  <2>2. /\ pipes' \in [1 .. 2 -> PipeState] /\ pipes'[2] = pipes[2]
        /\ pipes'[1].buf = pipes[1].buf /\ pipes'[1].ofs = pipes[1].ofs
    <3>1. pipes' = [pipes EXCEPT ![1] = [pipes[1] EXCEPT !.in = FALSE]]  BY <2>1
    <3> DEFINE shut == [pipes[1] EXCEPT !.in = FALSE]
    <3>2. shut \in PipeState /\ shut.buf = pipes[1].buf /\ shut.ofs = pipes[1].ofs
      BY <1>5 DEF PipeState
    <3> HIDE DEF shut
    <3>3. pipes' = [pipes EXCEPT ![1] = shut]  BY <3>1 DEF shut
    <3> QED  BY ONLY <1>5, <3>2, <3>3
  <2>3. STypeOK'  BY <1>1, <2>1, <2>2 DEF STypeOK
  <2>4. PipesFit'  BY <1>4, <2>2 DEF PipesFit, size
  <2>5. FromChild'  BY <1>1, <1>2, <2>2 DEF FromChild
  <2>6. ToChild'  BY <1>1, <2>1, <2>2 DEF ToChild
  <2> QED  BY <1>3, <2>3, <2>4, <2>5, <2>6
<1>7. CASE stdin # Len(Input)
  <2>1. PICK n \in 1 .. Smaller(Space(pipes[1]), Len(Input) - stdin) :
          /\ pipes' = [pipes EXCEPT ![1] = Filled(pipes[1], SubSeq(Input, stdin + 1, stdin + n))]
          /\ stdin' = stdin + n
    BY <1>7 DEF ReadStdin
  <2>2. /\ Len(Input) \in Nat /\ stdin \in 0 .. Len(Input) /\ n \in Nat
        /\ Len(pipes[1].buf) \in Nat /\ pipes[1].ofs \in Nat /\ pipes[1].buf \in Bytes
    BY <1>5, LenProperties, SMTT(30) DEF STypeOK, PipeState, Bytes
  <2>3. n <= Space(pipes[1]) /\ n <= Len(Input) - stdin
    <3>1. Space(pipes[1]) \in Int  BY <1>5, SpaceOf
    <3>2. Len(Input) - stdin \in Int  BY <2>2
    <3> DEFINE m == Smaller(Space(pipes[1]), Len(Input) - stdin)
    <3>3. m \in Int /\ m <= Space(pipes[1]) /\ m <= Len(Input) - stdin  BY ONLY <3>1, <3>2, SmallerOf
    <3>4. n \in 1 .. m  OBVIOUS
    <3> HIDE DEF m
    <3>5. n \in Int /\ n <= m  BY ONLY <3>3, <3>4
    <3> QED  BY ONLY <3>1, <3>2, <3>3, <3>5
  <2> DEFINE cut == SubSeq(Input, stdin + 1, stdin + n)
  <2>4. cut \in Bytes /\ Len(cut) = n
    <3>1. stdin + 1 \in Int /\ stdin + n \in Int /\ stdin + 1 <= stdin + n  BY <2>2
    <3>2. \A i \in stdin + 1 .. stdin + n : Input[i] \in Nat
      <4>1. Input \in Seq(Nat)  BY SquishAssumption
      <4>2. \A i \in stdin + 1 .. stdin + n : i \in 1 .. Len(Input)  BY ONLY <2>2, <2>3
      <4> QED  BY ONLY <4>1, <4>2, ElementOfSeq
    <3>3. cut \in Seq(Nat) /\ Len(cut) = (stdin + n) - (stdin + 1) + 1
      BY <3>1, <3>2, SubSeqProperties, Z3
    <3>4. Len(cut) = n
      <4> HIDE DEF cut
      <4> QED  BY ONLY <2>2, <3>3
    <3> QED  BY <3>3, <3>4, Zenon DEF Bytes
  <2>5. SubSeq(Input, 1, stdin) \o cut = SubSeq(Input, 1, stdin + n)
    <3>1. /\ 1 \in 1 .. Len(Input) + 1 /\ stdin \in 1 - 1 .. Len(Input)
          /\ stdin + n \in stdin .. Len(Input)
      BY <2>2, <2>3
    <3> QED  BY <3>1, ConcatAdjacentSubSeq
  <2> HIDE DEF cut
  <2> DEFINE full == Filled(pipes[1], cut)
  <2>6. full \in PipeState /\ full.buf = pipes[1].buf \o cut /\ size(full) + full.ofs <= BUFSIZ
    <3>0. /\ Space(pipes[1]) = BUFSIZ - pipes[1].ofs - Len(pipes[1].buf)
          /\ size(pipes[1]) = Len(pipes[1].buf) /\ BUFSIZ \in Nat
      BY ONLY <1>5, SpaceOf
    <3>1. size(pipes[1]) + pipes[1].ofs + Len(cut) <= BUFSIZ
      <4>1. Len(cut) = n /\ n \in Nat /\ Len(pipes[1].buf) \in Nat /\ pipes[1].ofs \in Nat
        BY ONLY <2>2, <2>4
      <4>2. n <= Space(pipes[1])  BY ONLY <2>3
      <4> HIDE DEF cut
      <4> QED  BY ONLY <3>0, <4>1, <4>2, Z3T(30)
    <3> QED  BY <1>5, <2>4, <3>1, FilledPipe
  <2>7. pipes' = [pipes EXCEPT ![1] = full] /\ stdin' = stdin + n  BY <2>1 DEF cut
  <2> HIDE DEF full
  <2>8. pipes' \in [1 .. 2 -> PipeState] /\ pipes'[2] = pipes[2] /\ pipes'[1] = full
    BY <1>5, <2>6, <2>7
  <2>9. STypeOK'
    <3>1. stdin' \in 0 .. Len(Input)  BY <2>2, <2>3, <2>7
    <3> QED  BY <1>1, <2>8, <3>1 DEF STypeOK
  <2>10. PipesFit'  BY <1>4, <2>6, <2>8 DEF PipesFit
  <2>11. FromChild'  BY <1>1, <1>2, <2>8 DEF FromChild
  <2>12. ToChild'
    <3>1. (passed \o pipes[1].buf) \o cut = passed \o (pipes[1].buf \o cut)
      BY <1>5, <2>2, <2>4, JoinAssociative
    <3>2. passed \o pipes[1].buf = SubSeq(Input, 1, stdin)  BY DEF ToChild
    <3> QED  BY <1>1, <2>5, <2>6, <2>7, <2>8, <3>1, <3>2 DEF ToChild
  <2> QED  BY <1>3, <2>9, <2>10, <2>11, <2>12
<1> QED  BY <1>6, <1>7

\* A write of the first pipe to the child.
LEMMA SInvWriteLine == ASSUME SInv, WriteLine PROVE SInv'
<1> USE SquishAssumption DEF SInv
<1>1. UNCHANGED <<program, ready, stdin, stdout, said, calls, child, sigchld>> /\ at_call = "w1"
  BY DEF WriteLine
<1>4. \A i \in 1 .. 2 : i = 1 \/ i = 2  OBVIOUS
<1>5. /\ pipes \in [1 .. 2 -> PipeState] /\ pipes[1] \in PipeState /\ passed \in Bytes
      /\ link \in [open : BOOLEAN, up : Bytes, down : Bytes] /\ link.down \in Bytes
  BY DEF STypeOK
<1>6. CASE link.open
  <2>1. PICK n \in 1 .. Smaller(size(pipes[1]), QueueSize - Len(link.down)) :
          /\ link' = [link EXCEPT !.down = link.down \o SubSeq(pipes[1].buf, 1, n)]
          /\ passed' = passed \o SubSeq(pipes[1].buf, 1, n)
          /\ pipes' = [pipes EXCEPT ![1] = Wrote(pipes[1], n)]
          /\ at_call' = "r2" /\ UNCHANGED exit_code
    BY <1>6 DEF WriteLine, Continue
  <2> DEFINE b == pipes[1].buf
             first == SubSeq(b, 1, n)
             rest == SubSeq(b, n + 1, Len(b))
  <2>2. b \in Bytes /\ Len(b) \in Nat /\ n \in 0 .. Len(b)
    BY <1>5, LenProperties DEF PipeState, Bytes, Smaller, size
  <2>3. first \in Bytes /\ rest \in Bytes
    <3> HIDE DEF b
    <3> QED  BY <2>2, CutSeq
  <2>4. (passed \o first) \o rest = passed \o b
    <3> HIDE DEF b
    <3> QED  BY <1>5, <2>2, MovedBytes
  <2> DEFINE left == Wrote(pipes[1], n)
  <2>5. left \in PipeState /\ left.buf = rest /\ size(left) + left.ofs <= BUFSIZ
    <3>1. n \in 0 .. size(pipes[1]) /\ size(pipes[1]) + pipes[1].ofs <= BUFSIZ
      BY <2>2 DEF PipesFit, size
    <3> QED  BY <1>5, <3>1, WrotePipe
  <2>6. pipes' = [pipes EXCEPT ![1] = left] /\ link' = [link EXCEPT !.down = link.down \o first]
        /\ passed' = passed \o first
    BY <2>1
  <2> HIDE DEF left, first, rest
  <2>7. pipes' \in [1 .. 2 -> PipeState] /\ pipes'[2] = pipes[2] /\ pipes'[1] = left
    BY <1>5, <2>5, <2>6
  <2>8. link.down \o first \in Bytes /\ passed \o first \in Bytes  BY <1>5, <2>3, JoinSeq
  <2>9. link' \in [open : BOOLEAN, up : Bytes, down : Bytes] /\ link'.up = link.up /\ link'.open = link.open
    BY <1>5, <2>6, <2>8
  <2>10. STypeOK'  BY <1>1, <2>1, <2>6, <2>7, <2>8, <2>9 DEF STypeOK
  <2>11. PipesFit'  BY <1>4, <2>5, <2>7 DEF PipesFit
  <2>12. FromChild'  BY <1>1, <2>1, <2>7, <2>9 DEF FromChild, Dropped
  <2>13. ToChild'  BY <1>1, <2>4, <2>5, <2>6, <2>7 DEF ToChild
  <2>14. Death'  BY <1>1, <2>1, <2>9 DEF Death
  <2> QED  BY <2>10, <2>11, <2>12, <2>13, <2>14
<1>7. CASE ~link.open
  <2>1. /\ at_call' = "ended" /\ exit_code' \in {"closed", "SIGPIPE"}
        /\ UNCHANGED <<link, passed, pipes>>
    BY <1>7 DEF WriteLine, End
  <2>2. STypeOK'  BY <1>1, <2>1 DEF STypeOK
  <2>3. PipesFit'  BY <2>1 DEF PipesFit, size
  <2>4. FromChild'  BY <1>1, <2>1 DEF FromChild, Dropped, Death
  <2>5. ToChild'  BY <1>1, <2>1 DEF ToChild
  <2>6. Death'  BY <1>1, <2>1 DEF Death
  <2> QED  BY <2>2, <2>3, <2>4, <2>5, <2>6
<1> QED  BY <1>6, <1>7

\* A read from the child into the second pipe.
LEMMA SInvReadLine == ASSUME SInv, ReadHasRoom, <<"r", 2>> \in ready, ReadLine PROVE SInv'
<1> USE SquishAssumption DEF SInv
<1> DEFINE u == link.up
           b == pipes[2].buf
           n == Smaller(Space(pipes[2]), Len(u))
           first == SubSeq(u, 1, n)
           rest == SubSeq(u, n + 1, Len(u))
<1>1. UNCHANGED <<program, ready, stdin, stdout, passed, said, calls, child, sigchld>> /\ at_call = "r2"
  BY DEF ReadLine
<1>4. \A i \in 1 .. 2 : i = 1 \/ i = 2  OBVIOUS
<1>5. /\ pipes \in [1 .. 2 -> PipeState] /\ pipes[2] \in PipeState /\ stdout \in Bytes
      /\ link \in [open : BOOLEAN, up : Bytes, down : Bytes] /\ u \in Bytes /\ b \in Bytes
  BY DEF STypeOK, PipeState
<1>6. /\ Len(u) \in Nat /\ Len(b) \in Nat /\ pipes[2].ofs \in Nat
  BY <1>5, LenProperties DEF PipeState, Bytes
<1>7. ~Dropped  BY <1>1 DEF Dropped, Death
<1>8. CASE n > 0
  <2>1. /\ pipes' = [pipes EXCEPT ![2] = Filled(pipes[2], first)]
        /\ link' = [link EXCEPT !.up = rest]
        /\ at_call' = "w2" /\ UNCHANGED exit_code
    BY <1>8 DEF ReadLine, Continue
  <2>2. n \in 0 .. Len(u) /\ n <= Space(pipes[2])
    <3>1. Space(pipes[2]) \in Int /\ Len(u) \in Int  BY <1>5, <1>6, SpaceOf
    <3>2. n \in Int /\ n <= Space(pipes[2]) /\ n <= Len(u)
      <4> HIDE DEF u
      <4> QED  BY ONLY <3>1, SmallerOf
    <3> HIDE DEF n
    <3> QED  BY ONLY <1>6, <1>8, <3>1, <3>2
  <2>3. first \in Bytes /\ rest \in Bytes /\ Len(first) = n /\ first \o rest = u
    <3> HIDE DEF u, n
    <3> QED  BY <1>5, <2>2, CutSeq
  <2> DEFINE full == Filled(pipes[2], first)
  <2> HIDE DEF first, rest
  <2>4. full \in PipeState /\ full.buf = b \o first /\ size(full) + full.ofs <= BUFSIZ
    <3>0. /\ Space(pipes[2]) = BUFSIZ - pipes[2].ofs - Len(pipes[2].buf)
          /\ size(pipes[2]) = Len(pipes[2].buf) /\ BUFSIZ \in Nat
      BY ONLY <1>5, SpaceOf
    <3>1. size(pipes[2]) + pipes[2].ofs + Len(first) <= BUFSIZ
      <4> HIDE DEF n
      <4> QED  BY ONLY <1>6, <2>2, <2>3, <3>0 DEF b
    <3> QED  BY <1>5, <2>3, <3>1, FilledPipe
  <2>5. pipes' = [pipes EXCEPT ![2] = full]  BY <2>1
  <2> HIDE DEF full, u, b, n
  <2>6. pipes' \in [1 .. 2 -> PipeState] /\ pipes'[1] = pipes[1] /\ pipes'[2] = full
    BY <1>5, <2>4, <2>5
  <2>7. link' \in [open : BOOLEAN, up : Bytes, down : Bytes] /\ link'.up = rest /\ link'.open = link.open
    BY <1>5, <2>1, <2>3
  <2>8. (stdout \o (b \o first)) \o rest = (stdout \o b) \o u
    <3>0. stdout \in Bytes /\ b \in Bytes /\ first \in Bytes  BY <1>5, <2>3
    <3>1. stdout \o b \in Bytes  BY ONLY <3>0, JoinSeq
    <3>2. (stdout \o b) \o first = stdout \o (b \o first)  BY ONLY <3>0, JoinAssociative
    <3>3. ((stdout \o b) \o first) \o rest = (stdout \o b) \o (first \o rest)
      BY <2>3, <3>1, JoinAssociative
    <3> QED  BY <2>3, <3>2, <3>3
  <2>9. STypeOK'  BY <1>1, <2>1, <2>6, <2>7 DEF STypeOK
  <2>10. PipesFit'  BY <1>4, <2>4, <2>6 DEF PipesFit
  <2>11. ~Dropped'  BY <1>7, <2>1 DEF Dropped
  <2>12. FromChild'  BY <1>1, <1>7, <2>4, <2>6, <2>7, <2>8, <2>11 DEF FromChild, u, b
  <2>13. ToChild'  BY <1>1, <2>6 DEF ToChild
  <2>14. Death'  BY <1>1, <2>1, <2>7 DEF Death
  <2> QED  BY <2>9, <2>10, <2>12, <2>13, <2>14
<1>9. CASE ~(n > 0)
  <2>1. RelayReturn("closed") /\ pipes' = pipes  BY <1>9 DEF ReadLine
  <2>2. u = <<>>
    <3>1. size(pipes[2]) + pipes[2].ofs < BUFSIZ  BY <1>1 DEF ReadHasRoom
    <3>2. Space(pipes[2]) \in Int /\ Space(pipes[2]) > 0  BY ONLY <1>5, <3>1, SpaceOf
    <3>3. Len(u) = 0
      <4>1. Space(pipes[2]) \in Int /\ Len(u) \in Int  BY <1>6, <3>2
      <4> HIDE DEF u
      <4>2. n = Space(pipes[2]) \/ n = Len(u)
        <5> DEFINE x == Space(pipes[2])
                   y == Len(u)
        <5>1. x \in Int /\ y \in Int  BY <4>1
        <5>2. n = Smaller(x, y)  OBVIOUS
        <5> HIDE DEF x, y, n
        <5>3. n = x \/ n = y  BY ONLY <5>1, <5>2, SmallerOf
        <5> QED  BY <5>3 DEF x, y
      <4> HIDE DEF n
      <4> QED  BY <1>6, <1>9, <3>2, <4>2
    <3> HIDE DEF u
    <3> QED  BY <1>5, <3>3, EmptySeq DEF Bytes
  <2>3. CASE program = "pty"
    <3>1. at_call' = "ended" /\ exit_code' = "closed" /\ link' = link
      BY <2>1, <2>3 DEF RelayReturn, End
    <3>2. STypeOK'  BY <1>1, <2>1, <3>1 DEF STypeOK
    <3>3. PipesFit'  BY <2>1 DEF PipesFit, size
    <3>4. FromChild'  BY <1>1, <1>7, <2>1, <3>1 DEF FromChild, Dropped
    <3>5. ToChild'  BY <1>1, <2>1 DEF ToChild
    <3>6. Death'  BY <1>1, <3>1 DEF Death
    <3> QED  BY <3>2, <3>3, <3>4, <3>5, <3>6
  <2>4. CASE program # "pty"
    <3>1. at_call' = "accept" /\ UNCHANGED exit_code /\ link' = Wire(FALSE) /\ link'.up = u
      BY <2>1, <2>2, <2>4 DEF RelayReturn, Continue, Wire
    <3>2. <<>> \in Bytes  BY EmptySeq DEF Bytes
    <3>3. link' \in [open : BOOLEAN, up : Bytes, down : Bytes] /\ ~link'.open
      BY <3>1, <3>2 DEF Wire
    <3>4. STypeOK'  BY <1>1, <2>1, <3>1, <3>3 DEF STypeOK
    <3>5. PipesFit'  BY <2>1 DEF PipesFit, size
    <3>6. FromChild'  BY <1>1, <2>1, <3>1, <3>3 DEF FromChild
    <3>7. ToChild'  BY <1>1, <2>1 DEF ToChild
    <3>8. Death'  BY <1>1, <3>1, <3>3 DEF Death
    <3> QED  BY <3>4, <3>5, <3>6, <3>7, <3>8
  <2> QED  BY <2>3, <2>4
<1> QED  BY <1>8, <1>9

\* A write of the second pipe to stdout.
LEMMA SInvWriteStdout == ASSUME SInv, WriteStdout PROVE SInv'
<1> USE SquishAssumption DEF SInv
<1> DEFINE b == pipes[2].buf
<1>1. /\ UNCHANGED <<program, ready, stdin, passed, link, said, calls, child, sigchld, exit_code>>
      /\ at_call = "w2" /\ at_call' = "select"
  BY DEF WriteStdout, Continue, world
<1>4. \A i \in 1 .. 2 : i = 1 \/ i = 2  OBVIOUS
<1>5. pipes \in [1 .. 2 -> PipeState] /\ pipes[2] \in PipeState /\ stdout \in Bytes /\ b \in Bytes
  BY DEF STypeOK, PipeState
<1>6. PICK n \in 1 .. size(pipes[2]) :
        /\ stdout' = stdout \o SubSeq(b, 1, n)
        /\ pipes' = [pipes EXCEPT ![2] = Wrote(pipes[2], n)]
  BY DEF WriteStdout
<1> DEFINE first == SubSeq(b, 1, n)
           rest == SubSeq(b, n + 1, Len(b))
           left == Wrote(pipes[2], n)
<1>7. n \in 0 .. Len(b) /\ n \in 0 .. size(pipes[2])  BY <1>5, SpaceOf
<1>8. first \in Bytes /\ rest \in Bytes /\ (stdout \o first) \o rest = stdout \o b
  <2> HIDE DEF b
  <2>1. first \in Bytes /\ rest \in Bytes  BY ONLY <1>5, <1>7, CutSeq
  <2>2. (stdout \o first) \o rest = stdout \o b  BY ONLY <1>5, <1>7, MovedBytes
  <2> QED  BY <2>1, <2>2
<1>9. left \in PipeState /\ left.buf = rest /\ size(left) + left.ofs <= BUFSIZ
  <2>1. size(pipes[2]) + pipes[2].ofs <= BUFSIZ  BY DEF PipesFit
  <2> QED  BY <1>5, <1>7, <2>1, WrotePipe
<1>10. pipes' = [pipes EXCEPT ![2] = left] /\ stdout' = stdout \o first  BY <1>6
<1> HIDE DEF left, first, rest
<1>11. pipes' \in [1 .. 2 -> PipeState] /\ pipes'[1] = pipes[1] /\ pipes'[2] = left
  BY ONLY <1>5, <1>9, <1>10
<1>12. stdout \o first \in Bytes  BY ONLY <1>5, <1>8, JoinSeq
<1>13. STypeOK'  BY <1>1, <1>10, <1>11, <1>12 DEF STypeOK
<1>14. PipesFit'  BY <1>4, <1>9, <1>11 DEF PipesFit
<1>15. FromChild'  BY <1>1, <1>8, <1>9, <1>10, <1>11 DEF FromChild, Dropped, Death
<1>16. ToChild'  BY <1>1, <1>11 DEF ToChild
<1>17. Death'  BY <1>1 DEF Death
<1> QED  BY <1>13, <1>14, <1>15, <1>16, <1>17

\* squish-unix takes the next connection.
LEMMA SInvAccept == ASSUME SInv, Accept PROVE SInv'
<1> USE SquishAssumption DEF SInv
<1>1. /\ at_call = "accept" /\ at_call' = "select" /\ exit_code' = exit_code
      /\ UNCHANGED <<program, ready, child, sigchld>>
      /\ pipes' = <<Pipe, Pipe>> /\ stdin' = 0
      /\ passed' = <<>> /\ said' = <<>> /\ stdout' = <<>>
  BY DEF Accept, Continue
<1>2. <<>> \in Bytes /\ Len(<<>>) = 0 /\ <<>> \o <<>> = <<>>
  BY EmptySeq, ConcatEmptySeq DEF Bytes
<1>3. pipes'[1] = Pipe /\ pipes'[2] = Pipe /\ pipes' \in [1 .. 2 -> PipeState]
  <2>1. Pipe \in PipeState  BY <1>2 DEF Pipe, PipeState
  <2> QED  BY ONLY <1>1, <2>1, PairOf
<1>4. /\ link' \in [open : BOOLEAN, up : Bytes, down : Bytes] /\ link'.up = <<>>
      /\ (child = "dead" => ~link'.open)
  <2>1. \E o \in BOOLEAN : /\ link' = [open |-> o, up |-> <<>>, down |-> <<>>]
                           /\ (child = "dead" => ~o)
    BY DEF Accept, Wire
  <2> QED  BY ONLY <1>2, <2>1
<1>5. 0 \in 0 .. Len(Input) /\ SubSeq(Input, 1, 0) = <<>>
  <2>1. SubSeq(Input, 1, 0) = <<>>  BY SubSeqEmpty
  <2>2. Len(Input) \in Nat  BY LenProperties
  <2> QED  BY <2>1, <2>2
<1>6. STypeOK'  BY <1>1, <1>2, <1>3, <1>4, <1>5 DEF STypeOK
<1>7. PipesFit'  BY <1>2, <1>3 DEF PipesFit, size, Pipe
<1>8. FromChild'  BY <1>1, <1>2, <1>3, <1>4 DEF FromChild, Dropped, Pipe, Death
<1>9. ToChild'  BY <1>1, <1>2, <1>3, <1>5 DEF ToChild, Pipe
<1>10. Death'  BY <1>1, <1>4 DEF Death
<1> QED  BY <1>6, <1>7, <1>8, <1>9, <1>10

\* Until the second pipe is read nothing is put into it.
LEMMA RoomStays == SInv /\ ReadHasRoom /\ [SquishNext]_squishVars => ReadHasRoom'
<1> SUFFICES ASSUME SInv, ReadHasRoom, [SquishNext]_squishVars PROVE ReadHasRoom'  OBVIOUS
<1>1. CASE Select
  <2>1. ready' \subseteq Ready /\ UNCHANGED pipes  BY <1>1 DEF Select
  <2>2. <<"r", 2>> \in Ready => 2 \in read_fds  BY DEF Ready
  <2> QED  BY <2>1, <2>2 DEF ReadHasRoom, read_fds, size
<1>2. CASE ReadStdin \/ WriteLine
  <2>1. pipes \in [1 .. 2 -> PipeState] /\ at_call \in {"r1", "w1"}
    BY <1>2 DEF SInv, STypeOK, ReadStdin, WriteLine
  <2>2. pipes'[2] = pipes[2]  BY <1>2, <2>1 DEF ReadStdin, WriteLine
  <2>3. UNCHANGED ready  BY <1>2 DEF ReadStdin, WriteLine
  <2> QED  BY <2>1, <2>2, <2>3 DEF ReadHasRoom, size
<1>3. CASE FinalWrite \/ FinalRead \/ ReadLine \/ WriteStdout \/ Accept \/ ChildDied \/ AcceptInterrupted
  BY <1>3 DEF ReadHasRoom, FinalWrite, FinalRead, ReadLine, WriteStdout, Accept, ChildDied,
              AcceptInterrupted, RelayReturn, End, Continue
<1>4. CASE \E call \in {"r", "w"}, i \in 1 .. 2 : Skip(call, i)
  BY <1>4 DEF ReadHasRoom, Skip, Continue, After, Name, size
<1>5. CASE Say \/ Hear \/ Close \/ Connect \/ Die \/ Send \/ Signal
  BY <1>5 DEF ReadHasRoom, Say, Hear, Close, Connect, Die, Send, Signal, Rest, size
<1>6. CASE UNCHANGED squishVars  BY <1>6 DEF ReadHasRoom, squishVars, size
<1> QED  BY <1>1, <1>2, <1>3, <1>4, <1>5, <1>6 DEF SquishNext, SquishStep

\* Every step keeps the invariant.
LEMMA SInvStep == SInv /\ ReadHasRoom /\ [SquishNext]_squishVars => SInv'
<1> SUFFICES ASSUME SInv, ReadHasRoom, [SquishNext]_squishVars PROVE SInv'  OBVIOUS
<1>1. CASE UNCHANGED squishVars
  BY <1>1 DEF squishVars, SInv, STypeOK, PipesFit, size, FromChild, Dropped, ToChild, Death
<1>2. CASE FinalWrite  BY <1>2, SInvFinalWrite
<1>3. CASE FinalRead  BY <1>3, SInvFinalRead
<1>4. CASE ReadStdin  BY <1>4, SInvReadStdin
<1>5. CASE WriteLine  BY <1>5, SInvWriteLine
<1>6. CASE ReadLine  BY <1>6, SInvReadLine DEF ReadLine
<1>7. CASE WriteStdout  BY <1>7, SInvWriteStdout
<1>8. CASE Accept  BY <1>8, SInvAccept
<1>9. CASE Say  BY <1>9, SInvSay
<1>10. CASE ChildDied \/ Select \/ (\E call \in {"r", "w"}, i \in 1 .. 2 : Skip(call, i))
            \/ AcceptInterrupted \/ Hear \/ Close \/ Connect \/ Die \/ Send \/ Signal
  BY <1>10, SInvQuiet
<1> QED
  BY <1>1, <1>2, <1>3, <1>4, <1>5, <1>6, <1>7, <1>8, <1>9, <1>10 DEF SquishNext, SquishStep

\* The inductive invariant: pipes stay within their buffers, and stdout, pipe and
\* line in a row are what was written, at every step of either program.
THEOREM SquishInvariant == SquishSpec => []SInv
<1>1. SquishInit => ReadHasRoom
  BY DEF SquishInit, PtyStarted, UnixStarted, ReadHasRoom
<1> QED  BY <1>1, SInvInit, SInvStep, RoomStays, PTL DEF SquishSpec

\* The pipes of relay() stay within their buffers: the offset and the size of
\* what each holds never exceed the array they index.
THEOREM PipesStayInBuffers == SquishSpec => []PipesFit
BY SquishInvariant, PTL DEF SInv

\* What a reader of stdout sees follows from the invariant.
LEMMA RelayExactHolds == SInv => RelayExact
BY DEF SInv, FromChild, ToChild, Death, RelayExact

\* Stdout, the second pipe and the line hold what the emulator wrote, and the
\* emulator and the first pipe what was read of stdin, in order and without a
\* gap, however the reads and writes of relay() are cut and however it ends;
\* and if it ends because the emulator's death is noticed, stdout has all of it.
THEOREM BytesRelayed == SquishSpec => []RelayExact
BY SquishInvariant, RelayExactHolds, PTL
=============================================================================
