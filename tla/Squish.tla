------------------------------- MODULE Squish -------------------------------
(* The programs that put the standard input and output of an emulator on    *)
(* one terminal or socket: utils/squish-pty.c and utils/squish-unix.c.      *)
(* Their relay() keeps two pipes and calls select(); one step is one system *)
(* call, and the emulator (the child), the reader of stdout and SIGCHLD act *)
(* between any two.  Bytes are numbers, in the order they are written.      *)
EXTENDS Integers, Sequences, SequencesExt

CONSTANTS BUFSIZ,       \* bytes of a pipe's buffer
          Input,        \* what stdin holds, then end of file
          MaxSaid,      \* bytes the child writes at most
          QueueSize,    \* bytes the kernel keeps for the child to read
          MaxCalls      \* connections of squish-unix's child, at most

ASSUME SquishAssumption ==
    /\ BUFSIZ \in Nat \ {0} /\ QueueSize \in Nat \ {0}
    /\ Input \in Seq(Nat) /\ MaxSaid \in Nat /\ MaxCalls \in Nat

VARIABLES program,      \* "pty" or "unix"
          at_call, ready,    \* the next system call; what select() returned
          pipes,        \* relay()'s pipes: [1] stdin to child, [2] child to stdout
          stdin,        \* bytes read of stdin
          stdout, passed,   \* bytes written to stdout, and to the child by this relay
          link,         \* the terminal or the connection
          said,         \* what the child has written on it
          calls,        \* connections made so far, and whether one waits
          child,        \* "alive" or "dead"
          sigchld,      \* "none", "sent", "noticed": sent and pending
          exit_code          \* why it ended

squishVars == <<program, at_call, ready, pipes, stdin, stdout, passed, link, said, calls, child, sigchld, exit_code>>
world == <<link, said, calls, child>>

Pipe == [in |-> TRUE, out |-> TRUE, buf |-> <<>>, ofs |-> 0, active |-> FALSE]
Wire(open) == [open |-> open, up |-> <<>>, down |-> <<>>]
size(p) == Len(p.buf)
End(why) == at_call' = "ended" /\ exit_code' = why
Continue(next) == at_call' = next /\ UNCHANGED exit_code

-----------------------------------------------------------------------------
(* relay()                                                                  *)

\* What the loops go on for.  It is always so: nothing closes the end of the
\* second pipe that reads the link.
Going == IF program = "pty" THEN pipes[1].in \/ pipes[2].in
         ELSE pipes[1].in \/ pipes[2].in \/ (size(pipes[2]) > 0 /\ pipes[2].out)
\* relay() returns: squish-pty takes the child's fate, squish-unix waits for
\* another connection and closes this one.
RelayReturn(why) ==
    IF program = "pty"
    THEN End(why) /\ UNCHANGED link
    ELSE Continue("accept") /\ link' = Wire(FALSE)

\* stdin waits until the child has said something.
Considered(i) == i = 2 \/ pipes[2].active
read_fds == {i \in 1 .. 2 : Considered(i) /\ pipes[i].in /\ size(pipes[i]) + pipes[i].ofs < BUFSIZ}
write_fds == {i \in 1 .. 2 : Considered(i) /\ pipes[i].out /\ size(pipes[i]) > 0}
\* A terminal or a connection that is closed can be read and written: at once
\* with an error.  stdin and stdout are ready when their other ends will.
Ready == {<<"r", i>> : i \in {j \in read_fds : j = 1 \/ link.up # <<>> \/ ~link.open}}
         \cup {<<"w", i>> : i \in {j \in write_fds : j = 2 \/ Len(link.down) < QueueSize \/ ~link.open}}
OnLine == {<<"r", 2>>, <<"w", 1>>}

Select ==
    /\ at_call = "select" /\ Going
    /\ \E set \in SUBSET Ready :
         /\ set # {} /\ Ready \cap OnLine \subseteq set
         /\ ready' = set
    /\ program = "pty" => sigchld # "noticed"
    /\ Continue("r1")
    /\ UNCHANGED <<program, pipes, stdin, stdout, passed, world, sigchld>>
\* Variant: nothing is left to relay.
ChildDied_returns ==
    /\ at_call = "select" /\ Going /\ sigchld = "noticed"
    /\ End("died")
    /\ UNCHANGED <<program, ready, pipes, stdin, stdout, passed, world, sigchld>>
\* A byte in the pipe of the handler, or EINTR: the child has died.
ChildDied ==
    /\ at_call = "select" /\ Going /\ sigchld = "noticed"
    /\ Continue("final")
    /\ UNCHANGED <<program, ready, pipes, stdin, stdout, passed, world, sigchld>>
FinalWrite ==
    /\ at_call = "final" /\ size(pipes[2]) > 0
    /\ \E n \in 1 .. size(pipes[2]) :
         /\ stdout' = stdout \o SubSeq(pipes[2].buf, 1, n)
         /\ pipes' = [pipes EXCEPT ![2].buf = SubSeq(@, n + 1, Len(@)), ![2].ofs = @ + n]
    /\ UNCHANGED <<program, at_call, ready, stdin, passed, world, sigchld, exit_code>>
Smaller(a, b) == IF a < b THEN a ELSE b
FinalRead ==
    /\ at_call = "final" /\ size(pipes[2]) = 0
    /\ LET n == Smaller(BUFSIZ, Len(link.up)) IN
         IF n > 0
         THEN /\ pipes' = [pipes EXCEPT ![2].buf = SubSeq(link.up, 1, n), ![2].ofs = 0]
              /\ link' = [link EXCEPT !.up = SubSeq(@, n + 1, Len(@))]
              /\ UNCHANGED <<at_call, exit_code>>
         ELSE End("died") /\ UNCHANGED <<pipes, link>>
    /\ UNCHANGED <<program, ready, stdin, stdout, passed, said, calls, child, sigchld>>

After == [r1 |-> "w1", w1 |-> "r2", r2 |-> "w2", w2 |-> "select"]
Name(call, i) == IF call = "r" THEN <<"r1", "r2">>[i] ELSE <<"w1", "w2">>[i]
Skip(call, i) ==
    /\ at_call = Name(call, i) /\ <<call, i>> \notin ready
    /\ Continue(After[at_call])
    /\ UNCHANGED <<program, ready, pipes, stdin, stdout, passed, world, sigchld>>

\* Bytes behind those a pipe holds.  (Its buffer is moved to the front when
\* it is full and does not start there, which cannot be.)
Filled(p, bytes) ==
    LET q == [p EXCEPT !.buf = @ \o bytes, !.active = TRUE]
    IN IF size(q) = BUFSIZ /\ q.ofs # 0 THEN [q EXCEPT !.ofs = 0] ELSE q
Space(p) == BUFSIZ - p.ofs - size(p)
Wrote(p, n) ==
    LET q == [p EXCEPT !.buf = SubSeq(@, n + 1, Len(@)), !.ofs = @ + n]
    IN IF size(q) = 0 THEN [q EXCEPT !.ofs = 0] ELSE q

\* handle_error() of stdin: closed, and no more.  Its position is the one a
\* file has that the next connection reads from its start.
ReadStdin ==
    /\ at_call = "r1" /\ <<"r", 1>> \in ready /\ pipes[1].in
    /\ IF stdin = Len(Input)
       THEN pipes' = [pipes EXCEPT ![1].in = FALSE] /\ UNCHANGED stdin
       ELSE \E n \in 1 .. Smaller(Space(pipes[1]), Len(Input) - stdin) :
              /\ pipes' = [pipes EXCEPT ![1] = Filled(@, SubSeq(Input, stdin + 1, stdin + n))]
              /\ stdin' = stdin + n
    /\ Continue("w1")
    /\ UNCHANGED <<program, ready, stdout, passed, world, sigchld>>
\* A socket nobody reads kills the writer with SIGPIPE.
WriteLine ==
    /\ at_call = "w1" /\ <<"w", 1>> \in ready
    /\ IF link.open
       THEN \E n \in 1 .. Smaller(size(pipes[1]), QueueSize - Len(link.down)) :
              /\ link' = [link EXCEPT !.down = @ \o SubSeq(pipes[1].buf, 1, n)]
              /\ passed' = passed \o SubSeq(pipes[1].buf, 1, n)
              /\ pipes' = [pipes EXCEPT ![1] = Wrote(@, n)]
              /\ Continue("r2")
       ELSE /\ End(IF program = "pty" THEN "closed" ELSE "SIGPIPE")
            /\ UNCHANGED <<link, passed, pipes>>
    /\ UNCHANGED <<program, ready, stdin, stdout, said, calls, child, sigchld>>
\* The end of the link: EIO of a terminal, end of file of a socket.
ReadLine ==
    /\ at_call = "r2" /\ <<"r", 2>> \in ready
    /\ LET n == Smaller(Space(pipes[2]), Len(link.up)) IN
         IF n > 0
         THEN /\ pipes' = [pipes EXCEPT ![2] = Filled(@, SubSeq(link.up, 1, n))]
              /\ link' = [link EXCEPT !.up = SubSeq(@, n + 1, Len(@))]
              /\ Continue("w2")
         ELSE RelayReturn("closed") /\ UNCHANGED pipes
    /\ UNCHANGED <<program, ready, stdin, stdout, passed, said, calls, child, sigchld>>
WriteStdout ==
    /\ at_call = "w2" /\ <<"w", 2>> \in ready
    /\ \E n \in 1 .. size(pipes[2]) :
         /\ stdout' = stdout \o SubSeq(pipes[2].buf, 1, n)
         /\ pipes' = [pipes EXCEPT ![2] = Wrote(@, n)]
    /\ Continue("select")
    /\ UNCHANGED <<program, ready, stdin, passed, world, sigchld>>

-----------------------------------------------------------------------------
(* main() of squish-unix                                                    *)

Accept ==
    /\ at_call = "accept" /\ calls.waiting
    /\ calls' = [calls EXCEPT !.waiting = FALSE]
    /\ link' = IF child = "alive" THEN Wire(TRUE) ELSE Wire(FALSE)
    /\ pipes' = <<Pipe, Pipe>> /\ stdin' = 0
    /\ passed' = <<>> /\ said' = <<>> /\ stdout' = <<>>
    /\ Continue("select")
    /\ UNCHANGED <<program, ready, child, sigchld>>
AcceptInterrupted ==
    /\ at_call = "accept" /\ sigchld = "noticed"
    /\ End("over")
    /\ UNCHANGED <<program, ready, pipes, stdin, stdout, passed, world, sigchld>>

-----------------------------------------------------------------------------
(* The child and its death                                                  *)

Rest == UNCHANGED <<program, at_call, ready, pipes, stdin, stdout, passed, exit_code>>
Say == /\ child = "alive" /\ link.open /\ Len(said) < MaxSaid
       /\ said' = Append(said, Len(said) + 1)
       /\ link' = [link EXCEPT !.up = Append(@, Len(said) + 1)]
       /\ Rest /\ UNCHANGED <<calls, child, sigchld>>
Hear == /\ child = "alive" /\ link.open /\ link.down # <<>>
        /\ link' = [link EXCEPT !.down = Tail(@)]
        /\ Rest /\ UNCHANGED <<said, calls, child, sigchld>>
\* It closes the terminal or, to start over, its connection.
Close == /\ child = "alive" /\ link.open
         /\ link' = [link EXCEPT !.open = FALSE]
         /\ Rest /\ UNCHANGED <<said, calls, child, sigchld>>
Connect == /\ program = "unix" /\ child = "alive" /\ ~link.open /\ ~calls.waiting
           /\ calls.made < MaxCalls
           /\ calls' = [made |-> calls.made + 1, waiting |-> TRUE]
           /\ Rest /\ UNCHANGED <<link, said, child, sigchld>>
\* What is open is closed first, SIGCHLD is sent later.
Die == /\ child = "alive"
       /\ child' = "dead" /\ link' = [link EXCEPT !.open = FALSE]
       /\ Rest /\ UNCHANGED <<said, calls, sigchld>>
Send == /\ child = "dead" /\ sigchld = "none"
        /\ sigchld' = "sent"
        /\ Rest /\ UNCHANGED world
\* Variant: squish-unix does not block SIGCHLD while it works.
Signal_unblocked ==
    /\ sigchld = "sent" /\ at_call # "ended"
    /\ sigchld' = IF program = "pty" \/ at_call \in {"select", "accept"} THEN "noticed" ELSE "lost"
    /\ Rest /\ UNCHANGED world
\* squish-pty handles it at once, with a byte into a pipe of its own;
\* squish-unix lets it in only while it waits.
Signal == /\ sigchld = "sent" /\ at_call # "ended"
          /\ sigchld' = "noticed"
          /\ Rest /\ UNCHANGED world

\* squish-pty opens a terminal, starts the child on it and relays; squish-unix
\* listens on a socket, starts the child and waits for its connection.
PtyStarted == program = "pty" /\ at_call = "select" /\ link = Wire(TRUE)
UnixStarted == program = "unix" /\ at_call = "accept" /\ link = Wire(FALSE)
SquishInit ==
    /\ PtyStarted \/ UnixStarted
    /\ ready = {} /\ pipes = <<Pipe, Pipe>>
    /\ stdin = 0 /\ stdout = <<>> /\ passed = <<>> /\ said = <<>>
    /\ calls = [made |-> 0, waiting |-> FALSE]
    /\ child = "alive" /\ sigchld = "none" /\ exit_code = "none"
SquishStep == \/ Select \/ ChildDied \/ FinalWrite \/ FinalRead
        \/ ReadStdin \/ WriteLine \/ ReadLine \/ WriteStdout
        \/ (\E call \in {"r", "w"}, i \in 1 .. 2 : Skip(call, i))
        \/ Accept \/ AcceptInterrupted
SquishNext == SquishStep \/ Say \/ Hear \/ Close \/ Connect \/ Die \/ Send \/ Signal
SquishSpec == SquishInit /\ [][SquishNext]_squishVars /\ WF_squishVars(SquishStep) /\ WF_squishVars(Send) /\ WF_squishVars(Signal)

-----------------------------------------------------------------------------

\* A byte the child wrote is on stdout, in the second pipe or on the link, and
\* these three in a row are what it wrote; likewise stdin, the first pipe and
\* the child: through partial reads and writes and buffers filled and emptied
\* nothing is doubled, overtaken or left out.  When the child's death is
\* noticed stdout gets all of it; when relay() ends because the terminal or the
\* connection is closed (EIO, end of file) it leaves behind exactly what the
\* second pipe and the link hold (AllRelayed).
RelayExact ==
    /\ stdout \o pipes[2].buf \o link.up = said
    /\ passed \o pipes[1].buf = SubSeq(Input, 1, stdin)
    /\ exit_code = "died" => stdout = said

\* "Copies data from stdin to PTY and from PTY to stdout until no more data can
\* be read or written" (squish-pty.c:113-114): when relay() has returned, all the
\* child wrote is on stdout.
AllRelayed ==
    at_call = "accept" \/ exit_code \in {"died", "closed"} => stdout = said

\* An empty standard input, for TLC.
NoInput == <<>>

\* When the child has died the program comes to an end, wherever it was when
\* SIGCHLD came.
EndsAfterDeath == (child = "dead") ~> (at_call = "ended")
=============================================================================
