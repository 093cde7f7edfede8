-------------------------------- MODULE Calls --------------------------------
(* System calls from end to end: a stub of the user library                 *)
(* (lib/user/syscall.c) pushes the arguments and traps, syscall_handler()   *)
(* (userprog/syscall.c) takes them off the user's stack and calls the       *)
(* kernel's function, and what that returns comes back in EAX.  The         *)
(* functions on open files work on positions (filesys/file.c); those other  *)
(* modules are about are only told apart by what they are given.            *)
EXTENDS Integers, FiniteSetsExt, SequencesExt, Functions

CONSTANTS KernelBase,   \* first word that is not the user's: PHYS_BASE
          StackWords,   \* the words of the stack
          Pointers,     \* where a program may put its stack pointer
          Direct,       \* functions it calls without a stub
          Invocations,  \* what programs call: [fn, args]
          FileAt,       \* user address to the name of a file there
          FirstContent, \* file name to its bytes
          Room,         \* bytes of the program's buffer
          LastFd,       \* 127
          UIntMax,      \* 2^32
          KernelWord,   \* a word of the kernel's memory
          Answers,      \* what functions of other modules may return
          MaxInvocations, \* bound on the calls of a program
          Nothing

VARIABLES stage,        \* "user", "trap", "kernel", "return", or how the program ended
          esp, words, eax,
          entered,      \* the kernel function that runs and its arguments
          fdTable,      \* open files: [name, pos]
          content,      \* file name to its bytes
          buffer,       \* the program's
          invoked,
          \* what the properties are about, no variable of the code:
          askedFor,        \* the stub's call, Nothing if the program trapped by itself
          before        \* what there was when it was called

callsVars == <<stage, esp, words, eax, entered, fdTable, content, buffer, invoked, askedFor, before>>

----------------------------------------------------------------------------
\* syscall-nr.h; the numbers are counted from 1 here.
Numbers == <<"halt", "exit", "exec", "wait", "create", "remove", "open", "filesize", "read",
             "write", "seek", "tell", "close", "pibo", "sum4", "mmap", "munmap", "chdir",
             "mkdir", "readdir", "isdir", "inumber">>
NumberOf(fn) == CHOOSE n \in DOMAIN Numbers : Numbers[n] = fn

\* How many arguments the handler takes, and how many of their addresses it checks.
Arity(fn) ==
    CASE fn \in {"exit", "exec", "wait", "remove", "open", "filesize", "tell", "close", "pibo"} -> 1
      [] fn \in {"create", "seek"} -> 2
      [] fn \in {"read", "write"} -> 3
      [] fn = "sum4" -> 4
      [] OTHER -> 0
Checked(fn) == IF fn \in {"pibo", "sum4"} THEN 0 ELSE Arity(fn)
Known(fn) == NumberOf(fn) <= NumberOf("sum4")

Signed(n) == IF n >= UIntMax \div 2 THEN n - UIntMax ELSE n
SignedWords(a, b) == Signed((a + b) % UIntMax)

----------------------------------------------------------------------------
\* The stub: the arguments from the last to the first, then the number.
\* Variant: the first first.
Pushed_forward(c) == <<NumberOf(c.fn)>> \o Reverse(c.args)
Pushed(c) == <<NumberOf(c.fn)>> \o c.args

Stub(c) ==
    /\ stage = "user" /\ invoked < MaxInvocations
    /\ invoked' = invoked + 1
    /\ askedFor' = c
    /\ before' = [esp |-> esp, eax |-> eax, fdTable |-> fdTable, content |-> content, buffer |-> buffer]
    /\ LET new == esp - Len(Pushed(c))
       IN IF new .. esp - 1 \subseteq StackWords
          THEN /\ stage' = "trap"
               /\ esp' = new
               /\ words' = [w \in StackWords |->
                              IF w \in new .. esp - 1 THEN Pushed(c)[w - new + 1] ELSE words[w]]
          ELSE stage' = "killed" /\ UNCHANGED <<esp, words>>
    /\ UNCHANGED <<eax, entered, fdTable, content, buffer>>

\* A program that has put its stack pointer elsewhere, perhaps with a number there.
Trap(pointer, fn) ==
    /\ stage = "user" /\ invoked < MaxInvocations
    /\ invoked' = invoked + 1
    /\ askedFor' = Nothing /\ before' = Nothing
    /\ esp' = pointer
    /\ words' = IF pointer \in StackWords THEN [words EXCEPT ![pointer] = NumberOf(fn)] ELSE words
    /\ stage' = "trap"
    /\ UNCHANGED <<eax, entered, fdTable, content, buffer>>

\* The handler's reads: of the user's words, or of whatever the kernel has above.
Word(w) == IF w >= KernelBase THEN KernelWord ELSE words[w]
Fetchable(fn) ==
    /\ \A i \in 1 .. Checked(fn) : esp + i < KernelBase
    /\ \A i \in 1 .. Arity(fn) : esp + i < KernelBase => esp + i \in StackWords

syscall_handler ==
    /\ stage = "trap"
    /\ IF esp \notin StackWords \/ words[esp] \notin DOMAIN Numbers
       THEN stage' = (IF esp \in StackWords THEN "return" ELSE "killed") /\ UNCHANGED entered
       ELSE \E fn \in {Numbers[words[esp]]} :
              IF ~Known(fn) THEN stage' = "return" /\ UNCHANGED entered
              ELSE IF ~Fetchable(fn) THEN stage' = "killed" /\ UNCHANGED entered
              ELSE /\ stage' = "kernel"
                   /\ entered' = [fn |-> fn, args |-> [i \in 1 .. Arity(fn) |-> Word(esp + i)]]
    /\ UNCHANGED <<esp, words, eax, fdTable, content, buffer, invoked, askedFor, before>>

----------------------------------------------------------------------------
\* The kernel's functions.

In(fns) == stage = "kernel" /\ entered.fn \in fns
Arg(i) == entered.args[i]
Fd == Signed(Arg(1))
Answer(value) == stage' = "return" /\ eax' = value
Kill == stage' = "killed" /\ UNCHANGED <<eax, fdTable, content, buffer>>
RestKept == UNCHANGED <<esp, words, entered, invoked, askedFor, before>>
UserAddress(address) == address \in 1 .. KernelBase - 1
\* A descriptor without a file ends the process.
HasFile(fd) == fdTable[fd] # Nothing

halt == In({"halt"}) /\ stage' = "off" /\ UNCHANGED <<eax, fdTable, content, buffer>> /\ RestKept
exit ==
    /\ In({"exit"})
    /\ stage' = "exited"
    /\ fdTable' = [fd \in DOMAIN fdTable |-> Nothing]
    /\ UNCHANGED <<eax, content, buffer>> /\ RestKept

Opaque ==
    /\ In({"exec", "wait", "create", "remove"})
    /\ IF entered.fn \in {"create", "remove"} /\ ~UserAddress(Arg(1)) THEN Kill
       ELSE \E value \in Answers : Answer(value) /\ UNCHANGED <<fdTable, content, buffer>>
    /\ RestKept

s_pibo ==
    LET step(v, i) == <<v[2], SignedWords(v[1], v[2])>>
    IN /\ In({"pibo"})
       /\ IF Arg(1) = KernelWord THEN \E value \in Answers : Answer(value)
          ELSE Answer(FoldLeft(step, <<1, 1>>, [i \in 1 .. Signed(Arg(1)) - 2 |-> i])[2])
       /\ UNCHANGED <<fdTable, content, buffer>> /\ RestKept
s_sum4 ==
    /\ In({"sum4"})
    /\ IF KernelWord \in Range(entered.args) THEN \E value \in Answers : Answer(value)
       ELSE Answer(FoldLeft(SignedWords, 0, entered.args))
    /\ UNCHANGED <<fdTable, content, buffer>> /\ RestKept

open ==
    LET unused == {fd \in 3 .. LastFd : ~HasFile(fd)}
    IN /\ In({"open"})
       /\ IF ~UserAddress(Arg(1)) THEN Kill
          ELSE IF Arg(1) \notin DOMAIN FileAt \/ unused = {}
          THEN Answer(-1) /\ UNCHANGED <<fdTable, content, buffer>>
          ELSE /\ fdTable' = [fdTable EXCEPT ![Min(unused)] = [name |-> FileAt[Arg(1)], pos |-> 0]]
               /\ Answer(Min(unused))
               /\ UNCHANGED <<content, buffer>>
       /\ RestKept
close ==
    /\ In({"close"})
    /\ IF ~HasFile(Fd) THEN Kill
       ELSE /\ fdTable' = [fdTable EXCEPT ![Fd] = Nothing]
            /\ stage' = "return" /\ UNCHANGED <<eax, content, buffer>>
    /\ RestKept

\* file.c: a position for each open file, also of one name.
file_length(file) == Len(content[file.name])
file_tell(file) == file.pos
file_seek(fd, pos) == fdTable' = [fdTable EXCEPT ![fd].pos = pos]
Advance(fd, n) == fdTable' = [fdTable EXCEPT ![fd].pos = @ + n]

filesize ==
    /\ In({"filesize"})
    /\ IF ~HasFile(Fd) THEN Kill
       ELSE Answer(file_length(fdTable[Fd])) /\ UNCHANGED <<fdTable, content, buffer>>
    /\ RestKept
tell ==
    /\ In({"tell"})
    /\ IF ~HasFile(Fd) THEN Kill
       ELSE Answer(file_tell(fdTable[Fd])) /\ UNCHANGED <<fdTable, content, buffer>>
    /\ RestKept
\* The position is unsigned here and signed below, where one that is negative panics.
seek ==
    /\ In({"seek"})
    /\ IF ~HasFile(Fd) THEN Kill
       ELSE IF Signed(Arg(2)) < 0 THEN stage' = "panic" /\ UNCHANGED <<eax, fdTable, content, buffer>>
       ELSE /\ file_seek(Fd, Arg(2))
            /\ stage' = "return" /\ UNCHANGED <<eax, content, buffer>>
    /\ RestKept

\* What is left from the position on, but no more than was askedFor for.
Moved(size, pos, length) == Max({0, Min({Signed(size), length - pos})})

\* The console, or no file: what the first three descriptors do.  Bytes of the
\* keyboard are counted and dropped.
NotAFile(fd, size) ==
    IF entered.fn = "read" /\ fd = 0 THEN \E n \in 0 .. size : Answer(n)
    ELSE IF entered.fn = "write" /\ fd = 1 THEN Answer(size)
    ELSE Answer(-1)
read ==
    /\ In({"read"})
    /\ IF Arg(2) >= KernelBase THEN Kill
       ELSE IF Fd <= 2 THEN NotAFile(Fd, Arg(3)) /\ UNCHANGED <<fdTable, content, buffer>>
       ELSE IF ~HasFile(Fd) THEN Kill
       ELSE \E file \in {fdTable[Fd]} :
            \E n \in {Moved(Arg(3), file.pos, file_length(file))} :
              /\ buffer' = [i \in DOMAIN buffer |-> IF i <= n THEN content[file.name][file.pos + i] ELSE buffer[i]]
              /\ Advance(Fd, n)
              /\ Answer(n)
              /\ UNCHANGED content
    /\ RestKept
write ==
    /\ In({"write"})
    /\ IF Arg(2) >= KernelBase THEN Kill
       ELSE IF Fd <= 2 THEN NotAFile(Fd, Arg(3)) /\ UNCHANGED <<fdTable, content, buffer>>
       ELSE IF ~HasFile(Fd) THEN Kill
       ELSE \E file \in {fdTable[Fd]} :
            \E n \in {Moved(Arg(3), file.pos, file_length(file))} :
              /\ content' = [content EXCEPT ![file.name] =
                               [i \in DOMAIN @ |-> IF i \in file.pos + 1 .. file.pos + n
                                                   THEN buffer[i - file.pos] ELSE @[i]]]
              /\ Advance(Fd, n)
              /\ Answer(n)
              /\ UNCHANGED buffer
    /\ RestKept

\* Back in the stub, which drops what it pushed.
Back ==
    /\ stage = "return"
    /\ stage' = "user"
    /\ esp' = IF askedFor = Nothing THEN esp ELSE esp + Len(Pushed(askedFor))
    /\ entered' = Nothing
    /\ UNCHANGED <<words, eax, fdTable, content, buffer, invoked, askedFor, before>>

CallsInit ==
    /\ stage = "user" /\ esp = Max(StackWords) /\ words = [w \in StackWords |-> 3] /\ eax = 0
    /\ entered = Nothing /\ fdTable = [fd \in 0 .. LastFd |-> Nothing]
    /\ content = FirstContent /\ buffer = [i \in 1 .. Room |-> 0]
    /\ invoked = 0 /\ askedFor = Nothing /\ before = Nothing
CallsNext ==
    \/ \E c \in Invocations : Stub(c)
    \/ \E pointer \in Pointers, fn \in Direct : Trap(pointer, fn)
    \/ syscall_handler
    \/ halt \/ exit \/ Opaque \/ s_pibo \/ s_sum4
    \/ open \/ close \/ filesize \/ tell \/ seek \/ read \/ write
    \/ Back
CallsSpec == CallsInit /\ [][CallsNext]_callsVars

----------------------------------------------------------------------------
\* What a call that came back has done.

Fibonacci[n \in Nat] == IF n <= 2 THEN 1 ELSE Fibonacci[n - 1] + Fibonacci[n - 2]
Param(i) == askedFor.args[i]
OldFile == before.fdTable[Param(1)]
OldBytes == before.content[OldFile.name]
NewFiles(fd, file) == fdTable = [before.fdTable EXCEPT ![fd] = file]
Untouched == fdTable = before.fdTable /\ content = before.content /\ buffer = before.buffer

\* As many bytes as askedFor for, fewer only at the end of the file.
Transferred(n) ==
    /\ n <= Max({0, Signed(Param(3))})
    /\ n < Signed(Param(3)) => OldFile.pos + n >= Len(OldBytes)
    /\ n > 0 => OldFile.pos + n <= Len(OldBytes)
    /\ NewFiles(Param(1), [OldFile EXCEPT !.pos = @ + n])
Done ==
    CASE askedFor.fn = "pibo" -> eax = Fibonacci[Max({1, Signed(Param(1))})] /\ Untouched
      [] askedFor.fn = "sum4" -> (eax - Param(1) - Param(2) - Param(3) - Param(4)) % UIntMax = 0 /\ Untouched
      [] askedFor.fn = "open" /\ eax # -1 ->
           /\ before.fdTable[eax] = Nothing /\ NewFiles(eax, [name |-> FileAt[Param(1)], pos |-> 0])
           /\ content = before.content
      [] askedFor.fn = "close" -> NewFiles(Param(1), Nothing) /\ OldFile # Nothing
      [] askedFor.fn = "filesize" -> eax = Len(OldBytes) /\ Untouched
      [] askedFor.fn = "tell" -> eax = OldFile.pos /\ Untouched
      [] askedFor.fn = "seek" -> NewFiles(Param(1), [OldFile EXCEPT !.pos = Param(2)])
      [] askedFor.fn = "read" /\ Param(1) > 2 ->
           /\ Transferred(eax) /\ content = before.content
           /\ SubSeq(buffer, 1, eax) = SubSeq(OldBytes, OldFile.pos + 1, OldFile.pos + eax)
           /\ SubSeq(buffer, eax + 1, Room) = SubSeq(before.buffer, eax + 1, Room)
      \* Nothing is said of what the keyboard's bytes do to the buffer.
      [] askedFor.fn = "read" /\ Param(1) = 0 ->
           eax \in 0 .. Param(3) /\ fdTable = before.fdTable /\ content = before.content
      [] askedFor.fn = "write" /\ Param(1) > 2 ->
           /\ Transferred(eax) /\ buffer = before.buffer
           /\ \A name \in DOMAIN content :
                content[name] = IF name # OldFile.name \/ eax = 0 THEN before.content[name]
                                ELSE SubSeq(OldBytes, 1, OldFile.pos) \o SubSeq(buffer, 1, eax)
                                       \o SubSeq(OldBytes, OldFile.pos + eax + 1, Len(OldBytes))
      [] ~Known(askedFor.fn) -> eax = before.eax /\ Untouched
      [] OTHER -> Untouched

\* What a process may be ended for.
BadPointer ==
    \/ askedFor.fn \in {"open", "create", "remove"} /\ Param(1) \notin 1 .. KernelBase - 1
    \/ askedFor.fn \in {"read", "write"} /\ Param(2) >= KernelBase
NotOpen ==
    /\ askedFor.fn \in {"close", "filesize", "tell", "seek", "read", "write"}
    /\ Param(1) \in DOMAIN fdTable /\ OldFile = Nothing

(* A call through a stub reaches the function it names with its arguments   *)
(* in their order, does to files and positions what that function is for,  *)
(* and brings its result back with the stack as it was, whatever other     *)
(* descriptors, of the same file perhaps, are open; a process is ended only *)
(* for a stack that is used up, an address of the kernel or a descriptor   *)
(* without a file; and nothing of the kernel's memory is taken for an      *)
(* argument but by the two functions whose arguments are not checked.      *)
(* What read() of the keyboard leaves in the buffer is not claimed: the    *)
(* code drops the bytes (syscall.c:141-146).                               *)
CallsRelayed ==
    /\ stage = "kernel" /\ askedFor # Nothing => entered = askedFor
    /\ stage = "kernel" /\ KernelWord \in Range(entered.args) => entered.fn \in {"pibo", "sum4"}
    /\ stage = "user" /\ askedFor # Nothing => esp = before.esp /\ Done
    /\ stage = "killed" /\ askedFor # Nothing =>
         \/ before.esp - Len(Pushed(askedFor)) < Min(StackWords) \/ BadPointer \/ NotOpen
=============================================================================
