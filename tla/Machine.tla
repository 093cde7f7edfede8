------------------------------ MODULE Machine -------------------------------
(* The processor as the kernel sets it up and uses it: descriptor tables    *)
(* (userprog/gdt.c, tss.c), interrupts and their controllers                *)
(* (threads/interrupt.c, userprog/exception.c), the stack and the page      *)
(* directory that are in use as threads switch (threads/thread.c,           *)
(* userprog/process.c, pagedir.c), the timer (devices/timer.c).             *)
(* One step is one run of code no interrupt can come into, or one piece of  *)
(* intr_handler(); a device may ask for an interrupt between any two.       *)
EXTENDS Integers, Sequences, SequencesExt

CONSTANTS KThread, Initial, Idle,
          Dir, InitDir,         \* page directories; init_page_dir
          Irq,                  \* lines of the controllers that are used
          TIME_SLICE, TickSpan, \* ticks are counted modulo TickSpan
          NoDir

ASSUME MachineAssumption ==
    /\ Initial \in KThread /\ Idle \in KThread
    /\ NoDir \notin Dir /\ InitDir \notin Dir
    /\ Irq \subseteq 0 .. 15

VARIABLES current,      \* the thread on whose stack the processor is
          frames,       \* what each thread is in, innermost last
          intr,         \* the interrupt flag of the processor
          cr3, esp0,    \* the active page directory; the TSS's stack
          pagedir, dirs,        \* of each thread; those that exist
          status, ready_list,
          in_external_intr, yield_on_return,
          irr, isr,     \* requests; interrupts in service, by controller
          ticks, thread_ticks

space == <<cr3, esp0, pagedir, dirs>>
sched == <<status, ready_list, thread_ticks>>
external == <<in_external_intr, yield_on_return>>
pic == <<irr, isr>>
machineVars == <<current, frames, intr, space, sched, external, pic, ticks>>

-----------------------------------------------------------------------------
(* Descriptors.  A word is the set of its bits that are 1.                  *)

Bits(n) == {i \in 0 .. 30 : (n \div 2 ^ i) % 2 = 1}
Left(w, n) == {i + n : i \in w}
Right(w, n) == {i - n : i \in {j \in w : j >= n}}
Bit(b, n) == IF b THEN {n} ELSE {}
Number(w) == FoldSet(LAMBDA i, n : n + 2 ^ i, 0, w)

make_seg_desc(base, limit, class, type, dpl, granularity) ==
    LET e0 == (limit \cap 0 .. 15) \cup Left(base \cap 0 .. 15, 16)
        e1 == (Right(base, 16) \cap 0 .. 7) \cup Left(Bits(type), 8) \cup Bit(class, 12)
              \cup Left(Bits(dpl), 13) \cup {15} \cup (limit \cap 16 .. 19) \cup {22}
              \cup Bit(granularity, 23) \cup (base \cap 24 .. 31)
    IN e0 \cup Left(e1, 32)
make_code_desc(dpl) == make_seg_desc({}, 0 .. 19, TRUE, 10, dpl, TRUE)
make_data_desc(dpl) == make_seg_desc({}, 0 .. 19, TRUE, 2, dpl, TRUE)
make_tss_desc(laddr) == make_seg_desc(laddr, Bits(103), FALSE, 9, 0, FALSE)

SEL_KCSEG == 8
SEL_KDSEG == 16
SEL_UCSEG == 27
SEL_UDSEG == 35
SEL_TSS == 40
TssAddress == {13, 17, 20, 26, 30, 31}
gdt == [i \in 0 .. 5 |->
          CASE i = SEL_KCSEG \div 8 -> make_code_desc(0)
            [] i = SEL_KDSEG \div 8 -> make_data_desc(0)
            [] i = SEL_UCSEG \div 8 -> make_code_desc(3)
            [] i = SEL_UDSEG \div 8 -> make_data_desc(3)
            [] i = SEL_TSS \div 8 -> make_tss_desc(TssAddress)
            [] OTHER -> {}]

stub(vec) == Bits(vec * 4099) \cup {31}
make_gate(function, dpl, type) ==
    LET e0 == (function \cap 0 .. 15) \cup Left(Bits(SEL_KCSEG), 16)
        e1 == (function \cap 16 .. 31) \cup {15} \cup Left(Bits(dpl), 13) \cup Left(Bits(type), 8)
    IN e0 \cup Left(e1, 32)
make_intr_gate(function, dpl) == make_gate(function, dpl, 14)
make_trap_gate(function, dpl) == make_gate(function, dpl, 15)

\* intr_init(), then register_handler() of each vector that has a handler.
Registered(vec, dpl, on) == [vec |-> vec, dpl |-> dpl, on |-> on]
register_handler(idt, h) ==
    [idt EXCEPT ![h.vec] = IF h.on THEN make_trap_gate(stub(h.vec), h.dpl)
                                   ELSE make_intr_gate(stub(h.vec), h.dpl)]
intr_init == [vec \in 0 .. 255 |-> make_intr_gate(stub(vec), 0)]
Exceptions == <<0, 1, 6, 7, 11, 12, 13, 16, 19>>
exception_init ==
    [i \in 1 .. 3 |-> Registered(<<3, 4, 5>>[i], 3, TRUE)]
    \o [i \in DOMAIN Exceptions |-> Registered(Exceptions[i], 0, TRUE)]
    \o <<Registered(14, 0, FALSE)>>
DeviceHandlers == <<Registered(32, 0, FALSE), Registered(33, 0, FALSE), Registered(46, 0, FALSE)>>
SYSCALL == 48
idt == FoldLeft(register_handler, intr_init,
                DeviceHandlers \o exception_init \o <<Registered(SYSCALL, 3, TRUE)>>)

\* How the processor reads them: a gate's level, whether it turns interrupts
\* off, its code; the level of a code segment; the base of the TSS.
Level(d) == Number(Right(d, 32 + 13) \cap 0 .. 1)
TurnsOff(gate) == Number(Right(gate, 32 + 8) \cap 0 .. 3) = 14
Target(gate) == (gate \cap 0 .. 15) \cup (Right(gate, 32) \cap 16 .. 31)
Selector(gate) == Number(Right(gate \cap 16 .. 31, 16))
Base(d) == Right(d \cap 16 .. 31, 16) \cup Left(Right(d, 32) \cap 0 .. 7, 16) \cup (Right(d, 32) \cap 24 .. 31)
Stubs == [vec \in 0 .. 255 |-> stub(vec)]
VectorOf == [vec \in 0 .. 255 |-> CHOOSE v \in 0 .. 255 : Stubs[v] = Target(idt[vec])]

\* What the bits above come to; there is no constant in it, and TLC computes it.
\* Every gate leads to the stub of its own vector, and the gates of the controllers
\* turn interrupts off and are closed to programs.
ASSUME GatesAssumption ==
    /\ \A vec \in 0 .. 255 : VectorOf[vec] = vec
    /\ \A vec \in 32 .. 47 : TurnsOff(idt[vec]) /\ Level(idt[vec]) # 3

-----------------------------------------------------------------------------

\* What the interrupt stubs push, of which the vector and the flags matter.
Entered(at, vec, flag, pd) == [at |-> at, vec |-> vec, flag |-> flag, pd |-> pd]
Top(t) == Last(frames[t])
Now(at) == frames[current] # <<>> /\ Top(current).at = at
\* The frames of t, in whose innermost it is now at `at'.
Moved(t, at) == [frames EXCEPT ![t][Len(frames[t])].at = at]
Goto(at) == frames' = Moved(current, at)
InUser == Now("user")

\* The two controllers: a line in service holds back itself and those after
\* it; the second controller is line 2 of the first.
Line0(i) == IF i >= 8 THEN 2 ELSE i
Held(i) == (\E j \in isr[0] : j <= Line0(i)) \/ (i >= 8 /\ \E j \in isr[1] : j <= i)
Priority(i) == Line0(i) * 16 + i
Deliverable == {i \in irr : ~Held(i)}
First == CHOOSE i \in Deliverable : \A j \in Deliverable : Priority(i) <= Priority(j)
Quiet == ~intr \/ Deliverable = {}       \* an interrupt that can come comes first

\* The processor enters the kernel: on the stack of the TSS if it was in a
\* user program, and with interrupts off if the gate is an interrupt gate.
Enter(vec) ==
    LET gate == idt[vec]
        t == IF InUser /\ Base(gdt[SEL_TSS \div 8]) = TssAddress THEN esp0 ELSE current
    IN /\ Level(gdt[Selector(gate) \div 8]) = 0
       /\ current' = t
       /\ frames' = [frames EXCEPT ![t] = Append(@, Entered("enter", VectorOf[vec], intr, NoDir))]
       /\ intr' = (intr /\ ~TurnsOff(gate))

Request(i) == /\ i \notin irr /\ irr' = irr \cup {i}
              /\ UNCHANGED <<current, frames, intr, space, sched, external, isr, ticks>>
\* Line 7 is noise: it is gone when the processor asks, and not in service.
Interrupt ==
    /\ intr /\ Deliverable # {}
    /\ Enter(32 + First)
    /\ irr' = irr \ {First}
    /\ isr' = IF First = 7 THEN isr
              ELSE [c \in {0, 1} |-> IF c = 0 THEN isr[0] \cup {Line0(First)}
                                     ELSE isr[1] \cup (IF First >= 8 THEN {First} ELSE {})]
    /\ UNCHANGED <<space, sched, external, ticks>>
\* An INT instruction of a program, with the privilege the gate asks for.
IntInstruction(vec) ==
    /\ Quiet /\ InUser
    /\ Enter(IF Level(idt[vec]) = 3 THEN vec ELSE 13)
    /\ UNCHANGED <<space, sched, external, pic, ticks>>
\* A fault of a program, or of the kernel at an address of a program's.
Fault(vec) ==
    /\ Quiet
    /\ InUser \/ (vec = 14 /\ Now("kernel") /\ current \notin {Initial, Idle})
    /\ Enter(vec)
    /\ UNCHANGED <<space, sched, external, pic, ticks>>

IsExternal(vec) == vec \in 32 .. 47
intr_handler ==
    /\ Quiet /\ Now("enter")
    /\ LET vec == Top(current).vec IN
         IF IsExternal(vec)
         THEN Goto("handler") /\ in_external_intr' = TRUE /\ yield_on_return' = FALSE
         ELSE /\ Goto(CASE vec = SYSCALL -> "kernel" [] vec = 14 -> "page_fault" [] OTHER -> "kill")
              /\ UNCHANGED external
    /\ UNCHANGED <<current, intr, space, sched, pic, ticks>>
intr_yield_on_return == yield_on_return' = TRUE
\* timer_interrupt() and thread_tick(); the other handlers are not about this.
Handler ==
    /\ Now("handler")
    /\ IF Top(current).vec = 32
       THEN /\ ticks' = (ticks + 1) % TickSpan
            /\ thread_ticks' = thread_ticks + 1
            /\ IF thread_ticks + 1 >= TIME_SLICE THEN intr_yield_on_return ELSE UNCHANGED yield_on_return
       ELSE UNCHANGED <<ticks, thread_ticks, yield_on_return>>
    /\ Goto("complete")
    /\ UNCHANGED <<current, intr, space, status, ready_list, in_external_intr, pic>>
\* A controller told of the end takes its first line out of service.
Acknowledged(set) == set \ {i \in set : \A j \in set : i <= j}
\* Variant: the second controller is not told.
pic_end_of_interrupt_master(vec) == [isr EXCEPT ![0] = Acknowledged(@)]
pic_end_of_interrupt(vec) ==
    [isr EXCEPT ![0] = Acknowledged(@), ![1] = IF vec >= 40 THEN Acknowledged(@) ELSE @]
\* Variant: not told when the handler gives way.
Complete_yield ==
    /\ Now("complete")
    /\ in_external_intr' = FALSE
    /\ isr' = IF yield_on_return THEN isr ELSE pic_end_of_interrupt(Top(current).vec)
    /\ Goto(IF yield_on_return THEN "yield" ELSE "iret")
    /\ UNCHANGED <<current, intr, space, sched, yield_on_return, irr, ticks>>
Complete ==
    /\ Now("complete")
    /\ in_external_intr' = FALSE
    /\ isr' = pic_end_of_interrupt(Top(current).vec)
    /\ Goto(IF yield_on_return THEN "yield" ELSE "iret")
    /\ UNCHANGED <<current, intr, space, sched, yield_on_return, irr, ticks>>

-----------------------------------------------------------------------------
(* Switching threads                                                        *)

process_activate(t, dir) ==
    /\ cr3' = IF dir[t] = NoDir THEN InitDir ELSE dir[t]
    /\ esp0' = t

\* schedule() of a thread that goes to st, and thread_schedule_tail() on the
\* stack of the next: q is the ready list, f the frames the thread leaves.
SwitchFrom(st, q, f) ==
    LET next == IF q = <<>> THEN Idle ELSE Head(q)
        dead == st = "dying" /\ current # Initial
    IN /\ current' = next
       /\ ready_list' = IF q = <<>> THEN q ELSE Tail(q)
       /\ status' = [status EXCEPT ![current] = IF dead THEN "none" ELSE st, ![next] = "running"]
       /\ frames' = IF dead THEN [f EXCEPT ![current] = <<>>] ELSE f
       /\ thread_ticks' = 0
       /\ process_activate(next, pagedir)
       /\ UNCHANGED <<pagedir, dirs>>
\* thread_yield(): the idle thread is not put on the list.
thread_yield(at) ==
    SwitchFrom("ready", IF current = Idle THEN ready_list ELSE Append(ready_list, current),
               Moved(current, at))

\* The yield of an interrupt's return: still with interrupts off.
YieldOnReturn ==
    /\ Now("yield") /\ thread_yield("iret") /\ intr' = FALSE
    /\ UNCHANGED <<external, pic, ticks>>
Iret ==
    /\ Now("iret") \/ (Quiet /\ Now("kernel") /\ Top(current).vec = SYSCALL)
    /\ intr' = Top(current).flag
    /\ frames' = [frames EXCEPT ![current] = Front(@)]
    /\ UNCHANGED <<current, space, sched, external, pic, ticks>>

\* A thread that waits: on a lock or a semaphore, as any other may wake it.
Yield ==
    /\ Quiet /\ Now("kernel") /\ current # Idle
    /\ thread_yield("resume") /\ intr' = FALSE
    /\ UNCHANGED <<external, pic, ticks>>
\* Back in thread_yield(), or at the start of kernel_thread().
Resume ==
    /\ Now("resume") /\ Goto("kernel") /\ intr' = TRUE
    /\ UNCHANGED <<current, space, sched, external, pic, ticks>>
idle ==
    /\ Quiet /\ Now("kernel") /\ current = Idle /\ ready_list # <<>>
    /\ SwitchFrom("blocked", ready_list, Moved(Idle, "resume"))
    /\ intr' = FALSE
    /\ UNCHANGED <<external, pic, ticks>>

thread_create(t) ==
    /\ Quiet /\ Now("kernel") /\ current # Idle /\ status[t] = "none"
    /\ status' = [status EXCEPT ![t] = "ready"]
    /\ ready_list' = Append(ready_list, t)
    /\ frames' = [frames EXCEPT ![t] = <<Entered("resume", -1, TRUE, NoDir)>>]
    /\ UNCHANGED <<current, intr, space, thread_ticks, external, pic, ticks>>

-----------------------------------------------------------------------------
(* A process: load(), its start, process_exit()                             *)

Fresh == /\ Quiet /\ Now("kernel") /\ current \notin {Initial, Idle}
         /\ Len(frames[current]) = 1 /\ pagedir[current] = NoDir
LoadCreate(d) ==
    /\ Fresh /\ d \notin dirs
    /\ pagedir' = [pagedir EXCEPT ![current] = d] /\ dirs' = dirs \cup {d}
    /\ Goto("load")
    /\ UNCHANGED <<current, intr, cr3, esp0, sched, external, pic, ticks>>
LoadActivate ==
    /\ Quiet /\ Now("load")
    /\ process_activate(current, pagedir) /\ Goto("loaded")
    /\ UNCHANGED <<current, intr, pagedir, dirs, sched, external, pic, ticks>>
\* start_process() jumps to intr_exit with a frame of its own.
StartProcess ==
    /\ Quiet /\ Now("loaded") /\ Goto("user") /\ intr' = TRUE
    /\ UNCHANGED <<current, space, sched, external, pic, ticks>>
LoadFails ==
    /\ Fresh \/ (Quiet /\ Now("loaded"))
    /\ Goto("exit")
    /\ UNCHANGED <<current, intr, space, sched, external, pic, ticks>>
exit ==
    /\ Quiet /\ Now("kernel") /\ current \notin {Initial, Idle}
    /\ Goto("exit")
    /\ UNCHANGED <<current, intr, space, sched, external, pic, ticks>>
\* kill() and page_fault(), which reads cr2 before it turns interrupts on.
kill ==
    /\ Quiet /\ Now("kill") /\ Goto("exit")
    /\ UNCHANGED <<current, intr, space, sched, external, pic, ticks>>
page_fault ==
    /\ Now("page_fault") /\ Goto("kill") /\ intr' = TRUE
    /\ UNCHANGED <<current, space, sched, external, pic, ticks>>

\* Variant: the thread keeps its directory until it is destroyed.
ExitClear_later ==
    /\ Quiet /\ Now("exit") /\ pagedir[current] # NoDir
    /\ frames' = [Moved(current, "exit_activate") EXCEPT
                    ![current][Len(frames[current])].pd = pagedir[current]]
    /\ UNCHANGED <<current, intr, space, sched, external, pic, ticks>>
ExitClear ==
    /\ Quiet /\ Now("exit") /\ pagedir[current] # NoDir
    /\ pagedir' = [pagedir EXCEPT ![current] = NoDir]
    /\ frames' = [Moved(current, "exit_activate") EXCEPT
                    ![current][Len(frames[current])].pd = pagedir[current]]
    /\ UNCHANGED <<current, intr, cr3, esp0, dirs, sched, external, pic, ticks>>
ExitActivate ==
    /\ Quiet /\ Now("exit_activate")
    /\ cr3' = InitDir /\ Goto("exit_destroy")
    /\ UNCHANGED <<current, intr, esp0, pagedir, dirs, sched, external, pic, ticks>>
ExitDestroy ==
    /\ Quiet /\ Now("exit_destroy")
    /\ dirs' = dirs \ {Top(current).pd} /\ Goto("exit")
    /\ UNCHANGED <<current, intr, cr3, esp0, pagedir, sched, external, pic, ticks>>
thread_exit ==
    /\ Quiet /\ Now("exit") /\ pagedir[current] = NoDir
    /\ intr' = FALSE
    /\ SwitchFrom("dying", ready_list, frames)
    /\ UNCHANGED <<external, pic, ticks>>

-----------------------------------------------------------------------------

MachineInit ==
    /\ current = Initial
    /\ frames = [t \in KThread |-> IF t \in {Initial, Idle} THEN <<Entered("kernel", -1, TRUE, NoDir)>> ELSE <<>>]
    /\ intr = TRUE /\ cr3 = InitDir /\ esp0 = Initial
    /\ pagedir = [t \in KThread |-> NoDir] /\ dirs = {}
    /\ status = [t \in KThread |-> CASE t = Initial -> "running" [] t = Idle -> "blocked" [] OTHER -> "none"]
    /\ ready_list = <<>>
    /\ in_external_intr = FALSE /\ yield_on_return = FALSE
    /\ irr = {} /\ isr = [c \in {0, 1} |-> {}]
    /\ ticks = 0 /\ thread_ticks = 0
InHandler == intr_handler \/ Handler \/ Complete \/ YieldOnReturn \/ Iret \/ page_fault \/ kill
InKernel == \/ Yield \/ Resume \/ idle \/ exit \/ LoadActivate \/ StartProcess \/ LoadFails
            \/ (\E t \in KThread : thread_create(t)) \/ (\E d \in Dir : LoadCreate(d))
            \/ ExitClear \/ ExitActivate \/ ExitDestroy \/ thread_exit
InProgram == \E vec \in {0, 3, 32, SYSCALL} : IntInstruction(vec)
Cpu == Interrupt \/ InHandler \/ InKernel \/ InProgram \/ \E vec \in {0, 14} : Fault(vec)
MachineNext == Cpu \/ \E i \in Irq : Request(i)
\* The processor goes on, and so does the timer.
MachineSpec == MachineInit /\ [][MachineNext]_machineVars
        /\ WF_machineVars(Interrupt) /\ WF_machineVars(InHandler) /\ WF_machineVars(Resume) /\ WF_machineVars(Request(0))

-----------------------------------------------------------------------------

\* Whatever interrupts and switches come, also in the middle of load() and
\* process_exit(): the active page directory exists; a user program runs with
\* its own, and the stack its interrupts will use is that of its thread; the
\* kernel works for a process in the directory of that process.
OwnSpace ==
    /\ cr3 \in dirs \cup {InitDir}
    /\ InUser => cr3 = pagedir[current] /\ esp0 = current
    /\ Now("kernel") => cr3 = IF pagedir[current] = NoDir THEN InitDir ELSE pagedir[current]
    /\ status[current] = "running"

\* One external interrupt is handled at a time, with interrupts off, never
\* one a program has made up; it is in service until the controllers are
\* told, which is before the handler gives way to another thread, and no
\* thread ever runs with one in service.
OneExternal ==
    LET handling == frames[current] # <<>> /\ IsExternal(Top(current).vec)
                    /\ Top(current).at \in {"enter", "handler", "complete"}
        vec == Top(current).vec
    IN /\ in_external_intr <=> (Now("handler") \/ Now("complete"))
       /\ handling => ~intr
       /\ handling /\ vec # 39 => Line0(vec - 32) \in isr[0] /\ (vec >= 40 => vec - 32 \in isr[1])
       /\ ~handling => isr[0] = {} /\ isr[1] = {}

\* Both: whatever comes in between, an interrupt finds the stack and the page
\* directory of the thread it interrupts, and the controllers are told of its
\* end before another thread runs.
InterruptsExact == OwnSpace /\ OneExternal

\* Timer ticks never stop being counted, with interrupts held back, other
\* devices asking and programs that never come back to the kernel.
TicksGoOn == \A n \in 0 .. TickSpan - 1 : []<>(ticks = n)
=============================================================================
