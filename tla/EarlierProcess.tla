--------------------------- MODULE EarlierProcess ---------------------------
(* Processes as the earlier project has them (Prj1: userprog/process.c,     *)
(* userprog/syscall.c): a process that waits spins on one variable of the   *)
(* kernel until some process exits, and takes the status from another.      *)
(* Threads give way to each other at any step.                              *)
EXTENDS Integers, Sequences, SequencesExt

CONSTANTS Tid, Main,    \* threads; MAIN is the kernel's first
          Statuses,     \* what a program may give to exit()
          None

VARIABLES proc,         \* each process: how far it is, its exit_status
          child,        \* each process's list of children
          mem_lock, mem_exit_status,
          teller,       \* history: the process that stored mem_exit_status
          returned      \* what each process's last wait() was for, returned, and whose that was

vars == <<proc, child, mem_lock, mem_exit_status, teller, returned>>

TID_ERROR == -1
Unborn == [pc |-> "unborn", exit_status |-> 0, waits_for |-> None]
NoReturn == [tid |-> None, status |-> 0, of |-> None]
Runs(p) == proc[p].pc = "run"
Goto(p, pc) == proc' = [proc EXCEPT ![p].pc = pc]

\* process_execute() of a file that is there; thread_create() puts the new
\* thread on the list of its parent, its memory cleared.
process_execute(p, t) ==
    /\ Runs(p) /\ proc[t].pc = "unborn"
    /\ proc' = [proc EXCEPT ![t] = [Unborn EXCEPT !.pc = "start"]]
    /\ child' = [child EXCEPT ![p] = Append(@, t), ![t] = <<>>]
    /\ UNCHANGED <<mem_lock, mem_exit_status, teller, returned>>
\* The file is not there or there is no page: nothing is made.
ExecFails(p) == Runs(p) /\ UNCHANGED vars

\* start_process(): the program is loaded, or its thread ends with the
\* status it was cleared to.
start_process(p) ==
    /\ proc[p].pc = "start"
    /\ Goto(p, "run") \/ Goto(p, "exit")
    /\ UNCHANGED <<child, mem_lock, mem_exit_status, teller, returned>>

exit(p, status) ==
    /\ Runs(p) /\ p # Main
    /\ proc' = [proc EXCEPT ![p].pc = "exit", ![p].exit_status = status]
    /\ UNCHANGED <<child, mem_lock, mem_exit_status, teller, returned>>
\* kill(): an exception of the program's own ends it without a status.
kill(p) ==
    /\ Runs(p) /\ p # Main
    /\ Goto(p, "exit")
    /\ UNCHANGED <<child, mem_lock, mem_exit_status, teller, returned>>
\* An address of the kernel's ends a process with status -1, a page that is
\* not there with the status it was cleared to.
page_fault(p, kernel) ==
    IF kernel THEN exit(p, -1) ELSE kill(p)

\* process_exit(): three steps, for nothing keeps other threads out.
Unlock(p) ==
    /\ proc[p].pc = "exit"
    /\ mem_lock' = 0
    /\ Goto(p, "status")
    /\ UNCHANGED <<child, mem_exit_status, teller, returned>>
TellStatus(p) ==
    /\ proc[p].pc = "status"
    /\ mem_exit_status' = proc[p].exit_status /\ teller' = p
    /\ Goto(p, "remove")
    /\ UNCHANGED <<child, mem_lock, returned>>
Leave(p) ==
    /\ proc[p].pc = "remove"
    /\ child' = [q \in Tid |-> SelectSeq(child[q], LAMBDA t : t # p)]
    /\ proc' = [proc EXCEPT ![p].pc = "dead"]
    /\ UNCHANGED <<mem_lock, mem_exit_status, teller, returned>>

\* process_wait(): a thread that is no child any more gives -1 at once.
Wait(p, t) ==
    /\ Runs(p)
    /\ IF t \in Range(child[p])
       THEN /\ mem_lock' = 1
            /\ proc' = [proc EXCEPT ![p].pc = "spin", ![p].waits_for = t]
            /\ UNCHANGED returned
       ELSE /\ returned' = [returned EXCEPT ![p] = NoReturn]
            /\ UNCHANGED <<proc, mem_lock>>
    /\ UNCHANGED <<child, mem_exit_status, teller>>
SpinEnds(p) ==
    /\ proc[p].pc = "spin" /\ mem_lock # 1
    /\ Goto(p, "take")
    /\ UNCHANGED <<child, mem_lock, mem_exit_status, teller, returned>>
TakeStatus(p) ==
    /\ proc[p].pc = "take"
    /\ mem_lock' = 1
    /\ returned' = [returned EXCEPT ![p] =
          [tid |-> proc[p].waits_for, status |-> mem_exit_status, of |-> teller]]
    /\ proc' = [proc EXCEPT ![p].pc = "run", ![p].waits_for = None]
    /\ UNCHANGED <<child, mem_exit_status, teller>>

Init ==
    /\ proc = [t \in Tid |-> IF t = Main THEN [Unborn EXCEPT !.pc = "run"] ELSE Unborn]
    /\ child = [t \in Tid |-> <<>>]
    /\ mem_lock = 0 /\ mem_exit_status = 0 /\ teller = None
    /\ returned = [t \in Tid |-> NoReturn]
Step(p) ==
    \/ ExecFails(p) \/ start_process(p)
    \/ \E t \in Tid : process_execute(p, t) \/ Wait(p, t)
    \/ \E status \in Statuses : exit(p, status)
    \/ \E kernel \in BOOLEAN : page_fault(p, kernel)
    \/ Unlock(p) \/ TellStatus(p) \/ Leave(p)
    \/ SpinEnds(p) \/ TakeStatus(p)
Next == \E p \in Tid : Step(p)
Spec == Init /\ [][Next]_vars

\* "Waits for thread TID to die and returns its exit status" (Prj1
\* userprog/process.c:100): a status that a wait for a child returns, once
\* some process has stored one, is the one the child has when it ends.
Ends(t) == proc[t].pc \in {"exit", "status", "remove", "dead"}
WaitReturnsStatus ==
    \A p \in Tid :
      LET r == returned[p]
      IN  r.tid # None /\ r.of # None /\ Ends(r.tid) => r.status = proc[r.tid].exit_status
=============================================================================
