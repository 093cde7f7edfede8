------------------------------- MODULE Process -------------------------------
(***************************************************************************)
(* exec, wait and exit of userprog/process.c (Prj2): the handshakes of a   *)
(* parent and its children over three semaphores in struct thread --       *)
(* parent_sema (the child has tried to load), child_sema (it has exited),  *)
(* mem_sema (its status has been read, the page may go) -- and the one     *)
(* global load_flag.                                                       *)
(*                                                                         *)
(* sema_down() is a step that waits for a positive value, which is what    *)
(* Synch.tla shows of it.  A struct thread is a page that is freed when    *)
(* the thread is destroyed and may then hold another thread.               *)
(***************************************************************************)
EXTENDS Integers, FiniteSets

CONSTANTS
  Page,          \* the pages that can hold a struct thread
  main,          \* the page of initial_thread, which runs run_task()
  NoPage,
  MaxTid,        \* bound: no thread is created after this tid
  ExitStatus,    \* what processes pass to exit()
  BadImage,      \* BOOLEAN: load() may fail
  Killable,      \* BOOLEAN: processes may be killed by kill()
  OutOfMemory    \* BOOLEAN: allocations other than the thread page may fail

ASSUME ProcessAssumption ==
  /\ main \in Page /\ NoPage \notin Page
  /\ MaxTid \in Nat \ {0}
  /\ ExitStatus \subseteq Int
  /\ BadImage \in BOOLEAN /\ Killable \in BOOLEAN /\ OutOfMemory \in BOOLEAN

TID_ERROR == -1
Tid == 1 .. MaxTid

VARIABLES
  pc,           \* where in process.c the thread of a page is; "none" = free page
  tid, parent, children, exit_status, parent_sema, child_sema, mem_sema,  \* struct thread
  call,         \* the system call the thread is in and its tid; NoCall in user mode
  tmp, result,  \* the locals of process_wait()
  load_flag, next_tid,
  loaded,       \* history: the thread's load() succeeded
  ending,       \* history: how the thread ended and with what status
  reaped        \* history: the tids process_wait() has returned a status for

thread == <<tid, parent, children, exit_status, parent_sema, child_sema, mem_sema>>
locals == <<call, tmp, result>>
history == <<loaded, ending, reaped>>
vars == <<pc, thread, locals, load_flag, next_tid, history>>

NoCall == [op |-> "none", tid |-> TID_ERROR]
NotEnded == [by |-> "none", status |-> 0]
Labels == {"none", "start", "loaded", "failed", "failed_up", "user", "exec_down", "exec_flag",
           "wait_down", "wait_up", "exit_up", "exit_down", "task"}

(* thread_init() makes the initial thread a child of itself: running_thread()*)
(* is the thread being initialised.                                          *)
PInit ==
  /\ pc = [p \in Page |-> IF p = main THEN "user" ELSE "none"]
  /\ tid = [p \in Page |-> IF p = main THEN 1 ELSE 0]
  /\ parent = [p \in Page |-> IF p = main THEN main ELSE NoPage]
  /\ children = [p \in Page |-> IF p = main THEN {main} ELSE {}]
  /\ exit_status = [p \in Page |-> 0]
  /\ parent_sema = [p \in Page |-> 0]
  /\ child_sema = [p \in Page |-> 0]
  /\ mem_sema = [p \in Page |-> 0]
  /\ call = [p \in Page |-> NoCall]
  /\ tmp = [p \in Page |-> NoPage]
  /\ result = [p \in Page |-> 0]
  /\ load_flag = 0 /\ next_tid = 2
  /\ loaded = [p \in Page |-> FALSE]
  /\ ending = [p \in Page |-> NotEnded]
  /\ reaped = {}
-----------------------------------------------------------------------------
Goto(p, label) == pc' = [pc EXCEPT ![p] = label]
Enter(p, label, op, t) == Goto(p, label) /\ call' = [call EXCEPT ![p] = [op |-> op, tid |-> t]]
Return(p) == Goto(p, "user") /\ call' = [call EXCEPT ![p] = NoCall]

(* process_execute() returns r: to user mode, or to run_task(), which       *)
(* passes it to process_wait().                                             *)
ReturnExec(p, r) == IF p = main THEN Enter(p, "task", "wait", r) ELSE Return(p)

up(sema, p) == [sema EXCEPT ![p] = @ + 1]
down(sema, p) == [sema EXCEPT ![p] = @ - 1]

(* exec: process_execute() *)

(* init_thread(): the page is cleared, and the new thread goes on the       *)
(* running thread's list of children.                                       *)
init_thread(p, c) ==
  /\ parent' = [parent EXCEPT ![c] = p]
  /\ children' = [children EXCEPT ![p] = @ \cup {c}, ![c] = {}]
  /\ exit_status' = [exit_status EXCEPT ![c] = 0]
  /\ parent_sema' = [parent_sema EXCEPT ![c] = 0]
  /\ child_sema' = [child_sema EXCEPT ![c] = 0]
  /\ mem_sema' = [mem_sema EXCEPT ![c] = 0]

(* thread_create(), for a name that is left out.                            *)
ExecCreate(p, c) ==
  /\ pc[p] = "user" /\ pc[c] = "none" /\ next_tid <= MaxTid
  /\ pc' = [pc EXCEPT ![p] = "exec_down", ![c] = "start"]
  /\ call' = [call EXCEPT ![p] = [op |-> "exec", tid |-> next_tid]]
  /\ init_thread(p, c)
  /\ tid' = [tid EXCEPT ![c] = next_tid]
  /\ next_tid' = next_tid + 1
  /\ UNCHANGED <<tmp, result, load_flag, history>>

(* thread_create() finds no page: TID_ERROR, but the parent sleeps all the  *)
(* same.                                                                    *)
ExecNoThread(p) ==
  /\ pc[p] = "user" /\ (OutOfMemory \/ \A c \in Page : pc[c] # "none")
  /\ Enter(p, "exec_down", "exec", TID_ERROR)
  /\ UNCHANGED <<thread, tmp, result, load_flag, next_tid, history>>

(* Mutants: the parent does not sleep; it takes a unit that is not there.   *)
ExecDown_skipped(p) ==
  /\ pc[p] = "exec_down"
  /\ Goto(p, "exec_flag")
  /\ UNCHANGED <<thread, locals, load_flag, next_tid, history>>

ExecDown(p) ==
  /\ pc[p] = "exec_down" /\ parent_sema[p] > 0
  /\ parent_sema' = down(parent_sema, p)
  /\ Goto(p, "exec_flag")
  /\ UNCHANGED <<tid, parent, children, exit_status, child_sema, mem_sema, locals, load_flag,
                 next_tid, history>>

(* process_wait() finds tid t among the children of p, and sleeps on it.    *)
FoundChild(p, t, c) == c \in children[p] /\ tid[c] = t
IsChild(p, t) == \E c \in Page : FoundChild(p, t, c)

(* The test of the global load_flag, some time after the child has woken us:*)
(* exec returns the tid, or what waiting for it returns.                    *)
ExecReturn(p) ==
  /\ pc[p] = "exec_flag" /\ (load_flag # 0 \/ ~IsChild(p, call[p].tid))
  /\ ReturnExec(p, IF load_flag # 0 THEN call[p].tid ELSE -1)
  /\ UNCHANGED <<thread, tmp, result, load_flag, next_tid, history>>

ExecWait(p) ==
  /\ pc[p] = "exec_flag" /\ load_flag = 0
  /\ \E c \in Page : FoundChild(p, call[p].tid, c) /\ tmp' = [tmp EXCEPT ![p] = c]
  /\ Goto(p, "wait_down")
  /\ UNCHANGED <<thread, call, result, load_flag, next_tid, history>>

(* The new thread: start_process() *)

LoadOk(p) ==
  /\ pc[p] = "start"
  /\ load_flag' = 1
  /\ loaded' = [loaded EXCEPT ![p] = TRUE]
  /\ Goto(p, "loaded")
  /\ UNCHANGED <<thread, locals, next_tid, ending, reaped>>

LoadFail(p) ==
  /\ pc[p] = "start" /\ BadImage
  /\ Goto(p, "failed")
  /\ UNCHANGED <<thread, locals, load_flag, next_tid, history>>

SignalParent(p) ==
  /\ pc[p] \in {"loaded", "failed"}
  /\ parent_sema' = up(parent_sema, parent[p])
  /\ Goto(p, IF pc[p] = "loaded" THEN "user" ELSE "failed_up")
  /\ UNCHANGED <<tid, parent, children, exit_status, child_sema, mem_sema, locals, load_flag,
                 next_tid, history>>

(* exit() up to thread_exit(): the status is recorded.                      *)
exit(p, status) ==
  /\ exit_status' = [exit_status EXCEPT ![p] = status]
  /\ ending' = [ending EXCEPT ![p] = [by |-> "exit", status |-> status]]
  /\ Goto(p, "exit_up")

(* load() failed: only now, after the parent has been woken, is the flag    *)
(* cleared.                                                                 *)
FailExit(p) ==
  /\ pc[p] = "failed_up"
  /\ load_flag' = 0
  /\ exit(p, -1)
  /\ UNCHANGED <<tid, parent, children, parent_sema, child_sema, mem_sema, locals, next_tid,
                 loaded, reaped>>

(* build_stack() dereferences the NULL of a failed malloc(): the page-fault *)
(* handler calls exit(-1), and the parent is never woken.                   *)
BuildStackFault(p) ==
  /\ pc[p] = "loaded" /\ OutOfMemory
  /\ exit(p, -1)
  /\ UNCHANGED <<tid, parent, children, parent_sema, child_sema, mem_sema, locals, load_flag,
                 next_tid, loaded, reaped>>

(* wait: process_wait() *)

(* A user program may wait for any tid, run_task() for what exec returned.  *)
AsksFor(p, t) ==
  \/ p # main /\ pc[p] = "user"
  \/ pc[p] = "task" /\ call[p].tid = t

(* Not a child, or not any more: -1 at once.                                *)
WaitRefused(p, t) ==
  /\ AsksFor(p, t)
  /\ ~IsChild(p, t)
  /\ Return(p)
  /\ UNCHANGED <<thread, tmp, result, load_flag, next_tid, history>>

Wait(p, t) ==
  /\ AsksFor(p, t)
  /\ \E c \in Page : FoundChild(p, t, c) /\ tmp' = [tmp EXCEPT ![p] = c]
  /\ Enter(p, "wait_down", "wait", t)
  /\ UNCHANGED <<thread, result, load_flag, next_tid, history>>

(* Mutants: the status is read without sleeping; the child stays on the     *)
(* list and its child_sema up.                                              *)
WaitDown_unguarded(p) ==
  /\ pc[p] = "wait_down"
  /\ result' = [result EXCEPT ![p] = exit_status[tmp[p]]]
  /\ children' = [children EXCEPT ![p] = @ \ {tmp[p]}]
  /\ reaped' = reaped \cup {tid[tmp[p]]}
  /\ Goto(p, "wait_up")
  /\ UNCHANGED <<tid, parent, exit_status, parent_sema, child_sema, mem_sema, call, tmp,
                 load_flag, next_tid, loaded, ending>>

WaitDown_keeps_child(p) ==
  /\ pc[p] = "wait_down" /\ child_sema[tmp[p]] > 0
  /\ result' = [result EXCEPT ![p] = exit_status[tmp[p]]]
  /\ reaped' = reaped \cup {tid[tmp[p]]}
  /\ Goto(p, "wait_up")
  /\ UNCHANGED <<tid, parent, children, exit_status, parent_sema, child_sema, mem_sema, call, tmp,
                 load_flag, next_tid, loaded, ending>>

(* The child has exited: read its status, take it off the list.             *)
WaitDown(p) ==
  /\ pc[p] = "wait_down" /\ child_sema[tmp[p]] > 0
  /\ child_sema' = down(child_sema, tmp[p])
  /\ result' = [result EXCEPT ![p] = exit_status[tmp[p]]]
  /\ children' = [children EXCEPT ![p] = @ \ {tmp[p]}]
  /\ reaped' = reaped \cup {tid[tmp[p]]}
  /\ Goto(p, "wait_up")
  /\ UNCHANGED <<tid, parent, exit_status, parent_sema, mem_sema, call, tmp, load_flag,
                 next_tid, loaded, ending>>

WaitUp(p) ==
  /\ pc[p] = "wait_up"
  /\ mem_sema' = up(mem_sema, tmp[p])
  /\ tmp' = [tmp EXCEPT ![p] = NoPage]
  /\ result' = [result EXCEPT ![p] = 0]
  /\ IF call[p].op = "exec" THEN ReturnExec(p, result[p]) ELSE Return(p)
  /\ UNCHANGED <<tid, parent, children, exit_status, parent_sema, child_sema, load_flag,
                 next_tid, history>>

(* exit: exit(), kill() and process_exit() *)

Exit(p, status) ==
  /\ pc[p] = "user" /\ p # main
  /\ exit(p, status)
  /\ UNCHANGED <<tid, parent, children, parent_sema, child_sema, mem_sema, locals, load_flag,
                 next_tid, loaded, reaped>>

(* A user exception: kill() goes straight to thread_exit().                 *)
Kill(p) ==
  /\ pc[p] = "user" /\ p # main /\ Killable
  /\ ending' = [ending EXCEPT ![p] = [by |-> "kernel", status |-> -1]]
  /\ Goto(p, "exit_up")
  /\ UNCHANGED <<thread, locals, load_flag, next_tid, loaded, reaped>>

(* Mutant: process_exit() does not tell the parent.                         *)
ExitUp_silent(p) ==
  /\ pc[p] = "exit_up"
  /\ Goto(p, "exit_down")
  /\ UNCHANGED <<thread, locals, load_flag, next_tid, history>>

ExitUp(p) ==
  /\ pc[p] = "exit_up"
  /\ child_sema' = up(child_sema, p)
  /\ Goto(p, "exit_down")
  /\ UNCHANGED <<tid, parent, children, exit_status, parent_sema, mem_sema, locals, load_flag,
                 next_tid, history>>

(* thread_exit() destroys the thread, and palloc_free_page() overwrites its *)
(* page.                                                                    *)
FreePage(p) ==
  /\ Goto(p, "none")
  /\ tid' = [tid EXCEPT ![p] = 0]
  /\ parent' = [parent EXCEPT ![p] = NoPage]
  /\ children' = [children EXCEPT ![p] = {}]
  /\ exit_status' = [exit_status EXCEPT ![p] = 0]
  /\ parent_sema' = [parent_sema EXCEPT ![p] = 0]
  /\ child_sema' = [child_sema EXCEPT ![p] = 0]
  /\ mem_sema' = [mem_sema EXCEPT ![p] = 0]
  /\ loaded' = [loaded EXCEPT ![p] = FALSE]
  /\ ending' = [ending EXCEPT ![p] = NotEnded]
  /\ UNCHANGED <<locals, load_flag, next_tid, reaped>>

(* Mutant: process_exit() does not wait for its parent.                     *)
ExitDown_at_once(p) == pc[p] = "exit_down" /\ FreePage(p)

ExitDown(p) == pc[p] = "exit_down" /\ mem_sema[p] > 0 /\ FreePage(p)
-----------------------------------------------------------------------------
(* The steps of the kernel on behalf of one thread.                         *)
Step(p) ==
  \/ ExecDown(p) \/ ExecReturn(p) \/ ExecWait(p) \/ LoadOk(p) \/ LoadFail(p) \/ SignalParent(p)
  \/ FailExit(p) \/ BuildStackFault(p) \/ WaitDown(p) \/ WaitUp(p) \/ ExitUp(p) \/ ExitDown(p)

(* What its user program may ask for at any time, and for main its tasks.   *)
UserCall(p) ==
  \/ ExecNoThread(p) \/ Kill(p)
  \/ \E c \in Page : ExecCreate(p, c)
  \/ \E t \in Tid \cup ExitStatus \cup {TID_ERROR} : Wait(p, t) \/ WaitRefused(p, t)
  \/ \E s \in ExitStatus : Exit(p, s)

PNext == \E p \in Page : Step(p) \/ UserCall(p)

PSpec == PInit /\ [][PNext]_vars

(* The scheduler runs every thread that is ready (Synch.tla); user programs *)
(* need not do anything.                                                    *)
PFairSpec == PSpec /\ \A p \in Page : WF_vars(Step(p))
-----------------------------------------------------------------------------
PTypeOK ==
  /\ pc \in [Page -> Labels]
  /\ tid \in [Page -> Nat]
  /\ parent \in [Page -> Page \cup {NoPage}]
  /\ children \in [Page -> SUBSET Page]
  /\ exit_status \in [Page -> Int] /\ result \in [Page -> Int]
  /\ parent_sema \in [Page -> Nat] /\ child_sema \in [Page -> Nat] /\ mem_sema \in [Page -> Nat]
  /\ call \in [Page -> [op : {"none", "exec", "wait"}, tid : Int]]
  /\ tmp \in [Page -> Page \cup {NoPage}]
  /\ load_flag \in {0, 1} /\ next_tid \in Nat
  /\ loaded \in [Page -> BOOLEAN]
  /\ ending \in [Page -> [by : {"none", "exit", "kernel"}, status : Int]]
  /\ reaped \subseteq Nat

Live == {p \in Page : pc[p] # "none"}
Unheard == {"start", "loaded", "failed"}   \* before SignalParent

(* A page is not freed under a reference that is still used: the children   *)
(* process_wait() walks over, the child it sleeps on, and the parent a new  *)
(* thread is about to wake are all live, and are who they are taken for.    *)
NoUseAfterFree ==
  /\ \A p \in Live, c \in Page : c \in children[p] => c \in Live /\ parent[c] = p
  /\ \A p \in Page : pc[p] \in {"wait_down", "wait_up"} =>
        tmp[p] \in Live /\ parent[tmp[p]] = p /\ tid[tmp[p]] = call[p].tid
  /\ \A c \in Page : pc[c] \in Unheard =>
        pc[parent[c]] = "exec_down" /\ call[parent[c]].tid = tid[c]

(* process_wait() returns the status the child gave to exit(), never the 0  *)
(* it was created with.                                                     *)
WaitReturnsStatus ==
  \A p \in Page : pc[p] = "wait_up" /\ ending[tmp[p]].by = "exit"
                    => result[p] = ending[tmp[p]].status

(* ... and returns it to one call only.                                     *)
WaitOnce == [][\A p \in Page : WaitDown(p) => tid[tmp[p]] \notin reaped]_vars

(* "returns -1 immediately" (process.c:125) is for those tids only: a child *)
(* that has not been waited for is found.  The `parent' of a process whose  *)
(* parent is gone dangles, and may point to a younger thread on that page;  *)
(* tids are handed out in order, which tells the two apart.                 *)
IsParent(p, c) == parent[c] = p /\ tid[p] < tid[c]
ChildrenFound ==
  \A p, c \in Live : IsParent(p, c) /\ tid[c] \notin reaped => c \in children[p]

(* A thread is destroyed only after its parent has its status.              *)
FreedAfterReaped ==
  [][\A p \in Page : pc[p] # "none" /\ pc'[p] = "none" => tid[p] \in reaped]_vars

(* The parent of a new process does not leave exec before the child has     *)
(* tried to load: no unit of parent_sema is left over from another child.   *)
ExecAwaitsLoad ==
  \A p \in Page : pc[p] = "exec_flag" =>
     \E c \in children[p] : tid[c] = call[p].tid /\ pc[c] \notin Unheard

(* exec comes back once its child has tried to load, unless exec itself     *)
(* waits for the child to end, or the child faults in build_stack().        *)
ExecReturns ==
  \A p \in Page : pc[p] = "exec_down" /\ call[p].tid # TID_ERROR
                    ~> \/ pc[p] \in {"user", "task", "wait_down"}
                       \/ \E c \in Page : tid[c] = call[p].tid /\ loaded[c] /\ ending[c].status = -1

(* wait comes back once the child has exited, whatever the others do.       *)
WaitReturns ==
  \A p \in Page : pc[p] = "wait_down" /\ pc[tmp[p]] \in {"exit_up", "exit_down"}
                    ~> pc[p] \in {"user", "task"}

(* Neither call leaves its caller asleep for want of a wake-up.             *)
CallsReturn == ExecReturns /\ WaitReturns
-----------------------------------------------------------------------------
(* What the comments and tests of the repository say and the code does not  *)
(* do.                                                                      *)

(* tests/userprog/no-vm/multi-oom.c:5: if the process does not get to start *)
(* exec does not return its tid.                                            *)
ExecReportsFailure ==
  [][\A p, c \in Page :
        ExecReturn(p) /\ load_flag # 0 /\ FoundChild(p, call[p].tid, c) => loaded[c]]_vars

=============================================================================
