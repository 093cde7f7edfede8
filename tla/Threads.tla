------------------------------- MODULE Threads -------------------------------
(***************************************************************************)
(* The scheduler of threads/thread.c (Prj2): the run queue, the life cycle *)
(* of a struct thread, the idle thread and the timer-driven time slice.    *)
(* One processor; `current' is running_thread().  Every action is one      *)
(* stretch of code that runs with interrupts off, which is what makes it   *)
(* atomic: the scheduler itself has no other protection.                   *)
(*                                                                         *)
(* What threads do between two calls of the scheduler is left open here:   *)
(* any running thread may block, yield, create or exit, and any blocked    *)
(* thread may be woken.  Synch.tla restricts that to what synch.c does.    *)
(***************************************************************************)
EXTENDS Naturals, Sequences

CONSTANTS
  Thread,      \* the pages that can hold a struct thread
  main,        \* initial_thread
  Idle,        \* the thread created by thread_start() to run idle()
  NoThread,    \* NULL
  TIME_SLICE   \* timer ticks given to each thread

ASSUME ThreadAssumption ==
  /\ main \in Thread /\ Idle \in Thread /\ main # Idle
  /\ NoThread \notin Thread
  /\ TIME_SLICE \in Nat \ {0}

VARIABLES
  status,        \* status[t]; "NONE" while the page holds no thread
  ready_list,    \* the run queue
  current,       \* running_thread()
  idle_thread,   \* the global of that name, NULL until idle() has started
  thread_ticks   \* timer ticks since the last switch

tvars == <<status, ready_list, current, idle_thread, thread_ticks>>

Status == {"NONE", "RUNNING", "READY", "BLOCKED", "DYING"}

(* The state at the end of the first two statements of thread_start(): main *)
(* runs and thread_create() has put the idle thread on the run queue.      *)
TInit ==
  /\ status = [t \in Thread |->
                 IF t = main THEN "RUNNING" ELSE IF t = Idle THEN "READY" ELSE "NONE"]
  /\ ready_list = <<Idle>>
  /\ current = main
  /\ idle_thread = NoThread
  /\ thread_ticks = 0
-----------------------------------------------------------------------------
(***************************************************************************)
(* The intrusive lists of lib/kernel/list.c as the kernel uses them for    *)
(* queues: push_back is Append, pop_front is Head and Tail.  A list_elem   *)
(* can be on one list once, so a queue is well formed when nothing occurs  *)
(* twice in it.                                                            *)
(***************************************************************************)
Queued(q) == {q[i] : i \in 1 .. Len(q)}

Distinct(q) == \A i, j \in 1 .. Len(q) : q[i] = q[j] => i = j

(* The elements that leave q before t does.                                *)
Ahead(q, t) == {q[i] : i \in {k \in 1 .. Len(q) : \E j \in 1 .. Len(q) : k < j /\ q[j] = t}}

-----------------------------------------------------------------------------
next_thread_to_run(rl) == IF rl = <<>> THEN idle_thread ELSE Head(rl)

(* thread_schedule_tail(): the new thread runs, and a previous thread that  *)
(* is dying gives its page back, unless it is initial_thread.               *)
AfterSwitch(st, next) ==
  [t \in Thread |->
     IF t = next THEN "RUNNING"
     ELSE IF t = current /\ st[t] = "DYING" /\ t # main THEN "NONE"
     ELSE st[t]]

(* schedule(), called when the running thread has left RUNNING: st and rl   *)
(* are the statuses and the run queue it leaves behind.                     *)
schedule(st, rl) ==
  /\ current' = next_thread_to_run(rl)
  /\ ready_list' = IF rl = <<>> THEN rl ELSE Tail(rl)
  /\ status' = AfterSwitch(st, next_thread_to_run(rl))
  /\ thread_ticks' = 0
  /\ UNCHANGED idle_thread

(* Mutant: the idle thread is queued like any other.                        *)
thread_yield_queues_idle ==
  schedule([status EXCEPT ![current] = "READY"], Append(ready_list, current))

thread_block == schedule([status EXCEPT ![current] = "BLOCKED"], ready_list)

thread_yield ==
  schedule([status EXCEPT ![current] = "READY"],
           IF current # idle_thread THEN Append(ready_list, current) ELSE ready_list)

(* What thread_unblock() does; that t is blocked is its assertion.          *)
thread_unblock(t) ==
  /\ ready_list' = Append(ready_list, t)
  /\ status' = [status EXCEPT ![t] = "READY"]
  /\ UNCHANGED <<current, idle_thread, thread_ticks>>

(* thread_exit() after process_exit(): DYING, and off the processor.        *)
thread_die == schedule([status EXCEPT ![current] = "DYING"], ready_list)

(* thread_create() up to allocate_tid(): a free page becomes a blocked      *)
(* thread.  The unblock that ends thread_create() is a step of its own,     *)
(* interrupts are on in between.                                            *)
thread_init_page(t) ==
  /\ status[t] = "NONE"
  /\ status' = [status EXCEPT ![t] = "BLOCKED"]
  /\ UNCHANGED <<ready_list, current, idle_thread, thread_ticks>>

(* The timer interrupt: thread_tick(), then the yield the interrupt handler *)
(* does on its way out when the slice is used up.                           *)
thread_tick ==
  IF thread_ticks + 1 >= TIME_SLICE
  THEN thread_yield
  ELSE /\ thread_ticks' = thread_ticks + 1
       /\ UNCHANGED <<status, ready_list, current, idle_thread>>

(* idle() publishes itself once; from then on it only blocks.               *)
idle_start ==
  /\ current = Idle /\ idle_thread = NoThread
  /\ idle_thread' = current
  /\ UNCHANGED <<status, ready_list, current, thread_ticks>>

idle_loop == current = idle_thread /\ thread_block
-----------------------------------------------------------------------------
Tick       == thread_tick
Yield      == current # Idle /\ thread_yield
Block      == current # Idle /\ thread_block
Unblock(t) == t # Idle /\ status[t] = "BLOCKED" /\ thread_unblock(t)
Create(t)  == current # Idle /\ thread_init_page(t)
Exit       == current # Idle /\ thread_die

TNext ==
  \/ Tick \/ Yield \/ Block \/ Exit
  \/ idle_start \/ idle_loop
  \/ \E t \in Thread : Unblock(t) \/ Create(t)

TSpec == TInit /\ [][TNext]_tvars

(* The timer keeps ticking, and idle(), when it has the processor, runs.    *)
TFairSpec == TSpec /\ WF_tvars(Tick) /\ WF_tvars(idle_start) /\ WF_tvars(idle_loop)
-----------------------------------------------------------------------------
TTypeOK ==
  /\ status \in [Thread -> Status]
  /\ ready_list \in Seq(Thread)
  /\ current \in Thread
  /\ idle_thread \in {NoThread, Idle}
  /\ thread_ticks \in 0 .. TIME_SLICE - 1

(* thread.h: `elem' is on the run queue exactly while the thread is ready   *)
(* (the idle thread excepted: it is ready without being queued), at most    *)
(* once.  A second insertion would corrupt the list.                        *)
RunQueueExact ==
  /\ Distinct(ready_list)
  /\ Queued(ready_list) = {t \in Thread : status[t] = "READY" /\ t # idle_thread}

(* Only the thread that has the processor is RUNNING, so only one is.       *)
OneRunning == \A t \in Thread : status[t] = "RUNNING" <=> t = current

(* schedule() asserts that next_thread_to_run() returns a thread.  Until    *)
(* idle() has stored idle_thread an empty run queue would return NULL: what *)
(* rules it out is that the idle thread itself is queued or running then.   *)
NextIsAThread ==
  idle_thread = NoThread => current = Idle \/ Idle \in Queued(ready_list)

(* The queue is FIFO: no step puts a thread in front of one that was        *)
(* already waiting for the processor.                                       *)
NoOvertaking ==
  [][\A t \in Queued(ready_list) \cap Queued(ready_list') :
        Ahead(ready_list', t) \subseteq Ahead(ready_list, t)]_tvars

(* A ready thread gets the processor, whatever the others do with it: the   *)
(* time slice bounds every turn.                                            *)
ReadyRuns ==
  \A t \in Thread : status[t] = "READY" /\ t # Idle ~> status[t] = "RUNNING"
=============================================================================
