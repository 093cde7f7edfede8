----------------------------- MODULE Synch_proofs -----------------------------
(***************************************************************************)
(* The scheduler keeps its run queue exact;                                *)
(* synch.c meets the scheduler's contract, loses no wake-up, gives a lock  *)
(* one owner, and its locks and condition variables are the monitor of     *)
(* Monitor.tla: every step of the kernel is one step of the monitor or     *)
(* leaves it alone.  All this for any finite set of threads, any           *)
(* semaphores, locks and conditions, and any time slice.                   *)
(***************************************************************************)
EXTENDS Synch, FiniteSetTheorems, TLAPS

-----------------------------------------------------------------------------
(* What push_back and pop_front do to the contents of a queue.             *)

(* An empty list has no members.                                            *)
LEMMA EmptyQueue == Queued(<<>>) = {} /\ Distinct(<<>>)
  BY DEF Queued, Distinct

(* A list with a member is not empty, and its first element is a member.    *)
LEMMA HeadQueued ==
  ASSUME NEW S, NEW q \in Seq(S), q # <<>>
  PROVE  Head(q) \in Queued(q) /\ Head(q) \in S
  BY DEF Queued

(* The members of a list of S are in S.                                     *)
LEMMA QueuedType ==
  ASSUME NEW S, NEW q \in Seq(S)
  PROVE  Queued(q) \subseteq S
  BY DEF Queued

(* list_push_back adds exactly the new element.                             *)
LEMMA AppendQueued ==
  ASSUME NEW S, NEW q \in Seq(S), NEW x \in S
  PROVE  Queued(Append(q, x)) = Queued(q) \cup {x}
<1>1. Append(q, x) \in Seq(S) /\ Len(Append(q, x)) = Len(q) + 1 /\ Len(q) \in Nat
  OBVIOUS
<1>2. \A i \in 1 .. Len(q) : Append(q, x)[i] = q[i]
  OBVIOUS
<1>3. Append(q, x)[Len(q) + 1] = x
  OBVIOUS
<1> QED
  BY <1>1, <1>2, <1>3 DEF Queued

(* ... and keeps the elements distinct when the new one was not a member.   *)
LEMMA AppendDistinct ==
  ASSUME NEW S, NEW q \in Seq(S), NEW x \in S, Distinct(q), x \notin Queued(q)
  PROVE  Distinct(Append(q, x))
<1>1. Append(q, x) \in Seq(S) /\ Len(Append(q, x)) = Len(q) + 1 /\ Len(q) \in Nat
  OBVIOUS
<1>2. \A i \in 1 .. Len(q) : Append(q, x)[i] = q[i]
  OBVIOUS
<1>3. Append(q, x)[Len(q) + 1] = x
  OBVIOUS
<1> QED
  BY <1>1, <1>2, <1>3 DEF Queued, Distinct

(* list_pop_front removes exactly the first element.                        *)
LEMMA TailQueued ==
  ASSUME NEW S, NEW q \in Seq(S), q # <<>>, Distinct(q)
  PROVE  /\ Queued(Tail(q)) = Queued(q) \ {Head(q)}
         /\ Distinct(Tail(q))
<1>1. Tail(q) \in Seq(S) /\ Len(Tail(q)) = Len(q) - 1 /\ Len(q) \in Nat \ {0}
  OBVIOUS
<1>2. \A i \in 1 .. Len(q) - 1 : Tail(q)[i] = q[i + 1]
  OBVIOUS
<1>3. Head(q) = q[1]
  OBVIOUS
<1>4. Distinct(Tail(q))
  <2> SUFFICES ASSUME NEW i \in 1 .. Len(Tail(q)), NEW j \in 1 .. Len(Tail(q)),
                      Tail(q)[i] = Tail(q)[j]
               PROVE  i = j
    BY DEF Distinct
  <2>1. q[i + 1] = q[j + 1]
    BY <1>1, <1>2
  <2>2. i + 1 \in 1 .. Len(q) /\ j + 1 \in 1 .. Len(q)
    BY <1>1
  <2> QED
    BY <2>1, <2>2 DEF Distinct
<1>5. Queued(Tail(q)) \subseteq Queued(q) \ {Head(q)}
  <2> SUFFICES ASSUME NEW i \in 1 .. Len(Tail(q))
               PROVE  Tail(q)[i] \in Queued(q) \ {Head(q)}
    BY DEF Queued
  <2>1. Tail(q)[i] = q[i + 1] /\ i + 1 \in 1 .. Len(q) /\ i + 1 # 1 /\ 1 \in 1 .. Len(q)
    BY <1>1, <1>2
  <2> QED
    BY <2>1, <1>3 DEF Queued, Distinct
<1>6. Queued(q) \ {Head(q)} \subseteq Queued(Tail(q))
  <2> SUFFICES ASSUME NEW i \in 1 .. Len(q), q[i] # Head(q)
               PROVE  q[i] \in Queued(Tail(q))
    BY DEF Queued
  <2>1. i - 1 \in 1 .. Len(Tail(q)) /\ Tail(q)[i - 1] = q[i]
    BY <1>1, <1>2, <1>3
  <2> QED
    BY <2>1 DEF Queued
<1> QED
  BY <1>4, <1>5, <1>6

-----------------------------------------------------------------------------

(* The inductive invariant is the conjunction of the four invariants: the   *)
(* run queue stays exact only because a queued thread is not running, and   *)
(* a switch finds a thread only because the queue is exact.                 *)
TInv == TTypeOK /\ RunQueueExact /\ OneRunning /\ NextIsAThread

(* The machine as thread_start() leaves it satisfies the invariant.         *)
LEMMA TInit_TInv == TInit => TInv
<1> SUFFICES ASSUME TInit PROVE TInv
  OBVIOUS
<1> USE ThreadAssumption DEF TInit
<1>1. Queued(<<Idle>>) = {Idle} /\ Distinct(<<Idle>>)
  BY DEF Queued, Distinct
<1>2. TTypeOK
  BY DEF TTypeOK, Status
<1>3. RunQueueExact
  BY <1>1 DEF RunQueueExact
<1>4. OneRunning /\ NextIsAThread
  BY <1>1 DEF OneRunning, NextIsAThread
<1> QED
  BY <1>2, <1>3, <1>4 DEF TInv

(* What schedule() needs from its caller to keep the invariant: the thread  *)
(* that called it has left RUNNING, and the run queue it hands over is      *)
(* exact for the statuses it hands over.                                    *)
LEMMA ScheduleKeepsTInv ==
  ASSUME NEW st \in [Thread -> Status], NEW rl \in Seq(Thread),
         current \in Thread, idle_thread \in {NoThread, Idle},
         \A t \in Thread : st[t] # "RUNNING",
         Distinct(rl),
         Queued(rl) = {t \in Thread : st[t] = "READY" /\ t # idle_thread},
         idle_thread = NoThread => Idle \in Queued(rl),
         schedule(st, rl)
  PROVE  TInv'
<1> DEFINE next == next_thread_to_run(rl)
<1> USE ThreadAssumption
<1>1. /\ current' = next /\ idle_thread' = idle_thread /\ thread_ticks' = 0
      /\ ready_list' = IF rl = <<>> THEN rl ELSE Tail(rl)
      /\ status' = AfterSwitch(st, next)
  BY DEF schedule
<1>2. next \in Thread /\ (rl # <<>> => next = Head(rl) /\ next \in Queued(rl))
                      /\ (rl = <<>> => next = idle_thread /\ idle_thread = Idle)
  BY HeadQueued, EmptyQueue DEF next_thread_to_run
<1>3. /\ Queued(ready_list') = Queued(rl) \ {next}
      /\ Distinct(ready_list') /\ ready_list' \in Seq(Thread)
  <2>1. CASE rl = <<>>
    BY <1>1, <2>1, EmptyQueue
  <2>2. CASE rl # <<>>
    <3>1. Tail(rl) \in Seq(Thread)
      BY <2>2
    <3> QED
      BY <1>1, <1>2, <2>2, <3>1, TailQueued
  <2> QED
    BY <2>1, <2>2
<1>4. /\ status' \in [Thread -> Status]
      /\ \A t \in Thread : /\ status'[t] = "RUNNING" <=> t = next
                           /\ t # next => (status'[t] = "READY" <=> st[t] = "READY")
  BY <1>1, <1>2 DEF AfterSwitch, Status
<1>5. TTypeOK'
  BY <1>1, <1>2, <1>3, <1>4 DEF TTypeOK
<1>6. RunQueueExact'
  BY <1>1, <1>2, <1>3, <1>4 DEF RunQueueExact
<1>7. OneRunning'
  BY <1>1, <1>4 DEF OneRunning
<1>8. NextIsAThread'
  BY <1>1, <1>2, <1>3 DEF NextIsAThread
<1> QED
  BY <1>5, <1>6, <1>7, <1>8 DEF TInv

(* thread_yield() by any thread keeps the invariant.                        *)
LEMMA YieldKeepsTInv == TInv /\ thread_yield => TInv'
<1> SUFFICES ASSUME TInv, thread_yield PROVE TInv'
  OBVIOUS
<1> USE ThreadAssumption
<1> DEFINE st == [status EXCEPT ![current] = "READY"]
           rl == IF current # idle_thread THEN Append(ready_list, current) ELSE ready_list
<1>0. TTypeOK /\ RunQueueExact /\ OneRunning /\ NextIsAThread
  BY DEF TInv
<1>t. /\ current \in Thread /\ idle_thread \in {NoThread, Idle}
      /\ ready_list \in Seq(Thread) /\ Distinct(ready_list)
  BY <1>0 DEF TTypeOK, RunQueueExact
<1>1. st \in [Thread -> Status] /\ \A t \in Thread : st[t] # "RUNNING"
  BY <1>0 DEF Status, TTypeOK, OneRunning
<1>2. current \notin Queued(ready_list)
  BY <1>0 DEF RunQueueExact, OneRunning
<1>3. CASE current # idle_thread
  <2>1. rl = Append(ready_list, current)
    BY <1>3
  <2>2. rl \in Seq(Thread) /\ Distinct(rl) /\ Queued(rl) = Queued(ready_list) \cup {current}
    BY <1>t, <1>2, <2>1, AppendQueued, AppendDistinct
  <2>3. Queued(rl) = {t \in Thread : st[t] = "READY" /\ t # idle_thread}
    BY <1>0, <1>3, <2>2 DEF RunQueueExact, TTypeOK
  <2>4. idle_thread = NoThread => Idle \in Queued(rl)
    BY <1>0, <2>2 DEF NextIsAThread
  <2>5. schedule(st, rl)
    BY DEF thread_yield
  <2> HIDE DEF st, rl
  <2> QED
    BY <1>t, <1>1, <2>2, <2>3, <2>4, <2>5, ScheduleKeepsTInv
<1>4. CASE current = idle_thread
  <2>1. rl = ready_list
    BY <1>4
  <2>3. Queued(rl) = {t \in Thread : st[t] = "READY" /\ t # idle_thread}
    BY <1>0, <1>4, <2>1 DEF RunQueueExact, TTypeOK
  <2>4. idle_thread # NoThread
    BY <1>t, <1>4
  <2>5. schedule(st, rl)
    BY DEF thread_yield
  <2> HIDE DEF st, rl
  <2> QED
    BY <1>t, <1>1, <2>1, <2>3, <2>4, <2>5, ScheduleKeepsTInv
<1> QED
  BY <1>3, <1>4

(* So does any step that blocks or ends the running thread, given that the  *)
(* idle thread does neither before it has published itself.                 *)
LEMMA LeaveKeepsTInv ==
  ASSUME TInv, NEW s \in {"BLOCKED", "DYING"},
         current = Idle => idle_thread = Idle,
         schedule([status EXCEPT ![current] = s], ready_list)
  PROVE  TInv'
<1> USE ThreadAssumption DEF TInv, TTypeOK, RunQueueExact, OneRunning, NextIsAThread
<1> DEFINE st == [status EXCEPT ![current] = s]
<1>1. st \in [Thread -> Status] /\ \A t \in Thread : st[t] # "RUNNING"
  BY DEF Status
<1>2. Queued(ready_list) = {t \in Thread : st[t] = "READY" /\ t # idle_thread}
  OBVIOUS
<1>3. idle_thread = NoThread => Idle \in Queued(ready_list)
  OBVIOUS
<1> HIDE DEF st
<1>4. /\ ready_list \in Seq(Thread) /\ Distinct(ready_list) /\ current \in Thread
      /\ idle_thread \in {NoThread, Idle} /\ schedule(st, ready_list)
  BY DEF st
<1> HIDE DEF TInv, TTypeOK, RunQueueExact, OneRunning, NextIsAThread
<1> QED
  BY <1>1, <1>2, <1>3, <1>4, ScheduleKeepsTInv

(* thread_unblock() of a blocked thread other than the idle thread.         *)
LEMMA UnblockKeepsTInv ==
  ASSUME TInv, NEW u \in Thread, Unblock(u)
  PROVE  TInv'
<1> USE ThreadAssumption DEF TInv, TTypeOK, RunQueueExact, OneRunning, NextIsAThread
<1>1. status[u] = "BLOCKED" /\ u # current /\ u # idle_thread /\ u \notin Queued(ready_list)
  BY DEF Unblock, thread_unblock
<1>2. /\ Queued(ready_list') = Queued(ready_list) \cup {u}
      /\ Distinct(ready_list') /\ ready_list' \in Seq(Thread)
  BY <1>1, AppendQueued, AppendDistinct DEF Unblock, thread_unblock
<1>3. TTypeOK'
  BY <1>2 DEF Unblock, thread_unblock, Status
<1>4. RunQueueExact'
  BY <1>1, <1>2 DEF Unblock, thread_unblock
<1>5. OneRunning' /\ NextIsAThread'
  BY <1>1, <1>2 DEF Unblock, thread_unblock
<1> QED
  BY <1>3, <1>4, <1>5

(* Every step of the scheduler keeps the invariant.                         *)
LEMMA TNext_TInv == TInv /\ [TNext]_tvars => TInv'
<1> SUFFICES ASSUME TInv, [TNext]_tvars PROVE TInv'
  OBVIOUS
<1> USE ThreadAssumption
<1>1. CASE Tick
  <2>1. CASE thread_ticks + 1 >= TIME_SLICE
    BY <1>1, <2>1, YieldKeepsTInv DEF Tick, thread_tick
  <2>2. CASE ~(thread_ticks + 1 >= TIME_SLICE)
    BY <1>1, <2>2 DEF Tick, thread_tick, TInv, TTypeOK, RunQueueExact, OneRunning, NextIsAThread
  <2> QED
    BY <2>1, <2>2
<1>2. CASE Yield
  BY <1>2, YieldKeepsTInv DEF Yield
<1>3. CASE Block
  BY <1>3, LeaveKeepsTInv DEF Block, thread_block
<1>4. CASE Exit
  BY <1>4, LeaveKeepsTInv DEF Exit, thread_die
<1>5. CASE idle_start
  BY <1>5 DEF idle_start, TInv, TTypeOK, RunQueueExact, OneRunning, NextIsAThread
<1>6. CASE idle_loop
  <2>1. idle_thread \in {NoThread, Idle} /\ current \in Thread
    BY DEF TInv, TTypeOK
  <2>2. current = Idle /\ idle_thread = Idle
    BY <1>6, <2>1 DEF idle_loop
  <2> QED
    BY <1>6, <2>2, LeaveKeepsTInv DEF idle_loop, thread_block
<1>7. ASSUME NEW t \in Thread, Unblock(t) PROVE TInv'
  BY <1>7, UnblockKeepsTInv
<1>8. ASSUME NEW t \in Thread, Create(t) PROVE TInv'
  BY <1>8 DEF Create, thread_init_page, TInv, TTypeOK, RunQueueExact, OneRunning,
              NextIsAThread, Status
<1>9. CASE UNCHANGED tvars
  BY <1>9 DEF tvars, TInv, TTypeOK, RunQueueExact, OneRunning, NextIsAThread
<1> QED
  BY <1>1, <1>2, <1>3, <1>4, <1>5, <1>6, <1>7, <1>8, <1>9 DEF TNext

(* The run queue holds each ready thread exactly once and nothing else, one *)
(* thread is running, and schedule() always finds a thread to run.          *)
THEOREM SchedulerSafety == TSpec => [](TTypeOK /\ RunQueueExact /\ OneRunning /\ NextIsAThread)
<1>1. TSpec => []TInv
  BY TInit_TInv, TNext_TInv, PTL DEF TSpec
<1> QED
  BY <1>1, PTL DEF TInv

-----------------------------------------------------------------------------
(* The synchronisation primitives.                                         *)

(* What the place a thread has reached says about the rest of its state.    *)
PcOKAt(t) ==
  /\ pc[t] = "down" => /\ sema[t] \in Semaphore
                       /\ sema[t] \in Thread => sema[t] = t /\ cond[t] \in Cond
  /\ pc[t] \in {"owned", "released"} => sema[t] \in Lock /\ holder[sema[t]] = NoThread
  /\ pc[t] \in {"cond_sleep", "relock", "broadcast"} => cond[t] \in Cond
  /\ status[t] = "NONE" => pc[t] = "run"
  /\ pc[t] \in {"idle_up", "idle"} => t = Idle
  /\ pc[t] = "boot" => t \in {main, Idle}
  /\ pc[t] = "create" => /\ child[t] \in Thread \ {Idle}
                         /\ status[child[t]] = "BLOCKED" /\ pc[child[t]] = "run"

(* The idle thread publishes itself and then only loops.                    *)
IdleOK ==
  \/ pc[Idle] = "boot" /\ idle_thread = NoThread
  \/ pc[Idle] \in {"idle_up", "idle"} /\ idle_thread = Idle

(* Two threads in thread_create() make different threads.                   *)
ChildrenDiffer ==
  \A t, u \in Thread : pc[t] = "create" /\ pc[u] = "create" /\ child[t] = child[u] => t = u

PcOK == (\A t \in Thread : PcOKAt(t)) /\ IdleOK /\ ChildrenDiffer

(* LockOwned without counting: the semaphore is up and nobody is between    *)
(* taking it and giving it back, or it is down and one thread is.           *)
OneOwner(l) ==
  \/ value[l] = 1 /\ Owners(l) = {}
  \/ value[l] = 0 /\ \E t \in Thread : Owners(l) = {t}

SInv ==
  /\ STypeOK /\ TInv /\ PcOK /\ ElemOnOneList /\ NoLostWakeup
  /\ \A l \in Lock : OneOwner(l)
-----------------------------------------------------------------------------
(* What a switch does to the statuses that synch.c relies on: it blocks and *)
(* wakes nobody but the thread that leaves and the idle thread, and it      *)
(* frees only a thread that dies.                                           *)
LEMMA SwitchStatus ==
  ASSUME TInv, NEW x \in {"READY", "BLOCKED", "DYING"}, NEW rl \in Seq(Thread),
         rl = ready_list \/ (x = "READY" /\ rl = Append(ready_list, current)),
         schedule([status EXCEPT ![current] = x], rl)
  PROVE  /\ \A t \in Thread \ {Idle, current} : status'[t] = "BLOCKED" <=> status[t] = "BLOCKED"
         /\ current # Idle => (status'[current] = "BLOCKED" <=> x = "BLOCKED")
         /\ \A t \in Thread : status'[t] = "NONE" => status[t] = "NONE" \/ (t = current /\ x = "DYING")
<1> DEFINE next == next_thread_to_run(rl)
<1> USE ThreadAssumption
<1>0. /\ status \in [Thread -> Status] /\ ready_list \in Seq(Thread) /\ current \in Thread
      /\ idle_thread \in {NoThread, Idle} /\ status[current] = "RUNNING"
      /\ \A t \in Queued(ready_list) : t \in Thread /\ status[t] = "READY"
  BY DEF TInv, TTypeOK, OneRunning, RunQueueExact
<1>1. \/ next = idle_thread
      \/ next = current /\ x = "READY"
      \/ next \in Thread /\ next # current /\ status[next] = "READY"
  <2>1. CASE rl = <<>>
    BY <2>1 DEF next_thread_to_run
  <2>2. CASE rl # <<>>
    <3>0. next = Head(rl)
      BY <2>2, Zenon DEF next_thread_to_run
    <3>1. next \in Queued(rl)
      BY <2>2, <3>0, HeadQueued
    <3>2. CASE rl = ready_list
      BY <1>0, <3>1, <3>2
    <3>3. CASE x = "READY" /\ rl = Append(ready_list, current)
      <4>1. Queued(rl) = Queued(ready_list) \cup {current}
        BY <1>0, <3>3, AppendQueued
      <4>2. next \in Queued(ready_list) \/ next = current
        BY <3>1, <4>1
      <4> QED
        BY <1>0, <3>3, <4>2
    <3> QED
      BY <3>2, <3>3
  <2> QED
    BY <2>1, <2>2
<1>2. status' = [t \in Thread |->
                   IF t = next THEN "RUNNING"
                   ELSE IF t = current /\ x = "DYING" /\ t # main THEN "NONE"
                   ELSE IF t = current THEN x ELSE status[t]]
  BY <1>0 DEF schedule, AfterSwitch, Status
<1> QED
  BY <1>0, <1>1, <1>2

(* The same for thread_yield(), of any thread.                              *)
LEMMA YieldStatus ==
  ASSUME TInv, thread_yield
  PROVE  /\ \A t \in Thread \ {Idle} : status'[t] = "BLOCKED" <=> status[t] = "BLOCKED"
         /\ \A t \in Thread : status'[t] = "NONE" => status[t] = "NONE"
         /\ idle_thread' = idle_thread
<1> DEFINE rl == IF current # idle_thread THEN Append(ready_list, current) ELSE ready_list
<1>1. /\ rl \in Seq(Thread) /\ status[current] = "RUNNING"
      /\ rl = ready_list \/ rl = Append(ready_list, current)
  BY DEF TInv, TTypeOK, OneRunning
<1>2. schedule([status EXCEPT ![current] = "READY"], rl)
  BY DEF thread_yield
<1> HIDE DEF rl
<1>3. idle_thread' = idle_thread
  BY <1>2 DEF schedule
<1> QED
  BY <1>1, <1>2, <1>3, SwitchStatus

(* The timer interrupt: a yield or nothing.                                 *)
LEMMA TickStatus ==
  ASSUME TInv, Tick
  PROVE  /\ \A t \in Thread \ {Idle} : status'[t] = "BLOCKED" <=> status[t] = "BLOCKED"
         /\ \A t \in Thread : status'[t] = "NONE" => status[t] = "NONE"
         /\ idle_thread' = idle_thread
  BY YieldStatus DEF Tick, thread_tick

(* thread_block() blocks the thread that calls it and no other.             *)
LEMMA BlockStatus ==
  ASSUME TInv, thread_block
  PROVE  /\ \A t \in Thread \ {Idle, current} : status'[t] = "BLOCKED" <=> status[t] = "BLOCKED"
         /\ current # Idle => status'[current] = "BLOCKED"
         /\ \A t \in Thread : status'[t] = "NONE" => status[t] = "NONE"
         /\ idle_thread' = idle_thread
<1>1. ready_list \in Seq(Thread)
  BY DEF TInv, TTypeOK
<1>2. schedule([status EXCEPT ![current] = "BLOCKED"], ready_list)
  BY DEF thread_block
<1>3. idle_thread' = idle_thread
  BY <1>2 DEF schedule
<1> QED
  BY <1>1, <1>2, <1>3, SwitchStatus

(* thread_exit(): only the thread that exits goes.                          *)
LEMMA DieStatus ==
  ASSUME TInv, thread_die
  PROVE  /\ \A t \in Thread \ {Idle, current} : status'[t] = "BLOCKED" <=> status[t] = "BLOCKED"
         /\ current # Idle => status'[current] # "BLOCKED"
         /\ \A t \in Thread : status'[t] = "NONE" => status[t] = "NONE" \/ t = current
         /\ idle_thread' = idle_thread
<1>1. ready_list \in Seq(Thread)
  BY DEF TInv, TTypeOK
<1>2. schedule([status EXCEPT ![current] = "DYING"], ready_list)
  BY DEF thread_die
<1>3. idle_thread' = idle_thread
  BY <1>2 DEF schedule
<1> QED
  BY <1>1, <1>2, <1>3, SwitchStatus
-----------------------------------------------------------------------------
(* The running thread is on no wait list, and the idle thread never is.     *)
LEMMA Unlisted ==
  ASSUME SInv, NEW s \in Semaphore
  PROVE  /\ current \in Thread /\ status[current] = "RUNNING" /\ current \notin Queued(waiters[s])
         /\ pc[Idle] # "down" /\ (At("run") \/ At("down") => current # Idle)
  BY ThreadAssumption DEF SInv, TInv, TTypeOK, OneRunning, ElemOnOneList, PcOK, IdleOK, At

(* The set of woken threads is finite, and so counts.                       *)
LEMMA WokenFinite ==
  ASSUME NEW s
  PROVE  /\ IsFiniteSet(Woken(s)) /\ Cardinality(Woken(s)) \in Nat
         /\ IsFiniteSet(Woken(s)') /\ Cardinality(Woken(s)') \in Nat
<1>1. Woken(s) \subseteq Thread /\ Woken(s)' \subseteq Thread
  BY DEF Woken
<1> QED
  BY <1>1, SynchAssumption, FS_Subset, FS_CardinalityType

(* A step that neither enters nor leaves a wait, wakes and blocks no waiter *)
(* and adds no units, keeps the wait lists right.                           *)
LEMMA QuietKeepsLists ==
  ASSUME SInv,
         waiters' = waiters,
         value' \in [Semaphore -> Nat], \A s \in Semaphore : value'[s] =< value[s],
         \A t \in Thread : /\ pc'[t] = "down" <=> pc[t] = "down"
                           /\ pc[t] = "down" => /\ sema'[t] = sema[t]
                                                /\ status'[t] = "BLOCKED" <=> status[t] = "BLOCKED"
  PROVE  ElemOnOneList' /\ NoLostWakeup'
<1>1. ElemOnOneList'
  BY DEF SInv, ElemOnOneList, Semaphore
<1>2. NoLostWakeup'
  <2> SUFFICES ASSUME NEW s \in Semaphore, waiters[s] # <<>>
               PROVE  Cardinality(Woken(s)') >= value'[s]
    BY DEF NoLostWakeup, Semaphore
  <2>1. Woken(s)' = Woken(s)
    BY DEF Woken
  <2>2. Cardinality(Woken(s)) >= value[s] /\ value[s] \in Nat /\ value'[s] \in Nat
    BY DEF SInv, NoLostWakeup, STypeOK
  <2> QED
    BY <2>1, <2>2, WokenFinite
<1> QED
  BY <1>1, <1>2

(* sema_up() keeps them too: the unit it adds has the thread it wakes.      *)
LEMMA UpKeepsLists ==
  ASSUME SInv, NEW s \in Semaphore, sema_up(s),
         \A t \in Thread : /\ pc'[t] = "down" <=> pc[t] = "down"
                           /\ pc[t] = "down" => sema'[t] = sema[t]
  PROVE  /\ ElemOnOneList' /\ NoLostWakeup' /\ [TNext]_tvars
         /\ value' \in [Semaphore -> Nat] /\ waiters' \in [Semaphore -> Seq(Thread)]
         /\ \A r \in Semaphore : value'[r] = IF r = s THEN value[r] + 1 ELSE value[r]
         /\ \A t \in Thread : pc[t] # "down" \/ status[t] = "NONE" => status'[t] = status[t]
         /\ \A t \in Thread : status'[t] = "NONE" => status[t] = "NONE"
         /\ idle_thread' = idle_thread /\ current' = current
<1>0. /\ value \in [Semaphore -> Nat] /\ waiters \in [Semaphore -> Seq(Thread)]
      /\ status \in [Thread -> Status]
      /\ value' = [value EXCEPT ![s] = @ + 1]
  BY DEF SInv, STypeOK, TTypeOK, sema_up
<1>1. value' \in [Semaphore -> Nat] /\ \A r \in Semaphore : value'[r] = IF r = s THEN value[r] + 1 ELSE value[r]
  BY <1>0
<1>2. CASE waiters[s] = <<>>
  <2>1. UNCHANGED <<tvars, waiters>>
    BY <1>2 DEF sema_up
  <2>2. ElemOnOneList'
    BY <2>1 DEF SInv, ElemOnOneList, Semaphore, tvars
  <2>3. NoLostWakeup'
    <3> SUFFICES ASSUME NEW r \in Semaphore, waiters[r] # <<>>
                 PROVE  Cardinality(Woken(r)') >= value'[r]
      BY <2>1 DEF NoLostWakeup, Semaphore
    <3>1. Woken(r)' = Woken(r)
      BY <2>1 DEF Woken, tvars
    <3> QED
      BY <3>1, <1>1, <1>2 DEF SInv, NoLostWakeup
  <2> QED
    BY <1>0, <1>1, <2>1, <2>2, <2>3 DEF tvars
<1>3. CASE waiters[s] # <<>>
  <2> DEFINE h == Head(waiters[s])
  <2>1. /\ waiters' = [waiters EXCEPT ![s] = Tail(@)]
        /\ thread_unblock(h)
    BY <1>3 DEF sema_up
  <2>2. h \in Queued(waiters[s]) /\ h \in Thread
    BY <1>0, <1>3, HeadQueued
  <2>3. status[h] = "BLOCKED" /\ pc[h] = "down" /\ sema[h] = s /\ h # Idle
    BY <2>2, Unlisted DEF SInv, ElemOnOneList
  <2>4. Tail(waiters[s]) \in Seq(Thread)
    BY <1>0, <1>3
  <2>5. Queued(Tail(waiters[s])) = Queued(waiters[s]) \ {h} /\ Distinct(Tail(waiters[s]))
    BY <1>0, <1>3, TailQueued DEF SInv, ElemOnOneList
  <2> HIDE DEF h
  <2>6. /\ status' = [status EXCEPT ![h] = "READY"]
        /\ idle_thread' = idle_thread /\ current' = current
    BY <2>1 DEF thread_unblock
  <2>7. waiters' \in [Semaphore -> Seq(Thread)]
    BY <1>0, <2>1, <2>4
  <2>8. ElemOnOneList'
    <3> SUFFICES ASSUME NEW r \in Semaphore
                 PROVE  /\ Distinct(waiters'[r])
                        /\ \A t \in Thread : t \in Queued(waiters'[r]) <=>
                             status'[t] = "BLOCKED" /\ pc'[t] = "down" /\ sema'[t] = r
      BY DEF ElemOnOneList, Semaphore
    <3>1. CASE r = s
      <4>1. waiters'[r] = Tail(waiters[s])
        BY <1>0, <2>1, <3>1
      <4> QED
        BY <1>0, <2>3, <2>5, <2>6, <3>1, <4>1, SMTT(30) DEF SInv, ElemOnOneList
    <3>2. CASE r # s
      <4>1. waiters'[r] = waiters[r]
        BY <1>0, <2>1, <3>2
      <4>2. /\ Distinct(waiters[r])
            /\ \A t \in Thread : t \in Queued(waiters[r]) <=>
                 status[t] = "BLOCKED" /\ pc[t] = "down" /\ sema[t] = r
        BY DEF SInv, ElemOnOneList
      <4>3. \A t \in Thread : t # h => status'[t] = status[t]
        BY <1>0, <2>6
      <4>4. h \notin Queued(waiters[r]) /\ ~(status'[h] = "BLOCKED")
        BY <1>0, <2>2, <2>3, <2>6, <3>2, <4>2
      <4> QED
        BY <4>1, <4>2, <4>3, <4>4
    <3> QED
      BY <3>1, <3>2
  <2>9. NoLostWakeup'
    <3> SUFFICES ASSUME NEW r \in Semaphore, waiters'[r] # <<>>
                 PROVE  Cardinality(Woken(r)') >= value'[r]
      BY DEF NoLostWakeup, Semaphore
    <3>1. CASE r = s
      <4>1. Woken(r)' = Woken(r) \cup {h} /\ h \notin Woken(r)
        BY <1>0, <2>2, <2>3, <2>6, <3>1 DEF Woken
      <4>2. Cardinality(Woken(r)') = Cardinality(Woken(r)) + 1
        BY <4>1, WokenFinite, FS_AddElement
      <4>3. Cardinality(Woken(r)) >= value[r]
        BY <1>3, <3>1 DEF SInv, NoLostWakeup
      <4> QED
        BY <1>0, <1>1, <3>1, <4>2, <4>3, WokenFinite
    <3>2. CASE r # s
      <4>1. waiters'[r] = waiters[r]
        BY <1>0, <2>1, <3>2
      <4>2. Woken(r)' = Woken(r)
        BY <1>0, <2>3, <2>6, <3>2 DEF Woken
      <4> QED
        BY <1>1, <3>2, <4>1, <4>2 DEF SInv, NoLostWakeup
    <3> QED
      BY <3>1, <3>2
  <2>10. Unblock(h)
    BY <2>1, <2>3 DEF Unblock
  <2>11. [TNext]_tvars
    BY <2>2, <2>10 DEF TNext
  <2> QED
    BY <1>0, <1>1, <2>3, <2>6, <2>7, <2>8, <2>9, <2>11
<1> QED
  BY <1>2, <1>3

(* Where sema_down(s) goes on when it has taken a unit.                     *)
LEMMA AfterDownCases ==
  ASSUME NEW s \in Semaphore, AfterDown(s)
  PROVE  \/ s \in Lock /\ Goto("owned", s)
         \/ s \in Thread /\ Goto("relock", NoSema)
         \/ s \in Sema /\ Goto("run", NoSema)
  BY SynchAssumption DEF AfterDown, Semaphore

(* One turn of the loop of sema_down() keeps the wait lists right: either   *)
(* the running thread takes a unit that it, or nobody, was woken for, or it *)
(* joins the sleepers of a semaphore that has no unit.                      *)
LEMMA DownKeepsLists ==
  ASSUME SInv, NEW s \in Semaphore, sema_down(s), current # Idle,
         pc[current] = "down" => sema[current] = s
  PROVE  /\ ElemOnOneList' /\ NoLostWakeup' /\ [TNext]_tvars
         /\ value' \in [Semaphore -> Nat] /\ waiters' \in [Semaphore -> Seq(Thread)]
         /\ \A t \in Thread \ {Idle, current} : status'[t] = "BLOCKED" <=> status[t] = "BLOCKED"
         /\ \A t \in Thread : status'[t] = "NONE" => status[t] = "NONE"
         /\ idle_thread' = idle_thread
<1>0. /\ value \in [Semaphore -> Nat] /\ waiters \in [Semaphore -> Seq(Thread)]
      /\ pc \in [Thread -> Labels] /\ sema \in [Thread -> Semaphore \cup {NoSema}] /\ TInv
  BY DEF SInv, STypeOK
<1>c. /\ current \in Thread /\ status[current] = "RUNNING" /\ pc[Idle] # "down"
      /\ \A r \in Semaphore : current \notin Queued(waiters[r])
  BY Unlisted
<1>e. \A r \in Semaphore : /\ Distinct(waiters[r])
                           /\ \A t \in Thread : t \in Queued(waiters[r]) <=>
                                status[t] = "BLOCKED" /\ pc[t] = "down" /\ sema[t] = r
  BY DEF SInv, ElemOnOneList
<1>1. CASE value[s] > 0 /\ value' = [value EXCEPT ![s] = @ - 1]
           /\ AfterDown(s) /\ UNCHANGED <<tvars, waiters>>
  <2>1. PICK p \in Labels \ {"down"}, q \in Semaphore \cup {NoSema} :
          /\ pc' = [pc EXCEPT ![current] = p]
          /\ sema' = [sema EXCEPT ![current] = q]
    BY <1>1, AfterDownCases DEF Goto, Labels
  <2>2. /\ value' \in [Semaphore -> Nat]
        /\ \A r \in Semaphore : value'[r] = IF r = s THEN value[r] - 1 ELSE value[r]
    BY <1>0, <1>1
  <2>3. UNCHANGED <<status, waiters, idle_thread>>
    BY <1>1 DEF tvars
  <2>4. /\ pc'[current] # "down"
        /\ \A t \in Thread : t # current => pc'[t] = pc[t] /\ sema'[t] = sema[t]
    BY <1>0, <1>c, <2>1
  <2>5. ElemOnOneList'
    <3> SUFFICES ASSUME NEW r \in Semaphore
                 PROVE  /\ Distinct(waiters'[r])
                        /\ \A t \in Thread : t \in Queued(waiters'[r]) <=>
                             status'[t] = "BLOCKED" /\ pc'[t] = "down" /\ sema'[t] = r
      BY DEF ElemOnOneList, Semaphore
    <3> QED
      BY <1>c, <1>e, <2>3, <2>4
  <2>6. NoLostWakeup'
    <3> SUFFICES ASSUME NEW r \in Semaphore, waiters[r] # <<>>
                 PROVE  Cardinality(Woken(r)') >= value'[r]
      BY <2>3 DEF NoLostWakeup, Semaphore
    <3>1. Woken(r)' = Woken(r) \ {current}
      BY <1>c, <2>3, <2>4 DEF Woken
    <3>2. Cardinality(Woken(r)) >= value[r] /\ value[r] \in Nat
      BY <1>0 DEF SInv, NoLostWakeup
    <3>3. CASE r = s
      <4>1. Cardinality(Woken(r) \ {current}) \in {Cardinality(Woken(r)), Cardinality(Woken(r)) - 1}
        BY WokenFinite, FS_RemoveElement
      <4>2. Cardinality(Woken(r)) \in Nat /\ value'[r] = value[r] - 1
        BY <2>2, <3>3, WokenFinite
      <4> QED
        BY <3>1, <3>2, <4>1, <4>2
    <3>4. CASE r # s
      <4>1. current \notin Woken(r)
        BY <3>4 DEF Woken
      <4> QED
        BY <2>2, <3>1, <3>2, <3>4, <4>1
    <3> QED
      BY <3>3, <3>4
  <2> QED
    BY <1>0, <1>1, <2>2, <2>3, <2>5, <2>6
<1>2. CASE value[s] = 0 /\ waiters' = [waiters EXCEPT ![s] = Append(@, current)]
           /\ Goto("down", s) /\ thread_block /\ UNCHANGED value
  <2>1. /\ pc' = [pc EXCEPT ![current] = "down"] /\ sema' = [sema EXCEPT ![current] = s]
        /\ \A t \in Thread : t # current => pc'[t] = pc[t] /\ sema'[t] = sema[t]
        /\ pc'[current] = "down" /\ sema'[current] = s
    BY <1>0, <1>2, <1>c DEF Goto
  <2>2. /\ \A t \in Thread \ {Idle, current} : status'[t] = "BLOCKED" <=> status[t] = "BLOCKED"
        /\ status'[current] = "BLOCKED"
        /\ \A t \in Thread : status'[t] = "NONE" => status[t] = "NONE"
        /\ idle_thread' = idle_thread
    BY <1>0, <1>2, BlockStatus
  <2>3. /\ Append(waiters[s], current) \in Seq(Thread)
        /\ Distinct(Append(waiters[s], current))
        /\ Queued(Append(waiters[s], current)) = Queued(waiters[s]) \cup {current}
    BY <1>0, <1>c, <1>e, AppendQueued, AppendDistinct
  <2>4. /\ waiters' \in [Semaphore -> Seq(Thread)]
        /\ waiters'[s] = Append(waiters[s], current)
        /\ \A r \in Semaphore : r # s => waiters'[r] = waiters[r]
    BY <1>0, <1>2, <2>3
  <2>5. ElemOnOneList'
    <3> SUFFICES ASSUME NEW r \in Semaphore
                 PROVE  /\ Distinct(waiters'[r])
                        /\ \A t \in Thread : t \in Queued(waiters'[r]) <=>
                             status'[t] = "BLOCKED" /\ pc'[t] = "down" /\ sema'[t] = r
      BY DEF ElemOnOneList, Semaphore
    <3>1. pc'[Idle] # "down" /\ Idle \notin Queued(waiters[r])
      BY <1>c, <1>e, <2>1, ThreadAssumption
    <3>2. CASE r = s
      <4>1. /\ Distinct(waiters'[r])
            /\ Queued(waiters'[r]) = Queued(waiters[r]) \cup {current}
        BY <2>3, <2>4, <3>2
      <4>2. \A t \in Thread \ {Idle, current} :
              t \in Queued(waiters'[r]) <=> status'[t] = "BLOCKED" /\ pc'[t] = "down" /\ sema'[t] = r
        BY <1>e, <2>1, <2>2, <3>2, <4>1
      <4>3. current \in Queued(waiters'[r]) /\ Idle \notin Queued(waiters'[r])
        BY <3>1, <4>1
      <4> QED
        BY <2>1, <2>2, <3>1, <3>2, <4>1, <4>2, <4>3
    <3>3. CASE r # s
      BY <1>c, <1>e, <2>1, <2>2, <2>4, <3>1, <3>3
    <3> QED
      BY <3>2, <3>3
  <2>6. NoLostWakeup'
    <3> SUFFICES ASSUME NEW r \in Semaphore, waiters'[r] # <<>>
                 PROVE  Cardinality(Woken(r)') >= value'[r]
      BY DEF NoLostWakeup, Semaphore
    <3>1. CASE r = s
      BY <1>2, <3>1, WokenFinite
    <3>2. CASE r # s
      <4>1. Woken(r)' = Woken(r)
        BY <1>c, <2>1, <2>2, <3>2 DEF Woken
      <4> QED
        BY <1>2, <2>4, <3>2, <4>1 DEF SInv, NoLostWakeup
    <3> QED
      BY <3>1, <3>2
  <2>7. [TNext]_tvars
    BY <1>2 DEF TNext, Block
  <2> QED
    BY <1>0, <1>2, <2>2, <2>4, <2>5, <2>6, <2>7
<1> QED
  BY <1>1, <1>2 DEF sema_down
-----------------------------------------------------------------------------
(* A step that leaves a lock's value and holder alone, and moves no thread  *)
(* into or out of the window around it, does not change its owner.          *)
LEMMA QuietKeepsOwner ==
  ASSUME SInv, NEW l \in Lock, value'[l] = value[l], holder'[l] = holder[l],
         \A t \in Thread : pc'[t] \in {"owned", "released"} /\ sema'[t] = l
                             <=> pc[t] \in {"owned", "released"} /\ sema[t] = l
  PROVE  OneOwner(l)'
<1>1. Owners(l)' = Owners(l)
  BY DEF Owners
<1> QED
  BY <1>1 DEF SInv, OneOwner

(* A step that moves no thread between the lines of synch.c, frees no       *)
(* thread that is inside it and wakes no thread under construction.         *)
LEMMA StillKeepsPc ==
  ASSUME SInv, UNCHANGED <<lvars, holder, idle_thread>>,
         \A t \in Thread : status'[t] = "NONE" => status[t] = "NONE" \/ pc[t] = "run",
         \A t \in Thread \ {Idle, current} :
            status[t] = "BLOCKED" /\ pc[t] = "run" => status'[t] = "BLOCKED"
  PROVE  PcOK'
<1>1. \A t \in Thread : pc[t] = "create" => status[child[t]] = "BLOCKED" /\ status'[child[t]] = "BLOCKED"
  BY Unlisted DEF SInv, PcOK, PcOKAt, TInv, OneRunning
<1>2. \A t \in Thread : PcOKAt(t)'
  BY <1>1 DEF SInv, PcOK, PcOKAt, lvars, Semaphore
<1>3. IdleOK' /\ ChildrenDiffer'
  BY DEF SInv, PcOK, IdleOK, ChildrenDiffer, lvars
<1> QED
  BY <1>2, <1>3 DEF PcOK

(* The inductive invariant, put together again after a step.                *)
LEMMA SInvParts ==
  ASSUME SInv, [TNext]_tvars,
         value' \in [Semaphore -> Nat], waiters' \in [Semaphore -> Seq(Thread)],
         holder' \in [Lock -> Thread \cup {NoThread}],
         cond_waiters' \in [Cond -> Seq(Thread)],
         pc' \in [Thread -> Labels], sema' \in [Thread -> Semaphore \cup {NoSema}],
         cond' \in [Thread -> Cond \cup {NoSema}], child' \in [Thread -> Thread \cup {NoThread}],
         PcOK', ElemOnOneList', NoLostWakeup', \A l \in Lock : OneOwner(l)'
  PROVE  SInv' /\ [TNext]_tvars
<1>1. TInv'
  BY TNext_TInv DEF SInv
<1> QED
  BY <1>1 DEF SInv, STypeOK, TInv, Semaphore

(* What the inductive invariant says about types, for citing.               *)
LEMMA STypes ==
  ASSUME SInv
  PROVE  /\ TInv /\ TTypeOK
         /\ value \in [Semaphore -> Nat] /\ waiters \in [Semaphore -> Seq(Thread)]
         /\ holder \in [Lock -> Thread \cup {NoThread}]
         /\ cond_waiters \in [Cond -> Seq(Thread)]
         /\ pc \in [Thread -> Labels] /\ sema \in [Thread -> Semaphore \cup {NoSema}]
         /\ cond \in [Thread -> Cond \cup {NoSema}]
         /\ child \in [Thread -> Thread \cup {NoThread}]
         /\ current \in Thread /\ status[current] = "RUNNING"
         /\ Sema \subseteq Semaphore /\ Lock \subseteq Semaphore /\ Thread \subseteq Semaphore
  BY DEF SInv, STypeOK, TInv, TTypeOK, OneRunning, Semaphore

(* sema_down() as any of its callers uses it.                               *)
LEMMA DownKeepsSInv ==
  ASSUME SInv, NEW s \in Semaphore, sema_down(s),
         UNCHANGED <<holder, cond_waiters, cond, child>>,
         current # Idle, pc[current] \notin {"owned", "released", "create"},
         pc[current] = "down" => sema[current] = s,
         s \in Thread => s = current /\ cond[current] \in Cond
  PROVE  SInv' /\ [TNext]_tvars
<1>0. /\ ElemOnOneList' /\ NoLostWakeup' /\ [TNext]_tvars
      /\ value' \in [Semaphore -> Nat] /\ waiters' \in [Semaphore -> Seq(Thread)]
      /\ \A t \in Thread \ {Idle, current} : status'[t] = "BLOCKED" <=> status[t] = "BLOCKED"
      /\ \A t \in Thread : status'[t] = "NONE" => status[t] = "NONE"
      /\ idle_thread' = idle_thread
  BY DownKeepsLists
<1>1. PICK p \in {"owned", "relock", "run", "down"}, q \in Semaphore \cup {NoSema} :
        /\ pc' = [pc EXCEPT ![current] = p] /\ sema' = [sema EXCEPT ![current] = q]
        /\ p = "down" => q = s /\ value' = value
        /\ p = "owned" => s \in Lock /\ q = s
        /\ p = "relock" => s \in Thread
        /\ p # "down" => value[s] > 0 /\ value' = [value EXCEPT ![s] = @ - 1]
        /\ p # "owned" /\ p # "down" => s \notin Lock
  BY AfterDownCases, SynchAssumption DEF sema_down, Goto, Semaphore
<1>t. /\ pc' \in [Thread -> Labels] /\ sema' \in [Thread -> Semaphore \cup {NoSema}]
      /\ pc'[current] = p /\ sema'[current] = q
      /\ \A t \in Thread : t # current => pc'[t] = pc[t] /\ sema'[t] = sema[t]
  BY <1>1, STypes DEF Labels
<1>2. \A l \in Lock : OneOwner(l)'
  <2> SUFFICES ASSUME NEW l \in Lock PROVE OneOwner(l)'
    OBVIOUS
  <2>1. CASE l = s /\ p # "down"
    <3>1. value[l] = 1 /\ Owners(l) = {} /\ p = "owned" /\ q = l
      BY <1>1, <2>1 DEF SInv, OneOwner
    <3>2. Owners(l)' = {current}
      BY <1>t, <3>1, STypes DEF Owners
    <3>3. value'[l] = 0
      BY <1>1, <2>1, <3>1, STypes
    <3> QED
      BY <3>2, <3>3, STypes DEF OneOwner
  <2>2. CASE ~(l = s /\ p # "down")
    <3>1. value'[l] = value[l]
      BY <1>1, <2>2, STypes
    <3>2. \A t \in Thread : pc'[t] \in {"owned", "released"} /\ sema'[t] = l
                             <=> pc[t] \in {"owned", "released"} /\ sema[t] = l
      BY <1>1, <1>t, <2>2
    <3> QED
      BY <3>1, <3>2, QuietKeepsOwner
  <2> QED
    BY <2>1, <2>2
<1>3. p = "owned" => holder[s] = NoThread
  <2> SUFFICES ASSUME p = "owned" PROVE holder[s] = NoThread
    OBVIOUS
  <2>1. s \in Lock /\ value[s] > 0
    BY <1>1
  <2>2. Owners(s) = {}
    BY <2>1 DEF SInv, OneOwner
  <2> QED
    BY <2>1, <2>2, STypes DEF Owners
<1>4. PcOK'
  <2>1. \A t \in Thread : pc[t] = "create" => child[t] # current /\ child[t] # Idle
                                               /\ status'[child[t]] = "BLOCKED"
    BY <1>0, STypes DEF SInv, PcOK, PcOKAt
  <2>2. /\ status'[current] # "NONE" /\ pc'[Idle] = pc[Idle]
        /\ pc'[current] \notin {"released", "cond_sleep", "broadcast", "idle_up", "idle", "boot", "create"}
    BY <1>0, <1>t, <1>1, STypes, ThreadAssumption
  <2>3. /\ p = "down" => sema'[current] = s /\ (s \in Thread => cond'[current] \in Cond)
        /\ p = "owned" => sema'[current] \in Lock /\ holder'[sema'[current]] = NoThread
        /\ p = "relock" => cond'[current] \in Cond
    BY <1>1, <1>t, <1>3
  <2>4. ChildrenDiffer'
    BY <1>t, <2>2 DEF SInv, PcOK, ChildrenDiffer
  <2>5. IdleOK'
    BY <1>0, <2>2 DEF SInv, PcOK, IdleOK
  <2>6. ASSUME NEW t \in Thread PROVE PcOKAt(t)'
    <3>1. CASE t = current
      BY <1>1, <1>t, <2>2, <2>3, <3>1 DEF PcOKAt, Semaphore
    <3>2. CASE t # current
      <4>1. PcOKAt(t)
        BY DEF SInv, PcOK
      <4>2. pc[t] = "create" => pc'[child[t]] = pc[child[t]] /\ status'[child[t]] = "BLOCKED"
        BY <1>t, <2>1, <4>1 DEF PcOKAt
      <4> QED
        BY <1>0, <1>t, <3>2, <4>1, <4>2 DEF PcOKAt, Semaphore
    <3> QED
      BY <3>1, <3>2
  <2> QED
    BY <2>4, <2>5, <2>6 DEF PcOK
<1> QED
  BY <1>0, <1>t, <1>2, <1>4, SInvParts, STypes

(* sema_up() by a caller that stays where it is: sema_up() itself, an       *)
(* interrupt handler or cond_signal().                                      *)
LEMMA UpKeepsSInv ==
  ASSUME SInv, NEW s \in Semaphore \ Lock, sema_up(s), UNCHANGED <<holder, lvars>>,
         cond_waiters' \in [Cond -> Seq(Thread)]
  PROVE  SInv' /\ [TNext]_tvars
<1>1. UNCHANGED <<pc, sema, cond, child>>
  BY DEF lvars
<1>2. /\ ElemOnOneList' /\ NoLostWakeup' /\ [TNext]_tvars
      /\ value' \in [Semaphore -> Nat] /\ waiters' \in [Semaphore -> Seq(Thread)]
      /\ \A r \in Semaphore : value'[r] = IF r = s THEN value[r] + 1 ELSE value[r]
      /\ \A t \in Thread : pc[t] # "down" \/ status[t] = "NONE" => status'[t] = status[t]
      /\ \A t \in Thread : status'[t] = "NONE" => status[t] = "NONE"
      /\ idle_thread' = idle_thread
  BY <1>1, UpKeepsLists
<1>3. PcOK'
  BY <1>1, <1>2, StillKeepsPc
<1>4. \A l \in Lock : OneOwner(l)'
  BY <1>1, <1>2, STypes, QuietKeepsOwner
<1> QED
  BY <1>1, <1>2, <1>3, <1>4, SInvParts, STypes

(* A step of the scheduler that touches nothing of synch.c.                 *)
LEMMA SchedKeepsSInv ==
  ASSUME SInv, [TNext]_tvars, UNCHANGED <<svars, lvars, idle_thread>>,
         \A t \in Thread : status'[t] = "NONE" => status[t] = "NONE" \/ pc[t] = "run",
         \A t \in Thread \ {Idle, current} : status'[t] = "BLOCKED" <=> status[t] = "BLOCKED",
         pc[current] = "down" => current # Idle /\ status'[current] # "BLOCKED"
  PROVE  SInv' /\ [TNext]_tvars
<1>1. UNCHANGED <<value, waiters, holder, cond_waiters, pc, sema, cond, child>>
  BY DEF svars, lvars
<1>2. \A t \in Thread : pc[t] = "down" => (status'[t] = "BLOCKED" <=> status[t] = "BLOCKED")
  BY STypes, Unlisted
<1>3. ElemOnOneList' /\ NoLostWakeup'
  BY <1>1, <1>2, QuietKeepsLists, STypes
<1>4. PcOK'
  BY <1>1, StillKeepsPc
<1>5. \A l \in Lock : OneOwner(l)'
  BY <1>1, QuietKeepsOwner
<1> QED
  BY <1>1, <1>3, <1>4, <1>5, SInvParts, STypes

(* A step that moves the running thread to another line.                    *)
LEMMA MoveKeepsPc ==
  ASSUME SInv, PcOKAt(current)', IdleOK', current' = current,
         \A t \in Thread \ {current} :
           /\ pc'[t] = pc[t] /\ sema'[t] = sema[t] /\ cond'[t] = cond[t] /\ child'[t] = child[t]
           /\ status'[t] = "NONE" => status[t] = "NONE"
           /\ pc[t] \in {"owned", "released"} => holder'[sema[t]] = NoThread
           /\ pc[t] = "create" => /\ status'[child[t]] = "BLOCKED"
                                  /\ pc'[current] = "create" => child'[current] # child[t]
  PROVE  PcOK'
<1>1. ASSUME NEW t \in Thread PROVE PcOKAt(t)'
  <2>1. CASE t = current
    BY <2>1
  <2>2. CASE t # current
    <3>1. PcOKAt(t) /\ status[current] = "RUNNING"
      BY STypes DEF SInv, PcOK
    <3>2. pc[t] = "create" => pc'[child[t]] = pc[child[t]]
      BY <3>1 DEF PcOKAt
    <3> QED
      BY <2>2, <3>1, <3>2 DEF PcOKAt, Semaphore
  <2> QED
    BY <2>1, <2>2
<1>2. ChildrenDiffer'
  BY DEF SInv, PcOK, ChildrenDiffer
<1> QED
  BY <1>1, <1>2 DEF PcOK

(* The child of a thread in thread_create() is blocked, and in no window.   *)
LEMMA ChildBlocked ==
  ASSUME SInv, NEW t \in Thread, pc[t] = "create"
  PROVE  /\ child[t] \in Thread \ {Idle, current}
         /\ status[child[t]] = "BLOCKED" /\ pc[child[t]] = "run"
  BY STypes DEF SInv, PcOK, PcOKAt

(* The initial state: nobody waits, no lock is held.                        *)
LEMMA SInit_SInv == SInit => SInv
<1> SUFFICES ASSUME SInit PROVE SInv
  OBVIOUS
<1> USE ThreadAssumption, SynchAssumption
<1>1. TInv
  BY TInit_TInv DEF SInit
<1>2. STypeOK
  BY <1>1 DEF SInit, STypeOK, TInv, Labels, Semaphore
<1>3. ElemOnOneList
  BY EmptyQueue DEF SInit, ElemOnOneList, Semaphore
<1>4. NoLostWakeup
  BY DEF SInit, NoLostWakeup
<1>5. PcOK
  BY DEF SInit, TInit, PcOK, PcOKAt, IdleOK, ChildrenDiffer
<1>6. \A l \in Lock : OneOwner(l)
  BY DEF SInit, OneOwner, Owners, Semaphore
<1> QED
  BY <1>1, <1>2, <1>3, <1>4, <1>5, <1>6 DEF SInv
-----------------------------------------------------------------------------
(* The operations that end in a sema_down().                                *)
LEMMA DownSteps ==
  ASSUME SInv,
         \/ Recheck \/ CondSleep \/ CondRelock \/ StartWait
         \/ \E s \in Sema : SemaDown(s)
         \/ \E l \in Lock : LockAcquire(l)
  PROVE  SInv' /\ [TNext]_tvars
<1> USE ThreadAssumption, SynchAssumption
<1>0. PcOKAt(current) /\ IdleOK
  BY STypes DEF SInv, PcOK
<1>1. CASE Recheck
  BY <1>0, <1>1, STypes, DownKeepsSInv DEF Recheck, At, PcOKAt, IdleOK
<1>2. CASE CondSleep
  BY <1>0, <1>2, STypes, DownKeepsSInv DEF CondSleep, At, PcOKAt, IdleOK
<1>3. CASE CondRelock
  BY <1>0, <1>3, STypes, DownKeepsSInv DEF CondRelock, At, PcOKAt, IdleOK
<1>4. CASE StartWait
  BY <1>0, <1>4, STypes, DownKeepsSInv DEF StartWait, At
<1>5. ASSUME NEW s \in Sema, SemaDown(s) PROVE SInv' /\ [TNext]_tvars
  BY <1>0, <1>5, STypes, DownKeepsSInv DEF SemaDown, At, IdleOK
<1>6. ASSUME NEW l \in Lock, LockAcquire(l) PROVE SInv' /\ [TNext]_tvars
  BY <1>0, <1>6, STypes, DownKeepsSInv DEF LockAcquire, At, IdleOK
<1> QED
  BY <1>1, <1>2, <1>3, <1>4, <1>5, <1>6

(* The operations that are a sema_up().                                     *)
LEMMA UpSteps ==
  ASSUME SInv,
         \/ \E s \in Sema : SemaUp(s) \/ IntrUp(s)
         \/ \E c \in Cond : CondSignal(c)
  PROVE  SInv' /\ [TNext]_tvars
<1> USE SynchAssumption
<1>1. ASSUME NEW s \in Sema, SemaUp(s) \/ IntrUp(s) PROVE SInv' /\ [TNext]_tvars
  BY <1>1, STypes, UpKeepsSInv DEF SemaUp, IntrUp
<1>2. ASSUME NEW c \in Cond, CondSignal(c) PROVE SInv' /\ [TNext]_tvars
  <2>1. UNCHANGED <<holder, lvars>> /\ cond_signal(c)
    BY <1>2 DEF CondSignal
  <2>2. CASE cond_waiters[c] = <<>>
    <3>1. UNCHANGED <<tvars, svars, lvars>>
      BY <2>1, <2>2 DEF cond_signal, svars
    <3>2. UNCHANGED <<status, idle_thread>>
      BY <3>1 DEF tvars
    <3> QED
      BY <3>1, <3>2, STypes, Unlisted, SchedKeepsSInv
  <2>3. CASE cond_waiters[c] # <<>>
    <3> DEFINE h == Head(cond_waiters[c])
    <3>1. h \in Thread /\ Tail(cond_waiters[c]) \in Seq(Thread)
      BY <2>3, STypes, HeadQueued
    <3>2. sema_up(h) /\ cond_waiters' = [cond_waiters EXCEPT ![c] = Tail(@)]
      BY <2>1, <2>3 DEF cond_signal
    <3> HIDE DEF h
    <3>3. cond_waiters' \in [Cond -> Seq(Thread)]
      BY <3>1, <3>2, STypes
    <3>4. h \in Semaphore \ Lock
      BY <3>1, STypes
    <3> QED
      BY <2>1, <3>2, <3>3, <3>4, UpKeepsSInv
  <2> QED
    BY <2>2, <2>3
<1> QED
  BY <1>1, <1>2

(* The scheduler's own steps.                                               *)
LEMMA SchedSteps ==
  ASSUME SInv, ThreadExit \/ ThreadYield \/ TimerInterrupt \/ IdleLoop \/ UNCHANGED vars
  PROVE  SInv' /\ [TNext]_tvars
<1> USE ThreadAssumption
<1>0. PcOKAt(current) /\ IdleOK /\ TInv
  BY STypes DEF SInv, PcOK
<1>1. CASE ThreadExit
  <2>1. thread_die /\ At("run") /\ UNCHANGED <<svars, lvars>> /\ [TNext]_tvars
    BY <1>1 DEF ThreadExit, Exit, TNext
  <2> QED
    BY <1>0, <2>1, DieStatus, SchedKeepsSInv DEF At
<1>2. CASE ThreadYield
  <2>1. thread_yield /\ At("run") /\ UNCHANGED <<svars, lvars>> /\ [TNext]_tvars
    BY <1>2 DEF ThreadYield, Yield, TNext
  <2> QED
    BY <1>0, <2>1, YieldStatus, SchedKeepsSInv DEF At
<1>3. CASE TimerInterrupt
  <2>1. Tick /\ pc[current] # "down" /\ UNCHANGED <<svars, lvars>> /\ [TNext]_tvars
    BY <1>3 DEF TimerInterrupt, IntrOn, TNext
  <2> QED
    BY <1>0, <2>1, TickStatus, SchedKeepsSInv
<1>4. CASE IdleLoop
  <2>1. thread_block /\ At("idle") /\ UNCHANGED <<svars, lvars>> /\ [TNext]_tvars
    BY <1>4 DEF IdleLoop, idle_loop, TNext
  <2> QED
    BY <1>0, <2>1, BlockStatus, SchedKeepsSInv DEF At
<1>5. CASE UNCHANGED vars
  <2>1. UNCHANGED <<svars, lvars, tvars, status, idle_thread>>
    BY <1>5 DEF vars, tvars
  <2> QED
    BY <2>1, STypes, Unlisted, SchedKeepsSInv
<1> QED
  BY <1>1, <1>2, <1>3, <1>4, <1>5

(* A step of the running thread that leaves the scheduler and the wait      *)
(* lists alone: what remains to be shown is about locks and labels.         *)
LEMMA LocalKeepsSInv ==
  ASSUME SInv, UNCHANGED <<tvars, waiters>>,
         value' \in [Semaphore -> Nat], \A s \in Semaphore : value'[s] =< value[s],
         holder' \in [Lock -> Thread \cup {NoThread}],
         cond_waiters' \in [Cond -> Seq(Thread)],
         NEW p \in Labels \ {"down", "create"}, NEW q \in Semaphore \cup {NoSema},
         NEW c \in Cond \cup {NoSema},
         pc[current] \notin {"down", "create"}, current # Idle,
         pc' = [pc EXCEPT ![current] = p], sema' = [sema EXCEPT ![current] = q],
         cond' = [cond EXCEPT ![current] = c], child' = child,
         \A l \in Lock : OneOwner(l)',
         \A t \in Thread \ {current} : pc[t] \in {"owned", "released"} => holder'[sema[t]] = NoThread,
         p \in {"owned", "released"} => q \in Lock /\ holder'[q] = NoThread,
         p \in {"cond_sleep", "relock", "broadcast"} => c \in Cond,
         p \notin {"boot", "idle_up", "idle"}
  PROVE  SInv' /\ [TNext]_tvars
<1>1. /\ pc' \in [Thread -> Labels] /\ sema' \in [Thread -> Semaphore \cup {NoSema}]
      /\ cond' \in [Thread -> Cond \cup {NoSema}] /\ child' \in [Thread -> Thread \cup {NoThread}]
      /\ waiters' \in [Semaphore -> Seq(Thread)]
      /\ pc'[current] = p /\ sema'[current] = q /\ cond'[current] = c
      /\ \A t \in Thread \ {current} : pc'[t] = pc[t] /\ sema'[t] = sema[t] /\ cond'[t] = cond[t]
      /\ UNCHANGED <<status, current, idle_thread>> /\ [TNext]_tvars
  BY STypes DEF tvars
<1>2. ElemOnOneList' /\ NoLostWakeup'
  BY <1>1, STypes, QuietKeepsLists
<1>3. PcOKAt(current)'
  BY <1>1, STypes DEF PcOKAt
<1>4. IdleOK'
  BY <1>1, ThreadAssumption DEF SInv, PcOK, IdleOK
<1>5. PcOK'
  BY <1>1, <1>3, <1>4, ChildBlocked, MoveKeepsPc
<1> QED
  BY <1>1, <1>2, <1>5, STypes, SInvParts

(* lock_try_acquire() takes the unit and enters the window.                 *)
LEMMA LockTryAcquireStep ==
  ASSUME SInv, NEW l \in Lock, LockTryAcquire(l)
  PROVE  SInv' /\ [TNext]_tvars
<1>1. /\ pc[current] = "run" /\ current # Idle /\ value[l] > 0 /\ l \in Semaphore
      /\ value' = [value EXCEPT ![l] = @ - 1]
      /\ pc' = [pc EXCEPT ![current] = "owned"] /\ sema' = [sema EXCEPT ![current] = l]
      /\ UNCHANGED <<tvars, waiters, holder, cond_waiters, cond, child>>
  BY STypes, Unlisted DEF LockTryAcquire, At, Goto
<1>2. value[l] = 1 /\ Owners(l) = {}
  BY <1>1 DEF SInv, OneOwner
<1>3. /\ value' \in [Semaphore -> Nat] /\ \A s \in Semaphore : value'[s] =< value[s]
      /\ value'[l] = 0 /\ \A s \in Semaphore : s # l => value'[s] = value[s]
  BY <1>1, <1>2, STypes
<1>4. ASSUME NEW k \in Lock PROVE OneOwner(k)'
  <2>1. CASE k = l
    <3>1. Owners(k)' = {current}
      BY <1>1, <1>2, <2>1, STypes DEF Owners
    <3> QED
      BY <1>3, <2>1, <3>1, STypes DEF OneOwner
  <2>2. CASE k # l
    BY <1>1, <1>3, <2>2, STypes, QuietKeepsOwner
  <2> QED
    BY <2>1, <2>2
<1>5. holder[l] = NoThread
  BY <1>2, STypes DEF Owners
<1>6. \A t \in Thread : pc[t] \in {"owned", "released"} => holder[sema[t]] = NoThread
  BY DEF SInv, PcOK, PcOKAt
<1>7. cond' = [cond EXCEPT ![current] = cond[current]] /\ cond[current] \in Cond \cup {NoSema}
  BY <1>1, STypes
<1>8. "owned" \in Labels \ {"down", "create"}
  BY DEF Labels
<1> QED
  BY <1>1, <1>3, <1>4, <1>5, <1>6, <1>7, <1>8, STypes, LocalKeepsSInv

(* The owner of a lock is alone in holding it or in its window.             *)
LEMMA OwnerAlone ==
  ASSUME SInv, NEW l \in Lock, NEW t \in Thread, t \in Owners(l)
  PROVE  value[l] = 0 /\ Owners(l) = {t}
  BY DEF SInv, OneOwner

(* lock_acquire() stores the holder: the thread in the window becomes it.   *)
LEMMA SetHolderStep ==
  ASSUME SInv, SetHolder
  PROVE  SInv' /\ [TNext]_tvars
<1> DEFINE l == sema[current]
<1>1. /\ pc[current] = "owned" /\ holder' = [holder EXCEPT ![l] = current]
      /\ pc' = [pc EXCEPT ![current] = "run"] /\ sema' = [sema EXCEPT ![current] = NoSema]
      /\ cond' = [cond EXCEPT ![current] = NoSema]
      /\ UNCHANGED <<tvars, value, waiters, cond_waiters, child>>
  BY DEF SetHolder, At, Goto
<1>2. l \in Lock /\ current # Idle
  BY <1>1, STypes DEF SInv, PcOK, PcOKAt, IdleOK
<1> HIDE DEF l
<1>3. sema[current] = l /\ current \in Thread
  BY STypes DEF l
<1>4. value[l] = 0 /\ Owners(l) = {current}
  BY <1>1, <1>2, <1>3, OwnerAlone DEF Owners
<1>5. holder' \in [Lock -> Thread \cup {NoThread}] /\ holder'[l] = current
      /\ \A k \in Lock : k # l => holder'[k] = holder[k]
  BY <1>1, <1>2, <1>3, STypes
<1>6. ASSUME NEW k \in Lock PROVE OneOwner(k)'
  <2>1. CASE k = l
    <3>1. Owners(k)' = {current}
      BY <1>1, <1>3, <1>4, <1>5, <2>1, STypes DEF Owners
    <3> QED
      BY <1>1, <1>3, <1>4, <2>1, <3>1 DEF OneOwner
  <2>2. CASE k # l
    BY <1>1, <1>3, <1>5, <2>2, STypes, QuietKeepsOwner
  <2> QED
    BY <2>1, <2>2
<1>7. \A t \in Thread \ {current} : pc[t] \in {"owned", "released"} => holder'[sema[t]] = NoThread
  <2> SUFFICES ASSUME NEW t \in Thread \ {current}, pc[t] \in {"owned", "released"}
               PROVE  holder'[sema[t]] = NoThread
    OBVIOUS
  <2>1. sema[t] \in Lock /\ holder[sema[t]] = NoThread
    BY DEF SInv, PcOK, PcOKAt
  <2>2. sema[t] # l
    BY <1>4 DEF Owners
  <2> QED
    BY <1>5, <2>1, <2>2
<1>8. "run" \in Labels \ {"down", "create"} /\ NoSema \in Semaphore \cup {NoSema}
  BY DEF Labels
<1>9. /\ value' \in [Semaphore -> Nat] /\ \A s \in Semaphore : value'[s] =< value[s]
      /\ cond_waiters' \in [Cond -> Seq(Thread)] /\ UNCHANGED <<tvars, waiters>> /\ child' = child
  BY <1>1, STypes
<1> QED
  BY <1>1, <1>2, <1>5, <1>6, <1>7, <1>8, <1>9, LocalKeepsSInv

(* lock_release() up to its sema_up(): the holder goes into the window.     *)
LEMMA ReleaseKeepsOwner ==
  ASSUME SInv, NEW l \in Lock, lock_held_by_current_thread(l), lock_release(l),
         pc[current] = "run", \A k \in Lock : value'[k] = value[k]
  PROVE  /\ \A k \in Lock : OneOwner(k)'
         /\ holder' \in [Lock -> Thread \cup {NoThread}] /\ holder'[l] = NoThread
         /\ \A t \in Thread \ {current} : pc[t] \in {"owned", "released"} => holder'[sema[t]] = NoThread
<1>1. /\ holder[l] = current /\ holder' = [holder EXCEPT ![l] = NoThread]
      /\ pc' = [pc EXCEPT ![current] = "released"] /\ sema' = [sema EXCEPT ![current] = l]
  BY DEF lock_held_by_current_thread, lock_release, Goto
<1>2. value[l] = 0 /\ Owners(l) = {current}
  BY <1>1, STypes, OwnerAlone DEF Owners
<1>3. /\ holder' \in [Lock -> Thread \cup {NoThread}] /\ holder'[l] = NoThread
      /\ \A k \in Lock : k # l => holder'[k] = holder[k]
  BY <1>1, STypes
<1>4. ASSUME NEW k \in Lock PROVE OneOwner(k)'
  <2>1. CASE k = l
    <3>1. Owners(k)' = {current}
      BY <1>1, <1>2, <1>3, <2>1, STypes, ThreadAssumption DEF Owners
    <3> QED
      BY <1>2, <2>1, <3>1, STypes DEF OneOwner
  <2>2. CASE k # l
    BY <1>1, <1>3, <2>2, STypes, QuietKeepsOwner
  <2> QED
    BY <2>1, <2>2
<1>5. \A t \in Thread : pc[t] \in {"owned", "released"} => sema[t] \in Lock /\ holder[sema[t]] = NoThread
  BY DEF SInv, PcOK, PcOKAt
<1> QED
  BY <1>3, <1>4, <1>5

(* lock_release().                                                          *)
LEMMA LockReleaseStep ==
  ASSUME SInv, NEW l \in Lock, LockRelease(l)
  PROVE  SInv' /\ [TNext]_tvars
<1>1. /\ pc[current] = "run" /\ current # Idle /\ l \in Semaphore
      /\ lock_held_by_current_thread(l) /\ lock_release(l)
      /\ pc' = [pc EXCEPT ![current] = "released"] /\ sema' = [sema EXCEPT ![current] = l]
      /\ UNCHANGED <<tvars, value, waiters, cond_waiters, cond, child>>
  BY STypes, Unlisted DEF LockRelease, lock_release, At, Goto
<1>2. /\ \A k \in Lock : OneOwner(k)'
      /\ holder' \in [Lock -> Thread \cup {NoThread}] /\ holder'[l] = NoThread
      /\ \A t \in Thread \ {current} : pc[t] \in {"owned", "released"} => holder'[sema[t]] = NoThread
  BY <1>1, ReleaseKeepsOwner
<1>3. "released" \in Labels \ {"down", "create"}
  BY DEF Labels
<1>4. /\ value' \in [Semaphore -> Nat] /\ \A s \in Semaphore : value'[s] =< value[s]
      /\ cond_waiters' \in [Cond -> Seq(Thread)]
      /\ cond' = [cond EXCEPT ![current] = cond[current]] /\ cond[current] \in Cond \cup {NoSema}
  BY <1>1, STypes
<1> QED
  BY <1>1, <1>2, <1>3, <1>4, LocalKeepsSInv

(* cond_wait() up to the same point.  Nobody sleeps on the caller's own     *)
(* semaphore, so initialising it loses nobody.                              *)
LEMMA CondWaitStep ==
  ASSUME SInv, NEW c \in Cond, CondWait(c)
  PROVE  SInv' /\ [TNext]_tvars
<1> DEFINE l == lock_of[c]
<1>1. /\ pc[current] = "run" /\ current # Idle /\ l \in Lock /\ l \in Semaphore
      /\ lock_held_by_current_thread(l) /\ lock_release(l)
      /\ value' = [value EXCEPT ![current] = 0]
      /\ waiters' = [waiters EXCEPT ![current] = <<>>]
      /\ cond_waiters' = [cond_waiters EXCEPT ![c] = Append(@, current)]
      /\ cond' = [cond EXCEPT ![current] = c]
      /\ pc' = [pc EXCEPT ![current] = "released"] /\ sema' = [sema EXCEPT ![current] = l]
      /\ UNCHANGED <<tvars, child>>
  BY STypes, Unlisted, SynchAssumption DEF CondWait, lock_release, At, Goto
<1> HIDE DEF l
<1>2. /\ value' \in [Semaphore -> Nat] /\ \A s \in Semaphore : value'[s] =< value[s]
      /\ \A k \in Lock : value'[k] = value[k]
  BY <1>1, STypes, SynchAssumption
<1>3. /\ \A k \in Lock : OneOwner(k)'
      /\ holder' \in [Lock -> Thread \cup {NoThread}] /\ holder'[l] = NoThread
      /\ \A t \in Thread \ {current} : pc[t] \in {"owned", "released"} => holder'[sema[t]] = NoThread
  BY <1>1, <1>2, ReleaseKeepsOwner
<1>4. waiters' = waiters
  <2>1. ASSUME NEW t \in Thread, t \in Queued(waiters[current]) PROVE FALSE
    <3>1. pc[t] = "down" /\ sema[t] = current
      BY <2>1, STypes DEF SInv, ElemOnOneList
    <3>2. PcOKAt(t)
      BY DEF SInv, PcOK
    <3>3. t = current
      BY <3>1, <3>2, STypes DEF PcOKAt
    <3> QED
      BY <1>1, <3>1, <3>3
  <2>2. waiters[current] = <<>>
    BY <2>1, STypes, HeadQueued
  <2> QED
    BY <1>1, <2>2, STypes
<1>5. cond_waiters' \in [Cond -> Seq(Thread)]
  BY <1>1, STypes
<1>6. "released" \in Labels \ {"down", "create"}
  BY DEF Labels
<1> QED
  BY <1>1, <1>2, <1>3, <1>4, <1>5, <1>6, LocalKeepsSInv

(* sema_try_down() with a unit to take.                                     *)
LEMMA SemaTryDownStep ==
  ASSUME SInv, NEW s \in Sema, SemaTryDown(s)
  PROVE  SInv' /\ [TNext]_tvars
<1>1. /\ value[s] > 0 /\ value' = [value EXCEPT ![s] = @ - 1] /\ s \in Semaphore
      /\ UNCHANGED <<tvars, waiters, holder, cond_waiters, pc, sema, cond, child>>
  BY STypes DEF SemaTryDown, lvars
<1>2. UNCHANGED <<status, idle_thread>>
  BY <1>1 DEF tvars
<1>3. /\ value' \in [Semaphore -> Nat] /\ \A r \in Semaphore : value'[r] =< value[r]
      /\ \A l \in Lock : value'[l] = value[l]
  BY <1>1, STypes, SynchAssumption
<1>4. ElemOnOneList' /\ NoLostWakeup'
  BY <1>1, <1>2, <1>3, QuietKeepsLists
<1>5. PcOK'
  BY <1>1, <1>2, StillKeepsPc DEF lvars
<1>6. \A l \in Lock : OneOwner(l)'
  BY <1>1, <1>3, QuietKeepsOwner
<1> QED
  BY <1>1, <1>3, <1>4, <1>5, <1>6, STypes, SInvParts

(* A move that has nothing to do with a lock or a semaphore: the start and  *)
(* the end of cond_broadcast().                                             *)
LEMMA LabelKeepsSInv ==
  ASSUME SInv, UNCHANGED <<tvars, svars, child>>, current # Idle,
         pc[current] \in {"run", "broadcast"},
         NEW p \in {"run", "broadcast"}, NEW q \in Semaphore \cup {NoSema},
         NEW c \in Cond \cup {NoSema}, p = "broadcast" => c \in Cond,
         pc' = [pc EXCEPT ![current] = p], sema' = [sema EXCEPT ![current] = q],
         cond' = [cond EXCEPT ![current] = c]
  PROVE  SInv' /\ [TNext]_tvars
<1>1. UNCHANGED <<value, waiters, holder, cond_waiters>>
  BY DEF svars
<1>2. /\ value' \in [Semaphore -> Nat] /\ \A s \in Semaphore : value'[s] =< value[s]
      /\ holder' \in [Lock -> Thread \cup {NoThread}] /\ cond_waiters' \in [Cond -> Seq(Thread)]
  BY <1>1, STypes
<1>3. \A l \in Lock : OneOwner(l)'
  BY <1>1, STypes, QuietKeepsOwner
<1>4. \A t \in Thread : pc[t] \in {"owned", "released"} => holder'[sema[t]] = NoThread
  BY <1>1 DEF SInv, PcOK, PcOKAt
<1>5. p \in Labels \ {"down", "create"}
  BY DEF Labels
<1> QED
  BY <1>1, <1>2, <1>3, <1>4, <1>5, LocalKeepsSInv

(* cond_broadcast(): its beginning, a turn of its loop, its end.            *)
LEMMA BroadcastSteps ==
  ASSUME SInv, BroadcastStep \/ \E c \in Cond : CondBroadcast(c)
  PROVE  SInv' /\ [TNext]_tvars
<1>1. ASSUME NEW c \in Cond, CondBroadcast(c) PROVE SInv' /\ [TNext]_tvars
  <2>1. /\ pc[current] = "run" /\ current # Idle /\ UNCHANGED <<tvars, svars, child>>
        /\ pc' = [pc EXCEPT ![current] = "broadcast"] /\ sema' = [sema EXCEPT ![current] = NoSema]
        /\ cond' = [cond EXCEPT ![current] = c]
    BY <1>1, STypes, Unlisted DEF CondBroadcast, At, Goto
  <2> QED
    BY <2>1, LabelKeepsSInv
<1>2. CASE BroadcastStep
  <2> DEFINE c == cond[current]
  <2>1. /\ pc[current] = "broadcast" /\ cond_signal(c) /\ UNCHANGED <<holder, sema, child>>
        /\ IF cond_waiters[c] # <<>>
           THEN UNCHANGED <<pc, cond>>
           ELSE /\ pc' = [pc EXCEPT ![current] = "run"]
                /\ cond' = [cond EXCEPT ![current] = NoSema]
    BY <1>2 DEF BroadcastStep, At
  <2>2. c \in Cond /\ current # Idle
    BY <2>1, STypes DEF SInv, PcOK, PcOKAt, IdleOK
  <2> HIDE DEF c
  <2>3. CASE cond_waiters[c] # <<>>
    <3> DEFINE h == Head(cond_waiters[c])
    <3>1. h \in Thread /\ Tail(cond_waiters[c]) \in Seq(Thread)
      BY <2>2, <2>3, STypes, HeadQueued
    <3>2. /\ sema_up(h) /\ cond_waiters' = [cond_waiters EXCEPT ![c] = Tail(@)]
          /\ UNCHANGED <<holder, lvars>>
      BY <2>1, <2>3 DEF cond_signal, lvars
    <3> HIDE DEF h
    <3>3. cond_waiters' \in [Cond -> Seq(Thread)]
      BY <3>1, <3>2, STypes
    <3>4. h \in Semaphore \ Lock
      BY <3>1, STypes, SynchAssumption
    <3> QED
      BY <3>2, <3>3, <3>4, UpKeepsSInv
  <2>4. CASE cond_waiters[c] = <<>>
    <3>1. UNCHANGED <<tvars, svars, child>>
      BY <2>1, <2>4 DEF cond_signal, svars
    <3>2. /\ pc' = [pc EXCEPT ![current] = "run"] /\ cond' = [cond EXCEPT ![current] = NoSema]
          /\ sema' = [sema EXCEPT ![current] = sema[current]]
          /\ sema[current] \in Semaphore \cup {NoSema}
      BY <2>1, <2>4, STypes
    <3> QED
      BY <2>1, <2>2, <3>1, <3>2, LabelKeepsSInv
  <2> QED
    BY <2>3, <2>4
<1> QED
  BY <1>1, <1>2

(* The sema_up() of lock_release(): the lock is free and nobody is in its   *)
(* window.                                                                  *)
LEMMA ReleaseUpStep ==
  ASSUME SInv, ReleaseUp
  PROVE  SInv' /\ [TNext]_tvars
<1> DEFINE l == sema[current]
           p == IF cond[current] = NoSema THEN "run" ELSE "cond_sleep"
<1>1. /\ pc[current] = "released" /\ sema_up(l) /\ UNCHANGED <<holder, cond_waiters, cond, child>>
      /\ pc' = [pc EXCEPT ![current] = p] /\ sema' = [sema EXCEPT ![current] = NoSema]
  BY DEF ReleaseUp, At, Goto
<1>2. l \in Lock /\ l \in Semaphore /\ holder[l] = NoThread /\ current # Idle
  BY <1>1, STypes DEF SInv, PcOK, PcOKAt, IdleOK
<1>3. /\ p \in {"run", "cond_sleep"} /\ (p = "cond_sleep" => cond[current] \in Cond)
      /\ p \in Labels /\ sema[current] = l
  BY STypes DEF Labels
<1> HIDE DEF l, p
<1>4. /\ pc'[current] = p /\ sema'[current] = NoSema
      /\ \A t \in Thread \ {current} : pc'[t] = pc[t] /\ sema'[t] = sema[t]
      /\ pc' \in [Thread -> Labels] /\ sema' \in [Thread -> Semaphore \cup {NoSema}]
  BY <1>1, <1>3, STypes
<1>5. /\ ElemOnOneList' /\ NoLostWakeup' /\ [TNext]_tvars
      /\ value' \in [Semaphore -> Nat] /\ waiters' \in [Semaphore -> Seq(Thread)]
      /\ \A r \in Semaphore : value'[r] = IF r = l THEN value[r] + 1 ELSE value[r]
      /\ \A t \in Thread : pc[t] # "down" \/ status[t] = "NONE" => status'[t] = status[t]
      /\ \A t \in Thread : status'[t] = "NONE" => status[t] = "NONE"
      /\ idle_thread' = idle_thread /\ current' = current
  BY <1>1, <1>2, <1>3, <1>4, UpKeepsLists
<1>6. value[l] = 0 /\ Owners(l) = {current}
  BY <1>1, <1>2, <1>3, STypes, OwnerAlone DEF Owners
<1>7. ASSUME NEW k \in Lock PROVE OneOwner(k)'
  <2>1. CASE k = l
    <3>1. Owners(k)' = {}
      BY <1>1, <1>2, <1>3, <1>4, <1>6, <2>1, STypes, ThreadAssumption DEF Owners
    <3> QED
      BY <1>2, <1>5, <1>6, <2>1, <3>1 DEF OneOwner
  <2>2. CASE k # l
    <3>1. value'[k] = value[k] /\ holder'[k] = holder[k]
      BY <1>1, <1>5, <2>2, STypes
    <3> QED
      BY <1>1, <1>3, <1>4, <2>2, <3>1, QuietKeepsOwner
  <2> QED
    BY <2>1, <2>2
<1>8. PcOKAt(current)'
  BY <1>1, <1>3, <1>4, <1>5, STypes DEF PcOKAt
<1>9. IdleOK'
  BY <1>2, <1>4, <1>5, ThreadAssumption DEF SInv, PcOK, IdleOK
<1>10. \A t \in Thread : pc[t] \in {"owned", "released"} => holder'[sema[t]] = NoThread
  BY <1>1 DEF SInv, PcOK, PcOKAt
<1>11. PcOK'
  <2>1. \A t \in Thread : pc[t] = "create" => status'[child[t]] = "BLOCKED"
    BY <1>5, ChildBlocked
  <2> QED
    BY <1>1, <1>3, <1>4, <1>5, <1>8, <1>9, <1>10, <2>1, MoveKeepsPc
<1> QED
  BY <1>1, <1>4, <1>5, <1>7, <1>11, STypes, SInvParts

(* The idle thread's start: it publishes itself, then ups start_idle.       *)
LEMMA IdleSteps ==
  ASSUME SInv, IdleStart \/ IdleUp
  PROVE  SInv' /\ [TNext]_tvars
<1> USE ThreadAssumption
<1>0. /\ Idle \in Thread /\ PcOKAt(current) /\ IdleOK /\ Sema \cap Lock = {} /\ start_idle \in Sema
      /\ \A t \in Thread : PcOKAt(t)
  BY STypes, SynchAssumption DEF SInv, PcOK
<1>1. CASE IdleStart
  <2>1. /\ current = Idle /\ pc[Idle] = "boot" /\ idle_start /\ idle_thread' = Idle
        /\ pc' = [pc EXCEPT ![Idle] = "idle_up"]
        /\ UNCHANGED <<status, current, svars, sema, cond, child>>
    BY <1>1 DEF IdleStart, idle_start, At
  <2>2. UNCHANGED <<value, waiters, holder, cond_waiters>> /\ [TNext]_tvars
    BY <2>1 DEF svars, TNext
  <2>3. /\ pc' \in [Thread -> Labels] /\ pc'[Idle] = "idle_up"
        /\ \A t \in Thread : t # Idle => pc'[t] = pc[t]
    BY <1>0, <2>1, STypes DEF Labels
  <2>4. \A s \in Semaphore : value'[s] =< value[s]
    BY <2>2, STypes
  <2>5. ElemOnOneList' /\ NoLostWakeup'
    BY <2>1, <2>2, <2>3, <2>4, STypes, QuietKeepsLists
  <2>6. \A l \in Lock : OneOwner(l)'
    BY <2>1, <2>2, <2>3, QuietKeepsOwner
  <2>7. PcOKAt(current)' /\ IdleOK'
    BY <1>0, <2>1, <2>3, STypes DEF PcOKAt, IdleOK
  <2>8. PcOK'
    BY <1>0, <2>1, <2>2, <2>3, <2>7, ChildBlocked, MoveKeepsPc DEF PcOKAt
  <2> QED
    BY <2>1, <2>2, <2>3, <2>5, <2>6, <2>8, STypes, SInvParts
<1>2. CASE IdleUp
  <2>1. /\ pc[current] = "idle_up" /\ sema_up(start_idle)
        /\ pc' = [pc EXCEPT ![Idle] = "idle"]
        /\ UNCHANGED <<holder, cond_waiters, sema, cond, child>>
    BY <1>2 DEF IdleUp, At
  <2>2. current = Idle /\ start_idle \in Semaphore
    BY <1>0, <2>1, STypes DEF PcOKAt
  <2>3. /\ pc' \in [Thread -> Labels] /\ pc'[Idle] = "idle"
        /\ \A t \in Thread : t # Idle => pc'[t] = pc[t]
    BY <1>0, <2>1, STypes DEF Labels
  <2>4. /\ ElemOnOneList' /\ NoLostWakeup' /\ [TNext]_tvars
        /\ value' \in [Semaphore -> Nat] /\ waiters' \in [Semaphore -> Seq(Thread)]
        /\ \A r \in Semaphore : value'[r] = IF r = start_idle THEN value[r] + 1 ELSE value[r]
        /\ \A t \in Thread : pc[t] # "down" \/ status[t] = "NONE" => status'[t] = status[t]
        /\ \A t \in Thread : status'[t] = "NONE" => status[t] = "NONE"
        /\ idle_thread' = idle_thread /\ current' = current
    BY <2>1, <2>2, <2>3, UpKeepsLists
  <2>5. \A l \in Lock : OneOwner(l)'
    <3> SUFFICES ASSUME NEW l \in Lock PROVE OneOwner(l)'
      OBVIOUS
    <3>1. value'[l] = value[l] /\ holder'[l] = holder[l]
      BY <1>0, <2>1, <2>4, STypes
    <3> QED
      BY <2>1, <2>2, <2>3, <3>1, QuietKeepsOwner
  <2>6. PcOKAt(current)' /\ IdleOK'
    BY <1>0, <2>1, <2>2, <2>3, <2>4, STypes DEF PcOKAt, IdleOK
  <2>7. \A t \in Thread : pc[t] = "create" => status'[child[t]] = "BLOCKED"
    BY <2>4, ChildBlocked
  <2>8. PcOK'
    BY <1>0, <2>1, <2>2, <2>3, <2>4, <2>6, <2>7, MoveKeepsPc DEF PcOKAt
  <2> QED
    BY <2>1, <2>3, <2>4, <2>5, <2>8, STypes, SInvParts
<1> QED
  BY <1>1, <1>2

(* thread_create(): the page becomes a blocked thread that is nobody        *)
(* else's child, and then a ready one.                                      *)
LEMMA CreateSteps ==
  ASSUME SInv, CreateUnblock \/ \E u \in Thread : ThreadCreate(u)
  PROVE  SInv' /\ [TNext]_tvars
<1> USE ThreadAssumption
<1>0. /\ PcOKAt(current) /\ IdleOK /\ ChildrenDiffer /\ \A t \in Thread : PcOKAt(t)
  BY STypes DEF SInv, PcOK
<1>1. ASSUME NEW u \in Thread, ThreadCreate(u) PROVE SInv' /\ [TNext]_tvars
  <2>1. /\ pc[current] = "run" /\ current # Idle /\ Create(u) /\ status[u] = "NONE"
        /\ status' = [status EXCEPT ![u] = "BLOCKED"]
        /\ pc' = [pc EXCEPT ![current] = "create"] /\ child' = [child EXCEPT ![current] = u]
        /\ UNCHANGED <<current, idle_thread, svars, sema, cond>>
    BY <1>1 DEF ThreadCreate, Create, thread_init_page, At
  <2>2. UNCHANGED <<value, waiters, holder, cond_waiters>> /\ [TNext]_tvars
    BY <2>1 DEF svars, TNext
  <2>3. /\ pc' \in [Thread -> Labels] /\ child' \in [Thread -> Thread \cup {NoThread}]
        /\ pc'[current] = "create" /\ child'[current] = u
        /\ \A t \in Thread : t # current => pc'[t] = pc[t] /\ child'[t] = child[t]
    BY <2>1, STypes DEF Labels
  <2>4. pc[u] = "run" /\ u # Idle /\ u # current /\ status'[u] = "BLOCKED"
        /\ \A t \in Thread : t # u => status'[t] = status[t]
    BY <1>0, <2>1, STypes DEF PcOKAt, IdleOK, TTypeOK
  <2>5. \A s \in Semaphore : value'[s] =< value[s]
    BY <2>2, STypes
  <2>6. ElemOnOneList' /\ NoLostWakeup'
    BY <2>1, <2>2, <2>3, <2>4, <2>5, STypes, QuietKeepsLists
  <2>7. \A l \in Lock : OneOwner(l)'
    BY <2>1, <2>2, <2>3, QuietKeepsOwner
  <2>8. PcOKAt(current)' /\ IdleOK'
    BY <1>0, <2>1, <2>2, <2>3, <2>4, STypes DEF PcOKAt, IdleOK
  <2>9. \A t \in Thread : pc[t] = "create" => status'[child[t]] = "BLOCKED" /\ child[t] # u
    BY <2>1, <2>4, ChildBlocked
  <2>10. PcOK'
    BY <1>0, <2>1, <2>2, <2>3, <2>4, <2>8, <2>9, MoveKeepsPc DEF PcOKAt
  <2> QED
    BY <2>1, <2>2, <2>3, <2>6, <2>7, <2>10, STypes, SInvParts
<1>2. CASE CreateUnblock
  <2> DEFINE u == child[current]
  <2>1. /\ pc[current] = "create" /\ thread_unblock(u)
        /\ pc' = [pc EXCEPT ![current] = "run"] /\ child' = [child EXCEPT ![current] = NoThread]
        /\ UNCHANGED <<svars, sema, cond>>
    BY <1>2 DEF CreateUnblock, At
  <2>2. /\ u \in Thread \ {Idle, current} /\ status[u] = "BLOCKED" /\ pc[u] = "run"
        /\ child[current] = u
    BY <2>1, STypes, ChildBlocked
  <2>3. \A t \in Thread \ {current} : pc[t] = "create" => child[t] # u
    BY <1>0, <2>1, STypes DEF ChildrenDiffer
  <2> HIDE DEF u
  <2>4. /\ status' = [status EXCEPT ![u] = "READY"] /\ UNCHANGED <<current, idle_thread>>
        /\ Unblock(u)
    BY <2>1, <2>2 DEF thread_unblock, Unblock
  <2>5. UNCHANGED <<value, waiters, holder, cond_waiters>> /\ [TNext]_tvars
    BY <2>1, <2>2, <2>4 DEF svars, TNext
  <2>6. /\ pc' \in [Thread -> Labels] /\ child' \in [Thread -> Thread \cup {NoThread}]
        /\ pc'[current] = "run"
        /\ \A t \in Thread : t # current => pc'[t] = pc[t] /\ child'[t] = child[t]
    BY <2>1, STypes DEF Labels
  <2>7. status'[u] = "READY" /\ \A t \in Thread : t # u => status'[t] = status[t]
    BY <2>2, <2>4, STypes DEF TTypeOK
  <2>8. \A s \in Semaphore : value'[s] =< value[s]
    BY <2>5, STypes
  <2>9. ElemOnOneList' /\ NoLostWakeup'
    BY <2>1, <2>2, <2>5, <2>6, <2>7, <2>8, STypes, QuietKeepsLists
  <2>10. \A l \in Lock : OneOwner(l)'
    BY <2>1, <2>5, <2>6, QuietKeepsOwner
  <2>11. PcOKAt(current)' /\ IdleOK'
    BY <1>0, <2>1, <2>4, <2>6, <2>7, STypes DEF PcOKAt, IdleOK
  <2>12. \A t \in Thread \ {current} : pc[t] = "create" => status'[child[t]] = "BLOCKED"
    BY <2>3, <2>7, ChildBlocked
  <2>13. PcOK'
    BY <1>0, <2>1, <2>4, <2>5, <2>6, <2>7, <2>11, <2>12, MoveKeepsPc DEF PcOKAt
  <2> QED
    BY <2>1, <2>5, <2>6, <2>9, <2>10, <2>13, STypes, SInvParts
<1> QED
  BY <1>1, <1>2
-----------------------------------------------------------------------------
(* Every step of the kernel keeps the invariant, and is a step of the       *)
(* scheduler or leaves it alone.                                            *)
LEMMA SNext_SInv == SInv /\ [SNext]_vars => SInv' /\ [TNext]_tvars
<1> SUFFICES ASSUME SInv, [SNext]_vars PROVE SInv' /\ [TNext]_tvars
  OBVIOUS
<1>1. CASE Committed
  BY <1>1, DownSteps, SetHolderStep, ReleaseUpStep, BroadcastSteps, CreateSteps,
     IdleSteps, SchedSteps DEF Committed
<1>2. CASE TimerInterrupt \/ ThreadYield \/ ThreadExit \/ UNCHANGED vars
  BY <1>2, SchedSteps
<1>3. ASSUME NEW s \in Sema, SemaDown(s) \/ SemaTryDown(s) \/ SemaUp(s) \/ IntrUp(s)
      PROVE  SInv' /\ [TNext]_tvars
  BY <1>3, DownSteps, SemaTryDownStep, UpSteps
<1>4. ASSUME NEW l \in Lock, LockAcquire(l) \/ LockTryAcquire(l) \/ LockRelease(l)
      PROVE  SInv' /\ [TNext]_tvars
  BY <1>4, DownSteps, LockTryAcquireStep, LockReleaseStep
<1>5. ASSUME NEW c \in Cond, CondWait(c) \/ CondSignal(c) \/ CondBroadcast(c)
      PROVE  SInv' /\ [TNext]_tvars
  BY <1>5, CondWaitStep, UpSteps, BroadcastSteps
<1>6. ASSUME NEW u \in Thread, ThreadCreate(u) PROVE SInv' /\ [TNext]_tvars
  BY <1>6, CreateSteps
<1> QED
  BY <1>1, <1>2, <1>3, <1>4, <1>5, <1>6 DEF SNext

(* The inductive invariant holds in every reachable state.                  *)
LEMMA Always_SInv == SSpec => []SInv
  BY SInit_SInv, SNext_SInv, PTL DEF SSpec

(* synch.c uses the scheduler as it may be used: whatever it does is a step *)
(* Threads.tla allows, the assertions of thread_unblock() and               *)
(* thread_block() included.                                                 *)
THEOREM SynchImplementsScheduler == SSpec => TSpec
<1>1. SInit => TInit
  BY DEF SInit
<1> QED
  BY <1>1, SNext_SInv, Always_SInv, PTL DEF SSpec, TSpec

(* The run queue is exact whatever threads do with semaphores, locks and    *)
(* conditions.                                                              *)
THEOREM SynchKeepsRunQueue == SSpec => []RunQueueExact
  BY Always_SInv, PTL DEF SInv, TInv

(* Every variable of synch.c keeps its type.                                *)
THEOREM SynchTypes == SSpec => []STypeOK
  BY Always_SInv, PTL DEF SInv

(* A thread's list element is on one list at most, and on the wait list of  *)
(* the one semaphore it sleeps on.                                          *)
THEOREM OneListEach == SSpec => []ElemOnOneList
  BY Always_SInv, PTL DEF SInv

(* No wake-up of a semaphore is lost.                                       *)
THEOREM WakeupsKept == SSpec => []NoLostWakeup
  BY Always_SInv, PTL DEF SInv

(* A lock is free with nobody in or around it, or taken by one thread.      *)
THEOREM MutualExclusion == SSpec => []LockOwned
<1>1. SInv => LockOwned
  <2> SUFFICES ASSUME SInv, NEW l \in Lock PROVE value[l] + Cardinality(Owners(l)) = 1
    BY DEF LockOwned
  <2>1. CASE value[l] = 1 /\ Owners(l) = {}
    BY <2>1, FS_EmptySet
  <2>2. CASE value[l] = 0 /\ \E t \in Thread : Owners(l) = {t}
    BY <2>2, FS_Singleton
  <2> QED
    BY <2>1, <2>2 DEF SInv, OneOwner
<1> QED
  BY <1>1, Always_SInv, PTL

-----------------------------------------------------------------------------
(* The monitor.                                                             *)

(* What a thread's place says about the condition it deals with: none while *)
(* it is outside cond_wait() and cond_broadcast(); inside, the lock it      *)
(* takes or gives back is the condition's; a broadcaster holds that lock.   *)
CondOKAt(t) ==
  /\ pc[t] \in {"run", "create", "boot", "idle_up", "idle"} => cond[t] = NoSema
  /\ pc[t] = "down" /\ sema[t] \in Sema => cond[t] = NoSema
  /\ pc[t] \in {"down", "owned", "released"} /\ sema[t] \in Lock /\ cond[t] # NoSema
       => sema[t] = lock_of[cond[t]]
  /\ pc[t] = "broadcast" => holder[lock_of[cond[t]]] = t

CInv == CondElemLive /\ \A t \in Thread : CondOKAt(t)
-----------------------------------------------------------------------------
(* The threads OwnerOf(l) chooses from.                                     *)
Inside(l) == {t \in Thread : holder[l] = t \/ (pc[t] = "owned" /\ sema[t] = l)}

(* OwnerOf(l) depends on them alone, before and after a step.               *)
AnyOf(S) == IF S = {} THEN NoThread ELSE CHOOSE t \in S : TRUE

\* Who has a lock is one of those inside, in this state and in the next.
LEMMA OwnerChosen ==
  /\ \A l : OwnerOf(l) = AnyOf(Inside(l))
  /\ \A l : OwnerOf(l)' = AnyOf(Inside(l)')
  BY Zenon DEF OwnerOf, Inside, AnyOf

(* There is one of them at most, so OwnerOf(l) is that thread or nobody.    *)
LEMMA OwnerIs ==
  /\ \A l : Inside(l) = {} => OwnerOf(l) = NoThread
  /\ \A l, t : Inside(l) = {t} => OwnerOf(l) = t
  /\ \A l : Inside(l)' = {} => OwnerOf(l)' = NoThread
  /\ \A l, t : Inside(l)' = {t} => OwnerOf(l)' = t
  BY OwnerChosen DEF AnyOf

(* A lock whose semaphore is up has nobody inside; its holder is alone.     *)
LEMMA OneInside ==
  ASSUME SInv, NEW l \in Lock
  PROVE  /\ value[l] > 0 => Inside(l) = {} /\ holder[l] = NoThread
         /\ \A t \in Thread : holder[l] = t \/ (pc[t] = "owned" /\ sema[t] = l) => Inside(l) = {t}
<1>1. Inside(l) \subseteq Owners(l)
  BY DEF Inside, Owners
<1>2. OneOwner(l) /\ holder[l] \in Thread \cup {NoThread}
  BY STypes DEF SInv
<1>3. value[l] > 0 => Owners(l) = {}
  BY <1>2 DEF OneOwner
<1>4. holder[l] \in Thread => holder[l] \in Owners(l)
  BY DEF Owners
<1>5. ASSUME NEW t \in Thread, holder[l] = t \/ (pc[t] = "owned" /\ sema[t] = l)
      PROVE  Inside(l) = {t}
  <2>1. t \in Inside(l) /\ t \in Owners(l)
    BY <1>5 DEF Inside, Owners
  <2> QED
    BY <1>1, <1>2, <2>1 DEF OneOwner
<1> QED
  BY <1>1, <1>2, <1>3, <1>4, <1>5

(* What CondElemLive says, for citing.                                      *)
LEMMA Elem ==
  ASSUME CInv, SInv, NEW c \in Cond
  PROVE  /\ Distinct(cond_waiters[c]) /\ Queued(cond_waiters[c]) \subseteq Thread
         /\ cond_waiters[c] \in Seq(Thread) /\ lock_of[c] \in Lock
         /\ \A t \in Queued(cond_waiters[c]) :
              /\ cond[t] = c /\ value[t] = 0
              /\ \/ pc[t] \in {"released", "cond_sleep"}
                 \/ pc[t] = "down" /\ sema[t] = t
  BY STypes, QueuedType, SynchAssumption DEF CInv, CondElemLive
-----------------------------------------------------------------------------
(* A step that queues and signals nobody keeps CondElemLive when the        *)
(* threads queued keep their value and stay in cond_wait().                 *)
LEMMA StillQueued ==
  ASSUME SInv, CInv, cond_waiters' = cond_waiters,
         \A t \in Thread \ {current} : /\ pc'[t] = pc[t] /\ sema'[t] = sema[t] /\ cond'[t] = cond[t]
                                       /\ value'[t] = value[t],
         \A c \in Cond : current \in Queued(cond_waiters[c]) =>
           /\ cond'[current] = cond[current] /\ value'[current] = value[current]
           /\ pc'[current] = "cond_sleep" \/ (pc'[current] = "down" /\ sema'[current] = current)
  PROVE  CondElemLive'
<1> SUFFICES ASSUME NEW c \in Cond, NEW t \in Queued(cond_waiters[c])
             PROVE  /\ cond'[t] = c /\ value'[t] = 0
                    /\ \/ pc'[t] \in {"released", "cond_sleep"}
                       \/ pc'[t] = "down" /\ sema'[t] = t
  BY Elem DEF CondElemLive
<1>1. t \in Thread /\ cond[t] = c /\ value[t] = 0
      /\ (pc[t] \in {"released", "cond_sleep"} \/ (pc[t] = "down" /\ sema[t] = t))
  BY Elem
<1>2. CASE t = current
  BY <1>1, <1>2
<1>3. CASE t # current
  BY <1>1, <1>3
<1> QED
  BY <1>2, <1>3

(* The rest of CInv, when the holders stay and only the running thread      *)
(* moves, or when the lock that changes hands is not a broadcaster's.       *)
LEMMA StillCondOK ==
  ASSUME CInv, CondElemLive', \A t \in Thread : t = current => CondOKAt(t)',
         \A t \in Thread \ {current} : /\ pc'[t] = pc[t] /\ sema'[t] = sema[t] /\ cond'[t] = cond[t]
                                       /\ pc[t] = "broadcast" =>
                                            holder'[lock_of[cond[t]]] = holder[lock_of[cond[t]]]
  PROVE  CInv'
<1>1. \A t \in Thread \ {current} : CondOKAt(t)'
  BY DEF CInv, CondOKAt
<1> QED
  BY <1>1 DEF CInv

(* A step that takes and frees no lock and signals nobody does not move the *)
(* monitor.                                                                 *)
LEMMA StillMonitor ==
  ASSUME cond_waiters' = cond_waiters,
         \A l \in Lock : Inside(l)' = Inside(l),
         \A t \in Thread, c \in Cond :
            cond'[t] = c /\ pc'[t] \notin {"owned", "broadcast"} /\ t \notin Queued(cond_waiters[c])
              <=> cond[t] = c /\ pc[t] \notin {"owned", "broadcast"} /\ t \notin Queued(cond_waiters[c])
  PROVE  UNCHANGED M!mvars
<1>1. \A l \in Lock : OwnerOf(l)' = OwnerOf(l)
  BY OwnerChosen
<1>2. \A c \in Cond : SignalledOn(c)' = SignalledOn(c)
  BY DEF SignalledOn
<1> QED
  BY <1>1, <1>2 DEF M!mvars
-----------------------------------------------------------------------------
(* Steps of the scheduler, moves within thread.c and operations on plain    *)
(* semaphores: nothing of the monitor changes.                              *)
LEMMA OutsideSteps ==
  ASSUME SInv, CInv,
         UNCHANGED <<holder, cond_waiters, sema, cond>>,
         \A t \in Thread : value'[t] = value[t],
         pc' = pc \/ \E p \in {"run", "create", "boot", "idle_up", "idle"} :
                        /\ pc[current] \in {"run", "create", "boot", "idle_up", "idle"}
                        /\ pc' = [pc EXCEPT ![current] = p]
  PROVE  CInv' /\ UNCHANGED M!mvars
<1>1. \A t \in Thread : \/ pc'[t] = pc[t]
                        \/ pc[t] \in {"run", "create", "boot", "idle_up", "idle"}
                           /\ pc'[t] \in {"run", "create", "boot", "idle_up", "idle"}
  BY STypes
<1>2. \A l \in Lock : Inside(l)' = Inside(l)
  BY <1>1 DEF Inside
<1>3. \A t \in Thread : CondOKAt(t)'
  BY <1>1 DEF CInv, CondOKAt
<1>4. CondElemLive'
  BY <1>1, Elem DEF CondElemLive
<1>5. UNCHANGED M!mvars
  BY <1>1, <1>2, StillMonitor
<1> QED
  BY <1>3, <1>4, <1>5 DEF CInv

(* A thread that takes a lock's unit becomes its owner: by lock_acquire(),  *)
(* or by coming back from cond_wait().                                      *)
LEMMA TakeLock ==
  ASSUME SInv, CInv, NEW s \in Lock, value[s] > 0,
         UNCHANGED <<holder, cond_waiters, cond>>,
         pc' = [pc EXCEPT ![current] = "owned"], sema' = [sema EXCEPT ![current] = s],
         pc[current] \notin {"owned", "broadcast"},
         cond[current] # NoSema => s = lock_of[cond[current]],
         \A c \in Cond : current \notin Queued(cond_waiters[c])
  PROVE  M!MNext
<1>1. /\ pc'[current] = "owned" /\ sema'[current] = s /\ current \in Thread
      /\ \A t \in Thread : t # current => pc'[t] = pc[t] /\ sema'[t] = sema[t]
  BY STypes
<1>2. s \in Lock /\ Inside(s) = {} /\ holder[s] = NoThread /\ s \notin Thread
  BY OneInside, SynchAssumption
<1>3. Inside(s)' = {current} /\ \A l \in Lock \ {s} : Inside(l)' = Inside(l)
  BY <1>1, <1>2, ThreadAssumption DEF Inside
<1>4. /\ OwnerOf(s) = NoThread /\ OwnerOf(s)' = current
      /\ \A l \in Lock \ {s} : OwnerOf(l)' = OwnerOf(l)
  BY <1>2, <1>3, OwnerIs, OwnerChosen
<1>5. [l \in Lock |-> OwnerOf(l)]' = [[l \in Lock |-> OwnerOf(l)] EXCEPT ![s] = current]
  BY <1>2, <1>4
<1>6. cond[current] \in Cond \cup {NoSema}
  BY STypes
<1>7. CASE cond[current] = NoSema
  <2>1. \A c \in Cond : SignalledOn(c)' = SignalledOn(c) /\ current \notin SignalledOn(c)
    BY <1>1, <1>7, SynchAssumption DEF SignalledOn
  <2>2. \A c \in Cond : \A i \in DOMAIN cond_waiters[c] : cond_waiters[c][i] # current
    BY STypes DEF Queued
  <2>3. ~M!Waiting(current)
    BY <2>1, <2>2 DEF M!Waiting
  <2>4. M!Acquire(current, s)
    BY <1>2, <1>4, <1>5, <2>1, <2>3 DEF M!Acquire
  <2> QED
    BY <1>1, <1>2, <2>4 DEF M!MNext
<1>8. ASSUME NEW c \in Cond, cond[current] = c PROVE M!Return(current, c)
  <2>1. s = lock_of[c]
    BY <1>2, <1>8, SynchAssumption
  <2>2. current \in SignalledOn(c) /\ SignalledOn(c)' = SignalledOn(c) \ {current}
    BY <1>1, <1>8 DEF SignalledOn
  <2>3. \A d \in Cond \ {c} : SignalledOn(d)' = SignalledOn(d)
    BY <1>1, <1>8 DEF SignalledOn
  <2> QED
    BY <1>2, <1>4, <1>5, <2>1, <2>2, <2>3 DEF M!Return
<1> QED
  BY <1>1, <1>6, <1>7, <1>8 DEF M!MNext

(* sema_down() by any of its callers.                                       *)
LEMMA DownMonitor ==
  ASSUME SInv, CInv, NEW s \in Semaphore, sema_down(s),
         UNCHANGED <<holder, cond_waiters, cond, child>>,
         pc[current] \notin {"owned", "released", "broadcast"},
         s \in Thread => s = current,
         s \in Sema => cond[current] = NoSema,
         s \in Lock /\ cond[current] # NoSema => s = lock_of[cond[current]],
         \A c \in Cond : current \in Queued(cond_waiters[c]) => s = current
  PROVE  CInv' /\ [M!MNext]_(M!mvars)
<1>1. PICK p \in {"owned", "relock", "run", "down"}, q \in Semaphore \cup {NoSema} :
        /\ pc' = [pc EXCEPT ![current] = p] /\ sema' = [sema EXCEPT ![current] = q]
        /\ p = "down" => q = s /\ value' = value
        /\ p = "owned" => s \in Lock /\ q = s
        /\ p = "relock" => s = current
        /\ p = "run" => s \in Sema
        /\ p # "down" => value[s] > 0 /\ value' = [value EXCEPT ![s] = @ - 1]
  BY AfterDownCases, SynchAssumption DEF sema_down, Goto, Semaphore
<1>2. /\ pc'[current] = p /\ sema'[current] = q /\ current \in Thread
      /\ \A t \in Thread : t # current => pc'[t] = pc[t] /\ sema'[t] = sema[t]
      /\ \A t \in Thread \ {current} : value'[t] = value[t]
  BY <1>1, STypes, SynchAssumption
<1>3. ASSUME NEW c \in Cond, current \in Queued(cond_waiters[c])
      PROVE  p = "down" /\ q = current
  BY <1>1, <1>3, Elem
<1>4. CondElemLive'
  BY <1>1, <1>2, <1>3, StillQueued
<1>5. \A t \in Thread : t = current => CondOKAt(t)'
  BY <1>1, <1>2, SynchAssumption DEF CondOKAt
<1>6. CInv'
  BY <1>2, <1>4, <1>5, StillCondOK
<1>7. CASE p # "owned"
  <2>1. \A l \in Lock : Inside(l)' = Inside(l)
    BY <1>2, <1>7 DEF Inside
  <2> QED
    BY <1>2, <1>6, <1>7, <2>1, StillMonitor
<1>8. CASE p = "owned"
  <2>1. M!MNext
    BY <1>1, <1>3, <1>8, TakeLock
  <2> QED
    BY <1>6, <2>1
<1> QED
  BY <1>7, <1>8

(* lock_try_acquire() takes the unit that is there.                         *)
LEMMA LockTryAcquireMonitor ==
  ASSUME SInv, CInv, NEW l \in Lock, LockTryAcquire(l)
  PROVE  CInv' /\ [M!MNext]_(M!mvars)
<1>1. /\ pc[current] = "run" /\ value[l] > 0 /\ value' = [value EXCEPT ![l] = @ - 1]
      /\ pc' = [pc EXCEPT ![current] = "owned"] /\ sema' = [sema EXCEPT ![current] = l]
      /\ UNCHANGED <<holder, cond_waiters, cond>>
  BY DEF LockTryAcquire, At, Goto
<1>2. /\ pc'[current] = "owned" /\ cond[current] = NoSema /\ l \notin Thread
      /\ \A t \in Thread : t # current => pc'[t] = pc[t] /\ sema'[t] = sema[t]
      /\ \A t \in Thread : value'[t] = value[t]
  BY <1>1, STypes, SynchAssumption DEF CInv, CondOKAt
<1>3. \A c \in Cond : current \notin Queued(cond_waiters[c])
  BY <1>1, Elem
<1>4. CondElemLive'
  BY <1>1, <1>2, <1>3, StillQueued
<1>5. \A t \in Thread : t = current => CondOKAt(t)'
  BY <1>1, <1>2 DEF CondOKAt
<1>6. CInv'
  BY <1>1, <1>2, <1>4, <1>5, StillCondOK
<1>7. M!MNext
  BY <1>1, <1>2, <1>3, TakeLock
<1> QED
  BY <1>6, <1>7

(* The holder is written down after the lock was taken: its owner stays.    *)
LEMMA SetHolderMonitor ==
  ASSUME SInv, CInv, SetHolder
  PROVE  CInv' /\ UNCHANGED M!mvars
<1> DEFINE s == sema[current]
<1>1. /\ pc[current] = "owned" /\ s \in Lock /\ holder[s] = NoThread
      /\ holder' = [holder EXCEPT ![s] = current]
      /\ pc' = [pc EXCEPT ![current] = "run"] /\ sema' = [sema EXCEPT ![current] = NoSema]
      /\ cond' = [cond EXCEPT ![current] = NoSema]
      /\ UNCHANGED <<value, cond_waiters>>
  BY STypes DEF SetHolder, At, Goto, SInv, PcOK, PcOKAt
<1>2. /\ pc'[current] = "run" /\ cond'[current] = NoSema /\ NoSema \notin Cond
      /\ \A t \in Thread : t # current => pc'[t] = pc[t] /\ sema'[t] = sema[t] /\ cond'[t] = cond[t]
  BY <1>1, STypes, SynchAssumption
<1>3. \A c \in Cond : current \notin Queued(cond_waiters[c])
  BY <1>1, Elem
<1>4. CondElemLive'
  BY <1>1, <1>2, <1>3, StillQueued
<1>5. \A t \in Thread : t = current => CondOKAt(t)'
  BY <1>2 DEF CondOKAt
<1>6. \A t \in Thread \ {current} :
        pc[t] = "broadcast" => holder'[lock_of[cond[t]]] = holder[lock_of[cond[t]]]
  <2> SUFFICES ASSUME NEW t \in Thread \ {current}, pc[t] = "broadcast"
               PROVE  holder'[lock_of[cond[t]]] = holder[lock_of[cond[t]]]
    OBVIOUS
  <2>1. holder[lock_of[cond[t]]] = t /\ cond[t] \in Cond
    BY DEF CInv, CondOKAt, SInv, PcOK, PcOKAt
  <2> QED
    BY <1>1, <2>1, STypes, SynchAssumption, ThreadAssumption
<1>7. CInv'
  BY <1>2, <1>4, <1>5, <1>6, StillCondOK
<1>8. \A l \in Lock : Inside(l)' = Inside(l)
  <2> SUFFICES ASSUME NEW l \in Lock PROVE Inside(l)' = Inside(l)
    OBVIOUS
  <2>1. CASE l = s
    <3>1. Inside(l) = {current}
      BY <1>1, <2>1, OneInside, STypes
    <3>2. holder'[l] = current
      BY <1>1, <2>1, STypes
    <3> QED
      BY <1>2, <3>1, <3>2, STypes DEF Inside
  <2>2. CASE l # s
    BY <1>1, <1>2, <2>2, STypes DEF Inside
  <2> QED
    BY <2>1, <2>2
<1> QED
  BY <1>1, <1>2, <1>7, <1>8, StillMonitor

(* The holder of a lock that stops holding it frees it, and takes no        *)
(* broadcaster's lock away.                                                 *)
LEMMA FreeLock ==
  ASSUME SInv, CInv, NEW l \in Lock, holder[l] = current, lock_release(l), pc[current] = "run"
  PROVE  /\ OwnerOf(l) = current
         /\ [k \in Lock |-> OwnerOf(k)]' = [[k \in Lock |-> OwnerOf(k)] EXCEPT ![l] = NoThread]
         /\ \A t \in Thread \ {current} :
              pc[t] = "broadcast" => holder'[lock_of[cond[t]]] = holder[lock_of[cond[t]]]
         /\ pc'[current] = "released" /\ sema'[current] = l
         /\ \A t \in Thread : t # current => pc'[t] = pc[t] /\ sema'[t] = sema[t]
<1>1. /\ holder' = [holder EXCEPT ![l] = NoThread]
      /\ pc' = [pc EXCEPT ![current] = "released"] /\ sema' = [sema EXCEPT ![current] = l]
  BY DEF lock_release, Goto
<1>2. /\ pc'[current] = "released" /\ sema'[current] = l
      /\ \A t \in Thread : t # current => pc'[t] = pc[t] /\ sema'[t] = sema[t]
      /\ holder'[l] = NoThread /\ \A k \in Lock \ {l} : holder'[k] = holder[k]
  BY <1>1, STypes
<1>3. Inside(l) = {current}
  BY OneInside, STypes
<1>4. Inside(l)' = {} /\ \A k \in Lock \ {l} : Inside(k)' = Inside(k)
  <2>1. \A t \in Thread : t # current => ~(pc'[t] = "owned" /\ sema'[t] = l)
    BY <1>2, <1>3 DEF Inside
  <2> QED
    BY <1>2, <2>1, ThreadAssumption DEF Inside
<1>5. OwnerOf(l) = current /\ OwnerOf(l)' = NoThread /\ \A k \in Lock \ {l} : OwnerOf(k)' = OwnerOf(k)
  BY <1>3, <1>4, OwnerIs, OwnerChosen
<1>6. \A t \in Thread \ {current} :
        pc[t] = "broadcast" => holder'[lock_of[cond[t]]] = holder[lock_of[cond[t]]]
  <2> SUFFICES ASSUME NEW t \in Thread \ {current}, pc[t] = "broadcast"
               PROVE  holder'[lock_of[cond[t]]] = holder[lock_of[cond[t]]]
    OBVIOUS
  <2>1. holder[lock_of[cond[t]]] = t /\ cond[t] \in Cond
    BY DEF CInv, CondOKAt, SInv, PcOK, PcOKAt
  <2> QED
    BY <1>2, <2>1, SynchAssumption
<1> QED
  BY <1>2, <1>5, <1>6

(* lock_release() by the thread itself.                                     *)
LEMMA LockReleaseMonitor ==
  ASSUME SInv, CInv, NEW l \in Lock, LockRelease(l)
  PROVE  CInv' /\ [M!MNext]_(M!mvars)
<1>1. /\ pc[current] = "run" /\ holder[l] = current /\ lock_release(l)
      /\ UNCHANGED <<value, cond_waiters, cond>>
      /\ cond[current] = NoSema /\ NoSema \notin Cond
  BY STypes, SynchAssumption DEF LockRelease, At, lock_held_by_current_thread, CInv, CondOKAt
<1>2. \A c \in Cond : current \notin Queued(cond_waiters[c])
  BY <1>1, Elem
<1>3. CondElemLive'
  BY <1>1, <1>2, FreeLock, StillQueued
<1>4. \A t \in Thread : t = current => CondOKAt(t)'
  BY <1>1, FreeLock DEF CondOKAt
<1>5. CInv'
  BY <1>1, <1>3, <1>4, FreeLock, StillCondOK
<1>6. \A c \in Cond : SignalledOn(c)' = SignalledOn(c)
  BY <1>1, FreeLock DEF SignalledOn
<1>7. M!Release(current, l)
  BY <1>1, <1>6, FreeLock DEF M!Release
<1> QED
  BY <1>5, <1>7, STypes DEF M!MNext

(* cond_wait() up to the release of the lock.                               *)
LEMMA CondWaitMonitor ==
  ASSUME SInv, CInv, NEW c \in Cond, CondWait(c)
  PROVE  CInv' /\ [M!MNext]_(M!mvars)
<1> DEFINE l == lock_of[c]
<1>1. /\ pc[current] = "run" /\ holder[l] = current /\ lock_release(l) /\ l \in Lock
      /\ value' = [value EXCEPT ![current] = 0]
      /\ cond_waiters' = [cond_waiters EXCEPT ![c] = Append(@, current)]
      /\ cond' = [cond EXCEPT ![current] = c]
      /\ cond[current] = NoSema /\ NoSema \notin Cond
  BY STypes, SynchAssumption DEF CondWait, At, lock_held_by_current_thread, CInv, CondOKAt
<1>f. /\ pc'[current] = "released" /\ sema'[current] = l
      /\ \A t \in Thread : t # current => pc'[t] = pc[t] /\ sema'[t] = sema[t]
  BY <1>1, FreeLock
<1>2. \A d \in Cond : current \notin Queued(cond_waiters[d])
  BY <1>1, Elem
<1> HIDE DEF l
<1>3. /\ cond'[current] = c /\ value'[current] = 0
      /\ \A t \in Thread \ {current} : cond'[t] = cond[t] /\ value'[t] = value[t]
      /\ cond_waiters'[c] = Append(cond_waiters[c], current)
      /\ \A d \in Cond \ {c} : cond_waiters'[d] = cond_waiters[d]
  BY <1>1, STypes
<1>4. /\ Queued(cond_waiters'[c]) = Queued(cond_waiters[c]) \cup {current}
      /\ Distinct(cond_waiters'[c])
  BY <1>2, <1>3, Elem, STypes, AppendQueued, AppendDistinct
<1>5. CondElemLive'
  <2> SUFFICES ASSUME NEW d \in Cond
               PROVE  /\ Distinct(cond_waiters'[d])
                      /\ \A t \in Queued(cond_waiters'[d]) :
                           /\ cond'[t] = d /\ value'[t] = 0
                           /\ \/ pc'[t] \in {"released", "cond_sleep"}
                              \/ pc'[t] = "down" /\ sema'[t] = t
    BY DEF CondElemLive
  <2>1. \A t \in Queued(cond_waiters[d]) :
          /\ cond'[t] = d /\ value'[t] = 0
          /\ \/ pc'[t] \in {"released", "cond_sleep"}
             \/ pc'[t] = "down" /\ sema'[t] = t
    <3> SUFFICES ASSUME NEW t \in Queued(cond_waiters[d])
                 PROVE  /\ cond'[t] = d /\ value'[t] = 0
                        /\ \/ pc'[t] \in {"released", "cond_sleep"}
                           \/ pc'[t] = "down" /\ sema'[t] = t
      OBVIOUS
    <3>1. /\ t \in Thread \ {current} /\ cond[t] = d /\ value[t] = 0
          /\ (pc[t] \in {"released", "cond_sleep"} \/ (pc[t] = "down" /\ sema[t] = t))
      BY <1>2, Elem
    <3> QED
      BY <1>f, <1>3, <3>1
  <2>2. CASE d = c
    BY <1>f, <1>3, <1>4, <2>1, <2>2
  <2>3. CASE d # c
    BY <1>3, <2>1, <2>3, Elem
  <2> QED
    BY <2>2, <2>3
<1>6. \A t \in Thread : t = current => CondOKAt(t)'
  BY <1>f, <1>3, SynchAssumption DEF CondOKAt, l
<1>7. CInv'
  BY <1>1, <1>3, <1>5, <1>6, FreeLock, StillCondOK
<1>8. \A d \in Cond : SignalledOn(d)' = SignalledOn(d)
  <2> SUFFICES ASSUME NEW d \in Cond PROVE SignalledOn(d)' = SignalledOn(d)
    OBVIOUS
  <2>1. current \notin SignalledOn(d)
    BY <1>1 DEF SignalledOn
  <2>2. current \notin SignalledOn(d)'
    BY <1>3, <1>4 DEF SignalledOn
  <2>3. \A t \in Thread \ {current} : t \in Queued(cond_waiters'[d]) <=> t \in Queued(cond_waiters[d])
    BY <1>3, <1>4
  <2> QED
    <3>1. \A t \in Thread \ {current} : pc'[t] = pc[t] /\ cond'[t] = cond[t]
      BY <1>1, <1>3, FreeLock
    <3>2. \A t \in Thread \ {current} : t \in SignalledOn(d)' <=> t \in SignalledOn(d)
      BY <2>3, <3>1, Zenon DEF SignalledOn
    <3>3. SignalledOn(d)' \subseteq Thread /\ SignalledOn(d) \subseteq Thread
      BY DEF SignalledOn
    <3> QED
      BY ONLY <2>1, <2>2, <3>2, <3>3
<1>9. M!Wait(current, c)
  BY <1>1, <1>8, FreeLock DEF M!Wait, l
<1> QED
  BY <1>7, <1>9, STypes DEF M!MNext

(* The sema_up() that ends the release: the thread is outside already.      *)
LEMMA ReleaseUpMonitor ==
  ASSUME SInv, CInv, ReleaseUp
  PROVE  CInv' /\ UNCHANGED M!mvars
<1> DEFINE s == sema[current]
           p == IF cond[current] = NoSema THEN "run" ELSE "cond_sleep"
<1>1. /\ pc[current] = "released" /\ s \in Lock /\ s \notin Thread
      /\ value' = [value EXCEPT ![s] = @ + 1]
      /\ pc' = [pc EXCEPT ![current] = p] /\ sema' = [sema EXCEPT ![current] = NoSema]
      /\ UNCHANGED <<holder, cond_waiters, cond>>
  BY STypes, SynchAssumption DEF ReleaseUp, At, Goto, sema_up, SInv, PcOK, PcOKAt
<1>2. /\ pc'[current] = p /\ sema'[current] = NoSema /\ NoSema \notin Cond
      /\ \A t \in Thread : t # current => pc'[t] = pc[t] /\ sema'[t] = sema[t]
      /\ \A t \in Thread : value'[t] = value[t]
  BY <1>1, STypes, SynchAssumption
<1>3. CondElemLive'
  <2>1. \A c \in Cond : current \in Queued(cond_waiters[c]) => pc'[current] = "cond_sleep"
    BY Elem, <1>2
  <2>2. /\ cond_waiters' = cond_waiters /\ cond' = cond /\ current \in Thread
        /\ \A t \in Thread \ {current} : /\ pc'[t] = pc[t] /\ sema'[t] = sema[t]
                                         /\ cond'[t] = cond[t] /\ value'[t] = value[t]
        /\ value'[current] = value[current] /\ cond'[current] = cond[current]
    BY <1>1, <1>2, STypes
  <2> QED
    BY <2>1, <2>2, StillQueued
<1>4. \A t \in Thread : t = current => CondOKAt(t)'
  BY <1>1, <1>2 DEF CondOKAt
<1>5. CInv'
  BY <1>1, <1>2, <1>3, <1>4, StillCondOK
<1>6. \A l \in Lock : Inside(l)' = Inside(l)
  BY <1>1, <1>2, STypes DEF Inside
<1> QED
  BY <1>1, <1>2, <1>5, <1>6, StillMonitor

(* cond_signal() with the lock held and somebody waiting takes the thread   *)
(* that has waited longest.                                                 *)
LEMMA SignalMonitor ==
  ASSUME SInv, CInv, NEW c \in Cond, cond_waiters[c] # <<>>, cond_signal(c),
         holder[lock_of[c]] = current, UNCHANGED <<holder, pc, sema, cond>>
  PROVE  CInv' /\ M!MNext
<1> DEFINE h == Head(cond_waiters[c])
<1>1. /\ sema_up(h) /\ cond_waiters' = [cond_waiters EXCEPT ![c] = Tail(@)]
      /\ value' = [value EXCEPT ![h] = @ + 1]
  BY DEF cond_signal, sema_up
<1>2. h \in Queued(cond_waiters[c]) /\ h \in Thread
  BY Elem, HeadQueued
<1>3. /\ cond_waiters'[c] = Tail(cond_waiters[c])
      /\ \A d \in Cond \ {c} : cond_waiters'[d] = cond_waiters[d]
      /\ Queued(cond_waiters'[c]) = Queued(cond_waiters[c]) \ {h} /\ Distinct(cond_waiters'[c])
  BY <1>1, Elem, STypes, TailQueued
<1> HIDE DEF h
<1>4. cond[h] = c /\ (pc[h] \in {"released", "cond_sleep"} \/ (pc[h] = "down" /\ sema[h] = h))
  BY <1>2, Elem
<1>5. \A t \in Thread \ {h} : value'[t] = value[t]
  BY <1>1, STypes
<1>6. CondElemLive'
  <2> SUFFICES ASSUME NEW d \in Cond
               PROVE  /\ Distinct(cond_waiters'[d])
                      /\ \A t \in Queued(cond_waiters'[d]) :
                           /\ cond'[t] = d /\ value'[t] = 0
                           /\ \/ pc'[t] \in {"released", "cond_sleep"}
                              \/ pc'[t] = "down" /\ sema'[t] = t
    BY DEF CondElemLive
  <2>1. h \notin Queued(cond_waiters'[d]) /\ Queued(cond_waiters'[d]) \subseteq Queued(cond_waiters[d])
        /\ Distinct(cond_waiters'[d])
    BY <1>2, <1>3, <1>4, Elem
  <2> QED
    BY <1>5, <2>1, Elem
<1>7. CInv'
  BY <1>6 DEF CInv, CondOKAt
<1>8. \A l \in Lock : OwnerOf(l)' = OwnerOf(l)
  BY OwnerChosen DEF Inside
<1>9. OwnerOf(lock_of[c]) = current /\ lock_of[c] \in Lock
  <2>1. lock_of[c] \in Lock /\ current \in Thread
    BY Elem, STypes
  <2>2. Inside(lock_of[c]) = {current}
    BY <2>1, OneInside
  <2> QED
    BY <2>1, <2>2, OwnerIs
<1>10. SignalledOn(c)' = SignalledOn(c) \cup {h} /\ \A d \in Cond \ {c} : SignalledOn(d)' = SignalledOn(d)
  BY <1>2, <1>3, <1>4 DEF SignalledOn
<1>11. M!Signal(current, c)
  <2>1. UNCHANGED [l \in Lock |-> OwnerOf(l)] /\ [l \in Lock |-> OwnerOf(l)][lock_of[c]] = current
    BY <1>8, <1>9
  <2>2. [d \in Cond |-> SignalledOn(d)]'
          = [[d \in Cond |-> SignalledOn(d)] EXCEPT ![c] = [d \in Cond |-> SignalledOn(d)][c] \cup {h}]
    BY <1>10
  <2> QED
    BY <1>1, <2>1, <2>2 DEF M!Signal, h
<1> QED
  BY <1>7, <1>11, STypes DEF M!MNext

(* cond_signal() and cond_broadcast().                                      *)
LEMMA CondMonitor ==
  ASSUME SInv, CInv, BroadcastStep \/ \E c \in Cond : CondSignal(c) \/ CondBroadcast(c)
  PROVE  CInv' /\ [M!MNext]_(M!mvars)
<1>1. ASSUME NEW c \in Cond, CondSignal(c) PROVE CInv' /\ [M!MNext]_(M!mvars)
  <2>1. /\ holder[lock_of[c]] = current /\ cond_signal(c)
        /\ UNCHANGED <<holder, pc, sema, cond>>
    BY <1>1 DEF CondSignal, lock_held_by_current_thread, lvars
  <2>2. CASE cond_waiters[c] = <<>>
    BY <2>1, <2>2, OutsideSteps DEF cond_signal
  <2>3. CASE cond_waiters[c] # <<>>
    BY <2>1, <2>3, SignalMonitor
  <2> QED
    BY <2>2, <2>3
<1>2. ASSUME NEW c \in Cond, pc[current] = "run" \/ pc[current] = "broadcast",
             NEW p \in {"run", "broadcast"}, NEW d \in Cond \cup {NoSema},
             p = "run" => d = NoSema, p = "broadcast" => d \in Cond /\ holder[lock_of[d]] = current,
             NEW q, sema' = [sema EXCEPT ![current] = q],
             pc' = [pc EXCEPT ![current] = p], cond' = [cond EXCEPT ![current] = d],
             UNCHANGED <<value, holder, cond_waiters>>
      PROVE  CInv' /\ UNCHANGED M!mvars
  <2>1. /\ pc'[current] = p /\ cond'[current] = d /\ NoSema \notin Cond
        /\ \A t \in Thread : t # current => pc'[t] = pc[t] /\ cond'[t] = cond[t] /\ sema'[t] = sema[t]
        /\ pc[current] = "run" => cond[current] = NoSema
    BY <1>2, STypes, SynchAssumption DEF CInv, CondOKAt
  <2>2. \A k \in Cond : current \notin Queued(cond_waiters[k])
    BY <1>2, Elem
  <2>3. CondElemLive'
    BY <1>2, <2>1, <2>2, StillQueued
  <2>4. \A t \in Thread : t = current => CondOKAt(t)'
    BY <1>2, <2>1 DEF CondOKAt
  <2>5. CInv'
    BY <1>2, <2>1, <2>3, <2>4, StillCondOK
  <2>6. \A l \in Lock : Inside(l)' = Inside(l)
    BY <1>2, <2>1 DEF Inside
  <2> QED
    BY <1>2, <2>1, <2>5, <2>6, StillMonitor
<1>3. ASSUME NEW c \in Cond, CondBroadcast(c) PROVE CInv' /\ UNCHANGED M!mvars
  <2>1. /\ pc[current] = "run" /\ holder[lock_of[c]] = current
        /\ pc' = [pc EXCEPT ![current] = "broadcast"] /\ sema' = [sema EXCEPT ![current] = NoSema]
        /\ cond' = [cond EXCEPT ![current] = c] /\ UNCHANGED <<value, holder, cond_waiters>>
    BY <1>3 DEF CondBroadcast, At, Goto, lock_held_by_current_thread, svars
  <2> QED
    BY <1>2, <2>1
<1>4. ASSUME BroadcastStep PROVE CInv' /\ [M!MNext]_(M!mvars)
  <2> DEFINE c == cond[current]
  <2>1. pc[current] = "broadcast" /\ c \in Cond /\ holder[lock_of[c]] = current
    BY <1>4, STypes DEF BroadcastStep, At, CInv, CondOKAt, SInv, PcOK, PcOKAt
  <2>2. CASE cond_waiters[c] # <<>>
    <3>1. cond_signal(c) /\ UNCHANGED <<holder, pc, sema, cond>>
      BY <1>4, <2>2 DEF BroadcastStep
    <3> QED
      BY <2>1, <2>2, <3>1, SignalMonitor
  <2>3. CASE cond_waiters[c] = <<>>
    <3>1. /\ pc' = [pc EXCEPT ![current] = "run"] /\ cond' = [cond EXCEPT ![current] = NoSema]
          /\ sema' = [sema EXCEPT ![current] = sema[current]]
          /\ UNCHANGED <<value, holder, cond_waiters>>
      BY <1>4, <2>3, STypes DEF BroadcastStep, cond_signal
    <3> QED
      BY <1>2, <2>1, <3>1
  <2> QED
    BY <2>2, <2>3
<1> QED
  BY <1>1, <1>3, <1>4
-----------------------------------------------------------------------------
(* The remaining callers of sema_down(): what each knows of the condition.  *)
LEMMA DownStepsMonitor ==
  ASSUME SInv, CInv, \/ Recheck \/ CondSleep \/ CondRelock \/ StartWait
                     \/ \E s \in Sema : SemaDown(s)
                     \/ \E l \in Lock : LockAcquire(l)
  PROVE  CInv' /\ [M!MNext]_(M!mvars)
<1> USE SynchAssumption
<1>0. PcOKAt(current) /\ CondOKAt(current)
  BY STypes DEF SInv, PcOK, CInv
<1>1. CASE Recheck
  <2>1. pc[current] = "down" /\ sema_down(sema[current]) /\ UNCHANGED <<holder, cond_waiters, cond, child>>
    BY <1>1 DEF Recheck, At
  <2> QED
    BY <1>0, <2>1, Elem, DownMonitor DEF PcOKAt, CondOKAt
<1>2. CASE CondSleep
  <2>1. pc[current] = "cond_sleep" /\ sema_down(current) /\ UNCHANGED <<holder, cond_waiters, cond, child>>
    BY <1>2 DEF CondSleep, At
  <2> QED
    BY <2>1, STypes, DownMonitor
<1>3. CASE CondRelock
  <2>1. /\ pc[current] = "relock" /\ sema_down(lock_of[cond[current]]) /\ cond[current] \in Cond
        /\ UNCHANGED <<holder, cond_waiters, cond, child>>
    BY <1>0, <1>3 DEF CondRelock, At, PcOKAt
  <2>2. lock_of[cond[current]] \in Lock /\ \A c \in Cond : current \notin Queued(cond_waiters[c])
    BY <2>1, Elem
  <2> QED
    BY <2>1, <2>2, STypes, DownMonitor
<1>4. CASE StartWait
  <2>1. pc[current] = "boot" /\ sema_down(start_idle) /\ UNCHANGED <<holder, cond_waiters, cond, child>>
    BY <1>4 DEF StartWait, At
  <2> QED
    BY <1>0, <2>1, STypes, Elem, DownMonitor DEF CondOKAt
<1>5. ASSUME NEW s \in Sema, SemaDown(s) PROVE CInv' /\ [M!MNext]_(M!mvars)
  <2>1. pc[current] = "run" /\ sema_down(s) /\ UNCHANGED <<holder, cond_waiters, cond, child>>
    BY <1>5 DEF SemaDown, At
  <2> QED
    BY <1>0, <2>1, STypes, Elem, DownMonitor DEF CondOKAt
<1>6. ASSUME NEW l \in Lock, LockAcquire(l) PROVE CInv' /\ [M!MNext]_(M!mvars)
  <2>1. pc[current] = "run" /\ sema_down(l) /\ UNCHANGED <<holder, cond_waiters, cond, child>>
    BY <1>6 DEF LockAcquire, At
  <2> QED
    BY <1>0, <2>1, STypes, Elem, DownMonitor DEF CondOKAt
<1> QED
  BY <1>1, <1>2, <1>3, <1>4, <1>5, <1>6

(* The steps that have nothing to do with locks and conditions.             *)
LEMMA OutsideStepsMonitor ==
  ASSUME SInv, CInv, \/ IdleStart \/ IdleUp \/ IdleLoop \/ CreateUnblock
                     \/ TimerInterrupt \/ ThreadYield \/ ThreadExit \/ UNCHANGED vars
                     \/ \E s \in Sema : SemaTryDown(s) \/ SemaUp(s) \/ IntrUp(s)
                     \/ \E u \in Thread : ThreadCreate(u)
  PROVE  CInv' /\ UNCHANGED M!mvars
<1>1. CASE IdleStart \/ IdleLoop \/ CreateUnblock \/ \E u \in Thread : ThreadCreate(u)
  BY <1>1, OutsideSteps DEF IdleStart, idle_start, IdleLoop, CreateUnblock, ThreadCreate, At, svars, lvars
<1>2. CASE TimerInterrupt \/ ThreadYield \/ ThreadExit \/ UNCHANGED vars
  BY <1>2, OutsideSteps DEF TimerInterrupt, ThreadYield, ThreadExit, vars, svars, lvars
<1>3. ASSUME NEW s \in Sema, SemaTryDown(s) \/ SemaUp(s) \/ IntrUp(s)
      PROVE  CInv' /\ UNCHANGED M!mvars
  <2>1. \A t \in Thread : value'[t] = value[t]
    BY <1>3, STypes, SynchAssumption DEF SemaTryDown, SemaUp, IntrUp, sema_up
  <2> QED
    BY <1>3, <2>1, OutsideSteps DEF SemaTryDown, SemaUp, IntrUp, lvars
<1>4. CASE IdleUp
  <2>1. \A t \in Thread : value'[t] = value[t]
    BY <1>4, STypes, SynchAssumption DEF IdleUp, sema_up
  <2>2. current = Idle
    BY <1>4, STypes DEF IdleUp, At, SInv, PcOK, PcOKAt
  <2> QED
    BY <1>4, <2>1, <2>2, OutsideSteps DEF IdleUp, At
<1> QED
  BY <1>1, <1>2, <1>3, <1>4

(* Every step of the kernel is a step of the monitor or leaves it alone.    *)
LEMMA SNext_Monitor == SInv /\ CInv /\ [SNext]_vars => CInv' /\ [M!MNext]_(M!mvars)
<1> SUFFICES ASSUME SInv, CInv, [SNext]_vars PROVE CInv' /\ [M!MNext]_(M!mvars)
  OBVIOUS
<1>1. CASE Committed
  BY <1>1, DownStepsMonitor, SetHolderMonitor, ReleaseUpMonitor, CondMonitor, OutsideStepsMonitor
     DEF Committed
<1>2. CASE TimerInterrupt \/ ThreadYield \/ ThreadExit \/ UNCHANGED vars
  BY <1>2, OutsideStepsMonitor
<1>3. ASSUME NEW s \in Sema, SemaDown(s) \/ SemaTryDown(s) \/ SemaUp(s) \/ IntrUp(s)
      PROVE  CInv' /\ [M!MNext]_(M!mvars)
  BY <1>3, DownStepsMonitor, OutsideStepsMonitor
<1>4. ASSUME NEW l \in Lock, LockAcquire(l) \/ LockTryAcquire(l) \/ LockRelease(l)
      PROVE  CInv' /\ [M!MNext]_(M!mvars)
  BY <1>4, DownStepsMonitor, LockTryAcquireMonitor, LockReleaseMonitor
<1>5. ASSUME NEW c \in Cond, CondWait(c) \/ CondSignal(c) \/ CondBroadcast(c)
      PROVE  CInv' /\ [M!MNext]_(M!mvars)
  BY <1>5, CondWaitMonitor, CondMonitor
<1>6. ASSUME NEW u \in Thread, ThreadCreate(u) PROVE CInv' /\ [M!MNext]_(M!mvars)
  BY <1>6, OutsideStepsMonitor
<1> QED
  BY <1>1, <1>2, <1>3, <1>4, <1>5, <1>6 DEF SNext

(* At the start nobody is inside a lock or waits on a condition.            *)
LEMMA SInit_Monitor == SInit => CInv /\ M!MInit
<1> SUFFICES ASSUME SInit PROVE CInv /\ M!MInit
  OBVIOUS
<1>1. /\ holder = [l \in Lock |-> NoThread] /\ cond_waiters = [c \in Cond |-> <<>>]
      /\ pc = [t \in Thread |-> IF t \in {main, Idle} THEN "boot" ELSE "run"]
      /\ cond = [t \in Thread |-> NoSema] /\ NoSema \notin Cond
  BY SynchAssumption DEF SInit
<1>2. CInv
  BY <1>1, EmptyQueue DEF CInv, CondElemLive, CondOKAt
<1>3. \A l \in Lock : Inside(l) = {}
  BY <1>1, ThreadAssumption DEF Inside
<1>4. \A l \in Lock : OwnerOf(l) = NoThread
  BY <1>3, OwnerIs
<1>5. \A c \in Cond : SignalledOn(c) = {}
  BY <1>1 DEF SignalledOn
<1> QED
  BY <1>1, <1>2, <1>4, <1>5 DEF M!MInit

(* Both invariants hold in every reachable state.                           *)
LEMMA Always_CInv == SSpec => [](SInv /\ CInv)
  BY SInit_SInv, SNext_SInv, SInit_Monitor, SNext_Monitor, PTL DEF SSpec

(* Locks and condition variables are Mesa monitors: exclusive, released by  *)
(* cond_wait() in the step that queues, signalled first come first served,  *)
(* and nobody returns from cond_wait() unsignalled or without the lock.     *)
THEOREM SynchIsAMonitor == SSpec => ImplementsMonitor
  BY SInit_Monitor, SNext_Monitor, Always_CInv, PTL DEF SSpec, ImplementsMonitor, M!MSpec

(* cond_signal() finds only semaphores of threads still in cond_wait() on   *)
(* that condition: no dead stack frame, and no thread signalled twice.      *)
THEOREM SignalledElemsLive == SSpec => []CondElemLive
  BY Always_CInv, PTL DEF CInv
=============================================================================
