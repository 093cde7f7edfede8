-------------------------------- MODULE Synch --------------------------------
(***************************************************************************)
(* threads/synch.c (Prj2) on top of the scheduler: semaphores, locks and   *)
(* Mesa condition variables, used by threads that may call any operation   *)
(* its assertions allow, in any order, and be preempted wherever           *)
(* interrupts are on.                                                      *)
(*                                                                         *)
(* Every step is taken by the running thread or by an interrupt handler.   *)
(* Semaphores are indexed: a lock has its own, and a thread in cond_wait() *)
(* has the one on its stack, so Locks and Threads name semaphores too.     *)
(***************************************************************************)
EXTENDS Threads, FiniteSets

CONSTANTS
  Sema,        \* the plain semaphores
  start_idle,  \* the semaphore of that name in thread_start()
  IntrSema,    \* the plain semaphores that interrupt handlers sema_up()
  Lock, Cond,
  lock_of,     \* the one lock each condition variable is used with
  NoSema,
  MaxValue     \* bound on the value of a plain semaphore

ASSUME SynchAssumption ==
  /\ start_idle \in Sema /\ IntrSema \subseteq Sema \ {start_idle}
  /\ lock_of \in [Cond -> Lock]
  /\ Sema \cap Lock = {} /\ Sema \cap Thread = {} /\ Lock \cap Thread = {}
  /\ Cond \cap (Sema \cup Lock \cup Thread) = {}
  /\ NoSema \notin Sema \cup Lock \cup Thread \cup Cond
  /\ MaxValue \in Nat
  /\ IsFiniteSet(Thread)

VARIABLES
  value, waiters,  \* of each semaphore
  holder,          \* of each lock
  cond_waiters,    \* of each condition: the threads whose semaphore_elem it links
  pc,              \* where in synch.c or thread.c each thread is
  sema,            \* the semaphore or lock that operation is about
  cond,            \* the condition, in cond_wait() and cond_broadcast()
  child            \* the thread being made, in thread_create()

svars == <<value, waiters, holder, cond_waiters>>
lvars == <<pc, sema, cond, child>>
vars == <<tvars, svars, lvars>>

Semaphore == Sema \cup Lock \cup Thread
Labels == {"run", "down", "owned", "released", "cond_sleep", "relock", "broadcast",
           "create", "boot", "idle_up", "idle"}

SInit ==
  /\ TInit
  /\ value = [s \in Semaphore |-> IF s \in Lock THEN 1 ELSE 0]
  /\ waiters = [s \in Semaphore |-> <<>>]
  /\ holder = [l \in Lock |-> NoThread]
  /\ cond_waiters = [c \in Cond |-> <<>>]
  /\ pc = [t \in Thread |-> IF t \in {main, Idle} THEN "boot" ELSE "run"]
  /\ sema = [t \in Thread |-> NoSema]
  /\ cond = [t \in Thread |-> NoSema]
  /\ child = [t \in Thread |-> NoThread]
-----------------------------------------------------------------------------
(* A thread woken in sema_down() runs on with interrupts off until it has   *)
(* looked at the value again; everywhere else between two steps they are on.*)
IntrOn == pc[current] # "down"
At(label) == pc[current] = label

Goto(label, s) ==
  /\ pc' = [pc EXCEPT ![current] = label]
  /\ sema' = [sema EXCEPT ![current] = s]

(* Where sema_down(s) returns to: lock_acquire() has the holder to set,     *)
(* cond_wait() has the lock to reacquire.                                   *)
AfterDown(s) ==
  CASE s \in Lock   -> Goto("owned", s)
    [] s \in Thread -> Goto("relock", NoSema)
    [] s \in Sema   -> Goto("run", NoSema)

(* One turn of the loop of sema_down(): take the value, or join the waiters *)
(* and block.                                                               *)
sema_down(s) ==
  \/ /\ value[s] > 0
     /\ value' = [value EXCEPT ![s] = @ - 1]
     /\ AfterDown(s)
     /\ UNCHANGED <<tvars, waiters>>
  \/ /\ value[s] = 0
     /\ waiters' = [waiters EXCEPT ![s] = Append(@, current)]
     /\ Goto("down", s)
     /\ thread_block
     /\ UNCHANGED value

(* Mutants of sema_up(): the waiter stays on the list; it is popped but not *)
(* unblocked; nobody is woken.                                              *)
sema_up_keeps_waiter(s) ==
  /\ value' = [value EXCEPT ![s] = @ + 1]
  /\ UNCHANGED waiters
  /\ IF waiters[s] = <<>> THEN UNCHANGED tvars ELSE thread_unblock(Head(waiters[s]))

sema_up_wakes_nobody(s) ==
  /\ value' = [value EXCEPT ![s] = @ + 1]
  /\ UNCHANGED <<tvars, waiters>>

sema_up(s) ==
  /\ value' = [value EXCEPT ![s] = @ + 1]
  /\ \/ /\ waiters[s] = <<>>
        /\ UNCHANGED <<tvars, waiters>>
     \/ /\ waiters[s] # <<>>
        /\ waiters' = [waiters EXCEPT ![s] = Tail(@)]
        /\ thread_unblock(Head(waiters[s]))

lock_held_by_current_thread(l) == holder[l] = current
-----------------------------------------------------------------------------
(* Plain semaphores *)

SemaDown(s) ==
  /\ At("run") /\ s \in Sema \ {start_idle}
  /\ sema_down(s)
  /\ UNCHANGED <<holder, cond_waiters, cond, child>>

(* The test of the while loop again, after thread_block() has returned.     *)
Recheck ==
  /\ At("down")
  /\ sema_down(sema[current])
  /\ UNCHANGED <<holder, cond_waiters, cond, child>>

SemaTryDown(s) ==
  /\ At("run") /\ s \in Sema \ {start_idle} /\ value[s] > 0
  /\ value' = [value EXCEPT ![s] = @ - 1]
  /\ UNCHANGED <<tvars, waiters, holder, cond_waiters, lvars>>

SemaUp(s) ==
  /\ At("run") /\ s \in Sema \ {start_idle} /\ value[s] < MaxValue
  /\ sema_up(s)
  /\ UNCHANGED <<holder, cond_waiters, lvars>>

(* sema_up() by an interrupt handler, over whatever thread is running.      *)
IntrUp(s) ==
  /\ IntrOn /\ s \in IntrSema /\ value[s] < MaxValue
  /\ sema_up(s)
  /\ UNCHANGED <<holder, cond_waiters, lvars>>

(* Locks *)

LockAcquire(l) ==
  /\ At("run") /\ ~lock_held_by_current_thread(l)
  /\ sema_down(l)
  /\ UNCHANGED <<holder, cond_waiters, cond, child>>

LockTryAcquire(l) ==
  /\ At("run") /\ ~lock_held_by_current_thread(l) /\ value[l] > 0
  /\ value' = [value EXCEPT ![l] = @ - 1]
  /\ Goto("owned", l)
  /\ UNCHANGED <<tvars, waiters, holder, cond_waiters, cond, child>>

(* The second statement of lock_acquire(); interrupts have been on since    *)
(* the semaphore was taken.  In cond_wait() this is also its end.           *)
SetHolder ==
  /\ At("owned")
  /\ holder' = [holder EXCEPT ![sema[current]] = current]
  /\ Goto("run", NoSema)
  /\ cond' = [cond EXCEPT ![current] = NoSema]
  /\ UNCHANGED <<tvars, value, waiters, cond_waiters, child>>

(* Mutant: the holder is not reset.                                         *)
lock_release_keeps_holder(l) ==
  /\ Goto("released", l)
  /\ UNCHANGED holder

lock_release(l) ==
  /\ holder' = [holder EXCEPT ![l] = NoThread]
  /\ Goto("released", l)

LockRelease(l) ==
  /\ At("run") /\ lock_held_by_current_thread(l)
  /\ lock_release(l)
  /\ UNCHANGED <<tvars, value, waiters, cond_waiters, cond, child>>

(* The sema_up() of lock_release(), for the caller or for cond_wait().      *)
ReleaseUp ==
  /\ At("released")
  /\ sema_up(sema[current])
  /\ Goto(IF cond[current] = NoSema THEN "run" ELSE "cond_sleep", NoSema)
  /\ UNCHANGED <<holder, cond_waiters, cond, child>>

(* Condition variables *)

(* cond_wait() up to the release of the lock.  Only the lock's holder can   *)
(* see the list, so the push and the release are one step.                  *)
CondWait(c) ==
  /\ At("run") /\ lock_held_by_current_thread(lock_of[c])
  /\ value' = [value EXCEPT ![current] = 0]
  /\ waiters' = [waiters EXCEPT ![current] = <<>>]
  /\ cond_waiters' = [cond_waiters EXCEPT ![c] = Append(@, current)]
  /\ cond' = [cond EXCEPT ![current] = c]
  /\ lock_release(lock_of[c])
  /\ UNCHANGED <<tvars, child>>

CondSleep ==
  /\ At("cond_sleep")
  /\ sema_down(current)
  /\ UNCHANGED <<holder, cond_waiters, cond, child>>

CondRelock ==
  /\ At("relock")
  /\ sema_down(lock_of[cond[current]])
  /\ UNCHANGED <<holder, cond_waiters, cond, child>>

cond_signal(c) ==
  IF cond_waiters[c] = <<>>
  THEN UNCHANGED <<tvars, value, waiters, cond_waiters>>
  ELSE /\ sema_up(Head(cond_waiters[c]))
       /\ cond_waiters' = [cond_waiters EXCEPT ![c] = Tail(@)]

(* Mutant: a signal without the lock.                                       *)
CondSignal_unlocked(c) ==
  /\ At("run")
  /\ cond_signal(c)
  /\ UNCHANGED <<holder, lvars>>

CondSignal(c) ==
  /\ At("run") /\ lock_held_by_current_thread(lock_of[c])
  /\ cond_signal(c)
  /\ UNCHANGED <<holder, lvars>>

CondBroadcast(c) ==
  /\ At("run") /\ lock_held_by_current_thread(lock_of[c])
  /\ Goto("broadcast", NoSema)
  /\ cond' = [cond EXCEPT ![current] = c]
  /\ UNCHANGED <<tvars, svars, child>>

(* One turn of the loop of cond_broadcast(), or its end.                    *)
BroadcastStep ==
  /\ At("broadcast")
  /\ cond_signal(cond[current])
  /\ UNCHANGED <<holder, sema, child>>
  /\ IF cond_waiters[cond[current]] # <<>>
     THEN UNCHANGED <<pc, cond>>
     ELSE /\ pc' = [pc EXCEPT ![current] = "run"]
          /\ cond' = [cond EXCEPT ![current] = NoSema]
-----------------------------------------------------------------------------
(* Threads *)

(* thread_create() up to the unblock, and the unblock.                      *)
ThreadCreate(u) ==
  /\ At("run")
  /\ Create(u)
  /\ pc' = [pc EXCEPT ![current] = "create"]
  /\ child' = [child EXCEPT ![current] = u]
  /\ UNCHANGED <<svars, sema, cond>>

CreateUnblock ==
  /\ At("create")
  /\ thread_unblock(child[current])
  /\ pc' = [pc EXCEPT ![current] = "run"]
  /\ child' = [child EXCEPT ![current] = NoThread]
  /\ UNCHANGED <<svars, sema, cond>>

(* A thread exits outside synch.c and holding no lock.                      *)
ThreadExit ==
  /\ At("run") /\ \A l \in Lock : ~lock_held_by_current_thread(l)
  /\ Exit
  /\ UNCHANGED <<svars, lvars>>

ThreadYield == At("run") /\ Yield /\ UNCHANGED <<svars, lvars>>

TimerInterrupt == IntrOn /\ Tick /\ UNCHANGED <<svars, lvars>>

(* thread_start(): main waits for idle() to have stored idle_thread.        *)
StartWait ==
  /\ At("boot") /\ current = main
  /\ sema_down(start_idle)
  /\ UNCHANGED <<holder, cond_waiters, cond, child>>

IdleStart ==
  /\ At("boot") /\ idle_start
  /\ pc' = [pc EXCEPT ![Idle] = "idle_up"]
  /\ UNCHANGED <<svars, sema, cond, child>>

IdleUp ==
  /\ At("idle_up")
  /\ sema_up(start_idle)
  /\ pc' = [pc EXCEPT ![Idle] = "idle"]
  /\ UNCHANGED <<holder, cond_waiters, sema, cond, child>>

IdleLoop == At("idle") /\ idle_loop /\ UNCHANGED <<svars, lvars>>

(* The steps a thread is committed to once it has called an operation.      *)
Committed ==
  \/ Recheck \/ SetHolder \/ ReleaseUp \/ CondSleep \/ CondRelock \/ BroadcastStep
  \/ CreateUnblock \/ StartWait \/ IdleStart \/ IdleUp \/ IdleLoop

SNext ==
  \/ Committed
  \/ TimerInterrupt \/ ThreadYield \/ ThreadExit
  \/ \E s \in Sema : SemaDown(s) \/ SemaTryDown(s) \/ SemaUp(s) \/ IntrUp(s)
  \/ \E l \in Lock : LockAcquire(l) \/ LockTryAcquire(l) \/ LockRelease(l)
  \/ \E c \in Cond : CondWait(c) \/ CondSignal(c) \/ CondBroadcast(c)
  \/ \E u \in Thread : ThreadCreate(u)

SSpec == SInit /\ [][SNext]_vars

(* The timer ticks, and a slice is long enough for a step: a thread that is *)
(* in the middle of an operation and gets the processor again and again     *)
(* goes on with it.  Nothing is assumed of what threads call.               *)
SFairSpec ==
  /\ SSpec /\ WF_vars(TimerInterrupt)
  /\ \A t \in Thread : SF_vars(current = t /\ Committed)
-----------------------------------------------------------------------------
STypeOK ==
  /\ TTypeOK
  /\ value \in [Semaphore -> Nat]
  /\ waiters \in [Semaphore -> Seq(Thread)]
  /\ holder \in [Lock -> Thread \cup {NoThread}]
  /\ cond_waiters \in [Cond -> Seq(Thread)]
  /\ pc \in [Thread -> Labels]
  /\ sema \in [Thread -> Semaphore \cup {NoSema}]
  /\ cond \in [Thread -> Cond \cup {NoSema}]
  /\ child \in [Thread -> Thread \cup {NoThread}]

(* thread.h:77-82, `elem' is on one list at most: a blocked thread that has *)
(* been started waits on exactly one semaphore, once, and no other thread   *)
(* is on any wait list.                                                     *)
ElemOnOneList ==
  /\ \A s \in Semaphore : Distinct(waiters[s])
  /\ \A s \in Semaphore, t \in Thread :
        t \in Queued(waiters[s]) <=> status[t] = "BLOCKED" /\ pc[t] = "down" /\ sema[t] = s

(* The threads sema_up() has woken that have not looked at the value yet.   *)
Woken(s) == {t \in Thread : pc[t] = "down" /\ sema[t] = s /\ status[t] # "BLOCKED"}

(* No wake-up is lost: while threads sleep on a semaphore, every unit of    *)
(* its value has a woken thread on its way to take it.  The running thread  *)
(* may take a unit first (sema_up() does not hand the unit over); the woken *)
(* thread then goes back to sleep, and the units left are still covered.    *)
NoLostWakeup ==
  \A s \in Semaphore : waiters[s] # <<>> => Cardinality(Woken(s)) >= value[s]

(* The threads between taking a lock's semaphore and giving it back.        *)
Owners(l) ==
  {t \in Thread : holder[l] = t \/ (pc[t] \in {"owned", "released"} /\ sema[t] = l)}

(* "A lock can be held by at most a single thread at any given time"        *)
(* (synch.c:160): its semaphore is down exactly while one thread is between *)
(* lock_acquire() and lock_release(), also while `holder' is not set.       *)
LockOwned == \A l \in Lock : value[l] + Cardinality(Owners(l)) = 1

(* The semaphore_elem a condition links is on the stack of a thread that is *)
(* still in cond_wait() on that condition and has not been signalled; it is *)
(* linked once.  So cond_signal() never touches a dead stack frame and      *)
(* never signals a thread twice.                                            *)
CondElemLive ==
  \A c \in Cond :
    /\ Distinct(cond_waiters[c])
    /\ \A t \in Queued(cond_waiters[c]) :
         /\ cond[t] = c /\ value[t] = 0
         /\ \/ pc[t] \in {"released", "cond_sleep"}
            \/ pc[t] = "down" /\ sema[t] = t

(* thread_start() returns only when schedule() can count on idle_thread.    *)
StartedAfterIdle == pc[main] \in {"boot", "down"} \/ idle_thread = Idle

(* Locks and conditions behave as the monitor of Monitor.tla: a lock is     *)
(* owned from the end of sema_down() to the reset of `holder', and a thread *)
(* waits on a condition from CondWait until it has been signalled under the *)
(* lock and has the lock again.                                             *)
OwnerOf(l) ==
  LET owners == {t \in Thread : holder[l] = t \/ (pc[t] = "owned" /\ sema[t] = l)}
  IN  IF owners = {} THEN NoThread ELSE CHOOSE t \in owners : TRUE

SignalledOn(c) ==
  {t \in Thread : /\ cond[t] = c /\ pc[t] \notin {"owned", "broadcast"}
                  /\ t \notin Queued(cond_waiters[c])}

M == INSTANCE Monitor WITH
       owner <- [l \in Lock |-> OwnerOf(l)],
       queue <- cond_waiters,
       signalled <- [c \in Cond |-> SignalledOn(c)]

ImplementsMonitor == M!MSpec

(* A semaphore that has units and sleepers does not stay so: somebody takes *)
(* the units or the sleepers are woken.                                     *)
UnitsAreTaken ==
  \A s \in Semaphore : value[s] > 0 /\ waiters[s] # <<>> ~> value[s] = 0 \/ waiters[s] = <<>>

(* A thread in cond_wait() that has been signalled comes out of its sleep.  *)
SignalledWakes ==
  \A t \in Thread : cond[t] \in Cond /\ value[t] > 0 ~> pc[t] = "relock"
=============================================================================
