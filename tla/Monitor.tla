------------------------------- MODULE Monitor -------------------------------
(***************************************************************************)
(* What synch.h promises of locks and condition variables: mutual          *)
(* exclusion, and Mesa monitors whose waiters are signalled first come     *)
(* first served.  Waiting releases the lock in the same step that joins    *)
(* the queue, so no signal can fall in between.                            *)
(***************************************************************************)
EXTENDS Sequences

CONSTANTS Thread, Lock, Cond, lock_of, NoThread

VARIABLES
  owner,      \* of each lock
  queue,      \* of each condition: threads waiting to be signalled
  signalled   \* of each condition: threads signalled that have not returned

mvars == <<owner, queue, signalled>>

MInit ==
  /\ owner = [l \in Lock |-> NoThread]
  /\ queue = [c \in Cond |-> <<>>]
  /\ signalled = [c \in Cond |-> {}]

Waiting(t) == \E c \in Cond : t \in signalled[c] \/ \E i \in DOMAIN queue[c] : queue[c][i] = t

Acquire(t, l) ==
  /\ owner[l] = NoThread /\ ~Waiting(t)
  /\ owner' = [owner EXCEPT ![l] = t]
  /\ UNCHANGED <<queue, signalled>>

Release(t, l) ==
  /\ owner[l] = t
  /\ owner' = [owner EXCEPT ![l] = NoThread]
  /\ UNCHANGED <<queue, signalled>>

Wait(t, c) ==
  /\ owner[lock_of[c]] = t
  /\ owner' = [owner EXCEPT ![lock_of[c]] = NoThread]
  /\ queue' = [queue EXCEPT ![c] = Append(@, t)]
  /\ UNCHANGED signalled

Signal(t, c) ==
  /\ owner[lock_of[c]] = t /\ queue[c] # <<>>
  /\ queue' = [queue EXCEPT ![c] = Tail(@)]
  /\ signalled' = [signalled EXCEPT ![c] = @ \cup {Head(queue[c])}]
  /\ UNCHANGED owner

Return(t, c) ==
  /\ t \in signalled[c] /\ owner[lock_of[c]] = NoThread
  /\ owner' = [owner EXCEPT ![lock_of[c]] = t]
  /\ signalled' = [signalled EXCEPT ![c] = @ \ {t}]
  /\ UNCHANGED queue

MNext ==
  \E t \in Thread :
    \/ \E l \in Lock : Acquire(t, l) \/ Release(t, l)
    \/ \E c \in Cond : Wait(t, c) \/ Signal(t, c) \/ Return(t, c)

MSpec == MInit /\ [][MNext]_mvars
=============================================================================
