---------------------------- MODULE Process_proofs ----------------------------
(***************************************************************************)
(* exec, wait and exit of userprog/process.c use no page after it is freed *)
(* and give a child's status to its parent once, for any number of pages,  *)
(* tids and statuses, and whether or not images are bad, processes are     *)
(* killed and memory runs out.                                             *)
(***************************************************************************)
EXTENDS Process, TLAPS

(* tids are handed out in order, and no two live threads share one.         *)
TidsUnique ==
  /\ next_tid > 1
  /\ \A p \in Live : tid[p] > 0 /\ tid[p] < next_tid
  /\ \A p, q \in Live : tid[p] = tid[q] => p = q
  /\ \A t \in reaped : t < next_tid

(* The initial thread only executes and waits; a free page holds nothing.   *)
PagesOK ==
  /\ pc[main] \in {"user", "exec_down", "exec_flag", "wait_down", "wait_up", "task"}
  /\ \A p \in Page : pc[p] = "task" => p = main
  /\ \A p \in Page \ Live : children[p] = {} /\ ending[p].by = "none"

(* Who is on a list of children is alive, is told apart from an older child *)
(* by its parent field, and has not been waited for.                        *)
KinOK ==
  \A p, c \in Page : c \in children[p] =>
     /\ p \in Live /\ c \in Live /\ parent[c] = p
     /\ tid[c] \notin reaped /\ mem_sema[c] = 0

(* Only a thread in process_exit() has units in its own two semaphores, and *)
(* it may free its page when its status has been read.                      *)
LeavingOK ==
  \A c \in Page :
     /\ child_sema[c] > 0 => pc[c] = "exit_down"
     /\ mem_sema[c] > 0 => pc[c] = "exit_down" /\ tid[c] \in reaped
     /\ ending[c].by = "exit" => exit_status[c] = ending[c].status

(* A child that has not tried to load is the one its parent executes, and   *)
(* the parent sleeps: there is no unit for it to take.                      *)
BirthOK ==
  \A c \in Page : pc[c] \in Unheard =>
     /\ parent[c] \in Page /\ c \in children[parent[c]]
     /\ pc[parent[c]] = "exec_down" /\ call[parent[c]].tid = tid[c]
     /\ parent_sema[parent[c]] = 0

(* A unit of parent_sema comes from the child that is being executed, and   *)
(* is taken before the parent goes on.                                      *)
WokenOK ==
  \A p \in Page :
     /\ parent_sema[p] \in {0, 1}
     /\ parent_sema[p] = 1 => pc[p] = "exec_down"
     /\ parent_sema[p] = 1 \/ pc[p] = "exec_flag"
          => \E c \in children[p] : tid[c] = call[p].tid /\ pc[c] \notin Unheard

(* process_wait() sleeps on a child of its own, and goes on with one that   *)
(* has exited and that stays until it may go.                               *)
WaitingOK ==
  \A p \in Page :
     /\ pc[p] = "wait_down" => tmp[p] \in children[p] /\ tid[tmp[p]] = call[p].tid
     /\ pc[p] = "wait_up" =>
          /\ tmp[p] \in Page /\ pc[tmp[p]] = "exit_down" /\ parent[tmp[p]] = p
          /\ tid[tmp[p]] = call[p].tid /\ tid[tmp[p]] \in reaped /\ mem_sema[tmp[p]] = 0
          /\ ending[tmp[p]].by = "exit" => result[p] = ending[tmp[p]].status

PInv ==
  /\ PTypeOK /\ TidsUnique /\ PagesOK /\ KinOK /\ ChildrenFound
  /\ LeavingOK /\ BirthOK /\ WokenOK /\ WaitingOK
-----------------------------------------------------------------------------

\* A call that returns leaves everyone else where they were.
LEMMA Returned ==
  ASSUME PTypeOK, NEW p \in Page, NEW r \in Int, Return(p) \/ ReturnExec(p, r)
  PROVE  /\ pc' \in [Page -> Labels]
         /\ call' \in [Page -> [op : {"none", "exec", "wait"}, tid : Int]]
         /\ pc'[p] \in {"user", "task"} /\ (pc'[p] = "task" => p = main)
         /\ \A q \in Page \ {p} : pc'[q] = pc[q] /\ call'[q] = call[q]
<1>1. CASE Return(p)
  BY <1>1 DEF PTypeOK, Return, Goto, NoCall, TID_ERROR, Labels
<1>2. CASE ReturnExec(p, r) /\ p = main
  <2>1. pc' = [pc EXCEPT ![p] = "task"] /\ call' = [call EXCEPT ![p] = [op |-> "wait", tid |-> r]]
    BY <1>2 DEF ReturnExec, Enter, Goto
  <2>2. [op |-> "wait", tid |-> r] \in [op : {"none", "exec", "wait"}, tid : Int]
    OBVIOUS
  <2> QED
    BY <1>2, <2>1, <2>2 DEF PTypeOK, Labels
<1> QED
  BY <1>1, <1>2 DEF ReturnExec

\* process_execute() returns the tid, or -1 when the load failed.
LEMMA ExecReturn_PInv == ASSUME PInv, NEW p \in Page, ExecReturn(p) PROVE PInv'
<1> USE ProcessAssumption DEF PInv
<1>0. /\ pc[p] = "exec_flag" /\ call[p].tid \in Int
      /\ Return(p) \/ \E r \in Int : ReturnExec(p, r)
      /\ UNCHANGED <<thread, tmp, result, load_flag, next_tid, history>>
  BY DEF PTypeOK, ExecReturn
<1>1. /\ pc' \in [Page -> Labels]
      /\ call' \in [Page -> [op : {"none", "exec", "wait"}, tid : Int]]
      /\ pc'[p] \in {"user", "task"} /\ (pc'[p] = "task" => p = main)
      /\ \A q \in Page \ {p} : pc'[q] = pc[q] /\ call'[q] = call[q]
  BY <1>0, Returned
<1>2. Live' = Live
  BY <1>0, <1>1 DEF Live
<1> USE DEF thread, history
<1>3. PTypeOK'
  BY <1>0, <1>1 DEF PTypeOK
<1>4. TidsUnique' /\ KinOK' /\ ChildrenFound'
  BY <1>0, <1>2 DEF TidsUnique, KinOK, ChildrenFound, IsParent
<1>5. PagesOK'
  BY <1>0, <1>1, <1>2 DEF PagesOK
<1>6. LeavingOK'
  BY <1>0, <1>1 DEF LeavingOK
<1>7. BirthOK'
  BY <1>0, <1>1 DEF BirthOK, Unheard
<1>8. WokenOK'
  <2>1. \A c \in Page : pc[c] \notin Unheard => pc'[c] \notin Unheard
    BY <1>1 DEF Unheard
  <2>2. parent_sema[p] = 0 /\ children \in [Page -> SUBSET Page]
    BY <1>0 DEF WokenOK, PTypeOK
  <2> QED
    BY <1>0, <1>1, <2>1, <2>2 DEF WokenOK
<1>9. WaitingOK'
  BY <1>0, <1>1 DEF WaitingOK
<1> QED
  BY <1>3, <1>4, <1>5, <1>6, <1>7, <1>8, <1>9

\* process_wait() has the status and lets the child end.
LEMMA WaitUp_PInv == ASSUME PInv, NEW p \in Page, WaitUp(p) PROVE PInv'
<1> USE ProcessAssumption DEF PInv
<1>0. /\ pc[p] = "wait_up" /\ result[p] \in Int
      /\ Return(p) \/ ReturnExec(p, result[p])
      /\ mem_sema' = up(mem_sema, tmp[p])
      /\ tmp' = [tmp EXCEPT ![p] = NoPage] /\ result' = [result EXCEPT ![p] = 0]
      /\ UNCHANGED <<tid, parent, children, exit_status, parent_sema, child_sema, load_flag,
                     next_tid, history>>
  BY DEF PTypeOK, WaitUp
<1>1. /\ pc' \in [Page -> Labels]
      /\ call' \in [Page -> [op : {"none", "exec", "wait"}, tid : Int]]
      /\ pc'[p] \in {"user", "task"} /\ (pc'[p] = "task" => p = main)
      /\ \A q \in Page \ {p} : pc'[q] = pc[q] /\ call'[q] = call[q]
  BY <1>0, Returned
<1>2. Live' = Live
  BY <1>0, <1>1 DEF Live
<1>3. /\ tmp[p] \in Page /\ pc[tmp[p]] = "exit_down" /\ parent[tmp[p]] = p /\ tid[tmp[p]] \in reaped
      /\ mem_sema'[tmp[p]] = 1
      /\ \A q \in Page \ {tmp[p]} : mem_sema'[q] = mem_sema[q]
  BY <1>0 DEF PTypeOK, WaitingOK, up
<1> USE DEF history
<1>4. PTypeOK'
  <2>1. mem_sema' \in [Page -> Nat]
    BY <1>0, <1>3 DEF PTypeOK, up
  <2>2. tmp' \in [Page -> Page \cup {NoPage}] /\ result' \in [Page -> Int]
    BY <1>0 DEF PTypeOK
  <2> QED
    BY <1>0, <1>1, <2>1, <2>2 DEF PTypeOK
<1>5. TidsUnique' /\ ChildrenFound'
  BY <1>0, <1>2 DEF TidsUnique, ChildrenFound, IsParent
<1>6. PagesOK'
  BY <1>0, <1>1, <1>2 DEF PagesOK
<1>7. KinOK'
  BY <1>0, <1>2, <1>3 DEF KinOK
<1>8. LeavingOK'
  BY <1>0, <1>1, <1>3 DEF LeavingOK
<1>9. BirthOK'
  BY <1>0, <1>1 DEF BirthOK, Unheard
<1>10. WokenOK'
  <2>1. \A c \in Page : pc[c] \notin Unheard => pc'[c] \notin Unheard
    BY <1>1 DEF Unheard
  <2>2. parent_sema[p] = 0 /\ children \in [Page -> SUBSET Page]
    BY <1>0 DEF WokenOK, PTypeOK
  <2> QED
    BY <1>0, <1>1, <2>1, <2>2 DEF WokenOK
<1>11. WaitingOK'
  BY <1>0, <1>1, <1>3 DEF PTypeOK, WaitingOK
<1> QED
  BY <1>4, <1>5, <1>6, <1>7, <1>8, <1>9, <1>10, <1>11

\* thread_create() puts the new thread on the list of its parent.
LEMMA ExecCreate_PInv ==
  ASSUME PInv, NEW p \in Page, NEW c \in Page, ExecCreate(p, c)
  PROVE  PInv'
<1> USE ProcessAssumption DEF PInv
<1>1. /\ pc[p] = "user" /\ pc[c] = "none" /\ p # c
      /\ UNCHANGED <<tmp, result, load_flag, history>> /\ next_tid' = next_tid + 1
      /\ next_tid \in Nat /\ children[c] = {} /\ ending[c].by = "none"
      /\ tid \in [Page -> Nat] /\ parent_sema[p] = 0
  BY DEF ExecCreate, init_thread, PTypeOK, PagesOK, Live, WokenOK
<1>2. /\ pc'[p] = "exec_down" /\ pc'[c] = "start" /\ call'[p].tid = next_tid
      /\ \A q \in Page \ {p, c} : pc'[q] = pc[q]
      /\ \A q \in Page \ {p} : call'[q] = call[q]
  BY <1>1 DEF ExecCreate, init_thread, PTypeOK
<1>3. /\ tid'[c] = next_tid /\ parent'[c] = p /\ children'[p] = children[p] \cup {c}
      /\ children'[c] = {} /\ exit_status'[c] = 0
      /\ parent_sema'[c] = 0 /\ child_sema'[c] = 0 /\ mem_sema'[c] = 0
  BY <1>1 DEF ExecCreate, init_thread, PTypeOK
<1>4. /\ \A q \in Page \ {p} : children'[q] = children[q]
      /\ \A q \in Page \ {c} : /\ tid'[q] = tid[q] /\ parent'[q] = parent[q]
                               /\ exit_status'[q] = exit_status[q] /\ mem_sema'[q] = mem_sema[q]
                               /\ parent_sema'[q] = parent_sema[q] /\ child_sema'[q] = child_sema[q]
  BY <1>1, <1>3 DEF ExecCreate, init_thread, PTypeOK
<1>5. PTypeOK'
  <2>1. pc' \in [Page -> Labels]
    BY <1>1 DEF ExecCreate, init_thread, PTypeOK, Labels
  <2>2. children' \in [Page -> SUBSET Page]
    BY <1>1 DEF ExecCreate, init_thread, PTypeOK
  <2>3. call' \in [Page -> [op : {"none", "exec", "wait"}, tid : Int]]
    BY <1>1 DEF ExecCreate, init_thread, PTypeOK
  <2>4. /\ tid' \in [Page -> Nat] /\ parent' \in [Page -> Page \cup {NoPage}]
        /\ exit_status' \in [Page -> Int] /\ parent_sema' \in [Page -> Nat]
        /\ child_sema' \in [Page -> Nat] /\ mem_sema' \in [Page -> Nat]
    BY <1>1 DEF ExecCreate, init_thread, PTypeOK
  <2> QED
    BY <1>1, <2>1, <2>2, <2>3, <2>4 DEF PTypeOK, history
<1>6. Live' = Live \cup {c} /\ p \in Live /\ c \notin Live
  BY <1>1, <1>2 DEF Live
<1>7. \A q \in Page : c \notin children[q]
  BY <1>6 DEF KinOK
<1> USE DEF history
<1>8. TidsUnique'
  <2>1. \A q \in Live : q \in Page /\ tid'[q] = tid[q] /\ tid[q] < next_tid
    BY <1>4, <1>6 DEF TidsUnique, Live
  <2>2. reaped' = reaped /\ reaped \subseteq Nat
    BY <1>1 DEF PTypeOK
  <2> QED
    BY <1>1, <1>3, <1>6, <2>1, <2>2 DEF TidsUnique, Live
<1>9. PagesOK'
  BY <1>1, <1>2, <1>3, <1>4, <1>6 DEF PagesOK
<1>10. KinOK'
  BY <1>1, <1>3, <1>4, <1>6, <1>7 DEF KinOK, TidsUnique
<1>11. ChildrenFound'
  <2> SUFFICES ASSUME NEW q \in Live', NEW d \in Live', IsParent(q, d)', tid'[d] \notin reaped'
               PROVE  d \in children'[q]
    BY DEF ChildrenFound
  <2>1. CASE d = c
    BY <2>1, <1>1, <1>3 DEF IsParent
  <2>2. CASE q = c
    BY <2>2, <1>1, <1>3, <1>4, <1>6 DEF IsParent, TidsUnique, Live
  <2> QED
    BY <2>1, <2>2, <1>1, <1>3, <1>4, <1>6 DEF ChildrenFound, IsParent, Live
<1>12. LeavingOK'
  BY <1>1, <1>2, <1>3, <1>4 DEF LeavingOK
<1>13. BirthOK'
  BY <1>1, <1>2, <1>3, <1>4, <1>7 DEF BirthOK, Unheard
<1>14. WokenOK'
  <2> SUFFICES ASSUME NEW q \in Page, q # c
               PROVE  /\ parent_sema[q] = 1 => pc'[q] = "exec_down"
                      /\ parent_sema[q] = 1 \/ pc'[q] = "exec_flag"
                           => \E d \in children'[q] : tid'[d] = call'[q].tid /\ pc'[d] \notin Unheard
    BY <1>2, <1>3, <1>4 DEF WokenOK
  <2>1. q # p => \A d \in children[q] : d \in Page /\ d # c /\ tid'[d] = tid[d] /\ (pc'[d] = pc[d] \/ d = p)
    BY <1>2, <1>4, <1>7 DEF PTypeOK
  <2> QED
    BY <1>1, <1>2, <1>4, <2>1 DEF WokenOK, Unheard
<1>15. WaitingOK'
  <2> SUFFICES ASSUME NEW q \in Page \ {p, c}
               PROVE  pc[q] \in {"wait_down", "wait_up"} => tmp[q] # c /\ pc[tmp[q]] # "none" /\ tmp[q] \in Page
    BY <1>1, <1>2, <1>3, <1>4 DEF WaitingOK
  <2> QED
    BY <1>1, <1>7 DEF WaitingOK, KinOK, Live, PTypeOK
<1> QED
  BY <1>5, <1>8, <1>9, <1>10, <1>11, <1>12, <1>13, <1>14, <1>15

(* A thread_create() that fails leaves only its caller asleep.              *)
LEMMA ExecNoThread_PInv == ASSUME PInv, NEW p \in Page, ExecNoThread(p) PROVE PInv'
<1> USE DEF PInv, PTypeOK, ExecNoThread, Enter, Goto, thread, history
<1>1. PTypeOK'
  BY DEF Labels, TID_ERROR
<1>2. TidsUnique' /\ PagesOK' /\ KinOK' /\ ChildrenFound'
  BY ProcessAssumption DEF TidsUnique, PagesOK, KinOK, ChildrenFound, IsParent, Live
<1>3. LeavingOK' /\ BirthOK'
  BY DEF LeavingOK, BirthOK, Unheard
<1>4. WokenOK' /\ WaitingOK'
  BY DEF WokenOK, WaitingOK, Unheard
<1> QED
  BY <1>1, <1>2, <1>3, <1>4

(* The parent takes the unit its child has given.                           *)
LEMMA ExecDown_PInv == ASSUME PInv, NEW p \in Page, ExecDown(p) PROVE PInv'
<1> USE DEF PInv, PTypeOK, ExecDown, down, Goto, locals, history
<1>1. PTypeOK'
  BY DEF Labels
<1>2. TidsUnique' /\ PagesOK' /\ KinOK' /\ ChildrenFound'
  BY ProcessAssumption DEF TidsUnique, PagesOK, KinOK, ChildrenFound, IsParent, Live
<1>3. LeavingOK' /\ BirthOK'
  BY DEF LeavingOK, BirthOK, Unheard
<1>4. WokenOK' /\ WaitingOK'
  BY DEF WokenOK, WaitingOK, Unheard
<1> QED
  BY <1>1, <1>2, <1>3, <1>4

(* After a failed load the parent waits for its child.                      *)
LEMMA ExecWait_PInv == ASSUME PInv, NEW p \in Page, ExecWait(p) PROVE PInv'
<1> USE DEF PInv, PTypeOK, ExecWait, FoundChild, Goto, thread, history
<1>1. PTypeOK'
  BY DEF Labels
<1>2. TidsUnique' /\ PagesOK' /\ KinOK' /\ ChildrenFound'
  BY ProcessAssumption DEF TidsUnique, PagesOK, KinOK, ChildrenFound, IsParent, Live
<1>3. LeavingOK' /\ BirthOK'
  BY DEF LeavingOK, BirthOK, Unheard
<1>4. WokenOK' /\ WaitingOK'
  BY DEF WokenOK, WaitingOK, Unheard
<1> QED
  BY <1>1, <1>2, <1>3, <1>4

(* The child has loaded; its parent still sleeps.                           *)
LEMMA LoadOk_PInv == ASSUME PInv, NEW p \in Page, LoadOk(p) PROVE PInv'
<1> USE DEF PInv, PTypeOK, LoadOk, Goto, thread, locals
<1>1. PTypeOK'
  BY DEF Labels
<1>2. TidsUnique' /\ PagesOK' /\ KinOK' /\ ChildrenFound'
  BY ProcessAssumption DEF TidsUnique, PagesOK, KinOK, ChildrenFound, IsParent, Live
<1>3. LeavingOK' /\ BirthOK'
  BY DEF LeavingOK, BirthOK, Unheard
<1>4. WokenOK' /\ WaitingOK'
  BY DEF WokenOK, WaitingOK, Unheard
<1> QED
  BY <1>1, <1>2, <1>3, <1>4

(* The child has not loaded; its parent still sleeps.                       *)
LEMMA LoadFail_PInv == ASSUME PInv, NEW p \in Page, LoadFail(p) PROVE PInv'
<1> USE DEF PInv, PTypeOK, LoadFail, Goto, thread, locals, history
<1>1. PTypeOK'
  BY DEF Labels
<1>2. TidsUnique' /\ PagesOK' /\ KinOK' /\ ChildrenFound'
  BY ProcessAssumption DEF TidsUnique, PagesOK, KinOK, ChildrenFound, IsParent, Live
<1>3. LeavingOK' /\ BirthOK'
  BY DEF LeavingOK, BirthOK, Unheard
<1>4. WokenOK' /\ WaitingOK'
  BY DEF WokenOK, WaitingOK, Unheard
<1> QED
  BY <1>1, <1>2, <1>3, <1>4

(* exit(-1) of a child that has not loaded.                                 *)
LEMMA FailExit_PInv == ASSUME PInv, NEW p \in Page, FailExit(p) PROVE PInv'
<1> USE DEF PInv, PTypeOK, FailExit, exit, Goto, locals
<1>1. PTypeOK'
  BY DEF Labels
<1>2. TidsUnique' /\ PagesOK' /\ KinOK' /\ ChildrenFound'
  BY ProcessAssumption DEF TidsUnique, PagesOK, KinOK, ChildrenFound, IsParent, Live
<1>3. LeavingOK' /\ BirthOK'
  BY DEF LeavingOK, BirthOK, Unheard
<1>4. WokenOK' /\ WaitingOK'
  BY DEF WokenOK, WaitingOK, Unheard
<1> QED
  BY <1>1, <1>2, <1>3, <1>4

(* process_wait() of a tid that is nobody's.                                *)
LEMMA WaitRefused_PInv == ASSUME PInv, NEW p \in Page, NEW t \in Int, WaitRefused(p, t) PROVE PInv'
<1> USE DEF PInv, PTypeOK, WaitRefused, AsksFor, Return, Goto, thread, history
<1>1. PTypeOK'
  BY DEF Labels, NoCall, TID_ERROR
<1>2. TidsUnique' /\ PagesOK' /\ KinOK' /\ ChildrenFound'
  BY ProcessAssumption DEF TidsUnique, PagesOK, KinOK, ChildrenFound, IsParent, Live
<1>3. LeavingOK' /\ BirthOK'
  BY DEF LeavingOK, BirthOK, Unheard
<1>4. WokenOK' /\ WaitingOK'
  BY DEF WokenOK, WaitingOK, Unheard
<1> QED
  BY <1>1, <1>2, <1>3, <1>4

(* process_wait() of a child.                                               *)
LEMMA Wait_PInv == ASSUME PInv, NEW p \in Page, NEW t \in Int, Wait(p, t) PROVE PInv'
<1> USE DEF PInv, PTypeOK, Wait, AsksFor, FoundChild, Enter, Goto, thread, history
<1>1. PTypeOK'
  BY DEF Labels
<1>2. TidsUnique' /\ PagesOK' /\ KinOK' /\ ChildrenFound'
  BY ProcessAssumption DEF TidsUnique, PagesOK, KinOK, ChildrenFound, IsParent, Live
<1>3. LeavingOK' /\ BirthOK'
  BY DEF LeavingOK, BirthOK, Unheard
<1>4. WokenOK' /\ WaitingOK'
  BY DEF WokenOK, WaitingOK, Unheard
<1> QED
  BY <1>1, <1>2, <1>3, <1>4

(* exit() records the status.                                               *)
LEMMA Exit_PInv == ASSUME PInv, NEW p \in Page, NEW s \in Int, Exit(p, s) PROVE PInv'
<1> USE DEF PInv, PTypeOK, Exit, exit, Goto, locals
<1>1. PTypeOK'
  BY DEF Labels
<1>2. TidsUnique' /\ PagesOK' /\ KinOK' /\ ChildrenFound'
  BY ProcessAssumption DEF TidsUnique, PagesOK, KinOK, ChildrenFound, IsParent, Live
<1>3. LeavingOK' /\ BirthOK'
  BY DEF LeavingOK, BirthOK, Unheard
<1>4. WokenOK' /\ WaitingOK'
  BY DEF WokenOK, WaitingOK, Unheard
<1> QED
  BY <1>1, <1>2, <1>3, <1>4

(* kill() records none.                                                     *)
LEMMA Kill_PInv == ASSUME PInv, NEW p \in Page, Kill(p) PROVE PInv'
<1> USE DEF PInv, PTypeOK, Kill, Goto, thread, locals
<1>1. PTypeOK'
  BY DEF Labels
<1>2. TidsUnique' /\ PagesOK' /\ KinOK' /\ ChildrenFound'
  BY ProcessAssumption DEF TidsUnique, PagesOK, KinOK, ChildrenFound, IsParent, Live
<1>3. LeavingOK' /\ BirthOK'
  BY DEF LeavingOK, BirthOK, Unheard
<1>4. WokenOK' /\ WaitingOK'
  BY DEF WokenOK, WaitingOK, Unheard
<1> QED
  BY <1>1, <1>2, <1>3, <1>4

(* The child tells its parent that it has exited.                           *)
LEMMA ExitUp_PInv == ASSUME PInv, NEW p \in Page, ExitUp(p) PROVE PInv'
<1> USE DEF PInv, PTypeOK, ExitUp, up, Goto, locals, history
<1>1. PTypeOK'
  BY DEF Labels
<1>2. TidsUnique' /\ PagesOK' /\ KinOK' /\ ChildrenFound'
  BY ProcessAssumption DEF TidsUnique, PagesOK, KinOK, ChildrenFound, IsParent, Live
<1>3. LeavingOK' /\ BirthOK'
  BY DEF LeavingOK, BirthOK, Unheard
<1>4. WokenOK' /\ WaitingOK'
  BY DEF WokenOK, WaitingOK, Unheard
<1> QED
  BY <1>1, <1>2, <1>3, <1>4

(* A fault in build_stack(): the parent sleeps on, and stays.               *)
LEMMA BuildStackFault_PInv == ASSUME PInv, NEW p \in Page, BuildStackFault(p) PROVE PInv'
<1> USE DEF PInv, PTypeOK, BuildStackFault, exit, Goto, locals
<1>1. PTypeOK'
  BY DEF Labels
<1>2. TidsUnique' /\ PagesOK' /\ KinOK' /\ ChildrenFound'
  BY ProcessAssumption DEF TidsUnique, PagesOK, KinOK, ChildrenFound, IsParent, Live
<1>3. LeavingOK' /\ BirthOK'
  BY DEF LeavingOK, BirthOK, Unheard
<1>4. WokenOK' /\ WaitingOK'
  BY DEF WokenOK, WaitingOK, Unheard
<1> QED
  BY <1>1, <1>2, <1>3, <1>4

(* The child wakes its parent, whom no other child is about to wake.        *)
LEMMA SignalParent_PInv == ASSUME PInv, NEW p \in Page, SignalParent(p) PROVE PInv'
<1> USE DEF PInv, PTypeOK
<1>0. pc[p] \in Unheard /\ parent[p] \in Page /\ parent_sema[parent[p]] = 0
  BY DEF SignalParent, BirthOK, Unheard
<1>1. /\ pc[p] \in {"loaded", "failed"} /\ parent_sema' = [parent_sema EXCEPT ![parent[p]] = 1]
      /\ pc' = [pc EXCEPT ![p] = IF pc[p] = "loaded" THEN "user" ELSE "failed_up"]
      /\ UNCHANGED <<tid, parent, children, exit_status, child_sema, mem_sema, call, tmp, result,
                     load_flag, next_tid, loaded, ending, reaped>>
  BY <1>0 DEF SignalParent, up, Goto, locals, history
<1>2. PTypeOK'
  BY <1>0, <1>1 DEF Labels
<1>3. TidsUnique' /\ PagesOK' /\ KinOK' /\ ChildrenFound'
  BY <1>0, <1>1, ProcessAssumption DEF TidsUnique, PagesOK, KinOK, ChildrenFound, IsParent, Live, Unheard
<1>4. LeavingOK' /\ WaitingOK'
  BY <1>0, <1>1 DEF LeavingOK, WaitingOK, Unheard
<1>5. \A c \in Page : pc[c] \in Unheard /\ parent[c] = parent[p] => c = p
  <2> SUFFICES ASSUME NEW c \in Page, pc[c] \in Unheard, parent[c] = parent[p] PROVE c = p
    OBVIOUS
  <2>1. tid[c] = tid[p]
    BY <1>0 DEF BirthOK
  <2>2. c \in Live /\ p \in Live
    BY <1>0 DEF Live, Unheard
  <2> QED
    BY <2>1, <2>2 DEF TidsUnique
<1>6. BirthOK'
  BY <1>0, <1>1, <1>5 DEF BirthOK, Unheard
<1>7. WokenOK'
  BY <1>0, <1>1 DEF WokenOK, BirthOK, Unheard
<1> QED
  BY <1>2, <1>3, <1>4, <1>6, <1>7

(* The parent reads the status of a child that has exited, and forgets it.  *)
LEMMA WaitDown_PInv == ASSUME PInv, NEW p \in Page, WaitDown(p) PROVE PInv'
<1> USE DEF PInv, PTypeOK
<1> DEFINE c == tmp[p]
<1>1. /\ pc[p] = "wait_down" /\ pc[c] = "exit_down" /\ c \in children[p] /\ c \in Page
      /\ tid[c] = call[p].tid /\ child_sema[c] > 0
  BY DEF WaitDown, WaitingOK, LeavingOK
<1>2. /\ parent[c] = p /\ tid[c] \notin reaped /\ mem_sema[c] = 0 /\ c \in Live /\ c # p
  BY <1>1 DEF KinOK
<1>3. /\ pc' = [pc EXCEPT ![p] = "wait_up"] /\ child_sema' = [child_sema EXCEPT ![c] = @ - 1]
      /\ result' = [result EXCEPT ![p] = exit_status[c]]
      /\ children' = [children EXCEPT ![p] = @ \ {c}] /\ reaped' = reaped \cup {tid[c]}
      /\ UNCHANGED <<tid, parent, exit_status, parent_sema, mem_sema, call, tmp, load_flag,
                     next_tid, loaded, ending>>
  BY DEF WaitDown, down, Goto
<1> HIDE DEF c
<1>4. PTypeOK'
  <2>1. children' \in [Page -> SUBSET Page] /\ reaped' \subseteq Nat
    BY <1>1, <1>3, ZenonT(30)
  <2>2. child_sema' \in [Page -> Nat]
    BY <1>1, <1>3
  <2> QED
    BY <1>1, <1>3, <2>1, <2>2 DEF Labels
<1>5. Live' = Live
  BY <1>1, <1>3 DEF Live
<1>6. TidsUnique' /\ ChildrenFound' /\ KinOK'
  BY <1>2, <1>3, <1>5 DEF TidsUnique, ChildrenFound, IsParent, KinOK
<1>7. PagesOK'
  BY <1>1, <1>3, <1>5, ProcessAssumption DEF PagesOK
<1>8. LeavingOK' /\ BirthOK'
  BY <1>1, <1>3 DEF LeavingOK, BirthOK, Unheard
<1>9. WokenOK'
  BY <1>1, <1>3 DEF WokenOK, Unheard
<1>10. WaitingOK'
  <2>1. \A q \in Page \ {p} : pc[q] \in {"wait_down", "wait_up"} => tmp[q] # c
    BY <1>2 DEF WaitingOK, KinOK
  <2> QED
    BY <1>1, <1>2, <1>3, <2>1 DEF WaitingOK, LeavingOK, c
<1> QED
  BY <1>4, <1>6, <1>7, <1>8, <1>9, <1>10

(* A page is freed that no one refers to.                                   *)
LEMMA ExitDown_PInv == ASSUME PInv, NEW p \in Page, ExitDown(p) PROVE PInv'
<1> USE DEF PInv, PTypeOK, ExitDown, FreePage, Goto, locals
<1>1. PTypeOK'
  BY DEF Labels, NotEnded
<1>2. pc[p] = "exit_down" /\ mem_sema[p] > 0
  OBVIOUS
<1>3. \A q \in Page : p \notin children[q] /\ (pc[q] \in {"wait_down", "wait_up"} => tmp[q] # p)
  BY <1>2 DEF KinOK, WaitingOK
<1>4. TidsUnique' /\ PagesOK' /\ KinOK' /\ ChildrenFound'
  BY <1>2, <1>3, ProcessAssumption DEF TidsUnique, PagesOK, KinOK, ChildrenFound, IsParent, Live, NotEnded
<1>5. LeavingOK' /\ BirthOK'
  BY <1>2, <1>3 DEF LeavingOK, BirthOK, Unheard, NotEnded
<1>6. WokenOK'
  BY <1>2, <1>3 DEF WokenOK, Unheard
<1>7. WaitingOK'
  BY <1>2, <1>3 DEF WaitingOK
<1> QED
  BY <1>1, <1>4, <1>5, <1>6, <1>7
-----------------------------------------------------------------------------
(* PInv is an inductive invariant.                                          *)
LEMMA PInit_PInv == PInit => PInv
<1> SUFFICES ASSUME PInit PROVE PInv
  OBVIOUS
<1> USE ProcessAssumption DEF PInit
<1>1. PTypeOK
  BY DEF PTypeOK, NoCall, NotEnded, TID_ERROR, Labels
<1>2. TidsUnique /\ PagesOK /\ KinOK /\ ChildrenFound
  BY DEF TidsUnique, PagesOK, KinOK, ChildrenFound, IsParent, Live, NotEnded
<1>3. LeavingOK /\ BirthOK /\ WokenOK /\ WaitingOK
  BY DEF LeavingOK, BirthOK, WokenOK, WaitingOK, Unheard, NotEnded
<1> QED
  BY <1>1, <1>2, <1>3 DEF PInv

\* Every step keeps the invariant.
LEMMA PNext_PInv == PInv /\ [PNext]_vars => PInv'
<1> SUFFICES ASSUME PInv, [PNext]_vars PROVE PInv'
  OBVIOUS
<1>1. ASSUME NEW p \in Page, Step(p) PROVE PInv'
  BY <1>1, ExecDown_PInv, ExecReturn_PInv, ExecWait_PInv, LoadOk_PInv, LoadFail_PInv,
     SignalParent_PInv, FailExit_PInv, BuildStackFault_PInv, WaitDown_PInv, WaitUp_PInv,
     ExitUp_PInv, ExitDown_PInv DEF Step
<1>2. ASSUME NEW p \in Page, UserCall(p) PROVE PInv'
  <2>1. Tid \cup ExitStatus \cup {TID_ERROR} \subseteq Int
    BY ProcessAssumption DEF Tid, TID_ERROR
  <2> QED
    BY <1>2, <2>1, ExecNoThread_PInv, Kill_PInv, ExecCreate_PInv, Wait_PInv, WaitRefused_PInv,
       Exit_PInv DEF UserCall
<1>3. CASE UNCHANGED vars
  BY <1>3 DEF vars, thread, locals, history, PInv, PTypeOK, TidsUnique, PagesOK, KinOK,
     ChildrenFound, IsParent, LeavingOK, BirthOK, WokenOK, WaitingOK, Live
<1> QED
  BY <1>1, <1>2, <1>3 DEF PNext

\* The invariant holds at every step of every thread.
LEMMA Always_PInv == PSpec => []PInv
  BY PInit_PInv, PNext_PInv, PTL DEF PSpec
-----------------------------------------------------------------------------
(* Every variable of process.c keeps its type.                              *)
THEOREM ProcessTypes == PSpec => []PTypeOK
  BY Always_PInv, PTL DEF PInv

(* exec, wait and exit follow no reference to a page that has been freed,   *)
(* or freed and given to another thread.                                    *)
THEOREM PagesOutliveReferences == PSpec => []NoUseAfterFree
<1>1. PInv => NoUseAfterFree
  BY DEF PInv, PTypeOK, NoUseAfterFree, KinOK, WaitingOK, BirthOK, Live
<1> QED
  BY <1>1, Always_PInv, PTL

(* process_wait() returns what the child passed to exit().                  *)
THEOREM StatusReachesParent == PSpec => []WaitReturnsStatus
<1>1. PInv => WaitReturnsStatus
  BY DEF PInv, WaitReturnsStatus, WaitingOK
<1> QED
  BY <1>1, Always_PInv, PTL

(* A parent leaves exec only after its new child has tried to load.         *)
THEOREM ParentAwaitsLoad == PSpec => []ExecAwaitsLoad
<1>1. PInv => ExecAwaitsLoad
  BY DEF PInv, ExecAwaitsLoad, WokenOK
<1> QED
  BY <1>1, Always_PInv, PTL

(* A child that nobody has waited for is found by process_wait().           *)
THEOREM ChildrenStayListed == PSpec => []ChildrenFound
  BY Always_PInv, PTL DEF PInv

(* A status is returned once.                                               *)
THEOREM StatusTakenOnce == PSpec => WaitOnce
<1>1. PInv => (\A p \in Page : WaitDown(p) => tid[tmp[p]] \notin reaped)
  BY DEF PInv, PTypeOK, WaitDown, WaitingOK, KinOK
<1> QED
  BY <1>1, Always_PInv, PTL DEF WaitOnce

(* No thread is destroyed before its parent has its status.                 *)
THEOREM StatusTakenBeforeDeath == PSpec => FreedAfterReaped
<1>1. PInv /\ [PNext]_vars => (\A p \in Page : pc[p] # "none" /\ pc'[p] = "none" => tid[p] \in reaped)
  <2> SUFFICES ASSUME PInv, PNext, NEW p \in Page, pc[p] # "none", pc'[p] = "none"
               PROVE  tid[p] \in reaped
    BY DEF vars
  <2>1. PICK q \in Page : Step(q) \/ UserCall(q)
    BY DEF PNext
  <2> USE DEF PInv, PTypeOK
  <2>2. ~UserCall(q)
    BY DEF UserCall, ExecNoThread, Kill, ExecCreate, init_thread, Wait, WaitRefused, Exit, exit, Enter, Return, Goto
  <2>3. Step(q) => ExitDown(q)
    BY DEF Step, ExecDown, ExecReturn, ExecWait, LoadOk, LoadFail, SignalParent, FailExit,
       BuildStackFault, WaitDown, WaitUp, ExitUp, exit, ReturnExec, Enter, Return, Goto
  <2> QED
    BY <2>1, <2>2, <2>3 DEF ExitDown, FreePage, Goto, LeavingOK
<1> QED
  BY <1>1, Always_PInv, PTL DEF PSpec, FreedAfterReaped
=============================================================================
