--------------------------- MODULE Machine_proofs ---------------------------
(***************************************************************************)
(* Interrupts and threads, for any number of threads, page directories and  *)
(* interrupt lines: whatever comes in between, an interrupt finds the stack *)
(* and the page directory of the thread it interrupts, and is in service    *)
(* exactly until the controllers are told of its end.                       *)
(* The argument: an external interrupt is only ever the innermost thing a   *)
(* thread is in, as nothing can come while interrupts are off.  What is     *)
(* below it, its work, decides which page directory may be active: the      *)
(* thread's own, but for a step in load() and one in process_exit(), where  *)
(* the old one is still active and nobody else can destroy it.              *)
(***************************************************************************)
EXTENDS Machine, SequenceTheorems, FiniteSetTheorems, WellFoundedInduction, TLAPS

At == {"enter", "handler", "complete", "yield", "iret", "kernel", "resume", "user", "load", "loaded",
       "page_fault", "kill", "exit", "exit_activate", "exit_destroy"}
Frame == [at : At, vec : Int, flag : BOOLEAN, pd : Dir \cup {NoDir}]
Stack == Seq(Frame)

ExternalAt == {"enter", "handler", "complete", "yield", "iret"}
OwnAt == At \ {"handler", "complete", "yield", "iret"}
\* Only what the thread of a process itself has begun with is in these.
AtBottom == {"user", "load", "loaded"}
Leaving == {"exit", "exit_activate", "exit_destroy"}
Unmaking == {"exit_activate", "exit_destroy"}

External(f) == IsExternal(f.vec)
\* The innermost frame that is no external interrupt's.
Work(s) == IF External(Last(s)) THEN s[Len(s) - 1] ELSE Last(s)

\* Where its innermost frame is at a.
MovedTo(s, a) == [s EXCEPT ![Len(s)].at = a]

LevelOK(s, i) ==
    /\ s[i].at \in IF External(s[i]) THEN ExternalAt ELSE OwnAt
    /\ s[i].at \in AtBottom => i = 1
    /\ i < Len(s) => ~External(s[i])
    /\ i < Len(s) /\ ~External(s[i + 1]) => s[i].at \in {"user", "kernel"}
    /\ i < Len(s) /\ s[i + 1].vec = SYSCALL => s[i].at = "user"
StackOK(s) ==
    s # <<>> => s[1].vec = -1 /\ \A i \in 1 .. Len(s) : LevelOK(s, i)

SpaceOK(s, dir) ==
    s # <<>> =>
      /\ Work(s).at \in AtBottom => dir # NoDir
      /\ s[1].at = "user" /\ Work(s).at \notin Leaving => dir # NoDir
      /\ Work(s).at \in Unmaking => dir = NoDir /\ Work(s).pd # NoDir

\* The directories that are a thread's, also the one it is about to destroy.
Claims(s, dir) ==
    ({dir} \ {NoDir}) \cup (IF s # <<>> /\ Work(s).at \in Unmaking THEN {Work(s).pd} ELSE {})

ActiveDir(dir) == IF dir = NoDir THEN InitDir ELSE dir
ActiveOK(s, dir, active) ==
    \/ active = ActiveDir(dir)
    \/ s # <<>> /\ Work(s).at = "load" /\ active = InitDir
    \/ s # <<>> /\ Work(s).at = "exit_activate" /\ active = Work(s).pd

Handling(s) == s # <<>> /\ External(Last(s)) /\ Last(s).at \in {"enter", "handler", "complete"}
Service(s, c) ==
    IF ~Handling(s) THEN {}
    ELSE LET i == Last(s).vec - 32
         IN IF c = 0 THEN IF i = 7 THEN {} ELSE {Line0(i)}
            ELSE IF i >= 8 THEN {i} ELSE {}
ExternalOK(s, on, handled, service) ==
    /\ s # <<>> /\ External(Last(s)) => ~on
    /\ handled <=> s # <<>> /\ External(Last(s)) /\ Last(s).at \in {"handler", "complete"}
    /\ service[0] = Service(s, 0) /\ service[1] = Service(s, 1)

MTypeOK ==
    /\ current \in KThread /\ frames \in [KThread -> Stack]
    /\ intr \in BOOLEAN /\ in_external_intr \in BOOLEAN
    /\ pagedir \in [KThread -> Dir \cup {NoDir}] /\ dirs \subseteq Dir
    /\ status \in [KThread -> {"none", "ready", "running", "blocked", "dying"}]
    /\ ready_list \in Seq(KThread)
    /\ irr \subseteq Irq /\ isr \in [{0, 1} -> SUBSET (0 .. 15)]
EveryThread ==
    \A t \in KThread :
      /\ StackOK(frames[t]) /\ SpaceOK(frames[t], pagedir[t])
      /\ Claims(frames[t], pagedir[t]) \subseteq dirs
      /\ t # current => ~Handling(frames[t])
Apart ==
    \A t, u \in KThread : t # u => Claims(frames[t], pagedir[t]) \cap Claims(frames[u], pagedir[u]) = {}
CurrentThread ==
    /\ frames[current] # <<>>
    /\ esp0 = current /\ status[current] = "running"
    /\ ActiveOK(frames[current], pagedir[current], cr3)
    /\ ExternalOK(frames[current], intr, in_external_intr, isr)
\* A thread that is ready is in something, and on the list once.
ReadyThreads ==
    \A i \in 1 .. Len(ready_list) :
      /\ status[ready_list[i]] = "ready" /\ frames[ready_list[i]] # <<>>
      /\ \A j \in 1 .. Len(ready_list) : ready_list[i] = ready_list[j] => i = j
\* The idle thread never is a process, and never ends.
IdleThread ==
    frames[Idle] # <<>> /\ Work(frames[Idle]).at \in {"kernel", "resume"} /\ pagedir[Idle] = NoDir
MInv == MTypeOK /\ EveryThread /\ Apart /\ CurrentThread /\ ReadyThreads /\ IdleThread
-----------------------------------------------------------------------------
(* Constants and stacks.                                                    *)

\* What the assumptions on the constants say.
LEMMA Constants ==
    /\ Initial \in KThread /\ Idle \in KThread
    /\ NoDir \notin Dir /\ InitDir \notin Dir
    /\ Irq \subseteq 0 .. 15
BY MachineAssumption

\* Which vectors are external interrupts, and which the program's or a fault's.
LEMMA Vectors ==
    /\ \A i \in 0 .. 15 : IsExternal(32 + i) /\ 32 + i # SYSCALL /\ (32 + i) - 32 = i
    /\ \A vec \in {-1, 0, 3, 13, 14, SYSCALL} : ~IsExternal(vec)
    /\ \A vec \in {-1, 0, 3, 13, 14} : vec # SYSCALL
    /\ SYSCALL \in 0 .. 255
BY DEF IsExternal, SYSCALL

\* A gate leads to its own vector's stub; those of the controllers are closed
\* to programs and turn interrupts off.
LEMMA Gates ==
    /\ \A vec \in 0 .. 255 : VectorOf[vec] = vec
    /\ \A vec \in 32 .. 47 : TurnsOff(idt[vec]) /\ Level(idt[vec]) # 3
BY GatesAssumption

\* The parts of a stack.
LEMMA Parts ==
    ASSUME NEW s \in Stack, s # <<>>
    PROVE  /\ Len(s) \in Nat /\ Len(s) > 0 /\ DOMAIN s = 1 .. Len(s)
           /\ \A i \in 1 .. Len(s) : s[i] \in Frame
           /\ Last(s) = s[Len(s)] /\ Last(s) \in Frame
<1>1. Len(s) \in Nat /\ DOMAIN s = 1 .. Len(s)  BY LenProperties DEF Stack
<1>2. Len(s) > 0  BY <1>1, EmptySeq DEF Stack
<1>3. \A i \in 1 .. Len(s) : s[i] \in Frame  BY ElementOfSeq DEF Stack
<1> QED  BY <1>1, <1>2, <1>3 DEF Last

\* What lies below an external interrupt, and what lies below a system call.
LEMMA Below ==
    ASSUME NEW s \in Stack, s # <<>>, StackOK(s)
    PROVE  /\ External(Last(s)) => Len(s) >= 2 /\ ~External(s[Len(s) - 1]) /\ Last(s).at \in ExternalAt
           /\ ~External(Last(s)) => Last(s).at \in OwnAt
           /\ Last(s).at \in AtBottom => Len(s) = 1
           /\ Last(s).vec = SYSCALL => Len(s) = 2 /\ s[1].at = "user" /\ ~External(Last(s))
           /\ ~External(Work(s)) /\ Work(s) \in Frame /\ Work(s).at \in OwnAt
<1>1. /\ Len(s) \in Nat /\ Len(s) > 0
      /\ \A i \in 1 .. Len(s) : s[i] \in Frame
      /\ Last(s) = s[Len(s)] /\ Last(s) \in Frame
  BY Parts
<1>2. s[1].vec = -1 /\ \A i \in 1 .. Len(s) : LevelOK(s, i)  BY DEF StackOK
<1>3. ~External(s[1]) /\ s[1].vec # SYSCALL  BY <1>2, Vectors DEF External
<1>4. ASSUME External(Last(s))
      PROVE  Len(s) >= 2 /\ ~External(s[Len(s) - 1]) /\ Last(s).at \in ExternalAt
  <2>1. Len(s) >= 2  BY <1>1, <1>3, <1>4
  <2>2. LevelOK(s, Len(s) - 1) /\ LevelOK(s, Len(s))  BY <1>1, <1>2, <2>1
  <2> QED  BY <1>1, <1>4, <2>1, <2>2 DEF LevelOK
<1>5. /\ ~External(Last(s)) => Last(s).at \in OwnAt
      /\ Last(s).at \in AtBottom => Len(s) = 1
  <2>1. LevelOK(s, Len(s))  BY <1>1, <1>2
  <2> QED  BY <1>1, <2>1 DEF LevelOK
<1>6. ASSUME Last(s).vec = SYSCALL
      PROVE  Len(s) = 2 /\ s[1].at = "user" /\ ~External(Last(s))
  <2>1. Len(s) >= 2  BY <1>1, <1>3, <1>6
  <2>2. LevelOK(s, Len(s) - 1)  BY <1>1, <1>2, <2>1
  <2>3. s[Len(s) - 1].at = "user" /\ Len(s) - 1 = 1
    <3>1. s[(Len(s) - 1) + 1].vec = SYSCALL  BY <1>1, <1>6
    <3>2. s[Len(s) - 1].at = "user"  BY <1>1, <2>2, <3>1 DEF LevelOK
    <3> QED  BY <2>2, <3>2 DEF LevelOK, AtBottom
  <2>4. Len(s) = 2  BY <1>1, <2>3
  <2>5. ~External(Last(s))  BY <1>6, Vectors, Zenon DEF External
  <2> QED  BY <2>3, <2>4, <2>5
<1>7. ~External(Work(s)) /\ Work(s) \in Frame /\ Work(s).at \in OwnAt
  <2>1. CASE External(Last(s))
    <3>1. Work(s) = s[Len(s) - 1] /\ Len(s) - 1 \in 1 .. Len(s)  BY <1>1, <1>4, <2>1 DEF Work
    <3>2. LevelOK(s, Len(s) - 1)  BY <1>2, <3>1
    <3> QED  BY <1>1, <1>4, <2>1, <3>1, <3>2 DEF LevelOK
  <2>2. CASE ~External(Last(s))
    <3>1. Work(s) = Last(s)  BY <2>2 DEF Work
    <3> QED  BY <1>1, <1>5, <2>2, <3>1
  <2> QED  BY <2>1, <2>2
<1> QED  BY <1>4, <1>5, <1>6, <1>7

\* The innermost frame of a thread's own work moves on.
LEMMA MovesOwn ==
    ASSUME NEW s \in Stack, s # <<>>, StackOK(s), ~External(Last(s)), NEW a \in OwnAt,
           a \in AtBottom => Len(s) = 1, NEW r, r = MovedTo(s, a)
    PROVE  /\ r \in Stack /\ r # <<>> /\ StackOK(r) /\ Len(r) = Len(s)
           /\ Last(r) = [Last(s) EXCEPT !.at = a] /\ Work(r) = Last(r) /\ ~External(Last(r))
           /\ r[1].at = IF Len(s) = 1 THEN a ELSE s[1].at
<1>1. /\ Len(s) \in Nat /\ Len(s) > 0 /\ DOMAIN s = 1 .. Len(s)
      /\ \A i \in 1 .. Len(s) : s[i] \in Frame
      /\ Last(s) = s[Len(s)] /\ Last(s) \in Frame
  BY Parts
<1>2. a \in At  BY DEF OwnAt
<1>3. PICK n : n = Len(s)  OBVIOUS
<1>n. n \in Nat /\ n > 0 /\ DOMAIN s = 1 .. n  BY <1>1, <1>3
<1>4. PICK f : f = [s[n] EXCEPT !.at = a]  OBVIOUS
<1>5. f \in Frame /\ f.at = a /\ f.vec = s[n].vec
  BY <1>1, <1>2, <1>3, <1>4 DEF Frame
<1>6. r = [s EXCEPT ![n] = f]  BY <1>3, <1>4 DEF MovedTo
<1>7. r \in Stack /\ Len(r) = n /\ DOMAIN r = 1 .. n
  <2>1. r \in Seq(Frame) /\ Len(r) = Len(s)  BY <1>1, <1>3, <1>5, <1>6, ExceptSeq DEF Stack
  <2> QED  BY <1>3, <2>1, LenProperties DEF Stack
<1>8. r[n] = f /\ \A i \in 1 .. n : i # n => r[i] = s[i]  BY ONLY <1>n, <1>6
<1>9. r # <<>>  BY <1>1, <1>3, <1>7, EmptySeq
<1>10. Last(r) = f /\ f = [Last(s) EXCEPT !.at = a]  BY <1>1, <1>3, <1>4, <1>7, <1>8 DEF Last
<1>11. ~External(f)  BY <1>1, <1>3, <1>5 DEF External
<1>12. \A i \in 1 .. n : LevelOK(r, i)
  <2>0. \A i \in 1 .. n : r[i].vec = s[i].vec /\ (External(r[i]) <=> External(s[i]))
    BY <1>5, <1>8 DEF External
  <2> SUFFICES ASSUME NEW i \in 1 .. n PROVE LevelOK(r, i)  OBVIOUS
  <2>1. LevelOK(s, i)  BY <1>3 DEF StackOK
  <2>2. CASE i = n  BY <1>3, <1>5, <1>7, <1>8, <1>11, <2>2 DEF LevelOK
  <2>3. CASE i # n
    <3>1. r[i] = s[i] /\ i < n /\ i + 1 \in 1 .. n  BY <1>n, <1>8, <2>3
    <3>2. r[i + 1].vec = s[i + 1].vec /\ (External(r[i + 1]) <=> External(s[i + 1]))  BY <2>0, <3>1
    <3> QED  BY <1>3, <1>7, <2>1, <3>1, <3>2 DEF LevelOK
  <2> QED  BY <2>2, <2>3
<1>13. StackOK(r)
  <2>1. r[1].vec = s[1].vec  BY <1>n, <1>5, <1>8
  <2>2. s[1].vec = -1  BY DEF StackOK
  <2> QED  BY <1>7, <1>12, <2>1, <2>2 DEF StackOK
<1>14. r[1].at = IF n = 1 THEN a ELSE s[1].at  BY <1>n, <1>5, <1>8
<1>15. Work(r) = Last(r)  BY <1>10, <1>11 DEF Work
<1> QED  BY <1>3, <1>7, <1>9, <1>10, <1>11, <1>13, <1>14, <1>15

\* An external interrupt's frame moves on: the work below it stays.
LEMMA MovesExternal ==
    ASSUME NEW s \in Stack, s # <<>>, StackOK(s), External(Last(s)), NEW a \in ExternalAt,
           NEW r, r = MovedTo(s, a)
    PROVE  /\ r \in Stack /\ r # <<>> /\ StackOK(r)
           /\ Last(r) = [Last(s) EXCEPT !.at = a] /\ External(Last(r))
           /\ Last(r).at = a /\ Last(r).vec = Last(s).vec
           /\ Work(r) = Work(s) /\ r[1] = s[1]
<1>1. /\ Len(s) \in Nat /\ Len(s) > 0 /\ DOMAIN s = 1 .. Len(s)
      /\ \A i \in 1 .. Len(s) : s[i] \in Frame
      /\ Last(s) = s[Len(s)] /\ Last(s) \in Frame
  BY Parts
<1>a. Len(s) >= 2 /\ ~External(s[Len(s) - 1])  BY Below
<1>2. a \in At /\ a \notin AtBottom  BY DEF ExternalAt, At, AtBottom
<1>3. PICK n : n = Len(s)  OBVIOUS
<1>n. n \in Nat /\ n > 0 /\ DOMAIN s = 1 .. n  BY <1>1, <1>3
<1>4. PICK f : f = [s[n] EXCEPT !.at = a]  OBVIOUS
<1>5. f \in Frame /\ f.at = a /\ f.vec = s[n].vec
  BY <1>1, <1>2, <1>3, <1>4 DEF Frame
<1>6. r = [s EXCEPT ![n] = f]  BY <1>3, <1>4 DEF MovedTo
<1>7. r \in Stack /\ Len(r) = n /\ DOMAIN r = 1 .. n
  <2>1. r \in Seq(Frame) /\ Len(r) = Len(s)  BY <1>1, <1>3, <1>5, <1>6, ExceptSeq DEF Stack
  <2> QED  BY <1>3, <2>1, LenProperties DEF Stack
<1>8. r[n] = f /\ \A i \in 1 .. n : i # n => r[i] = s[i]  BY ONLY <1>n, <1>6
<1>9. r # <<>>  BY <1>1, <1>3, <1>7, EmptySeq
<1>10. Last(r) = f /\ f = [Last(s) EXCEPT !.at = a]  BY <1>1, <1>3, <1>4, <1>7, <1>8 DEF Last
<1>11. External(f)  BY <1>1, <1>3, <1>5 DEF External
<1>12. \A i \in 1 .. n : LevelOK(r, i)
  <2>0. \A i \in 1 .. n : r[i].vec = s[i].vec /\ (External(r[i]) <=> External(s[i]))
    BY <1>5, <1>8 DEF External
  <2> SUFFICES ASSUME NEW i \in 1 .. n PROVE LevelOK(r, i)  OBVIOUS
  <2>1. LevelOK(s, i)  BY <1>3 DEF StackOK
  <2>2. CASE i = n  BY <1>2, <1>5, <1>7, <1>8, <1>11, <2>2 DEF LevelOK
  <2>3. CASE i # n
    <3>1. r[i] = s[i] /\ i < n /\ i + 1 \in 1 .. n  BY <1>n, <1>8, <2>3
    <3>2. r[i + 1].vec = s[i + 1].vec /\ (External(r[i + 1]) <=> External(s[i + 1]))  BY <2>0, <3>1
    <3> QED  BY <1>3, <1>7, <2>1, <3>1, <3>2 DEF LevelOK
  <2> QED  BY <2>2, <2>3
<1>13. StackOK(r)
  <2>1. r[1].vec = s[1].vec  BY <1>n, <1>5, <1>8
  <2>2. s[1].vec = -1  BY DEF StackOK
  <2> QED  BY <1>7, <1>12, <2>1, <2>2 DEF StackOK
<1>14. r[1] = s[1]
  <2>1. 1 \in 1 .. n /\ 1 # n  BY <1>n, <1>3, <1>a
  <2> QED  BY <1>8, <2>1
<1>15. Work(r) = Work(s)
  <2>1. Work(r) = r[n - 1] /\ Work(s) = s[n - 1]  BY <1>3, <1>7, <1>10, <1>11 DEF Work
  <2>2. n - 1 \in 1 .. n /\ n - 1 # n
    <3>1. n \in Nat /\ n >= 2  BY <1>1, <1>3, <1>a
    <3> QED  BY ONLY <3>1
  <2> QED  BY <1>8, <2>1, <2>2
<1> QED  BY <1>5, <1>7, <1>9, <1>10, <1>11, <1>13, <1>14, <1>15, <1>1, <1>3

\* The thread of a process takes note of the directory it is going to destroy.
LEMMA MovesUnmaking ==
    ASSUME NEW s \in Stack, s # <<>>, StackOK(s), ~External(Last(s)), NEW d \in Dir,
           NEW r, r = [MovedTo(s, "exit_activate") EXCEPT ![Len(s)].pd = d]
    PROVE  /\ r \in Stack /\ r # <<>> /\ StackOK(r)
           /\ Work(r) = Last(r) /\ ~External(Last(r)) /\ Last(r).at = "exit_activate" /\ Last(r).pd = d
<1>1. PICK q : q = MovedTo(s, "exit_activate")  OBVIOUS
<1>2. "exit_activate" \in OwnAt /\ "exit_activate" \notin AtBottom  BY DEF OwnAt, At, AtBottom
<1>3. /\ q \in Stack /\ q # <<>> /\ StackOK(q) /\ Len(q) = Len(s)
      /\ Last(q) = [Last(s) EXCEPT !.at = "exit_activate"] /\ ~External(Last(q))
  <2>1. PICK a : a = "exit_activate"  OBVIOUS
  <2>2. a \in OwnAt /\ (a \in AtBottom => Len(s) = 1) /\ q = MovedTo(s, a)
    BY <1>1, <1>2, <2>1
  <2>3. s \in Stack /\ s # <<>> /\ StackOK(s) /\ ~External(Last(s))  OBVIOUS
  <2>4. /\ q \in Stack /\ q # <<>> /\ StackOK(q) /\ Len(q) = Len(s)
        /\ Last(q) = [Last(s) EXCEPT !.at = a] /\ ~External(Last(q))
    BY ONLY <2>2, <2>3, MovesOwn
  <2> QED  BY <2>1, <2>4
<1>4. /\ Len(q) \in Nat /\ Len(q) > 0 /\ DOMAIN q = 1 .. Len(q)
      /\ \A i \in 1 .. Len(q) : q[i] \in Frame
      /\ Last(q) = q[Len(q)] /\ Last(q) \in Frame
  BY <1>3, Parts
<1>5. PICK n : n = Len(q)  OBVIOUS
<1>6. PICK f : f = [q[n] EXCEPT !.pd = d]  OBVIOUS
<1>a. Last(s) \in Frame  BY Parts
<1>b. Last(q).at = "exit_activate"  BY <1>3, <1>a DEF Frame
<1>7. f \in Frame /\ f.at = "exit_activate" /\ f.vec = q[n].vec /\ f.pd = d
  BY <1>4, <1>5, <1>6, <1>b DEF Frame
<1>8. r = [q EXCEPT ![n] = f]  BY <1>1, <1>3, <1>5, <1>6
<1>9. r \in Stack /\ Len(r) = n /\ DOMAIN r = 1 .. n
  <2>0. q \in Seq(Frame) /\ n \in 1 .. Len(q)  BY <1>3, <1>4, <1>5 DEF Stack
  <2>1. r \in Seq(Frame) /\ Len(r) = Len(q)  BY ONLY <1>7, <1>8, <2>0, ExceptSeq
  <2> QED  BY <1>5, <2>1, LenProperties DEF Stack
<1>10. r[n] = f /\ \A i \in 1 .. n : i # n => r[i] = q[i]  BY <1>4, <1>5, <1>8
<1>11. Last(r) = f /\ ~External(f)  BY <1>3, <1>4, <1>5, <1>7, <1>9, <1>10 DEF Last, External
<1>12. \A i \in 1 .. n : r[i].vec = q[i].vec /\ r[i].at = q[i].at /\ (External(r[i]) <=> External(q[i]))
  BY <1>4, <1>5, <1>7, <1>10, <1>b DEF External
<1>13. \A i \in 1 .. n : LevelOK(r, i)
  <2> SUFFICES ASSUME NEW i \in 1 .. n PROVE LevelOK(r, i)  OBVIOUS
  <2>1. LevelOK(q, i)  BY <1>3, <1>5 DEF StackOK
  <2>2. i < n => i + 1 \in 1 .. n  BY <1>4, <1>5
  <2> QED  BY <1>5, <1>9, <1>12, <2>1, <2>2 DEF LevelOK
<1>14. StackOK(r)
  <2>1. r[1].vec = -1  BY <1>3, <1>4, <1>5, <1>12 DEF StackOK
  <2> QED  BY <1>9, <1>13, <2>1 DEF StackOK
<1>15. r # <<>>  BY <1>4, <1>5, <1>9, EmptySeq
<1> QED  BY <1>7, <1>9, <1>11, <1>14, <1>15 DEF Work

\* Something comes on top of a thread's own work.
LEMMA Enters ==
    ASSUME NEW s \in Stack, s # <<>>, StackOK(s), ~External(Last(s)),
           NEW f \in Frame, f.at = "enter", NEW r, r = Append(s, f),
           External(f) \/ Last(s).at \in {"user", "kernel"},
           f.vec = SYSCALL => Last(s).at = "user"
    PROVE  /\ r \in Stack /\ r # <<>> /\ StackOK(r) /\ Last(r) = f /\ r[1] = s[1]
           /\ External(f) => Work(r) = Work(s)
           /\ ~External(f) => Work(r) = f
<1>1. /\ Len(s) \in Nat /\ Len(s) > 0 /\ DOMAIN s = 1 .. Len(s)
      /\ \A i \in 1 .. Len(s) : s[i] \in Frame
      /\ Last(s) = s[Len(s)] /\ Last(s) \in Frame
  BY Parts
<1>2. PICK n : n = Len(s)  OBVIOUS
<1>3. r \in Stack /\ Len(r) = n + 1 /\ r[n + 1] = f /\ \A i \in 1 .. n : r[i] = s[i]
  BY <1>2, AppendProperties DEF Stack
<1>4. r # <<>>  BY <1>1, <1>2, <1>3, EmptySeq
<1>5. Last(r) = f /\ r[1] = s[1]  BY <1>1, <1>2, <1>3 DEF Last
<1>6. ASSUME NEW i \in 1 .. n + 1 PROVE LevelOK(r, i)
  <2>1. CASE i = n + 1
    <3>1. r[i] = f /\ i = Len(r) /\ f.at \in ExternalAt \cap OwnAt /\ f.at \notin AtBottom
      BY <1>3, <2>1 DEF ExternalAt, OwnAt, At, AtBottom
    <3>2. i < Len(r) <=> FALSE  BY <1>1, <1>2, <3>1
    <3> QED  BY <3>1, <3>2 DEF LevelOK
  <2>2. CASE i = n
    <3>1. LevelOK(s, n)  BY <1>1, <1>2 DEF StackOK
    <3>2. r[i] = s[n] /\ r[i + 1] = f /\ s[n] = Last(s)  BY <1>1, <1>2, <1>3, <2>2
    <3> QED  BY <2>2, <3>1, <3>2 DEF LevelOK
  <2>3. CASE i # n /\ i # n + 1
    <3>0. n \in Nat /\ i \in 1 .. n + 1 /\ i # n /\ i # n + 1  BY <1>1, <1>2, <2>3
    <3>1. i \in 1 .. n /\ i + 1 \in 1 .. n /\ i < n /\ i < n + 1  BY ONLY <3>0
    <3>2. LevelOK(s, i)  BY <1>2, <3>1 DEF StackOK
    <3>3. r[i] = s[i] /\ r[i + 1] = s[i + 1]  BY <1>3, <3>1
    <3> QED  BY <1>2, <3>1, <3>2, <3>3, SMT DEF LevelOK
  <2> QED  BY <2>1, <2>2, <2>3
<1>7. StackOK(r)
  <2>1. r[1].vec = -1  BY <1>5 DEF StackOK
  <2> QED  BY <1>3, <1>6, <2>1 DEF StackOK
<1>8. External(f) => Work(r) = Work(s)
  <2>1. (n + 1) - 1 = n /\ n \in 1 .. n  BY <1>1, <1>2
  <2>2. Work(s) = s[n]  BY <1>1, <1>2 DEF Work
  <2>3. External(f) => Work(r) = r[n]  BY <1>3, <1>5, <2>1 DEF Work
  <2> QED  BY <1>3, <2>1, <2>2, <2>3
<1>9. ~External(f) => Work(r) = f  BY <1>5 DEF Work
<1> QED  BY <1>3, <1>4, <1>5, <1>7, <1>8, <1>9

\* The innermost is over, and there is something below it.
LEMMA Leaves ==
    ASSUME NEW s \in Stack, s # <<>>, StackOK(s), Len(s) >= 2, NEW r, r = Front(s)
    PROVE  /\ r \in Stack /\ r # <<>> /\ StackOK(r) /\ r[1] = s[1]
           /\ Last(r) = s[Len(s) - 1] /\ ~External(Last(r)) /\ Work(r) = s[Len(s) - 1]
<1>1. /\ Len(s) \in Nat /\ Len(s) > 0 /\ DOMAIN s = 1 .. Len(s)
      /\ \A i \in 1 .. Len(s) : s[i] \in Frame
  BY Parts
<1>2. PICK n : n = Len(s) - 1  OBVIOUS
<1>3. n \in Nat /\ n > 0 /\ n < Len(s)  BY <1>1, <1>2
<1>4. r \in Stack /\ Len(r) = n /\ \A i \in 1 .. n : r[i] = s[i]
  <2>1. r = SubSeq(s, 1, n)  BY <1>2 DEF Front
  <2>2. \A i \in 1 .. n : s[i] \in Frame  BY <1>1, <1>3
  <2>3. r \in Seq(Frame)  BY <1>3, <2>1, <2>2, SubSeqProperties, Z3
  <2>4. Len(r) = n /\ \A i \in 1 .. n : r[i] = s[i]  BY <1>3, <2>1, <2>2, SubSeqProperties, Z3
  <2> QED  BY <2>3, <2>4 DEF Stack
<1>5. r # <<>>  BY <1>3, <1>4, EmptySeq
<1>6. Last(r) = s[n] /\ r[1] = s[1]  BY <1>3, <1>4 DEF Last
<1>7. LevelOK(s, n)  BY <1>1, <1>3 DEF StackOK
<1>8. ~External(s[n])  BY <1>3, <1>7 DEF LevelOK
<1>9. ASSUME NEW i \in 1 .. n PROVE LevelOK(r, i)
  <2>1. LevelOK(s, i)  BY <1>1, <1>3 DEF StackOK
  <2>2. r[i] = s[i] /\ (i < n => i < Len(s) /\ i + 1 \in 1 .. n)  BY <1>1, <1>3, <1>4
  <2>3. i < n => r[i + 1] = s[i + 1]  BY <1>4, <2>2
  <2> QED  BY <1>4, <2>1, <2>2, <2>3 DEF LevelOK
<1>10. StackOK(r)
  <2>1. r[1].vec = -1  BY <1>6 DEF StackOK
  <2> QED  BY <1>4, <1>9, <2>1 DEF StackOK
<1> QED  BY <1>2, <1>4, <1>5, <1>6, <1>8, <1>10 DEF Work

-----------------------------------------------------------------------------
(* Steps of the thread that runs.                                           *)

\* What the invariant says of the thread that runs.
LEMMA Running ==
    ASSUME MInv, NEW s, s = frames[current]
    PROVE  /\ current \in KThread /\ s \in Stack /\ pagedir[current] \in Dir \cup {NoDir}
           /\ StackOK(s) /\ SpaceOK(s, pagedir[current])
           /\ Claims(s, pagedir[current]) \subseteq dirs
           /\ ActiveOK(s, pagedir[current], cr3)
           /\ ExternalOK(s, intr, in_external_intr, isr)
           /\ esp0 = current /\ status[current] = "running" /\ s # <<>>
           /\ current = Idle => Work(s).at \in {"kernel", "resume"} /\ pagedir[current] = NoDir
BY DEF MInv, MTypeOK, EveryThread, CurrentThread, IdleThread

\* What the invariant says of the others.
LEMMA Others ==
    ASSUME MInv, NEW t \in KThread, t # current
    PROVE  /\ frames[t] \in Stack /\ pagedir[t] \in Dir \cup {NoDir}
           /\ StackOK(frames[t]) /\ SpaceOK(frames[t], pagedir[t])
           /\ Claims(frames[t], pagedir[t]) \subseteq dirs
           /\ ~Handling(frames[t])
           /\ Claims(frames[t], pagedir[t]) \cap Claims(frames[current], pagedir[current]) = {}
BY DEF MInv, MTypeOK, EveryThread, Apart

\* A step of the thread that runs, after which it is in s and has the directory d.
Steady == current' = current /\ esp0' = esp0 /\ status' = status /\ ready_list' = ready_list
OthersStay(s, d) ==
    \A t \in KThread : t # current =>
      /\ frames'[t] = frames[t] /\ pagedir'[t] = pagedir[t]
      /\ Claims(frames[t], pagedir[t]) \subseteq dirs'
      /\ Claims(s, d) \cap Claims(frames[t], pagedir[t]) = {}
Fits(s, d) ==
    /\ frames'[current] = s /\ pagedir'[current] = d
    /\ s # <<>> /\ StackOK(s) /\ SpaceOK(s, d) /\ Claims(s, d) \subseteq dirs'
    /\ ActiveOK(s, d, cr3') /\ ExternalOK(s, intr', in_external_intr', isr')
    /\ current = Idle => Work(s).at \in {"kernel", "resume"} /\ d = NoDir

\* The step of a thread that goes on running: all that is left to show is about it.
LEMMA GoesOn ==
    ASSUME MInv, MTypeOK', Steady, NEW s, NEW d, OthersStay(s, d), Fits(s, d)
    PROVE  MInv'
<1>0. /\ current' = current /\ esp0' = esp0 /\ status' = status /\ ready_list' = ready_list
      /\ frames'[current] = s /\ pagedir'[current] = d
      /\ s # <<>> /\ StackOK(s) /\ SpaceOK(s, d) /\ Claims(s, d) \subseteq dirs'
      /\ ActiveOK(s, d, cr3') /\ ExternalOK(s, intr', in_external_intr', isr')
      /\ current = Idle => Work(s).at \in {"kernel", "resume"} /\ d = NoDir
  BY DEF Steady, Fits
<1>a. \A t \in KThread : t # current =>
        /\ frames'[t] = frames[t] /\ pagedir'[t] = pagedir[t]
        /\ Claims(frames[t], pagedir[t]) \subseteq dirs'
        /\ Claims(s, d) \cap Claims(frames[t], pagedir[t]) = {}
  BY DEF OthersStay
<1>1. \A t \in KThread : /\ t = current => frames'[t] = s /\ pagedir'[t] = d
                         /\ t # current => frames'[t] = frames[t] /\ pagedir'[t] = pagedir[t]
  BY <1>0, <1>a
<1>2. EveryThread'
  <2> SUFFICES ASSUME NEW t \in KThread
               PROVE  /\ StackOK(frames'[t]) /\ SpaceOK(frames'[t], pagedir'[t])
                      /\ Claims(frames'[t], pagedir'[t]) \subseteq dirs'
                      /\ t # current' => ~Handling(frames'[t])
    BY DEF EveryThread
  <2>1. CASE t = current
    <3>1. frames'[t] = s /\ pagedir'[t] = d /\ t = current'  BY <1>0, <2>1
    <3> QED  BY ONLY <1>0, <3>1
  <2>2. CASE t # current
    <3>1. frames'[t] = frames[t] /\ pagedir'[t] = pagedir[t] /\ Claims(frames[t], pagedir[t]) \subseteq dirs'
      BY <1>a, <2>2
    <3>2. StackOK(frames[t]) /\ SpaceOK(frames[t], pagedir[t]) /\ ~Handling(frames[t])  BY <2>2, Others
    <3>3. t # current'  BY <1>0, <2>2
    <3> QED  BY ONLY <3>1, <3>2, <3>3
  <2> QED  BY <2>1, <2>2
<1>3. Apart'
  <2> SUFFICES ASSUME NEW t \in KThread, NEW u \in KThread, t # u
               PROVE  Claims(frames'[t], pagedir'[t]) \cap Claims(frames'[u], pagedir'[u]) = {}
    BY DEF Apart
  <2>1. CASE t = current
    <3>1. /\ Claims(frames'[t], pagedir'[t]) = Claims(s, d)
          /\ Claims(frames'[u], pagedir'[u]) = Claims(frames[u], pagedir[u])
      BY <1>1, <2>1
    <3>2. Claims(s, d) \cap Claims(frames[u], pagedir[u]) = {}  BY <1>a, <2>1
    <3> QED  BY ONLY <3>1, <3>2
  <2>2. CASE u = current
    <3>1. /\ Claims(frames'[u], pagedir'[u]) = Claims(s, d)
          /\ Claims(frames'[t], pagedir'[t]) = Claims(frames[t], pagedir[t])
      BY <1>1, <2>2
    <3>2. Claims(s, d) \cap Claims(frames[t], pagedir[t]) = {}  BY <1>a, <2>2
    <3> QED  BY ONLY <3>1, <3>2
  <2>3. CASE t # current /\ u # current
    <3>1. /\ frames'[t] = frames[t] /\ pagedir'[t] = pagedir[t]
          /\ frames'[u] = frames[u] /\ pagedir'[u] = pagedir[u]
      BY <1>1, <2>3
    <3>2. Claims(frames[t], pagedir[t]) \cap Claims(frames[u], pagedir[u]) = {}  BY DEF MInv, Apart
    <3> QED  BY ONLY <3>1, <3>2
  <2> QED  BY <2>1, <2>2, <2>3
<1>4. CurrentThread'
  <2>1. esp0 = current /\ status[current] = "running"  BY Running
  <2> QED  BY <1>0, <2>1 DEF CurrentThread
<1>5. ReadyThreads'
  <2> SUFFICES ASSUME NEW i \in 1 .. Len(ready_list)
               PROVE  /\ status[ready_list[i]] = "ready" /\ frames'[ready_list[i]] # <<>>
                      /\ \A j \in 1 .. Len(ready_list) : ready_list[i] = ready_list[j] => i = j
    BY <1>0 DEF ReadyThreads
  <2>1. /\ status[ready_list[i]] = "ready" /\ frames[ready_list[i]] # <<>>
        /\ \A j \in 1 .. Len(ready_list) : ready_list[i] = ready_list[j] => i = j
    BY DEF MInv, ReadyThreads
  <2>2. ready_list[i] \in KThread
    <3>1. ready_list \in Seq(KThread)  BY DEF MInv, MTypeOK
    <3> QED  BY <3>1, ElementOfSeq
  <2>3. status[current] = "running"  BY Running
  <2>4. ready_list[i] # current  BY <2>1, <2>3
  <2> QED  BY <1>1, <2>1, <2>2, <2>4
<1>6. IdleThread'
  <2>1. frames[Idle] # <<>> /\ Work(frames[Idle]).at \in {"kernel", "resume"} /\ pagedir[Idle] = NoDir
    BY DEF MInv, IdleThread
  <2>2. Idle \in KThread  BY Constants
  <2>3. CASE Idle = current
    <3>1. frames'[Idle] = s /\ pagedir'[Idle] = d  BY <1>0, <2>3
    <3> QED  BY <1>0, <2>3, <3>1 DEF IdleThread
  <2>4. CASE Idle # current
    <3>1. frames'[Idle] = frames[Idle] /\ pagedir'[Idle] = pagedir[Idle]  BY <1>1, <2>2, <2>4
    <3> QED  BY <2>1, <3>1 DEF IdleThread
  <2> QED  BY <2>3, <2>4
<1> QED  BY <1>2, <1>3, <1>4, <1>5, <1>6 DEF MInv

\* Nothing external is going on below the innermost.
LEMMA NoneInService ==
    ASSUME MInv, NEW s, s = frames[current], s # <<>>, ~External(Last(s))
    PROVE  in_external_intr = FALSE /\ isr[0] = {} /\ isr[1] = {} /\ isr \in [{0, 1} -> SUBSET (0 .. 15)]
<1>1. ExternalOK(s, intr, in_external_intr, isr)  BY Running
<1>2. ~Handling(s)  BY DEF Handling
<1>3. in_external_intr \in BOOLEAN /\ isr \in [{0, 1} -> SUBSET (0 .. 15)]  BY DEF MInv, MTypeOK
<1> QED  BY <1>1, <1>2, <1>3 DEF ExternalOK, Service

\* A thread's own innermost frame stays a thread's own: no interrupt is in service.
LEMMA StillNone ==
    ASSUME MInv, NEW s, s = frames[current], s # <<>>, ~External(Last(s)),
           NEW r, r # <<>>, ~External(Last(r)), NEW on
    PROVE  ExternalOK(r, on, in_external_intr, isr)
<1>1. in_external_intr = FALSE /\ isr[0] = {} /\ isr[1] = {}  BY NoneInService
<1>2. ~Handling(r)  BY DEF Handling
<1> QED  BY <1>1, <1>2 DEF ExternalOK, Service

\* The claims of a thread that is not unmaking a directory.
LEMMA NoneUnmade ==
    ASSUME NEW s, NEW d, s # <<>> => Work(s).at \notin Unmaking
    PROVE  Claims(s, d) = {d} \ {NoDir}
BY DEF Claims

\* The thread's own work moves on, and its directory stays.
LEMMA OwnStep ==
    ASSUME MInv, NEW s, s = frames[current], s # <<>>, ~External(Last(s)),
           NEW a \in OwnAt, a \in AtBottom => Len(s) = 1, frames' = Moved(current, a),
           NEW d, d = pagedir[current],
           intr' \in BOOLEAN,
           UNCHANGED <<current, esp0, pagedir, dirs, status, ready_list, external, pic>>,
           a \in AtBottom => d # NoDir,
           a \notin Unmaking, s[1].at = "user" /\ Len(s) # 1 /\ a \notin Leaving => d # NoDir,
           cr3' = ActiveDir(d), current = Idle => a \in {"kernel", "resume"}
    PROVE  MInv'
<1>1. s \in Stack /\ StackOK(s) /\ current \in KThread  BY Running
<1>2. PICK r : r = MovedTo(s, a)  OBVIOUS
<1>3. /\ r \in Stack /\ r # <<>> /\ StackOK(r) /\ Len(r) = Len(s)
      /\ Last(r) = [Last(s) EXCEPT !.at = a] /\ Work(r) = Last(r) /\ ~External(Last(r))
      /\ r[1].at = IF Len(s) = 1 THEN a ELSE s[1].at
  BY <1>1, <1>2, MovesOwn
<1>4. Work(r).at = a
  <2>1. Last(s) \in Frame  BY <1>1, Parts
  <2> QED  BY <1>3, <2>1 DEF Frame
<1>5. frames' = [frames EXCEPT ![current] = r]
  BY <1>2 DEF Moved, MovedTo
<1>6. frames \in [KThread -> Stack] /\ frames'[current] = r
      /\ \A t \in KThread : t # current => frames'[t] = frames[t]
  BY <1>1, <1>5 DEF MInv, MTypeOK
<1>7. MTypeOK'
  <2>1. frames' \in [KThread -> Stack]  BY <1>3, <1>5, <1>6
  <2> QED  BY <2>1 DEF MInv, MTypeOK, pic, external
<1>8. SpaceOK(r, d)
  <2>1. a = "user" => a \in AtBottom  BY DEF AtBottom
  <2> QED  BY <1>3, <1>4, <2>1 DEF SpaceOK
<1>9. Claims(r, d) = {d} \ {NoDir}  BY <1>4, NoneUnmade
<1>10. {d} \ {NoDir} \subseteq Claims(s, d)  BY DEF Claims
<1>11. Claims(s, d) \subseteq dirs  BY Running
<1>12. ActiveOK(r, d, cr3')  BY DEF ActiveOK
<1>13. ExternalOK(r, intr', in_external_intr', isr')
  <2>1. in_external_intr' = in_external_intr /\ isr' = isr  BY DEF external, pic
  <2>2. ExternalOK(r, intr', in_external_intr, isr)  BY <1>3, StillNone
  <2> QED  BY <2>1, <2>2
<1>14. \A t \in KThread : t # current =>
         /\ frames'[t] = frames[t] /\ pagedir'[t] = pagedir[t]
         /\ Claims(frames[t], pagedir[t]) \subseteq dirs'
         /\ Claims(r, d) \cap Claims(frames[t], pagedir[t]) = {}
  <2> SUFFICES ASSUME NEW t \in KThread, t # current
               PROVE  /\ frames'[t] = frames[t] /\ pagedir'[t] = pagedir[t]
                      /\ Claims(frames[t], pagedir[t]) \subseteq dirs'
                      /\ Claims(r, d) \cap Claims(frames[t], pagedir[t]) = {}
    OBVIOUS
  <2>1. /\ Claims(frames[t], pagedir[t]) \subseteq dirs
        /\ Claims(frames[t], pagedir[t]) \cap Claims(s, d) = {}
    BY Others
  <2>2. frames'[t] = frames[t] /\ pagedir' = pagedir /\ dirs' = dirs  BY <1>6
  <2> QED  BY ONLY <1>9, <1>10, <2>1, <2>2
<1>15. Claims(r, d) \subseteq dirs'  BY <1>9, <1>10, <1>11
<1>16. frames'[current] = r /\ pagedir'[current] = d  BY <1>6
<1>17. Steady  BY DEF Steady
<1>18. current = Idle => Work(r).at \in {"kernel", "resume"} /\ d = NoDir
  <2>1. current = Idle => pagedir[current] = NoDir  BY Running
  <2> QED  BY <1>4, <2>1
<1>19. Fits(r, d)  BY ONLY <1>3, <1>8, <1>12, <1>13, <1>15, <1>16, <1>18 DEF Fits
<1>20. OthersStay(r, d)  BY ONLY <1>14 DEF OthersStay
<1> QED  BY ONLY MInv, <1>7, <1>17, <1>19, <1>20, GoesOn

\* load() makes the directory, and does not use it yet.
LEMMA LoadCreateKeeps == ASSUME MInv, NEW dir \in Dir, LoadCreate(dir) PROVE MInv'
<1>1. PICK s : s = frames[current]  OBVIOUS
<1>2. /\ Quiet /\ Now("kernel") /\ current \notin {Initial, Idle} /\ Len(s) = 1 /\ pagedir[current] = NoDir
      /\ dir \notin dirs /\ pagedir' = [pagedir EXCEPT ![current] = dir] /\ dirs' = dirs \cup {dir}
      /\ frames' = Moved(current, "load")
      /\ UNCHANGED <<current, intr, cr3, esp0, sched, external, pic, ticks>>
  BY <1>1, Zenon DEF LoadCreate, Fresh, Goto
<1>3. /\ s \in Stack /\ s # <<>> /\ StackOK(s) /\ current \in KThread
      /\ ActiveOK(s, pagedir[current], cr3)
  BY <1>1, Running
<1>4. Last(s).at = "kernel"  BY <1>1, <1>2 DEF Now, Top
<1>5. ~External(Last(s))
  <2>1. "kernel" \notin ExternalAt  BY DEF ExternalAt
  <2> QED  BY <1>3, <1>4, <2>1, Below
<1>6. PICK a : a = "load"  OBVIOUS
<1>7. a \in OwnAt  BY <1>6 DEF OwnAt, At
<1>8. PICK r : r = MovedTo(s, a)  OBVIOUS
<1>9. /\ r \in Stack /\ r # <<>> /\ StackOK(r)
      /\ Last(r) = [Last(s) EXCEPT !.at = a] /\ Work(r) = Last(r) /\ ~External(Last(r))
  BY <1>2, <1>3, <1>5, <1>7, <1>8, MovesOwn
<1>10. Work(r).at = "load"
  <2>1. Last(s) \in Frame  BY <1>3, Parts
  <2> QED  BY <1>6, <1>9, <2>1 DEF Frame
<1>11. frames' = [frames EXCEPT ![current] = r]  BY <1>1, <1>2, <1>6, <1>8 DEF Moved, MovedTo
<1>12. frames \in [KThread -> Stack] /\ pagedir \in [KThread -> Dir \cup {NoDir}]  BY DEF MInv, MTypeOK
<1>13. /\ frames'[current] = r /\ pagedir'[current] = dir
       /\ \A t \in KThread : t # current => frames'[t] = frames[t] /\ pagedir'[t] = pagedir[t]
  BY <1>2, <1>3, <1>11, <1>12
<1>14. MTypeOK'
  <2>1. frames' \in [KThread -> Stack] /\ pagedir' \in [KThread -> Dir \cup {NoDir}]
    BY <1>2, <1>9, <1>11, <1>12
  <2>2. dirs' \subseteq Dir  BY <1>2 DEF MInv, MTypeOK
  <2> QED  BY <1>2, <2>1, <2>2 DEF MInv, MTypeOK, pic, external, sched
<1>15. dir # NoDir  BY Constants
<1>16. SpaceOK(r, dir)  BY <1>10, <1>15 DEF SpaceOK, Unmaking
<1>17. Claims(r, dir) = {dir}  BY <1>10, <1>15, NoneUnmade DEF Unmaking
<1>18. ActiveOK(r, dir, cr3')
  <2>1. Work(s) = Last(s)  BY <1>5 DEF Work
  <2>2. cr3 = InitDir  BY <1>2, <1>3, <1>4, <2>1 DEF ActiveOK, ActiveDir
  <2> QED  BY <1>2, <1>9, <1>10, <2>2 DEF ActiveOK
<1>19. ExternalOK(r, intr', in_external_intr', isr')
  <2>1. in_external_intr' = in_external_intr /\ isr' = isr  BY <1>2 DEF external, pic
  <2>2. ExternalOK(r, intr', in_external_intr, isr)  BY <1>1, <1>3, <1>5, <1>9, StillNone
  <2> QED  BY <2>1, <2>2
<1>20. \A t \in KThread : t # current =>
         /\ frames'[t] = frames[t] /\ pagedir'[t] = pagedir[t]
         /\ Claims(frames[t], pagedir[t]) \subseteq dirs'
         /\ Claims(r, dir) \cap Claims(frames[t], pagedir[t]) = {}
  <2> SUFFICES ASSUME NEW t \in KThread, t # current
               PROVE  /\ frames'[t] = frames[t] /\ pagedir'[t] = pagedir[t]
                      /\ Claims(frames[t], pagedir[t]) \subseteq dirs'
                      /\ Claims(r, dir) \cap Claims(frames[t], pagedir[t]) = {}
    OBVIOUS
  <2>1. Claims(frames[t], pagedir[t]) \subseteq dirs  BY Others
  <2> QED  BY <1>2, <1>13, <1>17, <2>1
<1>21. Claims(r, dir) \subseteq dirs'  BY <1>2, <1>17
<1>22. Steady  BY <1>2 DEF sched, Steady
<1>23. current = Idle => Work(r).at \in {"kernel", "resume"} /\ dir = NoDir  BY <1>2
<1>24. Fits(r, dir)  BY ONLY <1>9, <1>13, <1>16, <1>18, <1>19, <1>21, <1>23 DEF Fits
<1>25. OthersStay(r, dir)  BY ONLY <1>20 DEF OthersStay
<1> QED  BY ONLY MInv, <1>14, <1>22, <1>24, <1>25, GoesOn

\* A thread leaves its directory, and uses it still.
LEMMA ExitClearKeeps == ASSUME MInv, ExitClear PROVE MInv'
<1>1. PICK s : s = frames[current]  OBVIOUS
<1>a. PICK d : d = pagedir[current]  OBVIOUS
<1>2. /\ Now("exit") /\ d # NoDir /\ pagedir' = [pagedir EXCEPT ![current] = NoDir]
      /\ frames' = [Moved(current, "exit_activate") EXCEPT ![current][Len(frames[current])].pd = pagedir[current]]
      /\ UNCHANGED <<current, intr, cr3, esp0, dirs, sched, external, pic, ticks>>
  BY <1>a, Zenon DEF ExitClear
<1>3. /\ s \in Stack /\ s # <<>> /\ StackOK(s) /\ current \in KThread /\ d \in Dir
      /\ ActiveOK(s, d, cr3) /\ Claims(s, d) \subseteq dirs
      /\ current = Idle => Work(s).at \in {"kernel", "resume"}
  BY <1>1, <1>2, <1>a, Running
<1>4. Last(s).at = "exit"  BY <1>1, <1>2 DEF Now, Top
<1>5. ~External(Last(s))
  <2>1. "exit" \notin ExternalAt  BY DEF ExternalAt
  <2> QED  BY <1>3, <1>4, <2>1, Below
<1>6. Work(s) = Last(s)  BY <1>5 DEF Work
<1>8. PICK r : r = [MovedTo(s, "exit_activate") EXCEPT ![Len(s)].pd = d]  OBVIOUS
<1>9. /\ r \in Stack /\ r # <<>> /\ StackOK(r)
      /\ Work(r) = Last(r) /\ ~External(Last(r)) /\ Last(r).at = "exit_activate" /\ Last(r).pd = d
  BY <1>3, <1>5, <1>8, MovesUnmaking
<1>12. frames \in [KThread -> Stack] /\ pagedir \in [KThread -> Dir \cup {NoDir}]  BY DEF MInv, MTypeOK
<1>11. frames' = [frames EXCEPT ![current] = r]
  <2>1. PICK q : q = MovedTo(s, "exit_activate")  OBVIOUS
  <2>2. Moved(current, "exit_activate") = [frames EXCEPT ![current] = q]  BY <1>1, <2>1 DEF Moved, MovedTo
  <2>3. frames' = [[frames EXCEPT ![current] = q] EXCEPT ![current][Len(s)].pd = d]  BY <1>1, <1>2, <1>a, <2>2
  <2>4. r = [q EXCEPT ![Len(s)].pd = d]  BY <1>8, <2>1
  <2> QED  BY ONLY <1>3, <1>12, <2>3, <2>4
<1>13. /\ frames'[current] = r /\ pagedir'[current] = NoDir
       /\ \A t \in KThread : t # current => frames'[t] = frames[t] /\ pagedir'[t] = pagedir[t]
  BY <1>2, <1>3, <1>11, <1>12
<1>14. MTypeOK'
  <2>1. frames' \in [KThread -> Stack] /\ pagedir' \in [KThread -> Dir \cup {NoDir}]
    BY <1>2, <1>9, <1>11, <1>12
  <2> QED  BY <1>2, <2>1 DEF MInv, MTypeOK, pic, external, sched
<1>16. SpaceOK(r, NoDir)  BY <1>2, <1>9 DEF SpaceOK, AtBottom, Leaving
<1>17. Claims(r, NoDir) = {d}  BY <1>9 DEF Claims, Unmaking
<1>b. Claims(s, d) = {d}  BY <1>2, <1>4, <1>6, NoneUnmade DEF Unmaking
<1>18. ActiveOK(r, NoDir, cr3')
  <2>2. cr3 = d  BY <1>2, <1>3, <1>4, <1>6 DEF ActiveOK, ActiveDir
  <2> QED  BY <1>2, <1>9, <2>2 DEF ActiveOK
<1>19. ExternalOK(r, intr', in_external_intr', isr')
  <2>1. in_external_intr' = in_external_intr /\ isr' = isr  BY <1>2 DEF external, pic
  <2>2. ExternalOK(r, intr', in_external_intr, isr)  BY <1>1, <1>3, <1>5, <1>9, StillNone
  <2> QED  BY <2>1, <2>2
<1>20. \A t \in KThread : t # current =>
         /\ frames'[t] = frames[t] /\ pagedir'[t] = pagedir[t]
         /\ Claims(frames[t], pagedir[t]) \subseteq dirs'
         /\ Claims(r, NoDir) \cap Claims(frames[t], pagedir[t]) = {}
  <2> SUFFICES ASSUME NEW t \in KThread, t # current
               PROVE  /\ frames'[t] = frames[t] /\ pagedir'[t] = pagedir[t]
                      /\ Claims(frames[t], pagedir[t]) \subseteq dirs'
                      /\ Claims(r, NoDir) \cap Claims(frames[t], pagedir[t]) = {}
    OBVIOUS
  <2>1. /\ Claims(frames[t], pagedir[t]) \subseteq dirs
        /\ Claims(frames[t], pagedir[t]) \cap Claims(s, d) = {}
    BY <1>1, <1>a, Others
  <2> QED  BY <1>2, <1>13, <1>17, <1>b, <2>1
<1>21. Claims(r, NoDir) \subseteq dirs'  BY <1>2, <1>3, <1>17, <1>b
<1>22. Steady  BY <1>2 DEF sched, Steady
<1>23. current = Idle => Work(r).at \in {"kernel", "resume"} /\ NoDir = NoDir  BY <1>3, <1>4, <1>6
<1>24. Fits(r, NoDir)  BY ONLY <1>9, <1>13, <1>16, <1>18, <1>19, <1>21, <1>23 DEF Fits
<1>25. OthersStay(r, NoDir)  BY ONLY <1>20 DEF OthersStay
<1> QED  BY ONLY MInv, <1>14, <1>22, <1>24, <1>25, GoesOn

\* A thread that leaves a directory: what it has of it, and where it goes next.
LEMMA Unmakes ==
    ASSUME MInv, NEW s, s = frames[current], Last(s).at \in Unmaking,
           NEW a \in {"exit_destroy", "exit"}, frames' = Moved(current, a)
    PROVE  /\ s \in Stack /\ s # <<>> /\ ~External(Last(s)) /\ Work(s) = Last(s) /\ current \in KThread
           /\ pagedir[current] = NoDir /\ Last(s).pd \in Dir /\ Claims(s, NoDir) = {Last(s).pd}
           /\ Claims(s, NoDir) \subseteq dirs /\ current # Idle
           /\ ActiveOK(s, NoDir, cr3)
           /\ \E r : /\ r \in Stack /\ r # <<>> /\ StackOK(r) /\ Work(r) = Last(r) /\ ~External(Last(r))
                     /\ Work(r).at = a /\ Work(r).pd = Last(s).pd
                     /\ frames' = [frames EXCEPT ![current] = r]
                     /\ SpaceOK(r, NoDir)
<1>1. /\ s \in Stack /\ s # <<>> /\ StackOK(s) /\ current \in KThread
      /\ SpaceOK(s, pagedir[current]) /\ ActiveOK(s, pagedir[current], cr3)
      /\ Claims(s, pagedir[current]) \subseteq dirs
      /\ current = Idle => Work(s).at \in {"kernel", "resume"}
  BY Running
<1>2. ~External(Last(s))
  <2>1. Unmaking \cap ExternalAt = {}  BY DEF ExternalAt, Unmaking
  <2> QED  BY <1>1, <2>1, Below
<1>3. Work(s) = Last(s) /\ Last(s) \in Frame
  <2>1. Last(s) \in Frame  BY <1>1, Parts
  <2> QED  BY <1>2, <2>1 DEF Work
<1>4. pagedir[current] = NoDir /\ Last(s).pd # NoDir  BY <1>1, <1>3 DEF SpaceOK
<1>5. Last(s).pd \in Dir  BY <1>3, <1>4 DEF Frame
<1>6. Claims(s, NoDir) = {Last(s).pd}  BY <1>1, <1>3 DEF Claims
<1>7. current # Idle  BY <1>1, <1>3 DEF Unmaking
<1>8. a \in OwnAt /\ a \notin AtBottom  BY DEF OwnAt, At, AtBottom
<1>9. PICK r : r = MovedTo(s, a)  OBVIOUS
<1>10. /\ r \in Stack /\ r # <<>> /\ StackOK(r)
       /\ Last(r) = [Last(s) EXCEPT !.at = a] /\ Work(r) = Last(r) /\ ~External(Last(r))
  BY <1>1, <1>2, <1>8, <1>9, MovesOwn
<1>11. Work(r).at = a /\ Work(r).pd = Last(s).pd  BY <1>3, <1>10 DEF Frame
<1>12. frames' = [frames EXCEPT ![current] = r]  BY <1>9 DEF Moved, MovedTo
<1>13. SpaceOK(r, NoDir)  BY <1>4, <1>8, <1>11 DEF SpaceOK, Leaving
<1> QED  BY <1>1, <1>2, <1>3, <1>4, <1>5, <1>6, <1>7, <1>10, <1>11, <1>12, <1>13

\* A step of a thread that leaves a directory, of which SpaceOK and ActiveOK are known.
LEMMA UnmakesOn ==
    ASSUME MInv, NEW s, s = frames[current], s # <<>>, ~External(Last(s)), current \in KThread,
           NEW r \in Stack, r # <<>>, StackOK(r), ~External(Last(r)),
           frames' = [frames EXCEPT ![current] = r], SpaceOK(r, NoDir), ActiveOK(r, NoDir, cr3'),
           pagedir[current] = NoDir, current # Idle, Claims(r, NoDir) \subseteq Claims(s, NoDir),
           dirs' = dirs \/ (dirs' = dirs \ Claims(s, NoDir) /\ Claims(r, NoDir) = {}),
           UNCHANGED <<current, intr, esp0, pagedir, sched, external, pic>>
    PROVE  MInv'
<1>1. frames \in [KThread -> Stack] /\ pagedir \in [KThread -> Dir \cup {NoDir}] /\ dirs \subseteq Dir
  BY DEF MInv, MTypeOK
<1>2. /\ frames'[current] = r /\ pagedir'[current] = NoDir
      /\ \A t \in KThread : t # current => frames'[t] = frames[t] /\ pagedir'[t] = pagedir[t]
  BY <1>1
<1>3. MTypeOK'
  <2>1. frames' \in [KThread -> Stack] /\ pagedir' \in [KThread -> Dir \cup {NoDir}] /\ dirs' \subseteq Dir
    BY <1>1
  <2> QED  BY <2>1 DEF MInv, MTypeOK, pic, external, sched
<1>4. ExternalOK(r, intr', in_external_intr', isr')
  <2>1. in_external_intr' = in_external_intr /\ isr' = isr  BY DEF external, pic
  <2>2. ExternalOK(r, intr', in_external_intr, isr)  BY StillNone
  <2> QED  BY <2>1, <2>2
<1>5. \A t \in KThread : t # current =>
         /\ frames'[t] = frames[t] /\ pagedir'[t] = pagedir[t]
         /\ Claims(frames[t], pagedir[t]) \subseteq dirs'
         /\ Claims(r, NoDir) \cap Claims(frames[t], pagedir[t]) = {}
  <2> SUFFICES ASSUME NEW t \in KThread, t # current
               PROVE  /\ frames'[t] = frames[t] /\ pagedir'[t] = pagedir[t]
                      /\ Claims(frames[t], pagedir[t]) \subseteq dirs'
                      /\ Claims(r, NoDir) \cap Claims(frames[t], pagedir[t]) = {}
    OBVIOUS
  <2>1. /\ Claims(frames[t], pagedir[t]) \subseteq dirs
        /\ Claims(frames[t], pagedir[t]) \cap Claims(s, NoDir) = {}
    BY Others
  <2> QED  BY <1>2, <2>1
<1>6. Claims(r, NoDir) \subseteq dirs'
  <2>1. Claims(s, NoDir) \subseteq dirs  BY Running
  <2> QED  BY <2>1
<1>7. Steady  BY DEF sched, Steady
<1>8. current = Idle => Work(r).at \in {"kernel", "resume"} /\ NoDir = NoDir  OBVIOUS
<1>9. r # <<>> /\ StackOK(r) /\ SpaceOK(r, NoDir) /\ ActiveOK(r, NoDir, cr3')  OBVIOUS
<1>10. Fits(r, NoDir)  BY ONLY <1>2, <1>4, <1>6, <1>8, <1>9 DEF Fits
<1>11. OthersStay(r, NoDir)  BY ONLY <1>5 DEF OthersStay
<1> QED  BY ONLY MInv, <1>3, <1>7, <1>10, <1>11, GoesOn

\* The initial directory is active before the thread's own is destroyed.
LEMMA ExitActivateKeeps == ASSUME MInv, ExitActivate PROVE MInv'
<1>1. PICK s : s = frames[current]  OBVIOUS
<1>2. /\ Now("exit_activate") /\ cr3' = InitDir /\ frames' = Moved(current, "exit_destroy")
      /\ UNCHANGED <<current, intr, esp0, pagedir, dirs, sched, external, pic, ticks>>
  BY DEF ExitActivate, Goto
<1>3. Last(s).at = "exit_activate"  BY <1>1, <1>2 DEF Now, Top
<1>4. Last(s).at \in Unmaking  BY <1>3 DEF Unmaking
<1>5. PICK a \in {"exit_destroy", "exit"} : a = "exit_destroy"  OBVIOUS
<1>6. frames' = Moved(current, a)  BY <1>2, <1>5
<1>7. /\ s # <<>> /\ ~External(Last(s)) /\ current \in KThread
      /\ pagedir[current] = NoDir /\ Claims(s, NoDir) = {Last(s).pd} /\ current # Idle
      /\ \E r : /\ r \in Stack /\ r # <<>> /\ StackOK(r) /\ Work(r) = Last(r) /\ ~External(Last(r))
                /\ Work(r).at = a /\ Work(r).pd = Last(s).pd
                /\ frames' = [frames EXCEPT ![current] = r]
                /\ SpaceOK(r, NoDir)
  BY ONLY MInv, <1>1, <1>4, <1>6, Unmakes
<1>8. PICK r : /\ r \in Stack /\ r # <<>> /\ StackOK(r) /\ Work(r) = Last(r) /\ ~External(Last(r))
               /\ Work(r).at = a /\ Work(r).pd = Last(s).pd
               /\ frames' = [frames EXCEPT ![current] = r]
               /\ SpaceOK(r, NoDir)
  BY <1>7
<1>9. Claims(r, NoDir) \subseteq Claims(s, NoDir)  BY <1>7, <1>8 DEF Claims
<1>10. ActiveOK(r, NoDir, cr3')  BY <1>2 DEF ActiveOK, ActiveDir
<1>11. UNCHANGED <<current, intr, esp0, pagedir, sched, external, pic>> /\ dirs' = dirs  BY <1>2
<1> QED  BY ONLY MInv, <1>1, <1>7, <1>8, <1>9, <1>10, <1>11, UnmakesOn

\* The directory that is destroyed is nobody's, and not the active one.
LEMMA ExitDestroyKeeps == ASSUME MInv, ExitDestroy PROVE MInv'
<1>1. PICK s : s = frames[current]  OBVIOUS
<1>2. /\ Now("exit_destroy") /\ dirs' = dirs \ {Last(s).pd} /\ frames' = Moved(current, "exit")
      /\ UNCHANGED <<current, intr, cr3, esp0, pagedir, sched, external, pic, ticks>>
  BY <1>1 DEF ExitDestroy, Goto, Top
<1>3. Last(s).at = "exit_destroy"  BY <1>1, <1>2 DEF Now, Top
<1>4. Last(s).at \in Unmaking  BY <1>3 DEF Unmaking
<1>5. PICK a \in {"exit_destroy", "exit"} : a = "exit"  OBVIOUS
<1>6. frames' = Moved(current, a)  BY <1>2, <1>5
<1>7. /\ s # <<>> /\ ~External(Last(s)) /\ Work(s) = Last(s) /\ current \in KThread
      /\ pagedir[current] = NoDir /\ Claims(s, NoDir) = {Last(s).pd} /\ current # Idle
      /\ ActiveOK(s, NoDir, cr3)
      /\ \E r : /\ r \in Stack /\ r # <<>> /\ StackOK(r) /\ Work(r) = Last(r) /\ ~External(Last(r))
                /\ Work(r).at = a /\ Work(r).pd = Last(s).pd
                /\ frames' = [frames EXCEPT ![current] = r]
                /\ SpaceOK(r, NoDir)
  BY ONLY MInv, <1>1, <1>4, <1>6, Unmakes
<1>8. PICK r : /\ r \in Stack /\ r # <<>> /\ StackOK(r) /\ Work(r) = Last(r) /\ ~External(Last(r))
               /\ Work(r).at = a /\ Work(r).pd = Last(s).pd
               /\ frames' = [frames EXCEPT ![current] = r]
               /\ SpaceOK(r, NoDir)
  BY <1>7
<1>9. Claims(r, NoDir) = {}  BY <1>5, <1>8 DEF Claims, Unmaking
<1>10. ActiveOK(r, NoDir, cr3')
  <2>1. cr3 = InitDir  BY <1>3, <1>7 DEF ActiveOK, ActiveDir
  <2> QED  BY <1>2, <2>1 DEF ActiveOK, ActiveDir
<1>11. /\ UNCHANGED <<current, intr, esp0, pagedir, sched, external, pic>>
       /\ dirs' = dirs \ Claims(s, NoDir)
  BY <1>2, <1>7
<1>12. Claims(r, NoDir) \subseteq Claims(s, NoDir)  BY <1>9
<1> QED  BY ONLY MInv, <1>1, <1>7, <1>8, <1>9, <1>10, <1>11, <1>12, UnmakesOn

\* An external interrupt is a step further: what it has interrupted is as it was.
LEMMA ExternalStep ==
    ASSUME MInv, NEW s, s = frames[current], External(Last(s)), NEW a \in ExternalAt,
           frames' = Moved(current, a),
           UNCHANGED <<current, intr, space, status, ready_list, irr>>,
           in_external_intr' = (a \in {"handler", "complete"}),
           isr' \in [{0, 1} -> SUBSET (0 .. 15)],
           IF a \in {"enter", "handler", "complete"}
           THEN isr' = isr /\ Last(s).at \in {"enter", "handler", "complete"}
           ELSE isr'[0] = {} /\ isr'[1] = {}
    PROVE  MInv'
<1>1. PICK d : d = pagedir[current]  OBVIOUS
<1>2. /\ s \in Stack /\ s # <<>> /\ StackOK(s) /\ current \in KThread
      /\ SpaceOK(s, d) /\ Claims(s, d) \subseteq dirs
      /\ ActiveOK(s, d, cr3) /\ ExternalOK(s, intr, in_external_intr, isr)
      /\ current = Idle => Work(s).at \in {"kernel", "resume"} /\ d = NoDir
  BY <1>1, Running
<1>3. PICK r : r = MovedTo(s, a)  OBVIOUS
<1>4. /\ r \in Stack /\ r # <<>> /\ StackOK(r) /\ External(Last(r))
      /\ Last(r).at = a /\ Last(r).vec = Last(s).vec
      /\ Work(r) = Work(s) /\ r[1] = s[1]
  BY <1>2, <1>3, MovesExternal
<1>5. frames' = [frames EXCEPT ![current] = r]  BY <1>3 DEF Moved, MovedTo
<1>6. frames \in [KThread -> Stack]  BY DEF MInv, MTypeOK
<1>7. /\ frames'[current] = r /\ pagedir'[current] = d
      /\ \A t \in KThread : t # current => frames'[t] = frames[t] /\ pagedir'[t] = pagedir[t]
  BY <1>1, <1>2, <1>5, <1>6 DEF space
<1>8. MTypeOK'
  <2>1. frames' \in [KThread -> Stack]  BY <1>4, <1>5, <1>6
  <2>2. in_external_intr' \in BOOLEAN  OBVIOUS
  <2> QED  BY <2>1, <2>2 DEF MInv, MTypeOK, space
<1>9. SpaceOK(r, d)  BY <1>2, <1>4 DEF SpaceOK
<1>10. Claims(r, d) = Claims(s, d)  BY <1>2, <1>4 DEF Claims
<1>11. ActiveOK(r, d, cr3')  BY <1>2, <1>4 DEF ActiveOK, space
<1>12. ExternalOK(r, intr', in_external_intr', isr')
  <2>1. ~intr'  BY <1>2 DEF ExternalOK
  <2>2. in_external_intr' <=> r # <<>> /\ External(Last(r)) /\ Last(r).at \in {"handler", "complete"}
    BY <1>4
  <2>3. Handling(r) <=> a \in {"enter", "handler", "complete"}  BY <1>4 DEF Handling
  <2>4. CASE a \in {"enter", "handler", "complete"}
    <3>1. isr' = isr /\ Handling(s) /\ Handling(r)  BY <1>2, <2>3, <2>4 DEF Handling
    <3>2. Service(r, 0) = Service(s, 0) /\ Service(r, 1) = Service(s, 1)  BY <1>4, <3>1 DEF Service
    <3>3. isr[0] = Service(s, 0) /\ isr[1] = Service(s, 1)  BY <1>2 DEF ExternalOK
    <3> QED  BY <2>1, <2>2, <3>1, <3>2, <3>3 DEF ExternalOK
  <2>5. CASE a \notin {"enter", "handler", "complete"}
    <3>1. Service(r, 0) = {} /\ Service(r, 1) = {}  BY <2>3, <2>5 DEF Service
    <3> QED  BY <2>1, <2>2, <2>5, <3>1 DEF ExternalOK
  <2> QED  BY <2>4, <2>5
<1>13. Fits(r, d)
  <2>1. Claims(r, d) \subseteq dirs'  BY <1>2, <1>10 DEF space
  <2>2. current = Idle => Work(r).at \in {"kernel", "resume"} /\ d = NoDir  BY <1>2, <1>4
  <2> QED  BY ONLY <1>4, <1>7, <1>9, <1>11, <1>12, <2>1, <2>2 DEF Fits
<1>14. OthersStay(r, d)
  <2> SUFFICES ASSUME NEW t \in KThread, t # current
               PROVE  /\ frames'[t] = frames[t] /\ pagedir'[t] = pagedir[t]
                      /\ Claims(frames[t], pagedir[t]) \subseteq dirs'
                      /\ Claims(r, d) \cap Claims(frames[t], pagedir[t]) = {}
    BY DEF OthersStay
  <2>1. /\ Claims(frames[t], pagedir[t]) \subseteq dirs
        /\ Claims(frames[t], pagedir[t]) \cap Claims(s, d) = {}
    BY <1>1, Others
  <2>2. dirs' = dirs  BY DEF space
  <2> QED  BY <1>7, <1>10, <2>1, <2>2
<1>15. Steady  BY DEF Steady, space
<1> QED  BY ONLY MInv, <1>8, <1>13, <1>14, <1>15, GoesOn

\* What Enter() does: esp0 is the running thread, so it is its stack in any case.
LEMMA EnterIs ==
    ASSUME MInv, NEW vec \in 0 .. 255, Enter(vec), NEW s, s = frames[current],
           NEW f, f = Entered("enter", vec, intr, NoDir)
    PROVE  /\ current' = current /\ frames' = [frames EXCEPT ![current] = Append(s, f)]
           /\ intr' = (intr /\ ~TurnsOff(idt[vec])) /\ intr' \in BOOLEAN
           /\ f \in Frame /\ f.at = "enter" /\ f.vec = vec
<1>1. esp0 = current /\ current \in KThread  BY Running
<1>2. VectorOf[vec] = vec  BY Gates
<1>3. frames \in [KThread -> Stack] /\ intr \in BOOLEAN  BY DEF MInv, MTypeOK
<1>4. PICK t : t = IF InUser /\ Base(gdt[SEL_TSS \div 8]) = TssAddress THEN esp0 ELSE current  OBVIOUS
<1>5. t = current  BY <1>1, <1>4
<1>6. /\ current' = t /\ frames' = [frames EXCEPT ![t] = Append(@, Entered("enter", VectorOf[vec], intr, NoDir))]
      /\ intr' = (intr /\ ~TurnsOff(idt[vec]))
  BY <1>4, Zenon DEF Enter
<1>7. Entered("enter", VectorOf[vec], intr, NoDir) = f  BY <1>2
<1>8. frames' = [frames EXCEPT ![current] = Append(s, f)]  BY <1>3, <1>5, <1>6, <1>7
<1>9. f \in Frame /\ f.at = "enter" /\ f.vec = vec  BY <1>3 DEF Frame, At, Entered
<1> QED  BY <1>5, <1>6, <1>8, <1>9

\* What comes on top of the work of the running thread, if the controllers are as they should be.
LEMMA EnterKeeps ==
    ASSUME MInv, NEW vec \in 0 .. 255, Enter(vec), NEW s, s = frames[current], ~External(Last(s)),
           UNCHANGED <<space, status, ready_list, in_external_intr>>,
           irr' \subseteq Irq, isr' \in [{0, 1} -> SUBSET (0 .. 15)],
           NEW f, f = Entered("enter", vec, intr, NoDir),
           NEW r, r = Append(s, f),
           IF External(f)
           THEN TurnsOff(idt[vec]) /\ isr'[0] = Service(r, 0) /\ isr'[1] = Service(r, 1)
           ELSE /\ Last(s).at \in {"user", "kernel"} /\ current # Idle
                /\ vec = SYSCALL => Last(s).at = "user"
                /\ isr' = isr
    PROVE  MInv'
<1>1. PICK d : d = pagedir[current]  OBVIOUS
<1>2. /\ s \in Stack /\ s # <<>> /\ StackOK(s) /\ current \in KThread
      /\ SpaceOK(s, d) /\ Claims(s, d) \subseteq dirs /\ ActiveOK(s, d, cr3)
      /\ current = Idle => Work(s).at \in {"kernel", "resume"} /\ d = NoDir
  BY <1>1, Running
<1>3. /\ current' = current /\ frames' = [frames EXCEPT ![current] = r]
      /\ intr' = (intr /\ ~TurnsOff(idt[vec])) /\ intr' \in BOOLEAN
      /\ f \in Frame /\ f.at = "enter" /\ f.vec = vec
  <2>1. /\ vec \in 0 .. 255 /\ Enter(vec) /\ s = frames[current]
        /\ f = Entered("enter", vec, intr, NoDir)
    BY SMT
  <2>2. /\ current' = current /\ frames' = [frames EXCEPT ![current] = Append(s, f)]
        /\ intr' = (intr /\ ~TurnsOff(idt[vec])) /\ intr' \in BOOLEAN
        /\ f \in Frame /\ f.at = "enter" /\ f.vec = vec
    BY ONLY MInv, <2>1, EnterIs
  <2> QED  BY <2>2
<1>4. External(f) \/ Last(s).at \in {"user", "kernel"}  OBVIOUS
<1>5. f.vec = SYSCALL => Last(s).at = "user"
  <2>1. vec = SYSCALL => ~External(f)  BY <1>3, Vectors DEF External
  <2> QED  BY <1>3, <2>1
<1>6. /\ r \in Stack /\ r # <<>> /\ StackOK(r) /\ Last(r) = f /\ r[1] = s[1]
      /\ External(f) => Work(r) = Work(s)
      /\ ~External(f) => Work(r) = f
  <2>1. ~External(Last(s)) /\ r = Append(s, f)  OBVIOUS
  <2>2. s \in Stack /\ s # <<>> /\ StackOK(s) /\ f \in Frame /\ f.at = "enter"  BY <1>2, <1>3
  <2> QED  BY ONLY <1>4, <1>5, <2>1, <2>2, Enters
<1>7. frames \in [KThread -> Stack]  BY DEF MInv, MTypeOK
<1>8. /\ frames'[current] = r /\ pagedir'[current] = d
      /\ \A t \in KThread : t # current => frames'[t] = frames[t] /\ pagedir'[t] = pagedir[t]
  BY <1>1, <1>2, <1>3, <1>7 DEF space
<1>9. MTypeOK'
  <2>1. frames' \in [KThread -> Stack]  BY <1>3, <1>6, <1>7
  <2> QED  BY <1>3, <2>1 DEF MInv, MTypeOK, space
<1>10. Work(s) = Last(s)  BY DEF Work
<1>11. SpaceOK(r, d)
  <2>1. CASE External(f)  BY <1>2, <1>6, <2>1 DEF SpaceOK
  <2>2. CASE ~External(f)
    <3>1. Work(r).at = "enter"  BY <1>3, <1>6, <2>2
    <3>2. r[1].at = "user" => d # NoDir  BY <1>2, <1>6, <1>10, <2>2 DEF SpaceOK, Leaving
    <3> QED  BY <3>1, <3>2 DEF SpaceOK, AtBottom, Unmaking
  <2> QED  BY <2>1, <2>2
<1>12. Claims(r, d) \subseteq Claims(s, d)
  <2>1. CASE External(f)  BY <1>2, <1>6, <2>1 DEF Claims
  <2>2. CASE ~External(f)
    <3>1. Work(r).at = "enter"  BY <1>3, <1>6, <2>2
    <3> QED  BY <3>1 DEF Claims, Unmaking
  <2> QED  BY <2>1, <2>2
<1>13. ActiveOK(r, d, cr3')
  <2>0. cr3' = cr3  BY DEF space
  <2>1. CASE External(f)  BY <1>2, <1>6, <2>0, <2>1 DEF ActiveOK
  <2>2. CASE ~External(f)
    <3>1. cr3 = ActiveDir(d)  BY <1>2, <1>10, <2>2 DEF ActiveOK
    <3> QED  BY <2>0, <3>1 DEF ActiveOK
  <2> QED  BY <2>1, <2>2
<1>14. ExternalOK(r, intr', in_external_intr', isr')
  <2>1. in_external_intr = FALSE /\ isr[0] = {} /\ isr[1] = {}  BY <1>2, NoneInService
  <2>2. External(f) => ~intr'  BY <1>3
  <2>3. in_external_intr' <=> r # <<>> /\ External(Last(r)) /\ Last(r).at \in {"handler", "complete"}
    BY <1>3, <1>6, <2>1
  <2>4. ~External(f) => Service(r, 0) = {} /\ Service(r, 1) = {}  BY <1>6 DEF Service, Handling
  <2>5. isr'[0] = Service(r, 0) /\ isr'[1] = Service(r, 1)
    <3>1. CASE External(f)  BY <3>1
    <3>2. CASE ~External(f)  BY <2>1, <2>4, <3>2
    <3> QED  BY <3>1, <3>2
  <2> QED  BY <1>6, <2>2, <2>3, <2>5 DEF ExternalOK
<1>15. Fits(r, d)
  <2>1. Claims(r, d) \subseteq dirs'  BY <1>2, <1>12 DEF space
  <2>2. current = Idle => Work(r).at \in {"kernel", "resume"} /\ d = NoDir  BY <1>2, <1>6
  <2> QED  BY ONLY <1>6, <1>8, <1>11, <1>13, <1>14, <2>1, <2>2 DEF Fits
<1>16. OthersStay(r, d)
  <2> SUFFICES ASSUME NEW t \in KThread, t # current
               PROVE  /\ frames'[t] = frames[t] /\ pagedir'[t] = pagedir[t]
                      /\ Claims(frames[t], pagedir[t]) \subseteq dirs'
                      /\ Claims(r, d) \cap Claims(frames[t], pagedir[t]) = {}
    BY DEF OthersStay
  <2>1. /\ Claims(frames[t], pagedir[t]) \subseteq dirs
        /\ Claims(frames[t], pagedir[t]) \cap Claims(s, d) = {}
    BY <1>1, Others
  <2>2. dirs' = dirs  BY DEF space
  <2> QED  BY <1>8, <1>12, <2>1, <2>2
<1>17. Steady  BY <1>3 DEF Steady, space
<1> QED  BY ONLY MInv, <1>9, <1>15, <1>16, <1>17, GoesOn

\* What is over is taken off, and what is below goes on where it was.
LEMMA IretKeeps == ASSUME MInv, Iret PROVE MInv'
<1>1. PICK s : s = frames[current]  OBVIOUS
<1>2. PICK d : d = pagedir[current]  OBVIOUS
<1>3. /\ s \in Stack /\ s # <<>> /\ StackOK(s) /\ current \in KThread
      /\ SpaceOK(s, d) /\ Claims(s, d) \subseteq dirs /\ ActiveOK(s, d, cr3)
      /\ ExternalOK(s, intr, in_external_intr, isr)
      /\ current = Idle => Work(s).at \in {"kernel", "resume"} /\ d = NoDir
  BY <1>1, <1>2, Running
<1>4. /\ Last(s).at = "iret" \/ (Last(s).at = "kernel" /\ Last(s).vec = SYSCALL)
      /\ intr' = Last(s).flag
      /\ UNCHANGED <<current, space, sched, external, pic, ticks>>
  BY <1>1 DEF Iret, Now, Top
<1>5. PICK r : r = Front(s)  OBVIOUS
<1>6. frames \in [KThread -> Stack]  BY DEF MInv, MTypeOK
<1>7. frames' = [frames EXCEPT ![current] = r]
  <2>1. frames' = [frames EXCEPT ![current] = Front(@)]  BY DEF Iret
  <2> QED  BY <1>1, <1>3, <1>5, <1>6, <2>1
<1>8. /\ Last(s).at = "iret" => External(Last(s)) /\ Len(s) >= 2
      /\ Last(s).at # "iret" => ~External(Last(s)) /\ Len(s) = 2 /\ s[1].at = "user"
  <2>1. "iret" \notin OwnAt  BY DEF OwnAt
  <2> QED  BY <1>3, <1>4, <2>1, Below
<1>9. /\ r \in Stack /\ r # <<>> /\ StackOK(r) /\ r[1] = s[1]
      /\ Last(r) = s[Len(s) - 1] /\ ~External(Last(r)) /\ Work(r) = s[Len(s) - 1]
  <2>1. Len(s) >= 2
    <3>1. CASE Last(s).at = "iret"  BY <1>8, <3>1
    <3>2. CASE Last(s).at # "iret"  BY <1>8, <3>2
    <3> QED  BY <3>1, <3>2
  <2> QED  BY ONLY <1>3, <1>5, <2>1, Leaves
<1>10. intr' \in BOOLEAN
  <2>1. Last(s) \in Frame  BY <1>3, Parts
  <2> QED  BY <1>4, <2>1 DEF Frame
<1>11. /\ frames'[current] = r /\ pagedir'[current] = d
       /\ \A t \in KThread : t # current => frames'[t] = frames[t] /\ pagedir'[t] = pagedir[t]
  BY <1>2, <1>3, <1>4, <1>6, <1>7 DEF space
<1>12. MTypeOK'
  <2>1. frames' \in [KThread -> Stack]  BY <1>6, <1>7, <1>9
  <2> QED  BY <1>4, <1>10, <2>1 DEF MInv, MTypeOK, space, sched, external, pic
<1>13. Last(s).at = "iret" => Work(r) = Work(s)  BY <1>8, <1>9 DEF Work
<1>14. Last(s).at # "iret" => Work(r).at = "user" /\ d # NoDir /\ cr3 = ActiveDir(d)
  <2> SUFFICES ASSUME Last(s).at # "iret"
               PROVE  Work(r).at = "user" /\ d # NoDir /\ cr3 = ActiveDir(d)
    OBVIOUS
  <2>1. Work(s) = Last(s) /\ Last(s).at = "kernel"  BY <1>4, <1>8 DEF Work
  <2>2. d # NoDir  BY <1>3, <1>8, <2>1 DEF SpaceOK, Leaving
  <2>3. cr3 = ActiveDir(d)  BY <1>3, <2>1 DEF ActiveOK
  <2>4. Len(s) - 1 = 1  BY <1>8
  <2> QED  BY <1>8, <1>9, <2>2, <2>3, <2>4
<1>15. SpaceOK(r, d)
  <2>1. CASE Last(s).at = "iret"  BY <1>3, <1>9, <1>13, <2>1 DEF SpaceOK
  <2>2. CASE Last(s).at # "iret"  BY <1>14, <2>2 DEF SpaceOK, Unmaking
  <2> QED  BY <2>1, <2>2
<1>16. Claims(r, d) \subseteq Claims(s, d)
  <2>1. CASE Last(s).at = "iret"  BY <1>3, <1>9, <1>13, <2>1 DEF Claims
  <2>2. CASE Last(s).at # "iret"  BY <1>14, <2>2 DEF Claims, Unmaking
  <2> QED  BY <2>1, <2>2
<1>17. ActiveOK(r, d, cr3')
  <2>0. cr3' = cr3  BY <1>4 DEF space
  <2>1. CASE Last(s).at = "iret"  BY <1>3, <1>9, <1>13, <2>0, <2>1 DEF ActiveOK
  <2>2. CASE Last(s).at # "iret"  BY <1>14, <2>0, <2>2 DEF ActiveOK
  <2> QED  BY <2>1, <2>2
<1>18. ExternalOK(r, intr', in_external_intr', isr')
  <2>1. ~Handling(s)  BY <1>4 DEF Handling
  <2>2. in_external_intr' = FALSE
    <3>1. in_external_intr = FALSE  BY <1>3, <1>4 DEF ExternalOK, MInv, MTypeOK
    <3> QED  BY <1>4, <3>1 DEF external
  <2>3. isr'[0] = {} /\ isr'[1] = {}  BY <1>3, <1>4, <2>1 DEF ExternalOK, Service, pic
  <2>4. ~Handling(r)  BY <1>9 DEF Handling
  <2> QED  BY <1>9, <2>2, <2>3, <2>4 DEF ExternalOK, Service
<1>19. Fits(r, d)
  <2>1. Claims(r, d) \subseteq dirs'  BY <1>3, <1>4, <1>16 DEF space
  <2>2. current = Idle => Work(r).at \in {"kernel", "resume"} /\ d = NoDir
    <3>1. CASE Last(s).at = "iret"  BY <1>3, <1>13, <3>1
    <3>2. CASE Last(s).at # "iret"  BY <1>3, <1>14, <3>2
    <3> QED  BY <3>1, <3>2
  <2> QED  BY ONLY <1>9, <1>11, <1>15, <1>17, <1>18, <2>1, <2>2 DEF Fits
<1>20. OthersStay(r, d)
  <2> SUFFICES ASSUME NEW t \in KThread, t # current
               PROVE  /\ frames'[t] = frames[t] /\ pagedir'[t] = pagedir[t]
                      /\ Claims(frames[t], pagedir[t]) \subseteq dirs'
                      /\ Claims(r, d) \cap Claims(frames[t], pagedir[t]) = {}
    BY DEF OthersStay
  <2>1. /\ Claims(frames[t], pagedir[t]) \subseteq dirs
        /\ Claims(frames[t], pagedir[t]) \cap Claims(s, d) = {}
    BY <1>1, <1>2, Others
  <2>2. dirs' = dirs  BY <1>4 DEF space
  <2> QED  BY <1>11, <1>16, <2>1, <2>2
<1>21. Steady  BY <1>4 DEF Steady, space, sched
<1> QED  BY ONLY MInv, <1>12, <1>19, <1>20, <1>21, GoesOn

-----------------------------------------------------------------------------
(* Switches from thread to thread.                                          *)

\* The list that schedule() takes the next thread from: the threads that are
\* ready, and the running one behind them if it gives way.
QueueOK(q, st) ==
    /\ q \in Seq(KThread)
    /\ \A i \in 1 .. Len(q) :
         /\ IF q[i] = current THEN st = "ready"
            ELSE status[q[i]] = "ready" /\ frames[q[i]] # <<>>
         /\ \A j \in 1 .. Len(q) : q[i] = q[j] => i = j

\* The running thread leaves its own work at r, with no interrupt in service.
LeavesAt(f, r, st) ==
    /\ f = [frames EXCEPT ![current] = r]
    /\ r \in Stack /\ r # <<>> /\ StackOK(r) /\ SpaceOK(r, pagedir[current]) /\ ~Handling(r)
    /\ Claims(r, pagedir[current]) \subseteq Claims(frames[current], pagedir[current])
    /\ in_external_intr = FALSE /\ isr[0] = {} /\ isr[1] = {}
    /\ current = Idle => Work(r).at \in {"kernel", "resume"} /\ st # "dying"
    /\ st \in {"ready", "blocked", "dying"}

\* The ready list itself is one to take the next thread from.
LEMMA ReadyList ==
    ASSUME MInv, NEW st
    PROVE  /\ QueueOK(ready_list, st)
           /\ \A i \in 1 .. Len(ready_list) : ready_list[i] # current
<1>1. ready_list \in Seq(KThread)  BY DEF MInv, MTypeOK
<1>2. status[current] = "running"  BY Running
<1>3. \A i \in 1 .. Len(ready_list) :
        /\ status[ready_list[i]] = "ready" /\ frames[ready_list[i]] # <<>>
        /\ \A j \in 1 .. Len(ready_list) : ready_list[i] = ready_list[j] => i = j
  BY DEF MInv, ReadyThreads
<1>4. \A i \in 1 .. Len(ready_list) : ready_list[i] # current  BY <1>2, <1>3
<1> QED  BY <1>1, <1>3, <1>4 DEF QueueOK

\* And so is that list with the running thread behind it.
LEMMA ReadyAgain ==
    ASSUME MInv
    PROVE  QueueOK(Append(ready_list, current), "ready")
<1>1. /\ ready_list \in Seq(KThread) /\ current \in KThread  BY DEF MInv, MTypeOK
<1>2. PICK q : q = Append(ready_list, current)  OBVIOUS
<1>3. PICK n : n = Len(ready_list)  OBVIOUS
<1>4. n \in Nat  BY <1>1, <1>3, LenProperties
<1>5. q \in Seq(KThread) /\ Len(q) = n + 1 /\ q[n + 1] = current /\ \A i \in 1 .. n : q[i] = ready_list[i]
  BY <1>1, <1>2, <1>3, AppendProperties
<1>6. \A i \in 1 .. n : ready_list[i] # current  BY <1>3, ReadyList
<1>7. \A i \in 1 .. n : /\ status[ready_list[i]] = "ready" /\ frames[ready_list[i]] # <<>>
                        /\ \A j \in 1 .. n : ready_list[i] = ready_list[j] => i = j
  BY <1>3 DEF MInv, ReadyThreads
<1>8. ASSUME NEW i \in 1 .. n + 1
      PROVE  /\ IF q[i] = current THEN "ready" = "ready"
                ELSE status[q[i]] = "ready" /\ frames[q[i]] # <<>>
             /\ \A j \in 1 .. n + 1 : q[i] = q[j] => i = j
  <2>1. CASE i = n + 1
    <3>1. \A j \in 1 .. n + 1 : j # n + 1 => j \in 1 .. n  BY <1>4
    <3> QED  BY <1>5, <1>6, <2>1, <3>1
  <2>2. CASE i # n + 1
    <3>1. i \in 1 .. n /\ \A j \in 1 .. n + 1 : j # n + 1 => j \in 1 .. n  BY <1>4, <2>2
    <3> QED  BY <1>5, <1>6, <1>7, <3>1
  <2> QED  BY <2>1, <2>2
<1> QED  BY <1>2, <1>5, <1>8 DEF QueueOK

\* schedule() and thread_schedule_tail(): the next thread runs, in its own space.
LEMMA Switches ==
    ASSUME MInv, NEW st, NEW q, NEW f, NEW r, SwitchFrom(st, q, f), QueueOK(q, st), LeavesAt(f, r, st),
           intr' = FALSE, UNCHANGED <<external, pic>>
    PROVE  MInv'
<1>1. PICK next : next = IF q = <<>> THEN Idle ELSE Head(q)  OBVIOUS
<1>2. PICK dead \in BOOLEAN : dead <=> st = "dying" /\ current # Initial  OBVIOUS
<1>3. /\ current' = next
      /\ ready_list' = IF q = <<>> THEN q ELSE Tail(q)
      /\ status' = [status EXCEPT ![current] = IF dead THEN "none" ELSE st, ![next] = "running"]
      /\ frames' = IF dead THEN [f EXCEPT ![current] = <<>>] ELSE f
      /\ cr3' = ActiveDir(pagedir[next]) /\ esp0' = next
      /\ pagedir' = pagedir /\ dirs' = dirs
  BY <1>1, <1>2 DEF SwitchFrom, process_activate, ActiveDir
<1>4. /\ current \in KThread /\ frames \in [KThread -> Stack] /\ dirs \subseteq Dir
      /\ status \in [KThread -> {"none", "ready", "running", "blocked", "dying"}]
  BY DEF MInv, MTypeOK
<1>5. /\ q \in Seq(KThread) /\ Len(q) \in Nat /\ \A i \in 1 .. Len(q) : q[i] \in KThread
      /\ \A i \in 1 .. Len(q) :
         /\ IF q[i] = current THEN st = "ready"
            ELSE status[q[i]] = "ready" /\ frames[q[i]] # <<>>
         /\ \A j \in 1 .. Len(q) : q[i] = q[j] => i = j
  <2>1. q \in Seq(KThread)  BY DEF QueueOK
  <2>2. Len(q) \in Nat /\ \A i \in 1 .. Len(q) : q[i] \in KThread  BY <2>1, LenProperties, ElementOfSeq
  <2> QED  BY <2>1, <2>2 DEF QueueOK
<1>6. /\ f = [frames EXCEPT ![current] = r]
      /\ r \in Stack /\ r # <<>> /\ StackOK(r) /\ SpaceOK(r, pagedir[current]) /\ ~Handling(r)
      /\ Claims(r, pagedir[current]) \subseteq Claims(frames[current], pagedir[current])
      /\ in_external_intr = FALSE /\ isr[0] = {} /\ isr[1] = {}
      /\ current = Idle => Work(r).at \in {"kernel", "resume"} /\ st # "dying"
      /\ st \in {"ready", "blocked", "dying"}
  BY DEF LeavesAt
<1>7. q # <<>> => Len(q) > 0 /\ Head(q) = q[1] /\ 1 \in 1 .. Len(q)
  BY <1>5, EmptySeq, HeadTailProperties
<1>8. next \in KThread
  <2>1. CASE q = <<>>  BY <1>1, <2>1, Constants
  <2>2. CASE q # <<>>  BY <1>1, <1>5, <1>7, <2>2
  <2> QED  BY <2>1, <2>2
<1>9. /\ frames'[current] = IF dead THEN <<>> ELSE r
      /\ \A t \in KThread : t # current => frames'[t] = frames[t]
      /\ frames' \in [KThread -> Stack]
  <2>1. <<>> \in Stack  BY EmptySeq DEF Stack
  <2>2. f \in [KThread -> Stack] /\ f[current] = r /\ \A t \in KThread : t # current => f[t] = frames[t]
    BY <1>4, <1>6
  <2>3. CASE dead  BY <1>3, <1>4, <2>1, <2>2, <2>3
  <2>4. CASE ~dead  BY <1>3, <2>2, <2>4
  <2> QED  BY <2>3, <2>4
<1>10. /\ status' \in [KThread -> {"none", "ready", "running", "blocked", "dying"}]
       /\ status'[next] = "running"
       /\ current # next => status'[current] = IF dead THEN "none" ELSE st
       /\ \A t \in KThread : t # current /\ t # next => status'[t] = status[t]
  BY <1>3, <1>4, <1>6, <1>8
<1>11. ready_list' \in Seq(KThread)
  <2>1. CASE q = <<>>  BY <1>3, <1>5, <2>1
  <2>2. CASE q # <<>>  BY <1>3, <1>5, <2>2, HeadTailProperties
  <2> QED  BY <2>1, <2>2
<1>12. MTypeOK'
  <2>1. intr' \in BOOLEAN  OBVIOUS
  <2> QED  BY <1>3, <1>8, <1>9, <1>10, <1>11, <2>1 DEF MInv, MTypeOK, external, pic
<1>13. ASSUME NEW t \in KThread
       PROVE  /\ StackOK(frames'[t]) /\ SpaceOK(frames'[t], pagedir[t]) /\ ~Handling(frames'[t])
              /\ Claims(frames'[t], pagedir[t]) \subseteq Claims(frames[t], pagedir[t])
  <2>1. CASE t # current
    <3>1. StackOK(frames[t]) /\ SpaceOK(frames[t], pagedir[t]) /\ ~Handling(frames[t])  BY <2>1, Others
    <3> QED  BY <1>9, <2>1, <3>1
  <2>2. CASE t = current /\ ~dead
    <3>1. frames'[t] = r  BY <1>9, <2>2
    <3> QED  BY ONLY <1>6, <2>2, <3>1
  <2>3. CASE t = current /\ dead
    <3>1. frames'[t] = <<>>  BY <1>9, <2>3
    <3>2. Claims(<<>>, pagedir[t]) = {pagedir[t]} \ {NoDir}  BY DEF Claims
    <3> QED  BY <3>1, <3>2 DEF StackOK, SpaceOK, Handling, Claims
  <2> QED  BY <2>1, <2>2, <2>3
<1>14. EveryThread'
  <2>1. \A t \in KThread : Claims(frames[t], pagedir[t]) \subseteq dirs  BY DEF MInv, EveryThread
  <2> QED  BY <1>3, <1>13, <2>1 DEF EveryThread
<1>15. Apart'
  <2> SUFFICES ASSUME NEW t \in KThread, NEW u \in KThread, t # u
               PROVE  Claims(frames'[t], pagedir[t]) \cap Claims(frames'[u], pagedir[u]) = {}
    BY <1>3 DEF Apart
  <2>1. Claims(frames[t], pagedir[t]) \cap Claims(frames[u], pagedir[u]) = {}  BY DEF MInv, Apart
  <2>2. /\ Claims(frames'[t], pagedir[t]) \subseteq Claims(frames[t], pagedir[t])
        /\ Claims(frames'[u], pagedir[u]) \subseteq Claims(frames[u], pagedir[u])
    BY <1>13
  <2> QED  BY ONLY <2>1, <2>2
<1>16. IdleThread'
  <2>1. frames[Idle] # <<>> /\ Work(frames[Idle]).at \in {"kernel", "resume"} /\ pagedir[Idle] = NoDir
    BY DEF MInv, IdleThread
  <2>2. CASE Idle = current
    <3>1. frames'[Idle] = r  BY <1>2, <1>6, <1>9, <2>2
    <3> QED  BY <1>3, <1>6, <2>1, <2>2, <3>1 DEF IdleThread
  <2>3. CASE Idle # current
    <3>1. frames'[Idle] = frames[Idle]  BY <1>9, <2>3, Constants
    <3> QED  BY <1>3, <2>1, <3>1 DEF IdleThread
  <2> QED  BY <2>2, <2>3
<1>17. \A i \in 1 .. Len(q) : frames'[q[i]] # <<>>
  <2> SUFFICES ASSUME NEW i \in 1 .. Len(q) PROVE frames'[q[i]] # <<>>  OBVIOUS
  <2>1. CASE q[i] = current
    <3>1. st = "ready"  BY <1>5, <2>1
    <3>2. ~dead  BY <1>2, <3>1
    <3> QED  BY <1>6, <1>9, <2>1, <3>2
  <2>2. CASE q[i] # current
    <3>1. frames[q[i]] # <<>> /\ q[i] \in KThread  BY <1>5, <2>2
    <3> QED  BY <1>9, <2>2, <3>1
  <2> QED  BY <2>1, <2>2
<1>18. frames'[next] # <<>>
  <2>1. CASE q = <<>>  BY <1>1, <1>16, <2>1 DEF IdleThread
  <2>2. CASE q # <<>>  BY <1>1, <1>7, <1>17, <2>2
  <2> QED  BY <2>1, <2>2
<1>19. CurrentThread'
  <2>1. ~Handling(frames'[next])  BY <1>8, <1>13
  <2>2. ActiveOK(frames'[next], pagedir[next], cr3')  BY <1>3 DEF ActiveOK
  <2>3. ExternalOK(frames'[next], intr', in_external_intr', isr')
    <3>1. in_external_intr' = FALSE /\ isr'[0] = {} /\ isr'[1] = {}  BY <1>6 DEF external, pic
    <3> QED  BY <2>1, <3>1 DEF ExternalOK, Service, Handling
  <2> QED  BY <1>3, <1>10, <1>18, <2>2, <2>3 DEF CurrentThread
<1>20. ReadyThreads'
  <2>1. CASE q = <<>>
    <3>1. ready_list' = <<>> /\ Len(<<>>) = 0  BY <1>3, <2>1, EmptySeq
    <3> QED  BY <3>1 DEF ReadyThreads
  <2>2. CASE q # <<>>
    <3>1. PICK n : n = Len(q) - 1  OBVIOUS
    <3>2. n \in Nat /\ Len(q) = n + 1  BY <1>5, <1>7, <2>2, <3>1
    <3>3. Len(ready_list') = n /\ \A i \in 1 .. n : ready_list'[i] = q[i + 1]
      <4>1. Len(Tail(q)) = n /\ \A i \in 1 .. n : Tail(q)[i] = q[i + 1]
        BY <1>5, <2>2, <3>2, HeadTailProperties
      <4> QED  BY <1>3, <2>2, <4>1
    <3>4. \A i \in 1 .. n : i + 1 \in 1 .. Len(q) /\ i + 1 # 1  BY <3>2
    <3>5. next = q[1] /\ 1 \in 1 .. Len(q)  BY <1>1, <1>7, <2>2
    <3>6. ASSUME NEW i \in 1 .. n
          PROVE  /\ status'[q[i + 1]] = "ready" /\ frames'[q[i + 1]] # <<>>
                 /\ \A j \in 1 .. n : q[i + 1] = q[j + 1] => i = j
      <4>1. i + 1 \in 1 .. Len(q) /\ i + 1 # 1  BY <3>4
      <4>2. q[i + 1] # next  BY <1>5, <3>5, <4>1
      <4>3. frames'[q[i + 1]] # <<>>  BY <1>17, <4>1
      <4>4. \A j \in 1 .. n : q[i + 1] = q[j + 1] => i = j
        <5> SUFFICES ASSUME NEW j \in 1 .. n, q[i + 1] = q[j + 1] PROVE i = j  OBVIOUS
        <5>1. j + 1 \in 1 .. Len(q)  BY <3>4
        <5>2. i + 1 = j + 1  BY <1>5, <4>1, <5>1
        <5> QED  BY <5>2
      <4>5. status'[q[i + 1]] = "ready"
        <5>1. CASE q[i + 1] = current
          <6>1. st = "ready"  BY <1>5, <4>1, <5>1
          <6>2. ~dead  BY <1>2, <6>1
          <6> QED  BY <1>10, <4>2, <5>1, <6>1, <6>2
        <5>2. CASE q[i + 1] # current
          <6>1. status[q[i + 1]] = "ready" /\ q[i + 1] \in KThread  BY <1>5, <4>1, <5>2
          <6> QED  BY <1>10, <4>2, <5>2, <6>1
        <5> QED  BY <5>1, <5>2
      <4> QED  BY <4>3, <4>4, <4>5
    <3>7. \A i \in 1 .. n : \A j \in 1 .. n : ready_list'[i] = q[i + 1] /\ ready_list'[j] = q[j + 1]  BY <3>3
    <3> QED  BY <3>3, <3>6, <3>7 DEF ReadyThreads
  <2> QED  BY <2>1, <2>2
<1> QED  BY <1>12, <1>14, <1>15, <1>16, <1>19, <1>20 DEF MInv

\* A thread that gives way is found on the list again, but for the idle thread.
LEMMA GivesWay ==
    ASSUME MInv, NEW a, NEW r, LeavesAt(Moved(current, a), r, "ready"), thread_yield(a),
           intr' = FALSE, UNCHANGED <<external, pic>>
    PROVE  MInv'
<1>1. PICK q : q = IF current = Idle THEN ready_list ELSE Append(ready_list, current)  OBVIOUS
<1>2. PICK f : f = Moved(current, a)  OBVIOUS
<1>3. SwitchFrom("ready", q, f)  BY <1>1, <1>2 DEF thread_yield
<1>4. QueueOK(q, "ready")
  <2>1. CASE current = Idle
    <3>1. q = ready_list  BY <1>1, <2>1
    <3> QED  BY <3>1, ReadyList
  <2>2. CASE current # Idle
    <3>1. q = Append(ready_list, current)  BY <1>1, <2>2
    <3> QED  BY <3>1, ReadyAgain
  <2> QED  BY <2>1, <2>2
<1>5. LeavesAt(f, r, "ready") /\ intr' = FALSE /\ UNCHANGED <<external, pic>>  BY <1>2
<1>6. PICK st : st = "ready"  OBVIOUS
<1>7. SwitchFrom(st, q, f) /\ QueueOK(q, st) /\ LeavesAt(f, r, st)  BY <1>3, <1>4, <1>5, <1>6
<1> QED  BY ONLY MInv, <1>5, <1>7, Switches

\* A thread of the kernel leaves its work to go on with it later.
LEMMA LeavesKernel ==
    ASSUME MInv, Now("kernel"), NEW st \in {"ready", "blocked"}
    PROVE  \E r : LeavesAt(Moved(current, "resume"), r, st)
<1>1. PICK s : s = frames[current]  OBVIOUS
<1>2. PICK d : d = pagedir[current]  OBVIOUS
<1>3. /\ s \in Stack /\ s # <<>> /\ StackOK(s) /\ current \in KThread
      /\ SpaceOK(s, d) /\ Claims(s, d) \subseteq dirs
  BY <1>1, <1>2, Running
<1>4. Last(s).at = "kernel"  BY <1>1 DEF Now, Top
<1>5. ~External(Last(s))
  <2>1. "kernel" \notin ExternalAt  BY DEF ExternalAt
  <2> QED  BY <1>3, <1>4, <2>1, Below
<1>6. Work(s) = Last(s)  BY <1>5 DEF Work
<1>7. PICK a : a = "resume"  OBVIOUS
<1>8. a \in OwnAt /\ a \notin AtBottom  BY <1>7 DEF OwnAt, At, AtBottom
<1>9. PICK r : r = MovedTo(s, a)  OBVIOUS
<1>10. /\ r \in Stack /\ r # <<>> /\ StackOK(r)
       /\ Last(r) = [Last(s) EXCEPT !.at = a] /\ Work(r) = Last(r) /\ ~External(Last(r))
       /\ r[1].at = IF Len(s) = 1 THEN a ELSE s[1].at
  BY <1>3, <1>5, <1>8, <1>9, MovesOwn
<1>11. Work(r).at = "resume"
  <2>1. Last(s) \in Frame  BY <1>3, Parts
  <2> QED  BY <1>7, <1>10, <2>1 DEF Frame
<1>12. Moved(current, "resume") = [frames EXCEPT ![current] = r]  BY <1>1, <1>7, <1>9 DEF Moved, MovedTo
<1>13. SpaceOK(r, d)
  <2>1. s[1].at = "user" => d # NoDir  BY <1>3, <1>4, <1>6 DEF SpaceOK, Leaving
  <2>2. r[1].at = "user" => s[1].at = "user"  BY <1>7, <1>10
  <2> QED  BY <1>11, <2>1, <2>2 DEF SpaceOK, AtBottom, Unmaking
<1>14. ~Handling(r)  BY <1>10 DEF Handling
<1>15. Claims(r, d) \subseteq Claims(s, d)  BY <1>11 DEF Claims, Unmaking
<1>16. in_external_intr = FALSE /\ isr[0] = {} /\ isr[1] = {}  BY <1>1, <1>3, <1>5, NoneInService
<1>17. LeavesAt(Moved(current, "resume"), r, st)
  BY <1>1, <1>2, <1>10, <1>11, <1>12, <1>13, <1>14, <1>15, <1>16 DEF LeavesAt
<1> QED  BY <1>17

\* A thread leaves in the middle of an interrupt whose end the controllers know of.
LEMMA LeavesInterrupt ==
    ASSUME MInv, Now("yield")
    PROVE  \E r : LeavesAt(Moved(current, "iret"), r, "ready")
<1>1. PICK s : s = frames[current]  OBVIOUS
<1>2. PICK d : d = pagedir[current]  OBVIOUS
<1>3. /\ s \in Stack /\ s # <<>> /\ StackOK(s) /\ current \in KThread
      /\ SpaceOK(s, d) /\ Claims(s, d) \subseteq dirs
      /\ ExternalOK(s, intr, in_external_intr, isr)
      /\ current = Idle => Work(s).at \in {"kernel", "resume"}
  BY <1>1, <1>2, Running
<1>4. Last(s).at = "yield"  BY <1>1 DEF Now, Top
<1>5. External(Last(s))
  <2>1. "yield" \notin OwnAt  BY DEF OwnAt
  <2> QED  BY <1>3, <1>4, <2>1, Below
<1>6. PICK a : a = "iret"  OBVIOUS
<1>7. a \in ExternalAt  BY <1>6 DEF ExternalAt
<1>8. PICK r : r = MovedTo(s, a)  OBVIOUS
<1>9. /\ r \in Stack /\ r # <<>> /\ StackOK(r) /\ Last(r).at = a
      /\ Work(r) = Work(s) /\ r[1] = s[1]
  BY <1>3, <1>5, <1>7, <1>8, MovesExternal
<1>10. Moved(current, "iret") = [frames EXCEPT ![current] = r]  BY <1>1, <1>6, <1>8 DEF Moved, MovedTo
<1>11. SpaceOK(r, d)  BY <1>3, <1>9 DEF SpaceOK
<1>12. ~Handling(r) /\ ~Handling(s)  BY <1>4, <1>6, <1>9 DEF Handling
<1>13. Claims(r, d) = Claims(s, d)  BY <1>3, <1>9 DEF Claims
<1>14. in_external_intr = FALSE /\ isr[0] = {} /\ isr[1] = {}
  <2>1. in_external_intr \in BOOLEAN  BY DEF MInv, MTypeOK
  <2> QED  BY <1>3, <1>4, <1>12, <2>1 DEF ExternalOK, Service
<1>15. LeavesAt(Moved(current, "iret"), r, "ready")
  BY <1>1, <1>2, <1>3, <1>9, <1>10, <1>11, <1>12, <1>13, <1>14 DEF LeavesAt
<1> QED  BY <1>15

\* The end of an interrupt's handler takes its thread off, if it has had its slice.
LEMMA YieldOnReturnKeeps == ASSUME MInv, YieldOnReturn PROVE MInv'
<1>1. Now("yield") /\ thread_yield("iret") /\ intr' = FALSE /\ UNCHANGED <<external, pic>>  BY DEF YieldOnReturn
<1>2. PICK r : LeavesAt(Moved(current, "iret"), r, "ready")  BY <1>1, LeavesInterrupt
<1> QED  BY ONLY MInv, <1>1, <1>2, GivesWay

\* A thread waits.
LEMMA YieldKeeps == ASSUME MInv, Yield PROVE MInv'
<1>1. Now("kernel") /\ thread_yield("resume") /\ intr' = FALSE /\ UNCHANGED <<external, pic>>  BY DEF Yield
<1>2. PICK st \in {"ready", "blocked"} : st = "ready"  OBVIOUS
<1>3. PICK r : LeavesAt(Moved(current, "resume"), r, st)  BY <1>1, LeavesKernel
<1>4. LeavesAt(Moved(current, "resume"), r, "ready")  BY <1>2, <1>3
<1> QED  BY ONLY MInv, <1>1, <1>4, GivesWay

\* The idle thread blocks once somebody is ready.
LEMMA idleKeeps == ASSUME MInv, idle PROVE MInv'
<1>1. /\ Now("kernel") /\ current = Idle /\ SwitchFrom("blocked", ready_list, Moved(Idle, "resume"))
      /\ intr' = FALSE /\ UNCHANGED <<external, pic>>
  BY DEF idle
<1>2. PICK st \in {"ready", "blocked"} : st = "blocked"  OBVIOUS
<1>3. PICK r : LeavesAt(Moved(current, "resume"), r, st)  BY <1>1, LeavesKernel
<1>4. PICK f : f = Moved(current, "resume")  OBVIOUS
<1>5. QueueOK(ready_list, st)  BY ReadyList
<1>6. SwitchFrom(st, ready_list, f) /\ LeavesAt(f, r, st) /\ intr' = FALSE /\ UNCHANGED <<external, pic>>
  BY <1>1, <1>2, <1>3, <1>4
<1> QED  BY ONLY MInv, <1>5, <1>6, Switches

\* A thread is gone: it is in nothing, and has no directory left.
LEMMA thread_exitKeeps == ASSUME MInv, thread_exit PROVE MInv'
<1>1. PICK s : s = frames[current]  OBVIOUS
<1>2. PICK d : d = pagedir[current]  OBVIOUS
<1>3. /\ Now("exit") /\ intr' = FALSE /\ SwitchFrom("dying", ready_list, frames) /\ UNCHANGED <<external, pic>>
  BY DEF thread_exit
<1>4. /\ s \in Stack /\ s # <<>> /\ StackOK(s) /\ current \in KThread /\ SpaceOK(s, d)
      /\ current = Idle => Work(s).at \in {"kernel", "resume"}
  BY <1>1, <1>2, Running
<1>5. Last(s).at = "exit"  BY <1>1, <1>3 DEF Now, Top
<1>6. ~External(Last(s))
  <2>1. "exit" \notin ExternalAt  BY DEF ExternalAt
  <2> QED  BY <1>4, <1>5, <2>1, Below
<1>7. current # Idle  BY <1>4, <1>5, <1>6 DEF Work
<1>8. in_external_intr = FALSE /\ isr[0] = {} /\ isr[1] = {} /\ ~Handling(s)
  BY <1>1, <1>4, <1>6, NoneInService DEF Handling
<1>9. frames = [frames EXCEPT ![current] = s]  BY <1>1, <1>4 DEF MInv, MTypeOK
<1>10. LeavesAt(frames, s, "dying")
  BY <1>1, <1>2, <1>4, <1>7, <1>8, <1>9 DEF LeavesAt
<1>11. QueueOK(ready_list, "dying")  BY ReadyList
<1>12. PICK st : st = "dying"  OBVIOUS
<1>13. PICK f : f = frames  OBVIOUS
<1>14. /\ SwitchFrom(st, ready_list, f) /\ LeavesAt(f, s, st) /\ QueueOK(ready_list, st)
       /\ intr' = FALSE /\ UNCHANGED <<external, pic>>
  BY <1>3, <1>10, <1>11, <1>12, <1>13
<1> QED  BY ONLY MInv, <1>14, Switches

-----------------------------------------------------------------------------
(* The other steps.                                                         *)

\* A thread's own work goes on where nothing is done about page directories.
LEMMA OwnMoves ==
    ASSUME MInv, NEW s, s = frames[current], ~External(Last(s)), Last(s).at \notin {"load", "exit_activate"},
           NEW a \in OwnAt, a \notin AtBottom, a \notin Unmaking, Last(s).at \in Leaving => a \in Leaving,
           frames' = Moved(current, a), intr' \in BOOLEAN,
           UNCHANGED <<current, space, status, ready_list, external, pic>>,
           current = Idle => a \in {"kernel", "resume"}
    PROVE  MInv'
<1>1. PICK d : d = pagedir[current]  OBVIOUS
<1>2. /\ s # <<>> /\ SpaceOK(s, d) /\ ActiveOK(s, d, cr3)  BY <1>1, Running
<1>3. Work(s) = Last(s)  BY DEF Work
<1>4. cr3' = ActiveDir(d)  BY <1>2, <1>3 DEF ActiveOK, space
<1>5. s[1].at = "user" /\ Len(s) # 1 /\ a \notin Leaving => d # NoDir  BY <1>2, <1>3 DEF SpaceOK
<1>6. UNCHANGED <<current, esp0, pagedir, dirs, status, ready_list, external, pic>>  BY DEF space
<1>7. s = frames[current] /\ ~External(Last(s)) /\ frames' = Moved(current, a) /\ intr' \in BOOLEAN  OBVIOUS
<1>8. /\ a \in OwnAt /\ (a \in AtBottom => Len(s) = 1) /\ (a \in AtBottom => d # NoDir) /\ a \notin Unmaking
      /\ current = Idle => a \in {"kernel", "resume"}
  OBVIOUS
<1> QED  BY ONLY MInv, <1>1, <1>2, <1>4, <1>5, <1>6, <1>7, <1>8, OwnStep

\* What the innermost of the running thread is, by where it is.
LEMMA OwnTop ==
    ASSUME MInv, NEW a, Now(a), NEW s, s = frames[current]
    PROVE  /\ s \in Stack /\ s # <<>> /\ StackOK(s) /\ Last(s).at = a /\ Last(s) \in Frame
           /\ a \notin ExternalAt => ~External(Last(s)) /\ Work(s) = Last(s)
           /\ a \notin OwnAt => External(Last(s))
           /\ current = Idle /\ ~External(Last(s)) => a \in {"kernel", "resume"}
<1>1. /\ s \in Stack /\ s # <<>> /\ StackOK(s)
      /\ current = Idle => Work(s).at \in {"kernel", "resume"}
  BY Running
<1>2. Last(s).at = a /\ Last(s) \in Frame  BY <1>1, Parts DEF Now, Top
<1>3. a \notin ExternalAt => ~External(Last(s))  BY <1>1, <1>2, Below
<1>4. a \notin OwnAt => External(Last(s))  BY <1>1, <1>2, Below
<1>5. ~External(Last(s)) => Work(s) = Last(s)  BY DEF Work
<1> QED  BY <1>1, <1>2, <1>3, <1>4, <1>5

\* A step of a thread's own work, from one place to another.
LEMMA OwnGoto ==
    ASSUME MInv, NEW b \in {"kernel", "resume", "loaded", "kill", "page_fault"}, Now(b),
           NEW a \in {"kernel", "kill", "exit"}, a = "kernel" => b = "resume",
           Goto(a), intr' \in BOOLEAN, current = Idle => a = "kernel",
           UNCHANGED <<current, space, status, ready_list, external, pic>>
    PROVE  MInv'
<1>1. PICK s : s = frames[current]  OBVIOUS
<1>2. b \notin ExternalAt /\ b \notin {"load", "exit_activate"} /\ b \notin Leaving
  BY DEF ExternalAt, Leaving
<1>3. ~External(Last(s)) /\ Last(s).at = b  BY <1>1, <1>2, OwnTop
<1>4. a \in OwnAt /\ a \notin AtBottom /\ a \notin Unmaking  BY DEF OwnAt, At, AtBottom, Unmaking
<1>5. /\ frames' = Moved(current, a) /\ intr' \in BOOLEAN
      /\ UNCHANGED <<current, space, status, ready_list, external, pic>>
      /\ current = Idle => a \in {"kernel", "resume"}
  BY DEF Goto
<1>6. Last(s).at \notin {"load", "exit_activate"} /\ (Last(s).at \in Leaving => a \in Leaving)  BY <1>2, <1>3
<1> QED  BY ONLY MInv, <1>1, <1>3, <1>4, <1>5, <1>6, OwnMoves

\* An interrupt's handler is entered, or what the program asked for is begun with.
LEMMA intr_handlerKeeps == ASSUME MInv, intr_handler PROVE MInv'
<1>1. PICK s : s = frames[current]  OBVIOUS
<1>2. Now("enter") /\ UNCHANGED <<current, intr, space, sched, pic, ticks>>  BY DEF intr_handler
<1>3. /\ s \in Stack /\ s # <<>> /\ StackOK(s) /\ Last(s).at = "enter"
      /\ current = Idle /\ ~External(Last(s)) => FALSE
  BY <1>1, <1>2, OwnTop
<1>4. IF External(Last(s))
      THEN frames' = Moved(current, "handler") /\ in_external_intr' = TRUE
      ELSE /\ frames' = Moved(current, CASE Last(s).vec = SYSCALL -> "kernel" [] Last(s).vec = 14 -> "page_fault"
                                         [] OTHER -> "kill")
           /\ UNCHANGED external
  BY <1>1, Zenon DEF intr_handler, Goto, Top, External
<1>5. CASE External(Last(s))
  <2>1. PICK a : a = "handler"  OBVIOUS
  <2>2. a \in ExternalAt /\ frames' = Moved(current, a)  BY <1>4, <1>5, <2>1 DEF ExternalAt
  <2>3. /\ UNCHANGED <<current, intr, space, status, ready_list, irr>>
        /\ in_external_intr' = (a \in {"handler", "complete"})
    BY <1>2, <1>4, <1>5, <2>1 DEF sched, pic
  <2>4. isr' \in [{0, 1} -> SUBSET (0 .. 15)]  BY <1>2 DEF pic, MInv, MTypeOK
  <2>5. IF a \in {"enter", "handler", "complete"}
        THEN isr' = isr /\ Last(s).at \in {"enter", "handler", "complete"}
        ELSE isr'[0] = {} /\ isr'[1] = {}
    BY <1>2, <1>3, <2>1 DEF pic
  <2> QED  BY ONLY MInv, <1>1, <1>5, <2>2, <2>3, <2>4, <2>5, ExternalStep
<1>6. CASE ~External(Last(s))
  <2>1. PICK a : a = CASE Last(s).vec = SYSCALL -> "kernel" [] Last(s).vec = 14 -> "page_fault" [] OTHER -> "kill"
    OBVIOUS
  <2>2. a \in {"kernel", "page_fault", "kill"}
    <3>1. CASE Last(s).vec = SYSCALL  BY <2>1, <3>1
    <3>2. CASE Last(s).vec # SYSCALL /\ Last(s).vec = 14  BY <2>1, <3>2
    <3>3. CASE Last(s).vec # SYSCALL /\ Last(s).vec # 14  BY <2>1, <3>3
    <3> QED  BY <3>1, <3>2, <3>3
  <2>3. a \in OwnAt /\ a \notin AtBottom /\ a \notin Unmaking  BY <2>2 DEF OwnAt, At, AtBottom, Unmaking
  <2>4. /\ frames' = Moved(current, a)
        /\ UNCHANGED <<current, space, status, ready_list, external, pic>>
    BY <1>2, <1>4, <1>6, <2>1 DEF sched
  <2>5. intr' \in BOOLEAN  BY <1>2 DEF MInv, MTypeOK
  <2>6. Last(s).at \notin {"load", "exit_activate"} /\ (Last(s).at \in Leaving => a \in Leaving)
    BY <1>3 DEF Leaving
  <2>7. current = Idle => a \in {"kernel", "resume"}  BY <1>3, <1>6
  <2> QED  BY ONLY MInv, <1>1, <1>6, <2>3, <2>4, <2>5, <2>6, <2>7, OwnMoves
<1> QED  BY <1>5, <1>6

\* The handler itself runs.
LEMMA HandlerKeeps == ASSUME MInv, Handler PROVE MInv'
<1>1. PICK s : s = frames[current]  OBVIOUS
<1>2. /\ Now("handler") /\ frames' = Moved(current, "complete")
      /\ UNCHANGED <<current, intr, space, status, ready_list, in_external_intr, pic>>
  BY DEF Handler, Goto
<1>3. Last(s).at = "handler" /\ External(Last(s)) /\ s # <<>>
  <2>1. "handler" \notin OwnAt  BY DEF OwnAt
  <2> QED  BY <1>1, <1>2, <2>1, OwnTop
<1>4. in_external_intr = TRUE
  <2>1. ExternalOK(s, intr, in_external_intr, isr)  BY <1>1, Running
  <2>2. in_external_intr \in BOOLEAN  BY DEF MInv, MTypeOK
  <2> QED  BY <1>3, <2>1, <2>2 DEF ExternalOK
<1>5. PICK a : a = "complete"  OBVIOUS
<1>6. a \in ExternalAt /\ frames' = Moved(current, a)  BY <1>2, <1>5 DEF ExternalAt
<1>7. /\ UNCHANGED <<current, intr, space, status, ready_list, irr>>
      /\ in_external_intr' = (a \in {"handler", "complete"})
  BY <1>2, <1>4, <1>5 DEF pic
<1>8. isr' \in [{0, 1} -> SUBSET (0 .. 15)]  BY <1>2 DEF pic, MInv, MTypeOK
<1>9. IF a \in {"enter", "handler", "complete"}
      THEN isr' = isr /\ Last(s).at \in {"enter", "handler", "complete"}
      ELSE isr'[0] = {} /\ isr'[1] = {}
  BY <1>2, <1>3, <1>5 DEF pic
<1> QED  BY ONLY MInv, <1>1, <1>3, <1>6, <1>7, <1>8, <1>9, ExternalStep

\* What is alone in service is taken out of it.
LEMMA LastAcknowledged ==
    /\ Acknowledged({}) = {}
    /\ \A i \in 0 .. 15 : Acknowledged({i}) = {}
<1>1. Acknowledged({}) = {}  BY DEF Acknowledged
<1>2. ASSUME NEW i \in 0 .. 15 PROVE Acknowledged({i}) = {}
  <2>1. \A j \in {i} : i <= j  OBVIOUS
  <2>2. {k \in {i} : \A j \in {i} : k <= j} = {i}  BY <2>1, Zenon
  <2> QED  BY <2>2, Zenon DEF Acknowledged
<1> QED  BY <1>1, <1>2

\* The controllers are told, and nothing is in service any more.
LEMMA CompleteKeeps == ASSUME MInv, Complete PROVE MInv'
<1>1. PICK s : s = frames[current]  OBVIOUS
<1>2. /\ Now("complete") /\ in_external_intr' = FALSE
      /\ isr' = pic_end_of_interrupt(Last(s).vec)
      /\ frames' = Moved(current, IF yield_on_return THEN "yield" ELSE "iret")
      /\ UNCHANGED <<current, intr, space, sched, irr>>
  BY <1>1 DEF Complete, Goto, Top
<1>3. Last(s).at = "complete" /\ External(Last(s)) /\ s # <<>>
  <2>1. "complete" \notin OwnAt  BY DEF OwnAt
  <2> QED  BY <1>1, <1>2, <2>1, OwnTop
<1>4. PICK a : a = IF yield_on_return THEN "yield" ELSE "iret"  OBVIOUS
<1>5. a \in {"yield", "iret"}  BY <1>4
<1>6. a \in ExternalAt /\ frames' = Moved(current, a)  BY <1>2, <1>4, <1>5 DEF ExternalAt
<1>7. /\ UNCHANGED <<current, intr, space, status, ready_list, irr>>
      /\ in_external_intr' = (a \in {"handler", "complete"})
  <2>1. UNCHANGED <<current, intr, space, status, ready_list, irr>>  BY <1>2 DEF sched
  <2>2. (a \in {"handler", "complete"}) = FALSE  BY <1>5
  <2> QED  BY <1>2, <2>1, <2>2, Zenon
<1>8. isr \in [{0, 1} -> SUBSET (0 .. 15)]  BY DEF MInv, MTypeOK
<1>9. /\ isr' = [isr EXCEPT ![0] = Acknowledged(isr[0]),
                            ![1] = IF Last(s).vec >= 40 THEN Acknowledged(isr[1]) ELSE isr[1]]
  BY <1>2, <1>8 DEF pic_end_of_interrupt
<1>10. PICK i : i = Last(s).vec - 32  OBVIOUS
<1>11. i \in 0 .. 15 /\ (Last(s).vec >= 40 <=> i >= 8) /\ Line0(i) \in 0 .. 15
  <2>1. Last(s).vec \in 32 .. 47  BY <1>3 DEF External, IsExternal
  <2>2. i \in 0 .. 15 /\ (Last(s).vec >= 40 <=> i >= 8)  BY <1>10, <2>1
  <2> QED  BY <2>2 DEF Line0
<1>12. /\ isr[0] = IF i = 7 THEN {} ELSE {Line0(i)}
       /\ isr[1] = IF i >= 8 THEN {i} ELSE {}
  <2>1. ExternalOK(s, intr, in_external_intr, isr)  BY <1>1, Running
  <2>2. Handling(s)  BY <1>3 DEF Handling
  <2> QED  BY <1>10, <2>1, <2>2 DEF ExternalOK, Service
<1>13. Acknowledged(isr[0]) = {}
  <2>1. CASE i = 7  BY <1>12, <2>1, LastAcknowledged
  <2>2. CASE i # 7  BY <1>11, <1>12, <2>2, LastAcknowledged
  <2> QED  BY <2>1, <2>2
<1>14. (IF Last(s).vec >= 40 THEN Acknowledged(isr[1]) ELSE isr[1]) = {}
  <2>1. CASE i >= 8  BY <1>11, <1>12, <2>1, LastAcknowledged
  <2>2. CASE ~(i >= 8)  BY <1>11, <1>12, <2>2
  <2> QED  BY <2>1, <2>2
<1>15. isr' \in [{0, 1} -> SUBSET (0 .. 15)] /\ isr'[0] = {} /\ isr'[1] = {}
  BY <1>8, <1>9, <1>13, <1>14
<1>16. IF a \in {"enter", "handler", "complete"}
       THEN isr' = isr /\ Last(s).at \in {"enter", "handler", "complete"}
       ELSE isr'[0] = {} /\ isr'[1] = {}
  BY <1>5, <1>15
<1> QED  BY ONLY MInv, <1>1, <1>3, <1>6, <1>7, <1>15, <1>16, ExternalStep

\* Interrupts are on again in a thread that goes on.
LEMMA ResumeKeeps == ASSUME MInv, Resume PROVE MInv'
<1>1. PICK b \in {"kernel", "resume", "loaded", "kill", "page_fault"} : b = "resume"  OBVIOUS
<1>2. PICK a \in {"kernel", "kill", "exit"} : a = "kernel"  OBVIOUS
<1>3. /\ Now(b) /\ Goto(a) /\ intr' \in BOOLEAN /\ (a = "kernel" => b = "resume") /\ (current = Idle => a = "kernel")
      /\ UNCHANGED <<current, space, status, ready_list, external, pic>>
  BY <1>1, <1>2 DEF Resume, sched
<1> QED  BY ONLY MInv, <1>3, OwnGoto

\* load() has not found what it needs.
LEMMA LoadFailsKeeps == ASSUME MInv, LoadFails PROVE MInv'
<1>1. PICK b \in {"kernel", "resume", "loaded", "kill", "page_fault"} : b \in {"kernel", "loaded"} /\ Now(b)
                                                       /\ (b = "kernel" => current # Idle)
  BY DEF LoadFails, Fresh
<1>2. PICK a \in {"kernel", "kill", "exit"} : a = "exit"  OBVIOUS
<1>3. current # Idle
  <2>1. CASE b = "kernel"  BY <1>1, <2>1
  <2>2. CASE b = "loaded"
    <3>1. b \notin ExternalAt  BY <2>2 DEF ExternalAt
    <3> QED  BY <1>1, <2>2, <3>1, OwnTop
  <2> QED  BY <1>1, <2>1, <2>2
<1>4. /\ Now(b) /\ Goto(a) /\ intr' \in BOOLEAN /\ (a = "kernel" => b = "resume") /\ (current = Idle => a = "kernel")
      /\ UNCHANGED <<current, space, status, ready_list, external, pic>>
  BY <1>1, <1>2, <1>3 DEF LoadFails, sched, MInv, MTypeOK
<1> QED  BY ONLY MInv, <1>4, OwnGoto

\* A process ends of its own will.
LEMMA exitKeeps == ASSUME MInv, exit PROVE MInv'
<1>1. PICK b \in {"kernel", "resume", "loaded", "kill", "page_fault"} : b = "kernel"  OBVIOUS
<1>2. PICK a \in {"kernel", "kill", "exit"} : a = "exit"  OBVIOUS
<1>4. /\ Now(b) /\ Goto(a) /\ intr' \in BOOLEAN /\ (a = "kernel" => b = "resume") /\ (current = Idle => a = "kernel")
      /\ UNCHANGED <<current, space, status, ready_list, external, pic>>
  BY <1>1, <1>2 DEF exit, sched, MInv, MTypeOK
<1> QED  BY ONLY MInv, <1>4, OwnGoto

\* Or because of a fault.
LEMMA killKeeps == ASSUME MInv, kill PROVE MInv'
<1>1. PICK b \in {"kernel", "resume", "loaded", "kill", "page_fault"} : b = "kill"  OBVIOUS
<1>2. PICK a \in {"kernel", "kill", "exit"} : a = "exit"  OBVIOUS
<1>3. current # Idle
  <2>1. b \notin ExternalAt /\ Now(b)  BY <1>1 DEF ExternalAt, kill
  <2> QED  BY <1>1, <2>1, OwnTop
<1>4. /\ Now(b) /\ Goto(a) /\ intr' \in BOOLEAN /\ (a = "kernel" => b = "resume") /\ (current = Idle => a = "kernel")
      /\ UNCHANGED <<current, space, status, ready_list, external, pic>>
  BY <1>1, <1>2, <1>3 DEF kill, sched, MInv, MTypeOK
<1> QED  BY ONLY MInv, <1>4, OwnGoto

\* Interrupts are on again once the address of the fault is known.
LEMMA page_faultKeeps == ASSUME MInv, page_fault PROVE MInv'
<1>1. PICK b \in {"kernel", "resume", "loaded", "kill", "page_fault"} : b = "page_fault"  OBVIOUS
<1>2. PICK a \in {"kernel", "kill", "exit"} : a = "kill"  OBVIOUS
<1>3. current # Idle
  <2>1. b \notin ExternalAt /\ Now(b)  BY <1>1 DEF ExternalAt, page_fault
  <2> QED  BY <1>1, <2>1, OwnTop
<1>4. /\ Now(b) /\ Goto(a) /\ intr' \in BOOLEAN /\ (a = "kernel" => b = "resume") /\ (current = Idle => a = "kernel")
      /\ UNCHANGED <<current, space, status, ready_list, external, pic>>
  BY <1>1, <1>2, <1>3 DEF page_fault, sched
<1> QED  BY ONLY MInv, <1>4, OwnGoto

\* What a load goes through at the bottom of a thread's stack.
LEMMA LoadMoves ==
    ASSUME MInv, NEW b \in {"load", "loaded"}, Now(b), NEW a \in {"loaded", "user"}, Goto(a), intr' \in BOOLEAN,
           UNCHANGED <<current, esp0, pagedir, dirs, status, ready_list, external, pic>>,
           IF b = "load" THEN cr3' = ActiveDir(pagedir[current]) ELSE cr3' = cr3
    PROVE  MInv'
<1>1. PICK s : s = frames[current]  OBVIOUS
<1>2. PICK d : d = pagedir[current]  OBVIOUS
<1>3. b \notin ExternalAt /\ b \in AtBottom  BY DEF ExternalAt, AtBottom
<1>4. /\ s \in Stack /\ s # <<>> /\ StackOK(s) /\ Last(s).at = b /\ ~External(Last(s)) /\ Work(s) = Last(s)
      /\ current # Idle
  BY <1>1, <1>3, OwnTop
<1>5. Len(s) = 1  BY <1>3, <1>4, Below
<1>6. SpaceOK(s, d) /\ ActiveOK(s, d, cr3)  BY <1>1, <1>2, Running
<1>7. d # NoDir  BY <1>3, <1>4, <1>6 DEF SpaceOK
<1>8. cr3' = ActiveDir(d)
  <2>1. CASE b = "load"  BY <1>2, <2>1
  <2>2. CASE b = "loaded"  BY <1>4, <1>6, <2>2 DEF ActiveOK
  <2> QED  BY <2>1, <2>2
<1>9. a \in OwnAt /\ a \notin Unmaking  BY DEF OwnAt, At, Unmaking
<1>10. /\ s = frames[current] /\ frames' = Moved(current, a) /\ intr' \in BOOLEAN /\ d = pagedir[current]
       /\ a \in AtBottom => Len(s) = 1
       /\ a \in AtBottom => d # NoDir
       /\ s[1].at = "user" /\ Len(s) # 1 /\ a \notin Leaving => d # NoDir
       /\ UNCHANGED <<current, esp0, pagedir, dirs, status, ready_list, external, pic>>
       /\ current = Idle => a \in {"kernel", "resume"}
  BY <1>1, <1>2, <1>4, <1>5, <1>7 DEF Goto
<1> QED  BY ONLY MInv, <1>4, <1>8, <1>9, <1>10, OwnStep

\* load() begins to use the new directory.
LEMMA LoadActivateKeeps == ASSUME MInv, LoadActivate PROVE MInv'
<1>1. PICK b \in {"load", "loaded"} : b = "load"  OBVIOUS
<1>2. PICK a \in {"loaded", "user"} : a = "loaded"  OBVIOUS
<1>3. esp0 = current  BY Running
<1>4. /\ Now(b) /\ Goto(a) /\ intr' \in BOOLEAN
      /\ UNCHANGED <<current, esp0, pagedir, dirs, status, ready_list, external, pic>>
      /\ IF b = "load" THEN cr3' = ActiveDir(pagedir[current]) ELSE cr3' = cr3
  BY <1>1, <1>2, <1>3 DEF LoadActivate, process_activate, ActiveDir, sched, MInv, MTypeOK
<1> QED  BY ONLY MInv, <1>4, LoadMoves

\* The program begins.
LEMMA StartProcessKeeps == ASSUME MInv, StartProcess PROVE MInv'
<1>1. PICK b \in {"load", "loaded"} : b = "loaded"  OBVIOUS
<1>2. PICK a \in {"loaded", "user"} : a = "user"  OBVIOUS
<1>3. /\ Now(b) /\ Goto(a) /\ intr' \in BOOLEAN
      /\ UNCHANGED <<current, esp0, pagedir, dirs, status, ready_list, external, pic>>
      /\ IF b = "load" THEN cr3' = ActiveDir(pagedir[current]) ELSE cr3' = cr3
  BY <1>1, <1>2 DEF StartProcess, sched, space
<1> QED  BY ONLY MInv, <1>3, LoadMoves

-----------------------------------------------------------------------------
(* Interrupts, and what a program asks for.                                 *)

\* A set of naturals has a least element.
LEMMA LeastNat ==
    ASSUME NEW S, S \subseteq Nat, S # {}
    PROVE  \E m \in S : \A n \in S : m <= n
<1>1. \E x \in S : \A y \in S : ~(<<y, x>> \in OpToRel(<, Nat))
  BY NatLessThanWellFounded, WFMin
<1>2. PICK m \in S : \A y \in S : ~(<<y, m>> \in OpToRel(<, Nat))  BY <1>1
<1>3. \A y \in S : ~(y < m)  BY <1>2 DEF OpToRel
<1> QED  BY <1>3

\* The line that comes first is one of those that can come.
LEMMA FirstIs ==
    ASSUME MInv, Deliverable # {}
    PROVE  First \in Deliverable /\ First \in Irq /\ First \in 0 .. 15
<1>1. Deliverable \subseteq Irq /\ Deliverable \subseteq 0 .. 15
  BY Constants DEF Deliverable, MInv, MTypeOK
<1>2. \A i \in Deliverable : Priority(i) \in Nat  BY <1>1 DEF Priority, Line0
<1>3. PICK m \in {Priority(i) : i \in Deliverable} : \A n \in {Priority(i) : i \in Deliverable} : m <= n
  BY <1>2, LeastNat
<1>4. \E i \in Deliverable : \A j \in Deliverable : Priority(i) <= Priority(j)  BY <1>3
<1>5. First \in Deliverable  BY <1>4, Zenon DEF First
<1> QED  BY <1>1, <1>5

\* An interrupt comes on top of work, as it finds interrupts on; nothing was in service.
LEMMA InterruptKeeps == ASSUME MInv, Interrupt PROVE MInv'
<1>1. PICK s : s = frames[current]  OBVIOUS
<1>2. PICK i : i = First  OBVIOUS
<1>3. i \in Irq /\ i \in 0 .. 15  BY <1>2, FirstIs DEF Interrupt
<1>4. PICK vec : vec = 32 + i  OBVIOUS
<1>5. vec \in 32 .. 47 /\ vec \in 0 .. 255 /\ vec - 32 = i  BY <1>3, <1>4
<1>6. /\ intr /\ Enter(vec) /\ irr' = irr \ {i}
      /\ isr' = IF i = 7 THEN isr
                ELSE [c \in {0, 1} |-> IF c = 0 THEN isr[0] \cup {Line0(i)}
                                       ELSE isr[1] \cup (IF i >= 8 THEN {i} ELSE {})]
      /\ UNCHANGED <<space, sched, external>>
  BY <1>2, <1>4, Zenon DEF Interrupt
<1>7. /\ s \in Stack /\ s # <<>> /\ ExternalOK(s, intr, in_external_intr, isr)
  BY <1>1, Running
<1>8. ~External(Last(s))  BY <1>6, <1>7 DEF ExternalOK
<1>9. isr[0] = {} /\ isr[1] = {} /\ isr \in [{0, 1} -> SUBSET (0 .. 15)]  BY <1>1, <1>7, <1>8, NoneInService
<1>10. PICK f : f = Entered("enter", vec, intr, NoDir)  OBVIOUS
<1>11. PICK r : r = Append(s, f)  OBVIOUS
<1>12. f \in Frame /\ f.at = "enter" /\ f.vec = vec  BY ONLY MInv, <1>1, <1>5, <1>6, <1>10, EnterIs
<1>13. External(f)  BY <1>5, <1>12 DEF External, IsExternal
<1>14. r # <<>> /\ Last(r) = f
  <2>1. s \in Seq(Frame)  BY <1>7 DEF Stack
  <2>2. r \in Seq(Frame) /\ Len(r) = Len(s) + 1 /\ r[Len(s) + 1] = f /\ Len(s) \in Nat
    BY <1>11, <1>12, <2>1
  <2> QED  BY <2>2 DEF Last
<1>15. Handling(r)  BY <1>12, <1>13, <1>14 DEF Handling
<1>16. /\ Service(r, 0) = IF i = 7 THEN {} ELSE {Line0(i)}
       /\ Service(r, 1) = IF i >= 8 THEN {i} ELSE {}
  <2>1. Last(r).vec - 32 = i  BY <1>5, <1>12, <1>14
  <2>2. Service(r, 0) = IF i = 7 THEN {} ELSE {Line0(i)}  BY <1>15, <2>1, Zenon DEF Service
  <2>3. Service(r, 1) = IF i >= 8 THEN {i} ELSE {}
    <3>1. 1 # 0  OBVIOUS
    <3> QED  BY <1>15, <2>1, <3>1, Zenon DEF Service
  <2> QED  BY <2>2, <2>3
<1>17. isr'[0] = Service(r, 0) /\ isr'[1] = Service(r, 1) /\ isr' \in [{0, 1} -> SUBSET (0 .. 15)]
  <2>1. CASE i = 7  BY <1>6, <1>9, <1>16, <2>1
  <2>2. CASE i # 7
    <3>1. isr' = [c \in {0, 1} |-> IF c = 0 THEN {Line0(i)} ELSE IF i >= 8 THEN {i} ELSE {}]
      BY <1>6, <1>9, <2>2
    <3>2. Line0(i) \in 0 .. 15  BY <1>3 DEF Line0
    <3>3. isr'[0] = {Line0(i)} /\ isr'[1] = IF i >= 8 THEN {i} ELSE {}  BY <3>1
    <3>4. isr' \in [{0, 1} -> SUBSET (0 .. 15)]  BY <1>3, <3>1, <3>2
    <3> QED  BY <1>16, <2>2, <3>3, <3>4
  <2> QED  BY <2>1, <2>2
<1>18. irr' \subseteq Irq  BY <1>6 DEF MInv, MTypeOK
<1>19. UNCHANGED <<space, status, ready_list, in_external_intr>>  BY <1>6 DEF sched, external
<1>20. IF External(f)
       THEN TurnsOff(idt[vec]) /\ isr'[0] = Service(r, 0) /\ isr'[1] = Service(r, 1)
       ELSE /\ Last(s).at \in {"user", "kernel"} /\ current # Idle
            /\ vec = SYSCALL => Last(s).at = "user"
            /\ isr' = isr
  BY <1>5, <1>13, <1>17, Gates
<1>21. Enter(vec)  BY <1>6
<1>22. isr' \in [{0, 1} -> SUBSET (0 .. 15)]  BY <1>17
<1> QED  BY ONLY MInv, <1>1, <1>5, <1>8, <1>10, <1>11, <1>18, <1>19, <1>20, <1>21, <1>22, EnterKeeps

\* An exception, or the system call of a program.
LEMMA EnterOwn ==
    ASSUME MInv, NEW vec \in {0, 3, 13, 14, SYSCALL}, Enter(vec),
           InUser \/ (Now("kernel") /\ current # Idle /\ vec # SYSCALL),
           UNCHANGED <<space, sched, external, pic>>
    PROVE  MInv'
<1>1. PICK s : s = frames[current]  OBVIOUS
<1>2. Last(s).at \in {"user", "kernel"} /\ ~External(Last(s)) /\ current # Idle
  <2>1. "user" \notin ExternalAt /\ "kernel" \notin ExternalAt  BY DEF ExternalAt
  <2>2. CASE InUser
    <3>1. PICK a : a = "user"  OBVIOUS
    <3>2. Now(a) /\ a \notin ExternalAt /\ a \notin {"kernel", "resume"}  BY <2>1, <2>2, <3>1 DEF InUser
    <3>3. /\ Last(s).at = a /\ ~External(Last(s))
          /\ current = Idle /\ ~External(Last(s)) => a \in {"kernel", "resume"}
      BY ONLY MInv, <1>1, <3>2, OwnTop
    <3> QED  BY <3>1, <3>2, <3>3
  <2>3. CASE Now("kernel") /\ current # Idle
    <3>1. Last(s).at = "kernel" /\ ~External(Last(s))  BY <1>1, <2>1, <2>3, OwnTop
    <3> QED  BY <2>3, <3>1
  <2> QED  BY <2>2, <2>3
<1>3. vec = SYSCALL => Last(s).at = "user"
  BY <1>1 DEF InUser, Now, Top
<1>4. PICK f : f = Entered("enter", vec, intr, NoDir)  OBVIOUS
<1>5. PICK r : r = Append(s, f)  OBVIOUS
<1>6. vec \in 0 .. 255 /\ ~IsExternal(vec)  BY Vectors
<1>7. ~External(f)  BY <1>4, <1>6 DEF External, Entered
<1>8. irr' \subseteq Irq /\ isr' \in [{0, 1} -> SUBSET (0 .. 15)] /\ isr' = isr  BY DEF pic, MInv, MTypeOK
<1>9. UNCHANGED <<space, status, ready_list, in_external_intr>>  BY DEF sched, external
<1>10. IF External(f)
       THEN TurnsOff(idt[vec]) /\ isr'[0] = Service(r, 0) /\ isr'[1] = Service(r, 1)
       ELSE /\ Last(s).at \in {"user", "kernel"} /\ current # Idle
            /\ vec = SYSCALL => Last(s).at = "user"
            /\ isr' = isr
  BY <1>2, <1>3, <1>7, <1>8
<1>11. /\ vec \in 0 .. 255 /\ Enter(vec) /\ ~External(Last(s))
       /\ irr' \subseteq Irq /\ isr' \in [{0, 1} -> SUBSET (0 .. 15)]
  BY <1>2, <1>6, <1>8
<1> QED  BY ONLY MInv, <1>1, <1>4, <1>5, <1>9, <1>10, <1>11, EnterKeeps, Zenon

\* An INT instruction, also of a vector that is no program's: that is an exception.
LEMMA IntInstructionKeeps ==
    ASSUME MInv, NEW vec \in {0, 3, 32, SYSCALL}, IntInstruction(vec)
    PROVE  MInv'
<1>1. PICK v : v = IF Level(idt[vec]) = 3 THEN vec ELSE 13  OBVIOUS
<1>2. InUser /\ Enter(v) /\ UNCHANGED <<space, sched, external, pic>>  BY <1>1, Zenon DEF IntInstruction
<1>3. 32 \in 32 .. 47  OBVIOUS
<1>4. Level(idt[32]) # 3  BY <1>3, Gates
<1>5. v \in {0, 3, 13, 14, SYSCALL}
  <2>1. CASE vec = 32  BY <1>1, <1>4, <2>1
  <2>2. CASE vec # 32  BY <1>1, <2>2
  <2> QED  BY <2>1, <2>2
<1>6. InUser \/ (Now("kernel") /\ current # Idle /\ v # SYSCALL)  BY <1>2
<1> QED  BY ONLY MInv, <1>2, <1>5, <1>6, EnterOwn

\* A fault.
LEMMA FaultKeeps ==
    ASSUME MInv, NEW vec \in {0, 14}, Fault(vec)
    PROVE  MInv'
<1>1. vec \in {0, 3, 13, 14, SYSCALL}  OBVIOUS
<1>2. Enter(vec) /\ UNCHANGED <<space, sched, external, pic>>  BY DEF Fault
<1>3. InUser \/ (Now("kernel") /\ current # Idle /\ vec # SYSCALL)
  <2>1. InUser \/ (vec = 14 /\ Now("kernel") /\ current # Idle)  BY DEF Fault
  <2> QED  BY <2>1 DEF SYSCALL
<1> QED  BY ONLY MInv, <1>1, <1>2, <1>3, EnterOwn

\* A device asks.
LEMMA RequestKeeps ==
    ASSUME MInv, NEW i \in Irq, Request(i)
    PROVE  MInv'
<1>1. irr' \subseteq Irq /\ UNCHANGED <<current, frames, intr, space, sched, external, isr>>
  BY DEF Request, MInv, MTypeOK
<1>2. MTypeOK'  BY <1>1 DEF MInv, MTypeOK, space, sched, external
<1>3. EveryThread'  BY <1>1 DEF MInv, EveryThread, space
<1>4. Apart'  BY <1>1 DEF MInv, Apart, space
<1>5. CurrentThread'  BY <1>1 DEF MInv, CurrentThread, space, sched, external
<1>6. ReadyThreads'  BY <1>1 DEF MInv, ReadyThreads, sched
<1>7. IdleThread'  BY <1>1 DEF MInv, IdleThread, space
<1> QED  BY <1>2, <1>3, <1>4, <1>5, <1>6, <1>7 DEF MInv

\* A stack as thread_create() makes it.
LEMMA NewStack ==
    ASSUME NEW a \in {"kernel", "resume"}, NEW s, s = <<Entered(a, -1, TRUE, NoDir)>>
    PROVE  /\ s \in Stack /\ s # <<>> /\ StackOK(s) /\ ~External(Last(s)) /\ Work(s).at = a
           /\ ~Handling(s)
           /\ \A d : SpaceOK(s, d) /\ Claims(s, d) = {d} \ {NoDir}
<1>1. PICK f : f = Entered(a, -1, TRUE, NoDir)  OBVIOUS
<1>2. f \in Frame /\ f.at = a /\ f.vec = -1
  <2>1. a \in At  BY DEF At
  <2> QED  BY <1>1, <2>1 DEF Frame, Entered
<1>3. s = <<f>> /\ s \in Stack /\ s # <<>> /\ Len(s) = 1 /\ s[1] = f
  <2>1. s = <<f>>  BY <1>1
  <2>2. <<f>> \in Seq(Frame) /\ <<f>> # <<>> /\ Len(<<f>>) = 1 /\ <<f>>[1] = f  BY <1>2
  <2> QED  BY <2>1, <2>2, Zenon DEF Stack
<1>4. Last(s) = f  BY <1>3 DEF Last
<1>5. ~External(f)  BY <1>2, Vectors DEF External
<1>6. a \in OwnAt /\ a \notin AtBottom /\ a \notin Unmaking /\ a # "user"  BY DEF OwnAt, At, AtBottom, Unmaking
<1>7. LevelOK(s, 1)
  <2>1. s[1].at \in IF External(s[1]) THEN ExternalAt ELSE OwnAt  BY <1>2, <1>3, <1>5, <1>6
  <2>2. ~(1 < Len(s))  BY <1>3
  <2> QED  BY <2>1, <2>2 DEF LevelOK
<1>8. StackOK(s)
  <2>1. \A i \in 1 .. Len(s) : i = 1  BY <1>3
  <2> QED  BY <1>2, <1>3, <1>7, <2>1 DEF StackOK
<1>9. Work(s) = f  BY <1>4, <1>5 DEF Work
<1>10. ~Handling(s)  BY <1>4, <1>5 DEF Handling
<1>11. ASSUME NEW d PROVE SpaceOK(s, d) /\ Claims(s, d) = {d} \ {NoDir}
  <2>1. SpaceOK(s, d)  BY <1>2, <1>3, <1>6, <1>9 DEF SpaceOK
  <2>2. Claims(s, d) = {d} \ {NoDir}  BY <1>2, <1>6, <1>9 DEF Claims
  <2> QED  BY <2>1, <2>2
<1> QED  BY <1>2, <1>3, <1>4, <1>5, <1>8, <1>9, <1>10, <1>11

\* A new thread is ready, has begun nothing, and is on the list once.
LEMMA thread_createKeeps ==
    ASSUME MInv, NEW t \in KThread, thread_create(t)
    PROVE  MInv'
<1>1. PICK s : s = <<Entered("resume", -1, TRUE, NoDir)>>  OBVIOUS
<1>2. /\ status[t] = "none" /\ status' = [status EXCEPT ![t] = "ready"]
      /\ ready_list' = Append(ready_list, t) /\ frames' = [frames EXCEPT ![t] = s]
      /\ UNCHANGED <<current, intr, cr3, esp0, pagedir, dirs, external, pic>>
  BY <1>1 DEF thread_create, space
<1>3. /\ frames \in [KThread -> Stack] /\ ready_list \in Seq(KThread) /\ current \in KThread
      /\ status \in [KThread -> {"none", "ready", "running", "blocked", "dying"}]
  BY DEF MInv, MTypeOK
<1>4. /\ s \in Stack /\ s # <<>> /\ StackOK(s) /\ Work(s).at = "resume" /\ ~Handling(s)
      /\ \A d : SpaceOK(s, d) /\ Claims(s, d) = {d} \ {NoDir}
  <2>1. PICK a \in {"kernel", "resume"} : a = "resume"  OBVIOUS
  <2>2. s = <<Entered(a, -1, TRUE, NoDir)>>  BY <1>1, <2>1
  <2> QED  BY ONLY <2>1, <2>2, NewStack
<1>5. t # current
  <2>1. status[current] = "running"  BY Running
  <2> QED  BY <1>2, <2>1
<1>6. /\ frames'[t] = s /\ \A u \in KThread : u # t => frames'[u] = frames[u]
      /\ frames' \in [KThread -> Stack]
  BY <1>2, <1>3, <1>4
<1>7. /\ status'[t] = "ready" /\ \A u \in KThread : u # t => status'[u] = status[u]
      /\ status' \in [KThread -> {"none", "ready", "running", "blocked", "dying"}]
  BY <1>2, <1>3
<1>8. MTypeOK'
  <2>1. ready_list' \in Seq(KThread)  BY <1>2, <1>3, AppendProperties
  <2> QED  BY <1>2, <1>6, <1>7, <2>1 DEF MInv, MTypeOK, external, pic
<1>9. \A u \in KThread : Claims(frames'[u], pagedir[u]) \subseteq Claims(frames[u], pagedir[u])
  <2> SUFFICES ASSUME NEW u \in KThread
               PROVE  Claims(frames'[u], pagedir[u]) \subseteq Claims(frames[u], pagedir[u])
    OBVIOUS
  <2>1. CASE u = t
    <3>1. Claims(frames'[u], pagedir[u]) = {pagedir[u]} \ {NoDir}  BY <1>4, <1>6, <2>1
    <3> QED  BY <3>1 DEF Claims
  <2>2. CASE u # t  BY <1>6, <2>2
  <2> QED  BY <2>1, <2>2
<1>10. EveryThread'
  <2> SUFFICES ASSUME NEW u \in KThread
               PROVE  /\ StackOK(frames'[u]) /\ SpaceOK(frames'[u], pagedir[u])
                      /\ Claims(frames'[u], pagedir[u]) \subseteq dirs
                      /\ u # current => ~Handling(frames'[u])
    BY <1>2 DEF EveryThread
  <2>1. /\ StackOK(frames[u]) /\ SpaceOK(frames[u], pagedir[u])
        /\ Claims(frames[u], pagedir[u]) \subseteq dirs
        /\ u # current => ~Handling(frames[u])
    BY DEF MInv, EveryThread
  <2>2. Claims(frames'[u], pagedir[u]) \subseteq dirs  BY <1>9, <2>1
  <2>3. CASE u = t  BY <1>4, <1>6, <2>2, <2>3
  <2>4. CASE u # t  BY <1>6, <2>1, <2>4
  <2> QED  BY <2>3, <2>4
<1>11. Apart'
  <2> SUFFICES ASSUME NEW u \in KThread, NEW v \in KThread, u # v
               PROVE  Claims(frames'[u], pagedir[u]) \cap Claims(frames'[v], pagedir[v]) = {}
    BY <1>2 DEF Apart
  <2>1. Claims(frames[u], pagedir[u]) \cap Claims(frames[v], pagedir[v]) = {}  BY DEF MInv, Apart
  <2>2. /\ Claims(frames'[u], pagedir[u]) \subseteq Claims(frames[u], pagedir[u])
        /\ Claims(frames'[v], pagedir[v]) \subseteq Claims(frames[v], pagedir[v])
    BY <1>9
  <2> QED  BY ONLY <2>1, <2>2
<1>12. CurrentThread'
  <2>1. frames'[current] = frames[current] /\ status'[current] = status[current]  BY <1>3, <1>5, <1>6, <1>7
  <2> QED  BY <1>2, <2>1 DEF MInv, CurrentThread, external, pic
<1>13. ReadyThreads'
  <2>1. PICK n : n = Len(ready_list)  OBVIOUS
  <2>2. n \in Nat  BY <1>3, <2>1, LenProperties
  <2>3. PICK q : q = Append(ready_list, t)  OBVIOUS
  <2>4. Len(q) = n + 1 /\ q[n + 1] = t /\ \A i \in 1 .. n : q[i] = ready_list[i]
    BY <1>3, <2>1, <2>3, AppendProperties
  <2>5. \A i \in 1 .. n : /\ status[ready_list[i]] = "ready" /\ frames[ready_list[i]] # <<>>
                          /\ ready_list[i] \in KThread
                          /\ \A j \in 1 .. n : ready_list[i] = ready_list[j] => i = j
    BY <1>3, <2>1, ElementOfSeq DEF MInv, ReadyThreads
  <2>6. \A i \in 1 .. n : q[i] # t  BY <1>2, <2>4, <2>5
  <2>7. ASSUME NEW i \in 1 .. n + 1
        PROVE  /\ status'[q[i]] = "ready" /\ frames'[q[i]] # <<>>
               /\ \A j \in 1 .. n + 1 : q[i] = q[j] => i = j
    <3>1. CASE i = n + 1
      <4>1. \A j \in 1 .. n + 1 : j # n + 1 => j \in 1 .. n  BY <2>2
      <4>2. status'[t] = "ready" /\ frames'[t] # <<>>  BY <1>4, <1>6, <1>7
      <4> QED  BY <2>4, <2>6, <3>1, <4>1, <4>2
    <3>2. CASE i # n + 1
      <4>1. i \in 1 .. n /\ \A j \in 1 .. n + 1 : j # n + 1 => j \in 1 .. n  BY <2>2, <3>2
      <4>2. q[i] \in KThread /\ q[i] # t /\ q[i] = ready_list[i]  BY <2>4, <2>5, <2>6, <4>1
      <4>3. status'[q[i]] = status[q[i]] /\ frames'[q[i]] = frames[q[i]]  BY <1>6, <1>7, <4>2
      <4>4. \A j \in 1 .. n + 1 : q[i] = q[j] => i = j  BY <2>4, <2>5, <4>1, <4>2
      <4> QED  BY <2>5, <4>1, <4>2, <4>3, <4>4
    <3> QED  BY <3>1, <3>2
  <2>8. ready_list' = q /\ Len(q) = n + 1  BY <1>2, <2>3, <2>4
  <2> QED  BY <2>7, <2>8 DEF ReadyThreads
<1>14. IdleThread'
  <2>1. Idle \in KThread  BY Constants
  <2>2. CASE t = Idle
    <3>1. frames'[Idle] = s /\ pagedir'[Idle] = NoDir  BY <1>2, <1>6, <2>2 DEF MInv, IdleThread
    <3> QED  BY <1>4, <3>1 DEF IdleThread
  <2>3. CASE t # Idle
    <3>1. frames'[Idle] = frames[Idle] /\ pagedir'[Idle] = pagedir[Idle]  BY <1>2, <1>6, <2>1, <2>3
    <3> QED  BY <3>1 DEF MInv, IdleThread
  <2> QED  BY <2>2, <2>3
<1> QED  BY <1>8, <1>10, <1>11, <1>12, <1>13, <1>14 DEF MInv

-----------------------------------------------------------------------------
(* All together.                                                            *)

\* The kernel begins with the initial thread and the idle thread, and no process.
LEMMA InitKeeps == ASSUME MachineInit PROVE MInv
<1>1. PICK s : s = <<Entered("kernel", -1, TRUE, NoDir)>>  OBVIOUS
<1>2. /\ s \in Stack /\ s # <<>> /\ StackOK(s) /\ ~External(Last(s)) /\ Work(s).at = "kernel" /\ ~Handling(s)
      /\ \A d : SpaceOK(s, d) /\ Claims(s, d) = {d} \ {NoDir}
  <2>1. PICK a \in {"kernel", "resume"} : a = "kernel"  OBVIOUS
  <2>2. s = <<Entered(a, -1, TRUE, NoDir)>>  BY <1>1, <2>1
  <2> QED  BY ONLY <2>1, <2>2, NewStack
<1>3. /\ current = Initial /\ frames = [t \in KThread |-> IF t \in {Initial, Idle} THEN s ELSE <<>>]
      /\ intr = TRUE /\ cr3 = InitDir /\ esp0 = Initial
      /\ pagedir = [t \in KThread |-> NoDir] /\ dirs = {}
      /\ ready_list = <<>> /\ in_external_intr = FALSE
      /\ irr = {} /\ isr = [c \in {0, 1} |-> {}]
  BY <1>1, Zenon DEF MachineInit
<1>4. /\ status \in [KThread -> {"none", "ready", "running", "blocked", "dying"}]
      /\ status[Initial] = "running"
  BY Constants DEF MachineInit
<1>5. <<>> \in Stack  BY EmptySeq DEF Stack
<1>6. \A t \in KThread : frames[t] = s \/ frames[t] = <<>>  BY <1>3
<1>7. Initial \in KThread /\ Idle \in KThread /\ frames[Initial] = s /\ frames[Idle] = s
  BY <1>3, Constants
<1>8. MTypeOK
  <2>1. frames \in [KThread -> Stack]  BY <1>2, <1>3, <1>5
  <2>2. ready_list \in Seq(KThread)  BY <1>3
  <2>3. isr \in [{0, 1} -> SUBSET (0 .. 15)]  BY <1>3
  <2>4. pagedir \in [KThread -> Dir \cup {NoDir}] /\ dirs \subseteq Dir /\ irr \subseteq Irq  BY <1>3
  <2> QED  BY <1>3, <1>4, <1>7, <2>1, <2>2, <2>3, <2>4 DEF MTypeOK
<1>9. \A t \in KThread : Claims(frames[t], pagedir[t]) = {}
  <2> SUFFICES ASSUME NEW t \in KThread PROVE Claims(frames[t], pagedir[t]) = {}  OBVIOUS
  <2>1. pagedir[t] = NoDir  BY <1>3
  <2>2. CASE frames[t] = s  BY <1>2, <2>1, <2>2
  <2>3. CASE frames[t] = <<>>  BY <2>1, <2>3 DEF Claims
  <2> QED  BY <1>6, <2>2, <2>3
<1>10. EveryThread
  <2>1. StackOK(<<>>) /\ ~Handling(<<>>) /\ \A d : SpaceOK(<<>>, d)  BY DEF StackOK, SpaceOK, Handling
  <2> QED  BY <1>2, <1>6, <1>9, <2>1 DEF EveryThread
<1>11. Apart  BY <1>9 DEF Apart
<1>12. CurrentThread
  <2>1. ActiveOK(s, NoDir, InitDir)  BY DEF ActiveOK, ActiveDir
  <2>2. Service(s, 0) = {} /\ Service(s, 1) = {}  BY <1>2 DEF Service
  <2>3. ExternalOK(s, TRUE, FALSE, isr)  BY <1>2, <1>3, <2>2 DEF ExternalOK
  <2>4. frames[current] = s /\ pagedir[current] = NoDir  BY <1>3, <1>7
  <2> QED  BY <1>2, <1>3, <1>4, <2>1, <2>3, <2>4 DEF CurrentThread
<1>13. ReadyThreads
  <2>1. 1 .. Len(ready_list) = {}  BY <1>3
  <2> QED  BY <2>1 DEF ReadyThreads
<1>14. IdleThread  BY <1>2, <1>3, <1>7 DEF IdleThread
<1> QED  BY <1>8, <1>10, <1>11, <1>12, <1>13, <1>14 DEF MInv

\* A step that changes nothing of the machine.
LEMMA NothingKeeps == ASSUME MInv, UNCHANGED machineVars PROVE MInv'
<1>1. UNCHANGED <<current, frames, intr, cr3, esp0, pagedir, dirs, status, ready_list, in_external_intr, irr, isr>>
  BY DEF machineVars, space, sched, external, pic
<1> QED  BY <1>1 DEF MInv, MTypeOK, EveryThread, Apart, CurrentThread, ReadyThreads, IdleThread

\* The steps of handlers.
LEMMA InHandlerKeeps == ASSUME MInv, InHandler PROVE MInv'
<1>1. CASE intr_handler  BY <1>1, intr_handlerKeeps
<1>2. CASE Handler  BY <1>2, HandlerKeeps
<1>3. CASE Complete  BY <1>3, CompleteKeeps
<1>4. CASE YieldOnReturn  BY <1>4, YieldOnReturnKeeps
<1>5. CASE Iret  BY <1>5, IretKeeps
<1>6. CASE page_fault  BY <1>6, page_faultKeeps
<1>7. CASE kill  BY <1>7, killKeeps
<1> QED  BY <1>1, <1>2, <1>3, <1>4, <1>5, <1>6, <1>7 DEF InHandler

\* The steps of the rest of the kernel.
LEMMA InKernelKeeps == ASSUME MInv, InKernel PROVE MInv'
<1>1. CASE Yield  BY <1>1, YieldKeeps
<1>2. CASE Resume  BY <1>2, ResumeKeeps
<1>3. CASE idle  BY <1>3, idleKeeps
<1>4. CASE exit  BY <1>4, exitKeeps
<1>5. CASE LoadActivate  BY <1>5, LoadActivateKeeps
<1>6. CASE StartProcess  BY <1>6, StartProcessKeeps
<1>7. CASE LoadFails  BY <1>7, LoadFailsKeeps
<1>8. CASE \E t \in KThread : thread_create(t)  BY <1>8, thread_createKeeps
<1>9. CASE \E d \in Dir : LoadCreate(d)  BY <1>9, LoadCreateKeeps
<1>10. CASE ExitClear  BY <1>10, ExitClearKeeps
<1>11. CASE ExitActivate  BY <1>11, ExitActivateKeeps
<1>12. CASE ExitDestroy  BY <1>12, ExitDestroyKeeps
<1>13. CASE thread_exit  BY <1>13, thread_exitKeeps
<1> QED  BY <1>1, <1>2, <1>3, <1>4, <1>5, <1>6, <1>7, <1>8, <1>9, <1>10, <1>11, <1>12, <1>13 DEF InKernel

\* Every step.
LEMMA MInvStep == MInv /\ [MachineNext]_machineVars => MInv'
<1> SUFFICES ASSUME MInv, [MachineNext]_machineVars PROVE MInv'  OBVIOUS
<1>1. CASE Interrupt  BY <1>1, InterruptKeeps
<1>2. CASE InHandler  BY <1>2, InHandlerKeeps
<1>3. CASE InKernel  BY <1>3, InKernelKeeps
<1>4. CASE InProgram  BY <1>4, IntInstructionKeeps DEF InProgram
<1>5. CASE \E vec \in {0, 14} : Fault(vec)  BY <1>5, FaultKeeps
<1>6. CASE \E i \in Irq : Request(i)  BY <1>6, RequestKeeps
<1>7. CASE UNCHANGED machineVars  BY <1>7, NothingKeeps
<1> QED  BY <1>1, <1>2, <1>3, <1>4, <1>5, <1>6, <1>7 DEF MachineNext, Cpu

\* What the invariant says of the running thread's directory.
LEMMA SpaceIsOwn == MInv => OwnSpace
<1> SUFFICES ASSUME MInv PROVE OwnSpace  OBVIOUS
<1>1. PICK s : s = frames[current]  OBVIOUS
<1>2. PICK d : d = pagedir[current]  OBVIOUS
<1>3. /\ s \in Stack /\ s # <<>> /\ StackOK(s) /\ SpaceOK(s, d) /\ Claims(s, d) \subseteq dirs
      /\ ActiveOK(s, d, cr3) /\ esp0 = current /\ status[current] = "running"
  BY <1>1, <1>2, Running
<1>4. cr3 \in dirs \cup {InitDir}
  <2>1. CASE cr3 = ActiveDir(d)  BY <1>3, <2>1 DEF ActiveDir, Claims
  <2>2. CASE cr3 = InitDir  BY <2>2
  <2>3. CASE Work(s).at = "exit_activate" /\ cr3 = Work(s).pd
    <3>1. Work(s).at \in Unmaking  BY <2>3 DEF Unmaking
    <3> QED  BY <1>3, <2>3, <3>1 DEF Claims
  <2> QED  BY <1>3, <2>1, <2>2, <2>3 DEF ActiveOK
<1>5. ASSUME NEW a \in {"user", "kernel"}, Now(a) PROVE cr3 = ActiveDir(d) /\ (a = "user" => d # NoDir)
  <2>1. a \notin ExternalAt  BY DEF ExternalAt
  <2>2. Last(s).at = a /\ Work(s) = Last(s)  BY <1>1, <1>5, <2>1, OwnTop
  <2>3. a = "user" => d # NoDir  BY <1>3, <2>2 DEF SpaceOK, AtBottom
  <2> QED  BY <1>3, <2>2, <2>3 DEF ActiveOK
<1>6. InUser => cr3 = pagedir[current] /\ esp0 = current  BY <1>2, <1>3, <1>5 DEF InUser, ActiveDir
<1>7. Now("kernel") => cr3 = IF pagedir[current] = NoDir THEN InitDir ELSE pagedir[current]
  BY <1>2, <1>5 DEF ActiveDir
<1> QED  BY <1>3, <1>4, <1>6, <1>7 DEF OwnSpace

\* And of interrupts.
LEMMA ExternalIsOne == MInv => OneExternal
<1> SUFFICES ASSUME MInv PROVE OneExternal  OBVIOUS
<1>1. PICK s : s = frames[current]  OBVIOUS
<1>2. /\ s \in Stack /\ s # <<>> /\ StackOK(s) /\ ExternalOK(s, intr, in_external_intr, isr)
  BY <1>1, Running
<1>3. PICK vec : vec = Last(s).vec  OBVIOUS
<1>4. in_external_intr <=> (Now("handler") \/ Now("complete"))
  <2>1. "handler" \notin OwnAt /\ "complete" \notin OwnAt  BY DEF OwnAt
  <2>2. Last(s).at \in {"handler", "complete"} => External(Last(s))  BY <1>2, <2>1, Below
  <2> QED  BY <1>1, <1>2, <2>2 DEF ExternalOK, Now, Top
<1>5. Handling(s) => ~intr  BY <1>2 DEF ExternalOK, Handling
<1>6. Handling(s) /\ vec # 39 => Line0(vec - 32) \in isr[0] /\ (vec >= 40 => vec - 32 \in isr[1])
  <2> SUFFICES ASSUME Handling(s), vec # 39
               PROVE  Line0(vec - 32) \in isr[0] /\ (vec >= 40 => vec - 32 \in isr[1])
    OBVIOUS
  <2>1. vec \in 32 .. 47  BY <1>3 DEF Handling, External, IsExternal
  <2>2. PICK i : i = vec - 32  OBVIOUS
  <2>3. i \in 0 .. 15 /\ i # 7 /\ (vec >= 40 <=> i >= 8)  BY <2>1, <2>2
  <2>4. Service(s, 0) = {Line0(i)}  BY <1>3, <2>2, <2>3, Zenon DEF Service
  <2>5. Service(s, 1) = IF i >= 8 THEN {i} ELSE {}
    <3>1. 1 # 0  OBVIOUS
    <3> QED  BY <1>3, <2>2, <3>1, Zenon DEF Service
  <2> QED  BY <1>2, <2>2, <2>3, <2>4, <2>5 DEF ExternalOK
<1>7. ~Handling(s) => isr[0] = {} /\ isr[1] = {}  BY <1>2 DEF ExternalOK, Service
<1>8. Handling(s) <=> frames[current] # <<>> /\ IsExternal(Top(current).vec)
                      /\ Top(current).at \in {"enter", "handler", "complete"}
  BY <1>1, Zenon DEF Handling, External, Top
<1>9. vec = Top(current).vec  BY <1>1, <1>3 DEF Top
<1> QED  BY <1>4, <1>5, <1>6, <1>7, <1>8, <1>9 DEF OneExternal

\* Stacks, page directories, the ready list and the controllers are always as
\* they have to be for any interrupt and any switch: MInv is inductive.
THEOREM MachineInvariant == MachineSpec => []MInv
<1>1. MachineInit => MInv  BY InitKeeps
<1>2. MInv /\ [MachineNext]_machineVars => MInv'  BY MInvStep
<1> QED  BY <1>1, <1>2, PTL DEF MachineSpec

\* An interrupt always finds the stack and the page directory of the thread it
\* interrupts, one is handled at a time, and no thread is left with one in service.
THEOREM InterruptsTrue == MachineSpec => []InterruptsExact
<1>1. MInv => InterruptsExact  BY SpaceIsOwn, ExternalIsOne DEF InterruptsExact
<1> QED  BY <1>1, MachineInvariant, PTL
=============================================================================
