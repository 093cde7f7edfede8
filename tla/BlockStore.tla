----------------------------- MODULE BlockStore -----------------------------
(***************************************************************************)
(* What block.h promises: each sector keeps what was last written to it, a  *)
(* read or a write takes effect at one moment between its call and its       *)
(* return however many threads use the devices, and every call returns.      *)
(***************************************************************************)
EXTENDS Integers

CONSTANTS Thread, Sector, Value, InitialStore, NoRequest, Pending, Written

VARIABLES store, request, answer, stopped

bvars == <<store, request, answer, stopped>>

BInit ==
  /\ store = InitialStore
  /\ request = [t \in Thread |-> NoRequest]
  /\ answer = [t \in Thread |-> Pending]
  /\ stopped = FALSE

Read(s) == <<"read", s>>
Write(s, v) == <<"write", s, v>>

Ask(t, r) ==
  /\ request[t] = NoRequest
  /\ request' = [request EXCEPT ![t] = r]
  /\ answer' = [answer EXCEPT ![t] = Pending]
  /\ UNCHANGED <<store, stopped>>

Perform(t) ==
  /\ request[t] # NoRequest /\ answer[t] = Pending
  /\ LET s == request[t][2] IN
     IF request[t][1] = "read"
     THEN answer' = [answer EXCEPT ![t] = store[s]] /\ UNCHANGED store
     ELSE answer' = [answer EXCEPT ![t] = Written] /\ store' = [store EXCEPT ![s] = request[t][3]]
  /\ UNCHANGED <<request, stopped>>

Answer(t) ==
  /\ request[t] # NoRequest /\ answer[t] # Pending
  /\ request' = [request EXCEPT ![t] = NoRequest]
  /\ UNCHANGED <<store, answer, stopped>>

\* The kernel may stop because a drive failed.
Stop == ~stopped /\ stopped' = TRUE /\ UNCHANGED <<store, request, answer>>

BStep(t) == Perform(t) \/ Answer(t)

BNext ==
  \/ \E t \in Thread : \/ BStep(t)
                       \/ \E s \in Sector : \/ Ask(t, Read(s))
                                            \/ \E v \in Value : Ask(t, Write(s, v))
  \/ Stop

BSpec ==
  /\ BInit /\ [][BNext]_bvars
  /\ \A t \in Thread : WF_bvars(~stopped /\ BStep(t))
=============================================================================
