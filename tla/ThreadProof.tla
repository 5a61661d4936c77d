----------------------------- MODULE ThreadProof -----------------------------
(***************************************************************************)
(* Proofs about Thread for any callers and any number of runs: type        *)
(* correctness, then each safety property from the invariant that makes    *)
(* it inductive.                                                           *)
(***************************************************************************)
EXTENDS Thread, TLAPS

(* The constants and variables the two modules share, spelled out.         *)
LEMMA WaitTypes ==
  ASSUME TypeOK, NEW c \in Callers, Event!WaitStep(c)
  PROVE  Event!EvTypeOK'
<1> USE DEF TypeOK, Event!EvTypeOK, Event!WaitPcs, Event!Goto
<1>1. CASE Event!WaitLock(c)       BY <1>1 DEF Event!WaitLock
<1>2. CASE Event!WaitBlock(c)      BY <1>2 DEF Event!WaitBlock
<1>3. CASE Event!SpuriousWakeup(c) BY <1>3 DEF Event!SpuriousWakeup
<1>4. CASE Event!WaitTimeout(c)    BY <1>4 DEF Event!WaitTimeout
<1>5. CASE Event!WaitRelock(c)     BY <1>5 DEF Event!WaitRelock
<1>6. CASE Event!WaitUnlock(c)     BY <1>6 DEF Event!WaitUnlock
<1> QED BY <1>1, <1>2, <1>3, <1>4, <1>5, <1>6 DEF Event!WaitStep

(* Every step keeps the types (Thread's fields, the callers' and the runs' *)
(* control points, the WaitEvent).                                         *)
THEOREM TypeCorrect == Spec => []TypeOK
<1>1. Init => TypeOK
  <2>1. Event!EvInit => Event!EvTypeOK
    BY DEF Event!EvInit, Event!EvTypeOK, Event!WaitPcs
  <2> QED BY <2>1 DEF Init, TypeOK, States, RunPcs, CallPcs
<1>2. TypeOK /\ [Next]_vars => TypeOK'
  <2> SUFFICES ASSUME TypeOK, [Next]_vars PROVE TypeOK'
    OBVIOUS
  <2> USE DEF TypeOK, States, RunPcs, CallPcs
  <2>1. ASSUME NEW c \in Callers, Call(c) PROVE TypeOK'
    <3> USE DEF Enter, Leave, Return, evVars, Event!EvTypeOK
    <3>1. CASE StartRead(c)    BY <3>1 DEF StartRead
    <3>2. CASE StartRefused(c) BY <3>2 DEF StartRefused
    <3>3. CASE StopRead(c)     BY <3>3 DEF StopRead
    <3>4. CASE StopRefused(c)  BY <3>4 DEF StopRefused
    <3>5. CASE KillRead(c)     BY <3>5 DEF KillRead
    <3>6. CASE WaitInit(c)     BY <3>6 DEF WaitInit
    <3>7. CASE WaitStarted(c)  BY <3>7 DEF WaitStarted
    <3> QED BY <2>1, <3>1, <3>2, <3>3, <3>4, <3>5, <3>6, <3>7 DEF Call
  <2>2. ASSUME NEW c \in Callers, CallStep(c) PROVE TypeOK'
    <3> USE DEF Leave, Return, evVars
    <3>1. CASE StartCreate(c)    BY <3>1 DEF StartCreate, Event!EvTypeOK
    <3>2. CASE StopWrite(c)      BY <3>2 DEF StopWrite, Event!EvTypeOK
    <3>3. CASE KillSignal(c)     BY <3>3 DEF KillSignal, Event!EvTypeOK
    <3>4. CASE WaitTerminated(c) BY <3>4 DEF WaitTerminated, Event!EvTypeOK
    <3>5. CASE WaitForEvent(c)
      BY <3>5 DEF WaitForEvent, Event!WaitCall, Event!Goto, Event!EvTypeOK, Event!WaitPcs
    <3>6. CASE WaitInside(c)     BY <3>6, WaitTypes DEF WaitInside
    <3>7. CASE WaitDone(c)
      BY <3>7 DEF WaitDone, Event!WaitReturn, Event!EvTypeOK, Event!WaitPcs
    <3> QED BY <2>2, <3>1, <3>2, <3>3, <3>4, <3>5, <3>6, <3>7 DEF CallStep
  <2>3. ASSUME NEW r \in Runs, ExecStep(r) PROVE TypeOK'
    <3> USE DEF RunGoto, evVars, Event!EvTypeOK
    <3>1. CASE ExecRunning(r)    BY <3>1 DEF ExecRunning
    <3>2. CASE ExecReturn(r)     BY <3>2 DEF ExecReturn
    <3>3. CASE ExecTerminated(r) BY <3>3 DEF ExecTerminated
    <3>4. CASE ExecFire(r)       BY <3>4 DEF ExecFire, Event!Fire, Event!WaitPcs
    <3>5. CASE ExecCopy(r)       BY <3>5 DEF ExecCopy
    <3>6. CASE ExecCallback(r)   BY <3>6, ThreadAssumption DEF ExecCallback
    <3> QED BY <2>3, <3>1, <3>2, <3>3, <3>4, <3>5, <3>6 DEF ExecStep
  <2>4. CASE UNCHANGED vars
    BY <2>4 DEF vars, Event!EvTypeOK
  <2> QED BY <2>1, <2>2, <2>3, <2>4 DEF Next
<1> QED BY <1>1, <1>2, PTL DEF Spec

-----------------------------------------------------------------------------
(* While starts are serial nobody is between the test in start() and            *)
(* pthread_create while a run is active, or while another caller is, and   *)
(* the state shows a run that is past its first store.                     *)
SerialInv ==
  ~hasty =>
    /\ \A r, s \in Runs : Active(r) /\ Active(s) => r = s
    /\ \A r \in Runs :
         rpc[r] \in {"running", "stored"} => state \in {"RUNNING", "STOPREQUEST"}
    /\ \A c \in Callers : cpc[c] = "start" =>
         /\ \A r \in Runs : ~Active(r)
         /\ \A d \in Callers : cpc[d] = "start" => d = c

(* One run() at a time (Thread::start against Thread::exec) for callers    *)
(* that start serially.                                                    *)
THEOREM OneRunAtATimeHolds == Spec => []OneRunAtATime
<1>1. Init => SerialInv
  BY DEF Init, SerialInv, Active
<1>2. TypeOK /\ SerialInv /\ [Next]_vars => SerialInv'
  <2> SUFFICES ASSUME TypeOK, SerialInv, [Next]_vars, ~hasty' PROVE SerialInv'
    BY DEF SerialInv
  <2> USE DEF TypeOK, SerialInv, Active
  <2>1. ASSUME NEW c \in Callers, Call(c) PROVE SerialInv'
    <3> USE DEF Enter
    <3>1. CASE StartRead(c) BY <3>1 DEF StartRead, Serial, RunPcs
    <3>2. CASE ~StartRead(c)
      BY <2>1, <3>2 DEF Call, StartRefused, StopRead, StopRefused, KillRead,
                        WaitInit, WaitStarted
    <3> QED BY <3>1, <3>2
  <2>2. ASSUME NEW c \in Callers, CallStep(c) PROVE SerialInv'
    <3>1. CASE StartCreate(c) BY <3>1 DEF StartCreate, Leave
    <3>2. CASE ~StartCreate(c)
      BY <2>2, <3>2 DEF CallStep, StopWrite, KillSignal, WaitTerminated,
                        WaitForEvent, WaitInside, WaitDone, Leave
    <3> QED BY <3>1, <3>2
  <2>3. ASSUME NEW r \in Runs, ExecStep(r) PROVE SerialInv'
    BY <2>3 DEF ExecStep, ExecRunning, ExecReturn, ExecTerminated, ExecFire,
                ExecCopy, ExecCallback, RunGoto
  <2>4. CASE UNCHANGED vars
    BY <2>4 DEF vars
  <2> QED BY <2>1, <2>2, <2>3, <2>4 DEF Next
<1>3. SerialInv => OneRunAtATime
  BY DEF SerialInv, OneRunAtATime
<1> QED BY <1>1, <1>2, <1>3, TypeCorrect, PTL DEF Spec

-----------------------------------------------------------------------------
(* A run past its run() has left a result, which nothing takes away.       *)
ValueInv ==
  /\ ValueVisible
  /\ \A r \in Runs : rpc[r] \notin {"none", "created", "running"} => retval # None

(* isTerminated() implies a result in getThreadRetVal(), whoever starts    *)
(* what and when (the two stores of Thread::exec in their order).          *)
THEOREM ValueVisibleHolds == Spec => []ValueVisible
<1>1. Init => ValueInv
  BY DEF Init, ValueInv, ValueVisible
<1>2. TypeOK /\ ValueInv /\ [Next]_vars => ValueInv'
  <2> SUFFICES ASSUME TypeOK, ValueInv, [Next]_vars PROVE ValueInv'
    OBVIOUS
  <2> USE DEF TypeOK, ValueInv, ValueVisible
  <2>1. ASSUME NEW c \in Callers, Call(c) PROVE ValueInv'
    BY <2>1 DEF Call, StartRead, StartRefused, StopRead, StopRefused, KillRead,
                WaitInit, WaitStarted
  <2>2. ASSUME NEW c \in Callers, CallStep(c) PROVE ValueInv'
    BY <2>2 DEF CallStep, StartCreate, StopWrite, KillSignal, WaitTerminated,
                WaitForEvent, WaitInside, WaitDone
  <2>3. ASSUME NEW r \in Runs, ExecStep(r) PROVE ValueInv'
    BY <2>3, ThreadAssumption
       DEF ExecStep, ExecRunning, ExecReturn, ExecTerminated, ExecFire,
           ExecCopy, ExecCallback, RunGoto
  <2>4. CASE UNCHANGED vars
    BY <2>4 DEF vars
  <2> QED BY <2>1, <2>2, <2>3, <2>4 DEF Next
<1>3. ValueInv => ValueVisible
  BY DEF ValueInv
<1> QED BY <1>1, <1>2, <1>3, TypeCorrect, PTL DEF Spec

-----------------------------------------------------------------------------
(* Before the only run has stored State_RUNNING no stop() can succeed; in  *)
(* run() the state is State_RUNNING until one does.                        *)
StopInv ==
  \A r \in Runs : OnlyRun(r) =>
    /\ rpc[r] \in {"none", "created"} =>
         /\ state = "INIT"
         /\ \A c \in Callers : cpc[c] # "stop" /\ ret[c] # "stop"
    /\ rpc[r] = "running" =>
         \/ state = "STOPREQUEST"
         \/ state = "RUNNING" /\ ~Returned("stop")

(* A stop() that returned true is seen by the object's only run (Thread::  *)
(* stop against Thread::exec).                                             *)
THEOREM StopVisibleHolds == Spec => []StopVisible
<1>1. Init => StopInv
  BY DEF Init, StopInv, OnlyRun
<1>2. TypeOK /\ StopInv /\ [Next]_vars => StopInv'
  <2> SUFFICES ASSUME TypeOK, StopInv, [Next]_vars,
                      NEW r \in Runs, OnlyRun(r)'
               PROVE  /\ rpc'[r] \in {"none", "created"} =>
                           /\ state' = "INIT"
                           /\ \A c \in Callers : cpc'[c] # "stop" /\ ret'[c] # "stop"
                      /\ rpc'[r] = "running" =>
                           \/ state' = "STOPREQUEST"
                           \/ state' = "RUNNING" /\ ~Returned("stop")'
    BY DEF StopInv
  <2> DEFINE Goal == /\ rpc'[r] \in {"none", "created"} =>
                          /\ state' = "INIT"
                          /\ \A c \in Callers : cpc'[c] # "stop" /\ ret'[c] # "stop"
                     /\ rpc'[r] = "running" =>
                          \/ state' = "STOPREQUEST"
                          \/ state' = "RUNNING" /\ ~Returned("stop")'
  <2> USE DEF TypeOK, StopInv, OnlyRun, Returned, Enter, Leave, Return
  <2>1. ASSUME NEW c \in Callers, Call(c) PROVE Goal
    BY <2>1 DEF Call, StartRead, StartRefused, StopRead, StopRefused, KillRead,
                WaitInit, WaitStarted
  <2>2. ASSUME NEW c \in Callers, CallStep(c) PROVE Goal
    <3>1. CASE StartCreate(c) BY <3>1 DEF StartCreate, RunPcs
    <3>2. CASE StopWrite(c) BY <3>2 DEF StopWrite, RunPcs
    <3>3. CASE ~StartCreate(c) /\ ~StopWrite(c)
      BY <2>2, <3>3 DEF CallStep, KillSignal, WaitTerminated, WaitForEvent,
                        WaitInside, WaitDone
    <3> QED BY <3>1, <3>2, <3>3
  <2>3. ASSUME NEW s \in Runs, ExecStep(s) PROVE Goal
    BY <2>3 DEF ExecStep, ExecRunning, ExecReturn, ExecTerminated, ExecFire,
                ExecCopy, ExecCallback, RunGoto
  <2>4. CASE UNCHANGED vars
    BY <2>4 DEF vars
  <2> QED BY <2>1, <2>2, <2>3, <2>4 DEF Next
<1>3. StopInv => StopVisible
  BY DEF StopInv, StopVisible
<1> QED BY <1>1, <1>2, <1>3, TypeCorrect, PTL DEF Spec

-----------------------------------------------------------------------------
(* Whatever makes waitForTermination() return true, a stored               *)
(* State_TERMINATED or a wakeup, comes after the end of a run.             *)
EndSeen == \E r \in Runs : Ended(r)
Awake(c) == wpc[c] \in {"signalled", "unlock", "returned"}

WaitInv ==
  ~Spurious =>
    /\ state = "TERMINATED" => EndSeen
    /\ \A c \in Callers : ret[c] = "wait" \/ Awake(c) => EndSeen

(* waitForTermination() (with WaitEvent::wait and fire) returns true only  *)
(* after the end of a run, when wakeups are never spurious.                *)
THEOREM WaitSeesEndHolds == Spec => []WaitSeesEnd
<1>1. Init => WaitInv
  BY DEF Init, WaitInv, Awake, Event!EvInit
<1>2. TypeOK /\ WaitInv /\ [Next]_vars => WaitInv'
  <2> SUFFICES ASSUME TypeOK, WaitInv, [Next]_vars, ~Spurious PROVE WaitInv'
    BY DEF WaitInv
  <2> USE DEF TypeOK, WaitInv, Awake, EndSeen, Ended, Event!EvTypeOK
  <2>1. ASSUME NEW c \in Callers, Call(c) PROVE WaitInv'
    BY <2>1 DEF Call, StartRead, StartRefused, StopRead, StopRefused, KillRead,
                WaitInit, WaitStarted, Return, evVars
  <2>2. ASSUME NEW c \in Callers, CallStep(c) PROVE WaitInv'
    <3>1. CASE StartCreate(c) BY <3>1 DEF StartCreate, Return, evVars
    <3>2. CASE StopWrite(c) BY <3>2 DEF StopWrite, Return, evVars
    <3>3. CASE KillSignal(c) BY <3>3 DEF KillSignal, Return, evVars
    <3>4. CASE WaitTerminated(c) BY <3>4 DEF WaitTerminated, Return, evVars
    <3>5. CASE WaitForEvent(c)
      BY <3>5 DEF WaitForEvent, Event!WaitCall, Event!Goto
    <3>6. CASE WaitInside(c)
      BY <3>6 DEF WaitInside, Event!WaitStep, Event!WaitLock, Event!WaitBlock,
                  Event!SpuriousWakeup, Event!WaitTimeout, Event!WaitRelock,
                  Event!WaitUnlock, Event!Goto
    <3>7. CASE WaitDone(c) BY <3>7 DEF WaitDone, Event!WaitReturn, Return
    <3> QED BY <2>2, <3>1, <3>2, <3>3, <3>4, <3>5, <3>6, <3>7 DEF CallStep
  <2>3. ASSUME NEW r \in Runs, ExecStep(r) PROVE WaitInv'
    BY <2>3 DEF ExecStep, ExecRunning, ExecReturn, ExecTerminated, ExecFire,
                ExecCopy, ExecCallback, RunGoto, Event!Fire, evVars
  <2>4. CASE UNCHANGED vars
    BY <2>4 DEF vars
  <2> QED BY <2>1, <2>2, <2>3, <2>4 DEF Next
<1>3. WaitInv => WaitSeesEnd
  BY DEF WaitInv, WaitSeesEnd, EndSeen, Returned
<1> QED BY <1>1, <1>2, <1>3, TypeCorrect, PTL DEF Spec
=============================================================================
