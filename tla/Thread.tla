------------------------------- MODULE Thread -------------------------------
(***************************************************************************)
(* tmb::Thread (tmb/thread/Thread.cpp): one Thread object, the operating   *)
(* system threads start() creates on it, and the application threads that  *)
(* call its methods at any time.  Every read and every write of            *)
(* c_thread_state is a step of its own, as nothing in the class makes a    *)
(* read and the following write one step.                                  *)
(***************************************************************************)
EXTENDS FiniteSets, TLC

CONSTANTS
  Callers,          \* application threads
  Runs,             \* bound: the threads start() can create, in any order
  None,             \* no run; c_thread_retval before any run
  Spurious,         \* see WaitEvent
  DeletesItself     \* the subclass's terminated() may delete the object

ASSUME ThreadAssumption ==
  /\ None \notin Callers \cup Runs
  /\ DeletesItself \in BOOLEAN
  /\ Spurious \in BOOLEAN

VARIABLES
  state,            \* c_thread_state
  retval,           \* c_thread_retval: the run whose result it holds
  id,               \* c_thread_id: the run it names
  rpc,              \* where in exec() a run is
  cpc,              \* where in a method of the object a caller is
  ret,              \* "stop" or "wait" if that was its last call and returned true
  deleted,          \* the object is gone
  alive,            \* the process is
  hasty,            \* history: some start() was not serial (below)
  mutex, wpc, timed \* c_event_term

evVars == <<mutex, wpc, timed>>
vars == <<state, retval, id, rpc, cpc, ret, deleted, alive, hasty, mutex, wpc, timed>>

Event == INSTANCE WaitEvent
           WITH Waiters <- Callers, NoOne <- None, UseBroadcast <- TRUE

States == {"INIT", "RUNNING", "STOPREQUEST", "TERMINATED"}
RunPcs == {"none", "created", "running", "stored", "ended", "fired", "last", "gone"}
CallPcs == {"idle", "start", "stop", "kill", "term", "wait"}

TypeOK ==
  /\ state \in States
  /\ retval \in Runs \cup {None}
  /\ id \in Runs \cup {None}
  /\ rpc \in [Runs -> RunPcs]
  /\ cpc \in [Callers -> CallPcs]
  /\ ret \in [Callers -> {"none", "stop", "wait"}]
  /\ deleted \in BOOLEAN
  /\ alive \in BOOLEAN
  /\ hasty \in BOOLEAN
  /\ Event!EvTypeOK

Init ==
  /\ state = "INIT"
  /\ retval = None
  /\ id = None
  /\ rpc = [r \in Runs |-> "none"]
  /\ cpc = [c \in Callers |-> "idle"]
  /\ ret = [c \in Callers |-> "none"]
  /\ deleted = FALSE
  /\ alive = TRUE
  /\ hasty = FALSE
  /\ Event!EvInit

-----------------------------------------------------------------------------
(* A run whose thread exists and has not yet stored State_TERMINATED. *)
Active(r) == rpc[r] \in {"created", "running", "stored"}

Return(c, what) == ret' = [ret EXCEPT ![c] = what]
Enter(c, pc) == cpc[c] = "idle" /\ ~deleted /\ cpc' = [cpc EXCEPT ![c] = pc]
Leave(c, pc) == cpc[c] = pc /\ cpc' = [cpc EXCEPT ![c] = "idle"]

(* start() is called while no other start() is under way and no created    *)
(* thread has yet to store State_RUNNING.                                  *)
Serial ==
  /\ \A r \in Runs : rpc[r] # "created"
  /\ \A c \in Callers : cpc[c] # "start"

(* Mutant: the state is not tested. *)
StartReadAnyState(c) ==
  /\ \E r \in Runs : rpc[r] = "none"
  /\ Enter(c, "start")
  /\ hasty' = (hasty \/ ~Serial)
  /\ UNCHANGED <<state, retval, id, rpc, ret, deleted, alive, evVars>>

(* start(): the state is read, and only then the thread is created. *)
StartRead(c) ==
  /\ state \in {"INIT", "TERMINATED"}
  /\ \E r \in Runs : rpc[r] = "none"
  /\ Enter(c, "start")
  /\ hasty' = (hasty \/ ~Serial)
  /\ UNCHANGED <<state, retval, id, rpc, ret, deleted, alive, evVars>>

StartRefused(c) ==
  /\ state \notin {"INIT", "TERMINATED"}
  /\ cpc[c] = "idle" /\ ~deleted
  /\ Return(c, "none")
  /\ UNCHANGED <<state, retval, id, rpc, cpc, deleted, alive, hasty, evVars>>

(* pthread_create, detached: c_thread_state is left for the new thread.    *)
StartCreate(c) ==
  /\ Leave(c, "start")
  /\ \/ \E r \in Runs :
          /\ rpc[r] = "none"
          /\ rpc' = [rpc EXCEPT ![r] = "created"]
          /\ id' = r
     \/ id' \in {id, None} /\ UNCHANGED rpc  \* ENOMEM, EAGAIN, EPERM: the
                                            \* contents of the id are undefined
  /\ Return(c, "none")
  /\ UNCHANGED <<state, retval, deleted, alive, hasty, evVars>>

(* Mutant: the state is not tested. *)
StopReadAnyState(c) ==
  /\ Enter(c, "stop")
  /\ UNCHANGED <<state, retval, id, rpc, ret, deleted, alive, hasty, evVars>>

(* stop(): State_RUNNING is tested in one step and replaced in another. *)
StopRead(c) ==
  /\ state = "RUNNING"
  /\ Enter(c, "stop")
  /\ UNCHANGED <<state, retval, id, rpc, ret, deleted, alive, hasty, evVars>>

StopRefused(c) ==
  /\ state # "RUNNING"
  /\ cpc[c] = "idle" /\ ~deleted
  /\ Return(c, "none")
  /\ UNCHANGED <<state, retval, id, rpc, cpc, deleted, alive, hasty, evVars>>

(* Mutant: the request is reported and not stored. *)
StopWriteNothing(c) ==
  /\ Leave(c, "stop")
  /\ Return(c, "stop")
  /\ UNCHANGED <<state, retval, id, rpc, deleted, alive, hasty, evVars>>

StopWrite(c) ==
  /\ Leave(c, "stop")
  /\ state' = "STOPREQUEST"
  /\ Return(c, "stop")
  /\ UNCHANGED <<retval, id, rpc, deleted, alive, hasty, evVars>>

(* kill(signal): the state is read, then c_thread_id is signalled. *)
KillRead(c) ==
  /\ state \in {"RUNNING", "STOPREQUEST"}
  /\ Enter(c, "kill")
  /\ UNCHANGED <<state, retval, id, rpc, ret, deleted, alive, hasty, evVars>>

(* SIGKILL ends the whole process, whichever thread it is sent to, so      *)
(* nothing after it in kill() runs; another signal leaves the object       *)
(* alone.  The id of a detached thread that is gone names nothing: the     *)
(* call may fail, hit another thread or crash, which is the same here.     *)
KillSignal(c) ==
  /\ Leave(c, "kill")
  /\ alive' \in BOOLEAN
  /\ Return(c, "none")
  /\ UNCHANGED <<state, retval, id, rpc, deleted, hasty, evVars>>

(* waitForTermination(a_timeout_ms): two reads of the state, then the wait. *)
WaitInit(c) ==
  /\ state = "INIT"
  /\ cpc[c] = "idle" /\ ~deleted
  /\ Return(c, "none")
  /\ UNCHANGED <<state, retval, id, rpc, cpc, deleted, alive, hasty, evVars>>

WaitStarted(c) ==
  /\ state # "INIT"
  /\ Enter(c, "term")
  /\ UNCHANGED <<state, retval, id, rpc, ret, deleted, alive, hasty, evVars>>

(* Mutant: a thread that was asked to stop counts as terminated. *)
WaitNotRunning(c) ==
  /\ state # "RUNNING"
  /\ Leave(c, "term")
  /\ Return(c, "wait")
  /\ UNCHANGED <<state, retval, id, rpc, deleted, alive, hasty, evVars>>

WaitTerminated(c) ==
  /\ state = "TERMINATED"
  /\ Leave(c, "term")
  /\ Return(c, "wait")
  /\ UNCHANGED <<state, retval, id, rpc, deleted, alive, hasty, evVars>>

WaitForEvent(c) ==
  /\ state # "TERMINATED"
  /\ cpc[c] = "term"
  /\ cpc' = [cpc EXCEPT ![c] = "wait"]
  /\ \E hasTimeout \in BOOLEAN : Event!WaitCall(c, hasTimeout)
  /\ UNCHANGED <<state, retval, id, rpc, ret, deleted, alive, hasty>>

WaitInside(c) ==
  /\ Event!WaitStep(c)
  /\ UNCHANGED <<state, retval, id, rpc, cpc, ret, deleted, alive, hasty>>

WaitDone(c) ==
  /\ Leave(c, "wait")
  /\ Event!WaitReturn(c)
  /\ Return(c, IF wpc[c] = "returned" THEN "wait" ELSE "none")
  /\ UNCHANGED <<state, retval, id, rpc, deleted, alive, hasty>>

-----------------------------------------------------------------------------
(* exec(), one step per access to the object. *)
RunGoto(r, from, to) == rpc[r] = from /\ rpc' = [rpc EXCEPT ![r] = to]

ExecRunning(r) ==
  /\ RunGoto(r, "created", "running")
  /\ state' = "RUNNING"
  /\ UNCHANGED <<retval, id, cpc, ret, deleted, alive, hasty, evVars>>

(* Mutant: the result is stored after the state. *)
ExecReturnLate(r) ==
  /\ RunGoto(r, "running", "stored")
  /\ UNCHANGED <<state, retval, id, cpc, ret, deleted, alive, hasty, evVars>>

(* run() returns, of its own accord or because it saw a stop request. *)
ExecReturn(r) ==
  /\ RunGoto(r, "running", "stored")
  /\ retval' = r
  /\ UNCHANGED <<state, id, cpc, ret, deleted, alive, hasty, evVars>>

ExecTerminated(r) ==
  /\ RunGoto(r, "stored", "ended")
  /\ state' = "TERMINATED"
  /\ UNCHANGED <<retval, id, cpc, ret, deleted, alive, hasty, evVars>>

ExecFire(r) ==
  /\ RunGoto(r, "ended", "fired")
  /\ Event!Fire
  /\ UNCHANGED <<state, retval, id, cpc, ret, deleted, alive, hasty>>

(* int retval = c_thread_retval: the last access before the callback. *)
ExecCopy(r) ==
  /\ RunGoto(r, "fired", "last")
  /\ UNCHANGED <<state, retval, id, cpc, ret, deleted, alive, hasty, evVars>>

ExecCallback(r) ==
  /\ RunGoto(r, "last", "gone")
  /\ deleted' \in {deleted, deleted \/ DeletesItself}
  /\ UNCHANGED <<state, retval, id, cpc, ret, alive, hasty, evVars>>

-----------------------------------------------------------------------------
CallStep(c) ==
  \/ StartCreate(c) \/ StopWrite(c) \/ KillSignal(c)
  \/ WaitTerminated(c) \/ WaitForEvent(c) \/ WaitInside(c) \/ WaitDone(c)

Call(c) ==
  \/ StartRead(c) \/ StartRefused(c) \/ StopRead(c) \/ StopRefused(c)
  \/ KillRead(c) \/ WaitInit(c) \/ WaitStarted(c)

ExecStep(r) ==
  \/ ExecRunning(r) \/ ExecReturn(r) \/ ExecTerminated(r)
  \/ ExecFire(r) \/ ExecCopy(r) \/ ExecCallback(r)

Next ==
  /\ alive
  /\ \/ \E c \in Callers : Call(c) \/ CallStep(c)
     \/ \E r \in Runs : ExecStep(r)

Spec == Init /\ [][Next]_vars

(* The scheduler runs every thread that can go on and a mutex is not       *)
(* refused for ever; run() is only expected to return once a stop is       *)
(* requested, and nobody is made to call a method.                         *)
CallProgress(c) ==
  /\ alive
  /\ \/ StartCreate(c) \/ StopWrite(c) \/ KillSignal(c)
     \/ WaitTerminated(c) \/ WaitForEvent(c) \/ WaitDone(c)
     \/ WaitInside(c) /\ (wpc[c] = "blocked" => timed[c] /\ wpc'[c] = "timedout")

MutexTaken(c) == alive /\ WaitInside(c) /\ mutex' = c

ExecProgress(r) ==
  alive /\ ExecStep(r) /\ (rpc[r] = "running" => state = "STOPREQUEST")

Fairness ==
  /\ \A c \in Callers : WF_vars(CallProgress(c)) /\ SF_vars(MutexTaken(c))
  /\ \A r \in Runs : WF_vars(ExecProgress(r))

FairSpec == Spec /\ Fairness

-----------------------------------------------------------------------------
OnlyRun(r) == \A s \in Runs \ {r} : rpc[s] = "none"
Ended(r) == rpc[r] \in {"ended", "fired", "last", "gone"}
Returned(method) == \E c \in Callers : ret[c] = method

(* As long as start() is called serially, never in the gap between         *)
(* pthread_create and the new thread's first store, there is one run() at  *)
(* a time: start() refuses while one is under way, restarts included.      *)
OneRunAtATime ==
  ~hasty => \A r, s \in Runs : Active(r) /\ Active(s) => r = s

(* Whoever sees isTerminated() finds a result of run() in                  *)
(* getThreadRetVal(): exec() stores it before the state.                   *)
ValueVisible == state = "TERMINATED" => retval # None

(* A stop() that returned true is what run() sees when it polls            *)
(* isStopRequested(): exec() does not overwrite the request.               *)
StopVisible ==
  \A r \in Runs :
    OnlyRun(r) /\ rpc[r] = "running" /\ Returned("stop")
      => state = "STOPREQUEST"

(* waitForTermination() returns true only when some run has ended, if the  *)
(* condition variable has no spurious wakeups.                             *)
WaitSeesEnd ==
  ~Spurious /\ Returned("wait") => \E r \in Runs : Ended(r)

(* A thread blocked in waitForTermination() before the event is fired is   *)
(* woken by it and returns.                                                *)
BlockedWaiterReturns ==
  \A c \in Callers :
    (wpc[c] = "blocked" /\ \E r \in Runs : rpc[r] \in {"stored", "ended"})
      ~> (wpc[c] = "out" \/ ~alive)

(* stop() ends a run() that polls isStopRequested(). *)
StopEndsRun ==
  \A r \in Runs :
    (OnlyRun(r) /\ rpc[r] = "running" /\ Returned("stop"))
      ~> (rpc[r] = "gone" \/ ~OnlyRun(r) \/ ~alive)

(* What joining a thread promises and "we use WaitEvent c_event_term       *)
(* instead" (Thread.cpp:96) claims: a waitForTermination() without timeout *)
(* returns when the thread has ended.                                      *)
JoinReturns ==
  \A c \in Callers :
    (cpc[c] \in {"term", "wait"} /\ \E r \in Runs : OnlyRun(r) /\ Ended(r))
      ~> (cpc[c] = "idle" \/ ~alive)

-----------------------------------------------------------------------------
\* Application threads, and runs, are interchangeable values.
Symmetry == Permutations(Callers) \cup Permutations(Runs)
=============================================================================
