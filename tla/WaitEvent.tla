----------------------------- MODULE WaitEvent -----------------------------
(***************************************************************************)
(* tmb::WaitEvent (tmb/thread/WaitEvent.cpp), the POSIX branch: a mutex    *)
(* and a condition variable with no predicate.  fire() does not take the   *)
(* mutex and leaves nothing behind, so an event fired while nobody is      *)
(* blocked is gone.  The pthread primitives are external; they are         *)
(* modelled with the steps POSIX allows them.                              *)
(***************************************************************************)
EXTENDS FiniteSets

CONSTANTS
  Waiters,        \* the threads that may call wait()
  NoOne,          \* the mutex is free
  UseBroadcast,   \* c_use_broadcast
  Spurious        \* whether pthread_cond_wait may return without a signal

VARIABLES
  mutex,          \* c_mutex: its holder
  wpc,            \* where in wait() a thread is
  timed           \* whether its wait has a_timeout_ms >= 0

evVars == <<mutex, wpc, timed>>

WaitPcs == {"out", "lock", "locked", "blocked", "signalled", "timedout",
            "unlock", "throw", "returned", "thrown"}

EvTypeOK ==
  /\ mutex \in Waiters \cup {NoOne}
  /\ wpc \in [Waiters -> WaitPcs]
  /\ timed \in [Waiters -> BOOLEAN]

EvInit ==
  /\ mutex = NoOne
  /\ wpc = [w \in Waiters |-> "out"]
  /\ timed = [w \in Waiters |-> FALSE]

Goto(w, from, to) == wpc[w] = from /\ wpc' = [wpc EXCEPT ![w] = to]

(* wait(a_timeout_ms) is entered. *)
WaitCall(w, hasTimeout) ==
  /\ Goto(w, "out", "lock")
  /\ timed' = [timed EXCEPT ![w] = hasTimeout]
  /\ UNCHANGED mutex

(* pthread_mutex_lock. *)
WaitLock(w) ==
  /\ mutex = NoOne
  /\ Goto(w, "lock", "locked")
  /\ mutex' = w
  /\ UNCHANGED timed

(* pthread_cond_[timed]wait releases the mutex and blocks in one step. *)
WaitBlock(w) ==
  /\ Goto(w, "locked", "blocked")
  /\ mutex' = NoOne
  /\ UNCHANGED timed

SpuriousWakeup(w) ==
  /\ Spurious
  /\ Goto(w, "blocked", "signalled")
  /\ UNCHANGED <<mutex, timed>>

(* The timespec holds the relative timeout, which pthread_cond_timedwait   *)
(* takes for a time in 1970: the deadline has always passed.               *)
WaitTimeout(w) ==
  /\ timed[w]
  /\ Goto(w, "blocked", "timedout")
  /\ UNCHANGED <<mutex, timed>>

(* The mutex is taken again before the condition wait returns. *)
WaitRelock(w) ==
  /\ mutex = NoOne
  /\ \/ Goto(w, "signalled", "unlock")
     \/ Goto(w, "timedout", "throw")
  /\ mutex' = w
  /\ UNCHANGED timed

(* pthread_mutex_unlock, then true or TryAgainException. *)
WaitUnlock(w) ==
  /\ \/ Goto(w, "unlock", "returned")
     \/ Goto(w, "throw", "thrown")
  /\ mutex' = NoOne
  /\ UNCHANGED timed

(* The caller of wait() goes on. *)
WaitReturn(w) ==
  /\ wpc[w] \in {"returned", "thrown"}
  /\ wpc' = [wpc EXCEPT ![w] = "out"]
  /\ timed' = [timed EXCEPT ![w] = FALSE]
  /\ UNCHANGED mutex

Blocked == {w \in Waiters : wpc[w] = "blocked"}

(* Mutant: signal where broadcast is configured. *)
FireOne ==
  /\ \E woken \in SUBSET Blocked :
       /\ Cardinality(woken) = (IF Blocked = {} THEN 0 ELSE 1)
       /\ wpc' = [w \in Waiters |-> IF w \in woken THEN "signalled" ELSE wpc[w]]
  /\ UNCHANGED <<mutex, timed>>

(* fire(): wake every blocked thread, or one of them. *)
Fire ==
  /\ \E woken \in SUBSET Blocked :
       /\ IF UseBroadcast THEN woken = Blocked
          ELSE Cardinality(woken) = (IF Blocked = {} THEN 0 ELSE 1)
       /\ wpc' = [w \in Waiters |-> IF w \in woken THEN "signalled" ELSE wpc[w]]
  /\ UNCHANGED <<mutex, timed>>

(* The steps of a thread inside wait() that need no other thread. *)
WaitStep(w) ==
  WaitLock(w) \/ WaitBlock(w) \/ SpuriousWakeup(w) \/ WaitTimeout(w)
  \/ WaitRelock(w) \/ WaitUnlock(w)
=============================================================================
