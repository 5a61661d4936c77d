------------------------------- MODULE Select -------------------------------
(***************************************************************************)
(* io::Select: three sets of descriptors, the largest member of each, and  *)
(* a Result, which the program uses again for every call.                  *)
(***************************************************************************)
EXTENDS Integers, FiniteSets, FiniteSetsExt

CONSTANTS
  SelFDs,       \* the descriptors: some of 0..FD_SETSIZE-1
  MaxReady      \* bound: how many events are ready at once

Modes == {"rd", "wr", "ex"}
Events == Modes \X SelFDs
Masks == SUBSET Modes

VARIABLES
  sets,         \* c_readfds, c_writefds, c_exceptfds
  maxfd,        \* c_max_fd_rd, _wr, _ex
  infinite,     \* c_timeout.tv_sec < 0
  result,       \* the Result
  waits,        \* in the kernel's select()
  outcome,      \* how the last call ended
  ready         \* what the kernel knows of the descriptors (external)

mine == <<sets, maxfd, infinite>>
selvars == <<mine, result, waits, outcome, ready>>

Nothing == [m \in Modes |-> {}]

(* ireset(), also clear() *)
Reset ==
  /\ sets' = Nothing /\ maxfd' = [m \in Modes |-> -1] /\ infinite' = TRUE

SelInit ==
  /\ sets = Nothing /\ maxfd = [m \in Modes |-> -1] /\ infinite = TRUE
  /\ result = Nothing /\ waits = FALSE /\ outcome = "none" /\ ready = {}

(* imaxfd() *)
imaxfd ==
  IF maxfd["rd"] > maxfd["wr"] THEN maxfd["rd"]
  ELSE IF maxfd["wr"] > maxfd["ex"] THEN maxfd["wr"] ELSE maxfd["ex"]

Larger(a, b) == IF a > b THEN a ELSE b

(* add(): the number of a closed socket, -1, is left out. *)
Add(fd, mask) ==
  /\ ~waits /\ fd >= 0
  /\ sets' = [m \in Modes |-> IF m \in mask THEN sets[m] \cup {fd} ELSE sets[m]]
  /\ maxfd' = [m \in Modes |-> IF m \in mask THEN Larger(fd, maxfd[m]) ELSE maxfd[m]]
  /\ UNCHANGED <<infinite, result, waits, outcome, ready>>

(* removeHelper(): from the old maximum down to the next member. *)
Lowered(set, max) == LET below == {f \in set : f <= max} IN IF below = {} THEN -1 ELSE Max(below)

Held(fd, m) == fd <= maxfd[m] /\ fd \in sets[m]

(* Mutant: the maximum goes down by one only. *)
RemoveLowersOne(fd, mask) ==
  /\ ~waits /\ fd >= 0
  /\ sets' = [m \in Modes |-> IF m \in mask /\ Held(fd, m) THEN sets[m] \ {fd} ELSE sets[m]]
  /\ maxfd' = [m \in Modes |-> IF m \in mask /\ Held(fd, m) THEN maxfd[m] - 1 ELSE maxfd[m]]
  /\ UNCHANGED <<infinite, result, waits, outcome, ready>>

Remove(fd, mask) ==
  /\ ~waits /\ fd >= 0
  /\ sets' = [m \in Modes |-> IF m \in mask /\ Held(fd, m) THEN sets[m] \ {fd} ELSE sets[m]]
  /\ maxfd' = [m \in Modes |-> IF m \in mask /\ Held(fd, m)
                               THEN Lowered(sets[m] \ {fd}, maxfd[m]) ELSE maxfd[m]]
  /\ UNCHANGED <<infinite, result, waits, outcome, ready>>

Clear == ~waits /\ Reset /\ UNCHANGED <<result, waits, outcome, ready>>

SetTimeout(forever) ==
  /\ ~waits /\ infinite' = forever
  /\ UNCHANGED <<sets, maxfd, result, waits, outcome, ready>>

(* isSet(): set in every mode asked for. *)
isSet(fd, mask) == fd \in 0..imaxfd /\ \A m \in mask : fd \in sets[m]

-----------------------------------------------------------------------------
(* select(): the Result is emptied; with no descriptor at all there is no  *)
(* call.  A set whose maximum is -1 is not passed.                         *)
Passed == {m \in Modes : maxfd[m] >= 0}
Watched == {e \in Events : e[1] \in Passed /\ e[2] \in sets[e[1]] /\ e[2] <= imaxfd}

Call ==
  /\ ~waits /\ result' = Nothing
  /\ IF imaxfd >= 0 THEN waits' = TRUE /\ outcome' = "none"
                    ELSE waits' = FALSE /\ outcome' = "nothing to do"
  /\ UNCHANGED <<mine, ready>>

Ends(how) == waits /\ waits' = FALSE /\ outcome' = how /\ UNCHANGED <<mine, ready>>

(* Something is ready: the sets passed come back with what is.  The kernel *)
(* need not clear, nor look at, what is above the maximum.                 *)
Returns ==
  /\ Watched \cap ready # {} /\ Ends("ready")
  /\ \E above \in {{}, {e \in Events : e[1] \in Passed /\ e[2] \in sets[e[1]]} \ Watched} :
       result' = [m \in Modes |-> {f \in SelFDs : <<m, f>> \in (Watched \cap ready) \cup above}]

TimesOut == ~infinite /\ Watched \cap ready = {} /\ Ends("timeout") /\ UNCHANGED result

(* InterruptedException, IOException *)
Throws == Ends("thrown") /\ UNCHANGED result

Event ==
  /\ ready' \in {s \in SUBSET Events : Cardinality(s) <= MaxReady} /\ ready' # ready
  /\ UNCHANGED <<mine, result, waits, outcome>>

SelNext ==
  \/ \E fd \in SelFDs \cup {-1}, mask \in Masks : Add(fd, mask) \/ Remove(fd, mask)
  \/ Clear \/ Call \/ Returns \/ TimesOut \/ Throws \/ Event
  \/ \E forever \in BOOLEAN : SetTimeout(forever)

SelSpec == SelInit /\ [][SelNext]_selvars
-----------------------------------------------------------------------------
Asked == {e \in Events : e[2] \in sets[e[1]]}

(* A call that ends reports, of what was added and not removed, exactly    *)
(* what is ready, and gives up only when nothing of it is.  In one case an *)
(* exception set's descriptors are left out: when the read maximum, which  *)
(* hides theirs, is above the write maximum (Select.cpp:44-48, 132-193).   *)
Hidden == maxfd["ex"] > maxfd["rd"] /\ maxfd["rd"] > maxfd["wr"]
Reported == {e \in Events : e[2] \in result'[e[1]]}
SelectAnswers ==
  [][~Hidden /\ (waits \/ waits') =>
       /\ outcome' = "ready" => Reported = Asked \cap ready
       /\ outcome' = "timeout" => Asked \cap ready = {}
       /\ waits' /\ ~waits => \A e \in Asked : isSet(e[2], {e[1]})]_selvars
=============================================================================
