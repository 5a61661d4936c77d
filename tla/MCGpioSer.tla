------------------------------ MODULE MCGpioSer -------------------------------
(***************************************************************************)
(* The serial board's host side and, by itself, the Select its device      *)
(* waits with (RS232Device.cpp:137-190): a behaviour is that of one.       *)
(***************************************************************************)
EXTENDS GpioSer

CONSTANTS SelFDs, MaxReady

\* Descriptors are natural numbers, and FD_SETSIZE of them at most.
ASSUME SelectAssumption == SelFDs \subseteq Nat /\ IsFiniteSet(SelFDs)

VARIABLES part, sets, maxfd, infinite, result, waits, outcome, ready

Sel == INSTANCE Select

selvars == <<sets, maxfd, infinite, result, waits, outcome, ready>>

MCInit == part \in {"board", "select"} /\ Init /\ Sel!SelInit
            /\ (part = "select" => unit = 1)

MCNext ==
  \/ part = "board" /\ Next /\ UNCHANGED <<part, selvars>>
  \/ part = "select" /\ Sel!SelNext /\ UNCHANGED <<part, vars>>

MCSpec == MCInit /\ [][MCNext]_<<part, vars, selvars>>

\* GpioSer's FairSpec, of which nothing is enabled while no call is under way.
MCFairSpec == MCSpec /\ Fairness

\* EEPROM alone, and program memory with pins: one of a half byte, and two of
\* different bytes.
SomePins == <<{}, {{13}, {2, 13}}>>
SomeImages == <<{<<1, 0, 1>>}, {<<1, 1>>}>>

\* The call under way, as the application made it.
CallMade ==
  [op |-> IF call.op \in {"byte", "header", "page"} THEN "write"
          ELSE IF call.op \in {"version", "size", "clear"} THEN "open"
          ELSE call.op,
   at |-> call.asked, val |-> call.val]

(* As long as the line is in step, pins and memory behave as if each call  *)
(* were done at once, with the address and the values it was called with:  *)
(* what a call reads is what the calls before it wrote to those cells, a   *)
(* page is written as a whole to where the address asked for belongs, and  *)
(* an error the board reports leaves the page's first cells written, some  *)
(* or none, and nothing else changed.  Only an exception and close() end   *)
(* that, and only an open() that finds the line quiet gives it back        *)
(* (GpioSer.cpp:88-669).                                                   *)
Board == INSTANCE RegisterSpec WITH pins <- kpins, memory <- kmemory, ask <- CallMade
IsRegisters == Board!RsSpec

(* Of the descriptors added and not removed, select() reports what is      *)
(* ready, and times out only when nothing is (Select.cpp:44-193).          *)
SelectAnswers == Sel!SelectAnswers
=============================================================================
