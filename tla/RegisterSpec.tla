---------------------------- MODULE RegisterSpec ----------------------------
(***************************************************************************)
(* What GpioSer promises: the pins and the memory of a board, read and     *)
(* written by calls that each do it at once, at some time between their    *)
(* beginning and their end.  An exception of the line leaves host and      *)
(* board out of step ("lost"): from then on nothing is promised, until an  *)
(* open() that finds the line quiet.                                       *)
(***************************************************************************)
EXTENDS Integers, Sequences

CONSTANT Size

VARIABLES
  pins, memory,
  lost,
  ask,                \* the call under way, as the application made it
  answer              \* the last one, with its result

Addr == 0..(Size - 1)

rsVars == <<pins, memory, lost, ask, answer>>

NoAsk == [op |-> "none", at |-> 0, val |-> <<>>]

\* A call begins.  One that reads asks for as many cells as val has members.
RsBegin ==
  /\ ask = NoAsk
  /\ ask'.op \in {"get", "put", "set", "clr", "read", "write"}
  /\ ask'.op = "read" => ask'.at + Len(ask'.val) <= Size
  /\ answer' = [op |-> "none", val |-> <<>>]
  /\ UNCHANGED <<pins, memory>>

\* The call under way ends.
RsEnd(op, result) == ask' = NoAsk /\ answer' = [op |-> op, val |-> result]

RsGet == ask.op = "get" /\ RsEnd("get", pins) /\ UNCHANGED <<pins, memory>>

RsPut == ask.op = "put" /\ RsEnd("put", <<>>) /\ pins' = ask.val /\ UNCHANGED memory
RsSet == ask.op = "set" /\ RsEnd("set", <<>>) /\ pins' = pins \cup ask.val /\ UNCHANGED memory
RsClr == ask.op = "clr" /\ RsEnd("clr", <<>>) /\ pins' = pins \ ask.val /\ UNCHANGED memory

RsRead ==
  /\ ask.op = "read"
  /\ RsEnd("read", [k \in 1..Len(ask.val) |-> memory[ask.at + k - 1]])
  /\ UNCHANGED <<pins, memory>>

\* The page that holds the address asked for, a single byte being one of
\* length 1; and the memory with the first m of its cells written.
Start == ask.at - (ask.at % Len(ask.val))
WithFirst(m) ==
  [b \in Addr |-> IF b \in Start..(Start + m - 1) THEN ask.val[b - Start + 1] ELSE memory[b]]

\* It is written as a whole,
RsWrite ==
  /\ ask.op = "write"
  /\ RsEnd("write", <<>>)
  /\ memory' = WithFirst(Len(ask.val))
  /\ UNCHANGED pins

\* or the board reports an error: what was to be written is written up to the
\* cell that failed, and nothing else has changed.
RsError ==
  /\ RsEnd("error", <<>>)
  /\ \/ ask.op = "read" /\ UNCHANGED memory
     \/ ask.op = "write" /\ \E m \in 0..(Len(ask.val) - 1) : memory' = WithFirst(m)
  /\ UNCHANGED pins

RsCall ==
  \/ RsBegin \/ RsGet \/ RsPut \/ RsSet \/ RsClr
  \/ RsRead \/ RsWrite \/ RsError

\* Only an exception, or close(), gives up the line, and only open() gets it back.
RsLose == ask' = NoAsk /\ answer'.op \in {"exception", "close"}
RsOpen == ask.op = "open" /\ ask' = NoAsk /\ answer'.op = "open"

RsInit == lost = TRUE
RsNext ==
  \/ ~lost /\ ~lost' /\ RsCall
  \/ ~lost /\ lost' /\ RsLose
  \/ lost /\ ~lost' /\ RsOpen
  \/ lost /\ lost'
RsSpec == RsInit /\ [][RsNext]_rsVars
=============================================================================
