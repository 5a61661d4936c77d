--------------------------- MODULE LogController ----------------------------
(***************************************************************************)
(* log::LogController and the masks of log::LogDevice.  Every thread logs  *)
(* through one List of devices, and every get() of theirs moves its cursor *)
(* (List::igetDataElementAt); nothing locks it.  Device number i is the    *)
(* i-th element, and 0 the null pointer.                                   *)
(***************************************************************************)
EXTENDS Integers, Sequences

CONSTANTS
  Loggers,      \* the threads
  Types,        \* the bits of the LogTypes: Log_FATAL is 2^0, ...
  MaxDevices    \* bound: devices added

VARIABLES
  mask,         \* _types_enabled, as its bits
  devices,      \* the types of each device, {} when it is not enabled
  curp, curindex,                     \* _devices' cursor
  lpc, type, total, index, elem, got, \* iwrite() of each thread: a_type, n, i, and the devices written to
  wanted,       \* history: the types enabled last, as the program meant it
  shifted,      \* history: setTypeEnabled() of the controller was called
  overlap       \* history: two threads were in the list at once

calls == <<lpc, type, total, index, elem, got>>
logvars == <<mask, devices, curp, curindex, calls, wanted, shifted, overlap>>

LogInit ==
  /\ mask = Types \ {7} /\ wanted = mask   \* LogLevel_INFO
  /\ devices = <<>> /\ curp = 0 /\ curindex = 0
  /\ lpc = [t \in Loggers |-> "idle"] /\ type = [t \in Loggers |-> 0]
  /\ total = type /\ index = type /\ elem = type /\ got = [t \in Loggers |-> <<>>]
  /\ shifted = FALSE /\ overlap = FALSE

\* The settings are changed, and devices added, while no thread logs. Once two
\* threads were in the list the calls under way still end, the last modelled.
Quiet == ~overlap /\ \A t \in Loggers : lpc[t] = "idle"

(* add(), which leaves the cursor at the new element. *)
AddDevice(types) ==
  /\ Quiet /\ Len(devices) < MaxDevices
  /\ devices' = Append(devices, types)
  /\ curp' = Len(devices') /\ curindex' = Len(devices)
  /\ UNCHANGED <<mask, calls, wanted, shifted, overlap>>

(* LogDevice::setTypesEnabled(), setTypeEnabled(), setTypeLevel() and      *)
(* setEnabled() of a device.                                               *)
SetDevice(d, types) ==
  /\ Quiet /\ d \in DOMAIN devices /\ devices' = [devices EXCEPT ![d] = types]
  /\ UNCHANGED <<mask, curp, curindex, calls, wanted, shifted, overlap>>

With(set, types, on) == IF on THEN set \cup types ELSE set \ types

SetTypesEnabled(types, on) ==
  /\ Quiet
  /\ mask' = With(mask, types, on) /\ wanted' = With(wanted, types, on)
  /\ UNCHANGED <<devices, curp, curindex, calls, shifted, overlap>>

SetLogLevel(types) ==
  /\ Quiet /\ mask' = types /\ wanted' = types /\ shifted' = FALSE
  /\ UNCHANGED <<devices, curp, curindex, calls, overlap>>

(* 1 << a_type, of a type that is 2^bit already; the processor takes the   *)
(* distance modulo 32.                                                     *)
Shifted(bit) == (2 ^ bit) % 32

SetTypeEnabled(bit, on) ==
  /\ Quiet
  /\ mask' = With(mask, {Shifted(bit)}, on) /\ wanted' = With(wanted, {bit}, on)
  /\ shifted' = TRUE
  /\ UNCHANGED <<devices, curp, curindex, calls, overlap>>

-----------------------------------------------------------------------------
To(t, place) == lpc' = [lpc EXCEPT ![t] = place]

(* debug() to fatal(): iwrite(). *)
Log(t, bit) ==
  /\ lpc[t] = "idle" /\ ~overlap
  /\ type' = [type EXCEPT ![t] = bit] /\ got' = [got EXCEPT ![t] = <<>>]
  /\ index' = [index EXCEPT ![t] = 0] /\ total' = [total EXCEPT ![t] = Len(devices)]
  /\ To(t, IF bit \in mask THEN "loop" ELSE "done")
  /\ UNCHANGED <<mask, devices, curp, curindex, elem, wanted, shifted, overlap>>

Within(t) == lpc[t] \in {"get", "index", "cursor", "write"}

Loop(t) ==
  /\ lpc[t] = "loop" /\ To(t, IF index[t] < total[t] THEN "get" ELSE "done")
  /\ overlap' = (overlap \/ \E u \in Loggers : u # t /\ Within(u))
  /\ UNCHANGED <<mask, devices, curp, curindex, type, total, index, elem, got, wanted, shifted>>

(* Steps along the links from p; following the null pointer, or returning  *)
(* it, is a crash.                                                         *)
Moved(p, by) == IF p = 0 \/ p + by < 1 \/ p + by > Len(devices) THEN 0 ELSE p + by

(* From the root, or from _curp. *)
Reached(i) ==
  IF i = 0 /\ curindex \notin {0, 1} THEN 1
  ELSE IF i < curindex /\ i # curindex - 1 /\ i <= curindex \div 2 THEN i + 1
  ELSE Moved(curp, i - curindex)

Get(t) ==
  /\ lpc[t] = "get"
  /\ elem' = [elem EXCEPT ![t] = Reached(index[t])]
  /\ To(t, IF elem'[t] = 0 THEN "crashed" ELSE IF index[t] = curindex THEN "write" ELSE "index")
  /\ UNCHANGED <<mask, devices, curp, curindex, type, total, index, got, wanted, shifted, overlap>>

SetIndex(t) ==
  /\ lpc[t] = "index" /\ curindex' = index[t] /\ To(t, "cursor")
  /\ UNCHANGED <<mask, devices, curp, type, total, index, elem, got, wanted, shifted, overlap>>

SetCursor(t) ==
  /\ lpc[t] = "cursor" /\ curp' = elem[t] /\ To(t, "write")
  /\ UNCHANGED <<mask, devices, curindex, type, total, index, elem, got, wanted, shifted, overlap>>

canWrite(d, bit) == bit \in devices[d]

\* Mutant: whether the device takes the type is not asked.
WriteAlways(t) ==
  /\ lpc[t] = "write"
  /\ got' = [got EXCEPT ![t] = Append(@, elem[t])]
  /\ index' = [index EXCEPT ![t] = @ + 1] /\ elem' = [elem EXCEPT ![t] = 0] /\ To(t, "loop")
  /\ UNCHANGED <<mask, devices, curp, curindex, type, total, wanted, shifted, overlap>>

Write(t) ==
  /\ lpc[t] = "write"
  /\ got' = IF canWrite(elem[t], type[t]) THEN [got EXCEPT ![t] = Append(@, elem[t])] ELSE got
  /\ index' = [index EXCEPT ![t] = @ + 1] /\ elem' = [elem EXCEPT ![t] = 0] /\ To(t, "loop")
  /\ UNCHANGED <<mask, devices, curp, curindex, type, total, wanted, shifted, overlap>>

Return(t) ==
  /\ lpc[t] = "done" /\ To(t, "idle") /\ got' = [got EXCEPT ![t] = <<>>]
  /\ type' = [type EXCEPT ![t] = 0] /\ total' = [total EXCEPT ![t] = 0]
  /\ index' = [index EXCEPT ![t] = 0]
  /\ UNCHANGED <<mask, devices, curp, curindex, elem, wanted, shifted, overlap>>

LogNext ==
  \/ \E types \in SUBSET Types :
       \/ AddDevice(types) \/ SetLogLevel(types)
       \/ \E d \in 1 .. MaxDevices : SetDevice(d, types)
       \/ \E on \in BOOLEAN : SetTypesEnabled(types, on)
  \/ \E bit \in Types, on \in BOOLEAN : SetTypeEnabled(bit, on)
  \/ \E t \in Loggers :
       \/ \E bit \in Types : Log(t, bit)
       \/ Loop(t) \/ Get(t) \/ SetIndex(t) \/ SetCursor(t) \/ Write(t) \/ Return(t)

LogSpec == LogInit /\ [][LogNext]_logvars

-----------------------------------------------------------------------------
(* A message of a type that was enabled last goes to every device that     *)
(* takes the type, once and in their order, and one of another type to     *)
(* none; until two threads are in the list at once, and unless             *)
(* setTypeEnabled() of the controller was called (LogController.cpp:36-46, *)
(* 162-167, List.h:222-258).                                               *)
Due(t) == IF type[t] \in wanted THEN {d \in 1 .. total[t] : canWrite(d, type[t])} ELSE {}

Written(t) == {got[t][i] : i \in DOMAIN got[t]}
InOrder(t) == \A i, j \in DOMAIN got[t] : i < j => got[t][i] < got[t][j]

EachDeviceOnce ==
  \A t \in Loggers :
    /\ lpc[t] = "done" /\ ~overlap /\ ~shifted => InOrder(t) /\ Written(t) = Due(t)
    /\ lpc[t] = "crashed" => overlap

(* The inductive form: as long as one thread at a time is in the list, the *)
(* cursor is at the element of its index whenever none is moving it, and a *)
(* call has written to the devices of its type that it has passed.         *)
LogTyped ==
  /\ devices \in Seq(SUBSET Types) /\ curp \in Nat /\ curindex \in Nat
  /\ lpc \in [Loggers -> {"idle", "loop", "get", "index", "cursor", "write", "done", "crashed"}]
  /\ type \in [Loggers -> Types \cup {0}] /\ got \in [Loggers -> Seq(Nat)]
  /\ total \in [Loggers -> Nat] /\ index \in [Loggers -> Nat] /\ elem \in [Loggers -> Nat]
  /\ overlap \in BOOLEAN /\ shifted \in BOOLEAN

CursorThere ==
  devices # <<>> /\ (\A t \in Loggers : lpc[t] # "cursor") =>
    curindex < Len(devices) /\ curp = curindex + 1

Passed(t) == IF type[t] \in mask THEN {d \in 1 .. index[t] : canWrite(d, type[t])} ELSE {}

CallSound(t) ==
  /\ lpc[t] # "crashed"
  /\ lpc[t] # "idle" => /\ total[t] = Len(devices) /\ index[t] <= total[t]
                        /\ InOrder(t) /\ Written(t) = Passed(t)
  /\ Within(t) => index[t] < total[t]
  /\ Within(t) \/ lpc[t] = "loop" => type[t] \in mask
  /\ lpc[t] \in {"index", "cursor", "write"} => elem[t] = index[t] + 1
  /\ lpc[t] = "cursor" => curindex = index[t]
  /\ lpc[t] = "done" /\ type[t] \in mask => index[t] = total[t]

LogInv ==
  /\ LogTyped /\ (~shifted => mask = wanted)
  /\ ~overlap => /\ \A t, u \in Loggers : Within(t) /\ Within(u) => t = u
                 /\ CursorThere /\ \A t \in Loggers : CallSound(t)
=============================================================================
