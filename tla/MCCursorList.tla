---------------------------- MODULE MCCursorList ----------------------------
(***************************************************************************)
(* tmb::List and the one user of it that several threads share, the        *)
(* LogController: a behaviour is that of one of the two.                   *)
(***************************************************************************)
EXTENDS CursorList, TLC

CONSTANTS Loggers, Types, MaxDevices

VARIABLES
  part,
  mask, devices, logcurp, logcurindex,
  lpc, type, total, index, logelem, got, wanted, shifted, overlap

Controller == INSTANCE LogController WITH curp <- logcurp, curindex <- logcurindex, elem <- logelem

logvars == <<mask, devices, logcurp, logcurindex,
             lpc, type, total, index, logelem, got, wanted, shifted, overlap>>

MCInit == part \in {"list", "log"} /\ Init /\ (part = "log" => ~autodelete) /\ Controller!LogInit

MCNext ==
  \/ part = "list" /\ Next /\ UNCHANGED <<part, logvars>>
  \/ part = "log" /\ Controller!LogNext /\ UNCHANGED <<part, vars>>

MCSpec == MCInit /\ [][MCNext]_<<part, vars, logvars>>

-----------------------------------------------------------------------------
Symmetry == Permutations(Nodes) \cup Permutations(Values)

(* Every call of tmb::List does to its elements and returns what the same  *)
(* call does to a sequence, whichever way the cursor takes it there.       *)
Abstract == INSTANCE ListSpec WITH seq <- Contents, last <- Latest
IsSequence == Abstract!LsSpec

(* A message reaches each device that takes its type, once and in order,   *)
(* until two threads walk the devices at once (LogController.cpp:36-46).   *)
EachDeviceOnce == Controller!EachDeviceOnce
=============================================================================
