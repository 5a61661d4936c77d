----------------------------- MODULE StreamPipe -----------------------------
(***************************************************************************)
(* A writer through BufferedOutputStream (or FORCECS straight on the       *)
(* stream) and a reader through BufferedInputStream at the two ends of one *)
(* stream, such as a Socket: each end may take or give any part of what is *)
(* offered and may throw at any call.  Both work at the same time.         *)
(***************************************************************************)
EXTENDS BufferedOutputStream, SequencesExt

CONSTANTS InSize, MaxRead, MaxFail

ASSUME InputAssumption ==
  InSize \in Nat \ {0} /\ MaxRead \in Nat \ {0} /\ MaxFail \in Nat

VARIABLES taken, chunk, pread, rpc, asked, forced, whole, out, got, fails, dropped

(* What the stream has been given, as bytes, and whether it was closed. *)
Wire == [i \in DOMAIN sent |-> IF sent[i] = Garbage THEN Garbage ELSE copied[sent[i]]]

In == INSTANCE BufferedInputStream WITH wire <- Wire, eof <- (wpc = "closed")

inState == <<taken, chunk, pread, rpc, asked, forced, whole, out, got, fails, dropped>>
vars == <<outVars, inState>>

Init == OutInit /\ In!InInit

Next ==
  \/ OutNext /\ UNCHANGED inState
  \/ In!InNext /\ UNCHANGED outVars

Spec == Init /\ [][Next]_vars

-----------------------------------------------------------------------------
(* Every byte the application has copied out, in the order of the writer's *)
(* copies, when neither side was cut in the middle of its work: nothing    *)
(* between the two applications is lost, doubled or reordered              *)
(* (BufferedOutputStream and BufferedInputStream together).                *)
PipeInOrder == ~torn /\ ~dropped => IsPrefix(got, copied)

(* No byte of a write that returned is lost, and none goes in twice unless *)
(* FORCECS repeated a call (BufferedOutputStream::write, flush, close).    *)
EachByteOnce == NothingLost /\ BytesOnce

(* Of what it is told it has read, the application has every byte, and in  *)
(* the writer's order (BufferedInputStream::read, InputStream::read).      *)
ReadsInOrder == In!ReadExactly /\ PipeInOrder

(* See BufferedInputStream. *)
ForcedIsFull == In!ForcedIsFull
=============================================================================
