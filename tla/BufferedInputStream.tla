------------------------- MODULE BufferedInputStream -------------------------
(***************************************************************************)
(* tmb::BufferedInputStream over any InputStream, and the loop of          *)
(* InputStream::read(buffer, size, ReadFlag_FORCECS) on top of it.  The    *)
(* stream below is the sequence wire of what the writing side has put      *)
(* there; taken of it has been read.                                       *)
(***************************************************************************)
EXTENDS Integers, Sequences

CONSTANTS
  InSize,       \* c_bufsize
  MaxRead,      \* bound: a_size of a read
  MaxFail       \* bound: exceptions of the stream below

VARIABLES
  wire, eof,        \* the stream below: what was written to it, its end
  taken,            \* what has been read from it
  chunk, pread,     \* c_buffer up to c_phigh, c_pread
  rpc,              \* where the reading thread is
  asked, forced,    \* read(): a_size, the FORCECS flag
  whole, out,       \* bytes FORCECS has counted, bytes copied to the caller
  got,              \* what the application has been given
  fails, dropped    \* history: exceptions; bytes copied out by a read that threw

inFrame == <<rpc, asked, forced, whole, out>>
inVars == <<wire, eof, taken, chunk, pread, inFrame, got, fails, dropped>>

InInit ==
  /\ taken = 0 /\ chunk = <<>> /\ pread = 0
  /\ rpc = "idle" /\ asked = 0 /\ forced = FALSE
  /\ whole = 0 /\ out = <<>> /\ got = <<>>
  /\ fails = 0 /\ dropped = FALSE

ReadCall(n, force) ==
  /\ rpc = "idle"
  /\ rpc' = "copy" /\ asked' = n /\ forced' = force /\ whole' = 0 /\ out' = <<>>
  /\ UNCHANGED <<taken, chunk, pread, got, fails, dropped>>

EndRead ==
  rpc' = "idle" /\ asked' = 0 /\ forced' = FALSE /\ whole' = 0 /\ out' = <<>>

(* The unread part of c_buffer, and its first n bytes. *)
Rest == SubSeq(chunk, pread + 1, Len(chunk))
First(n) == SubSeq(Rest, 1, n)
Missing == asked - Len(out)

(* One turn of the loop in read(): the buffer holds all that is missing,   *)
(* or what it holds is copied out and it is filled again.                  *)
CopyLast ==
  /\ rpc = "copy" /\ Len(Rest) >= Missing
  /\ got' = got \o out \o First(Missing)
  /\ pread' = pread + Missing
  /\ EndRead
  /\ UNCHANGED <<taken, chunk, fails, dropped>>

CopySome ==
  /\ rpc = "copy" /\ Len(Rest) < Missing
  /\ out' = out \o Rest
  /\ pread' = Len(chunk)
  /\ rpc' = "fill"
  /\ UNCHANGED <<taken, chunk, asked, forced, whole, got, fails, dropped>>

Fillable(n) == rpc = "fill" /\ n <= Len(wire) - taken

(* Mutant: the new bytes are put behind those already read. *)
FillBehind(n) ==
  /\ Fillable(n)
  /\ chunk' = chunk \o SubSeq(wire, taken + 1, taken + n)
  /\ pread' = 0
  /\ taken' = taken + n
  /\ rpc' = "copy"
  /\ UNCHANGED <<asked, forced, whole, out, got, fails, dropped>>

(* The stream below gives n bytes, which replace the buffer. *)
Fill(n) ==
  /\ Fillable(n)
  /\ chunk' = SubSeq(wire, taken + 1, taken + n)
  /\ pread' = 0
  /\ taken' = taken + n
  /\ rpc' = "copy"
  /\ UNCHANGED <<asked, forced, whole, out, got, fails, dropped>>

AtEnd == rpc = "fill" /\ eof /\ taken = Len(wire)

(* Mutant: FORCECS takes an empty read for the end of its work. *)
FillEndShort ==
  /\ AtEnd
  /\ got' = got \o out
  /\ EndRead
  /\ UNCHANGED <<taken, chunk, pread, fails, dropped>>

(* End of the stream.  read() returns what it has; FORCECS reads on after  *)
(* a short read and gives up, without what it has, after an empty one.     *)
FillEnd ==
  /\ AtEnd
  /\ \/ ~forced /\ got' = got \o out /\ EndRead /\ UNCHANGED dropped
     \/ /\ forced /\ Len(out) > whole
        /\ whole' = Len(out) /\ rpc' = "copy"
        /\ UNCHANGED <<asked, forced, out, got, dropped>>
     \/ /\ forced /\ Len(out) = whole
        /\ dropped' = (dropped \/ whole > 0)
        /\ EndRead /\ UNCHANGED got
  /\ UNCHANGED <<taken, chunk, pread, fails>>

(* An exception of the stream below leaves read() without a count: FORCECS *)
(* catches TryAgain and Interrupted and reads again to the place it had    *)
(* reached before, another caller gets nothing.                            *)
Fail(again) ==
  /\ rpc = "fill" /\ fails < MaxFail
  /\ fails' = fails + 1
  /\ LET kept == IF forced /\ again THEN whole ELSE 0
     IN /\ dropped' = (dropped \/ Len(out) > kept)
        /\ IF forced /\ again
           THEN rpc' = "copy" /\ out' = SubSeq(out, 1, kept) /\ UNCHANGED <<asked, forced, whole>>
           ELSE EndRead
  /\ UNCHANGED <<taken, chunk, pread, got>>

InNext ==
  \/ \E n \in 1 .. MaxRead, force \in BOOLEAN : ReadCall(n, force)
  \/ CopyLast \/ CopySome
  \/ \E n \in 1 .. InSize : Fill(n)
  \/ FillEnd
  \/ \E again \in BOOLEAN : Fail(again)

-----------------------------------------------------------------------------
(* The bytes taken from the stream are with the application, with the read *)
(* under way or in the buffer, each once and in order, unless an exception *)
(* came after a part of a read had been copied out (InputStream::read,     *)
(* BufferedInputStream::read).                                             *)
ReadExactly ==
  ~dropped => got \o out \o Rest = SubSeq(wire, 1, taken)

(* A read with FORCECS never returns with less than it was asked for.      *)
ForcedIsFull ==
  [][rpc # "idle" /\ forced /\ got' # got => Len(got') - Len(got) = asked]_inVars
=============================================================================
