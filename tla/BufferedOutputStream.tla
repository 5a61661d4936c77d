------------------------ MODULE BufferedOutputStream ------------------------
(***************************************************************************)
(* tmb::BufferedOutputStream over any OutputStream, and the loop of        *)
(* OutputStream::write(buffer, size, WriteFlag_FORCECS) on top of it or    *)
(* directly on the stream below.  The application writes the bytes 1, 2,   *)
(* 3, ...; c_buffer holds stamps, the numbers of the copies made into it,  *)
(* and copied[s] is the byte of copy s, so that a byte put in twice shows. *)
(***************************************************************************)
EXTENDS Integers, Sequences

CONSTANTS
  BufSize,     \* c_bufsize
  MaxByte,     \* bound: the bytes the application writes
  MaxCall,     \* bound: a_size of a write
  MaxThrow     \* bound: exceptions of the stream below

ASSUME OutputAssumption ==
  /\ BufSize \in Nat \ {0}
  /\ MaxByte \in Nat /\ MaxCall \in Nat \ {0} /\ MaxThrow \in Nat

VARIABLES
  buf, pwrite, plow,     \* c_buffer, c_pwrite, c_plow
  wpc,                   \* where the writing thread is
  p, size,               \* write(): next byte to copy, bytes left
  fsize, fret,           \* flush(): bytes left, where it returns to
  call,                  \* the application's write: its bytes and flags
  next,                  \* the application's next byte
  direct,                \* FORCECS on the stream itself, no buffer
  sent,                  \* stamps the stream below has taken
  copied, acked,         \* history: bytes put in, bytes of finished writes
  throws, torn, retried, \* history: exceptions; one in mid-flush; one retried
  overrun                \* history: one in a flush already past the bytes put in

outObject == <<buf, pwrite, plow>>
outFrame == <<wpc, p, size, fsize, fret, call>>
outVars == <<outObject, outFrame, next, direct, sent, copied, acked,
             throws, torn, retried, overrun>>

Garbage == 0                       \* read outside the bytes put in
Slots == 0 .. BufSize - 1
NoCall == [from |-> 0, len |-> 0, force |-> FALSE]

OutInit ==
  /\ buf = [i \in Slots |-> Garbage] /\ pwrite = 0 /\ plow = 0
  /\ wpc = "idle" /\ p = 0 /\ size = 0 /\ fsize = 0 /\ fret = "idle"
  /\ call = NoCall /\ next = 1
  /\ direct \in BOOLEAN
  /\ sent = <<>> /\ copied = <<>> /\ acked = {}
  /\ throws = 0 /\ torn = FALSE /\ retried = FALSE /\ overrun = FALSE

-----------------------------------------------------------------------------
Bytes(from, len) == [i \in 1 .. len |-> from + i - 1]

(* The application writes its next len bytes, with or without FORCECS. *)
WriteCall(len, force) ==
  /\ wpc = "idle" /\ next + len - 1 <= MaxByte
  /\ direct => force
  /\ call' = [from |-> next, len |-> len, force |-> force]
  /\ p' = next /\ size' = len
  /\ wpc' = IF direct THEN "stream" ELSE "copy"
  /\ next' = next + len
  /\ UNCHANGED <<outObject, fsize, fret, direct, sent, copied, acked,
                 throws, torn, retried, overrun>>

(* memcpy(c_buffer + c_pwrite, p, n): n stamped copies. *)
CopyIn(n) ==
  /\ buf' = [i \in Slots |-> IF i \in pwrite .. pwrite + n - 1
                             THEN Len(copied) + 1 + i - pwrite ELSE buf[i]]
  /\ pwrite' = pwrite + n
  /\ copied' = copied \o Bytes(p, n)
  /\ p' = p + n /\ size' = size - n
  /\ UNCHANGED plow

EnterFlush(ret) == wpc' = "flush" /\ fsize' = pwrite' /\ fret' = ret

Acknowledge == acked' = acked \cup (call.from .. call.from + call.len - 1)

(* One turn of the loop in write(). *)
CopyFull ==
  /\ wpc = "copy" /\ pwrite >= BufSize
  /\ UNCHANGED <<outObject, p, size, copied, acked>>
  /\ EnterFlush("copy")

CopyRest ==
  /\ wpc = "copy" /\ pwrite < BufSize /\ size <= BufSize - pwrite
  /\ CopyIn(size)
  /\ IF pwrite' >= BufSize
     THEN EnterFlush("return") /\ UNCHANGED acked
     ELSE wpc' = "idle" /\ Acknowledge /\ UNCHANGED <<fsize, fret>>

CopyPart ==
  /\ wpc = "copy" /\ pwrite < BufSize /\ size > BufSize - pwrite
  /\ CopyIn(BufSize - pwrite)
  /\ UNCHANGED <<wpc, fsize, fret, acked>>

Copy ==
  /\ CopyFull \/ CopyRest \/ CopyPart
  /\ UNCHANGED <<call, next, direct, sent, throws, torn, retried, overrun>>

-----------------------------------------------------------------------------
(* flush(), and close() up to the close of the stream below. *)
FlushCall ==
  /\ wpc = "idle" /\ ~direct
  /\ UNCHANGED <<outObject, p, size, call, next, direct, sent, copied, acked,
                 throws, torn, retried, overrun>>
  /\ \E ret \in {"idle", "closed"} : EnterFlush(ret)

At(i) == IF i \in Slots THEN buf[i] ELSE Garbage

(* Mutant: the bytes are offered from the start of the buffer again. *)
FlushWriteStart(r) ==
  /\ wpc = "flush" /\ r <= fsize
  /\ sent' = sent \o [i \in 1 .. r |-> At(i - 1)]
  /\ fsize' = fsize - r
  /\ plow' = plow + r
  /\ UNCHANGED <<buf, pwrite, wpc, p, size, fret, call, next, direct, copied, acked,
                 throws, torn, retried, overrun>>

(* The stream takes r of the bytes flush() offers it from c_plow on. *)
FlushWrite(r) ==
  /\ wpc = "flush" /\ r <= fsize
  /\ sent' = sent \o [i \in 1 .. r |-> At(plow + i - 1)]
  /\ fsize' = fsize - r
  /\ plow' = plow + r
  /\ UNCHANGED <<buf, pwrite, wpc, p, size, fret, call, next, direct, copied, acked,
                 throws, torn, retried, overrun>>

FlushDone ==
  /\ wpc = "flush" /\ fsize = 0
  /\ pwrite' = 0 /\ plow' = 0
  /\ wpc' = IF fret = "return" THEN "idle" ELSE fret
  /\ IF fret = "return" THEN Acknowledge ELSE UNCHANGED acked
  /\ UNCHANGED <<buf, p, size, fsize, fret, call, next, direct, sent, copied,
                 throws, torn, retried, overrun>>

(* An exception leaves write() or flush(): FORCECS catches TryAgain and    *)
(* Interrupted and repeats the call it was in, close() catches everything, *)
(* anything else reaches the application, which gives the write up.        *)
Unwind(again) ==
  IF wpc = "stream" \/ fret \in {"copy", "return"}
  THEN IF again /\ call.force
       THEN /\ wpc' = IF direct THEN "stream" ELSE "copy"
            /\ retried' = (retried \/ ~direct)
            /\ IF direct THEN UNCHANGED <<p, size>>
               ELSE p' = call.from /\ size' = call.len
       ELSE wpc' = "idle" /\ UNCHANGED <<p, size, retried>>
  ELSE wpc' = fret /\ UNCHANGED <<p, size, retried>>

(* Mutant: flush() forgets the buffer when the stream throws. *)
ThrowReset(again) ==
  /\ wpc = "stream" \/ (wpc = "flush" /\ fsize > 0)
  /\ throws < MaxThrow
  /\ throws' = throws + 1
  /\ Unwind(again)
  /\ torn' = (torn \/ (wpc = "flush" /\ plow > 0))
  /\ pwrite' = 0 /\ plow' = 0
  /\ UNCHANGED <<buf, fsize, fret, call, next, direct, sent, copied, acked, overrun>>

Throw(again) ==
  /\ wpc = "stream" \/ (wpc = "flush" /\ fsize > 0)
  /\ throws < MaxThrow
  /\ throws' = throws + 1
  /\ Unwind(again)
  /\ torn' = (torn \/ (wpc = "flush" /\ plow > 0))
  /\ overrun' = (overrun \/ (wpc = "flush" /\ plow > pwrite))
  /\ UNCHANGED <<outObject, fsize, fret, call, next, direct, sent, copied, acked>>

(* FORCECS straight on the stream: it takes r of the bytes left. *)
StreamWrite(r) ==
  /\ wpc = "stream" /\ r <= size
  /\ copied' = copied \o Bytes(p, r)
  /\ sent' = sent \o [i \in 1 .. r |-> Len(copied) + i]
  /\ p' = p + r /\ size' = size - r
  /\ IF size = r THEN wpc' = "idle" /\ Acknowledge ELSE UNCHANGED <<wpc, acked>>
  /\ UNCHANGED <<outObject, fsize, fret, call, next, direct, throws, torn, retried, overrun>>

OutNext ==
  \/ \E len \in 1 .. MaxCall, force \in BOOLEAN : WriteCall(len, force)
  \/ Copy
  \/ FlushCall
  \/ \E r \in 1 .. BufSize : FlushWrite(r)
  \/ FlushDone
  \/ \E again \in BOOLEAN : Throw(again)
  \/ \E r \in 1 .. MaxCall : StreamWrite(r)

OutSpec == OutInit /\ [][OutNext]_outVars

-----------------------------------------------------------------------------
OutTypeOK ==
  /\ buf \in [Slots -> Nat] /\ pwrite \in 0 .. BufSize /\ plow \in Nat
  /\ wpc \in {"idle", "copy", "flush", "closed", "stream"}
  /\ p \in Nat /\ size \in Nat /\ fsize \in 0 .. BufSize
  /\ fret \in {"idle", "copy", "return", "closed"}
  /\ call \in [from : Nat, len : Nat, force : BOOLEAN]
  /\ next \in Nat /\ direct \in BOOLEAN
  /\ sent \in Seq(Nat) /\ copied \in Seq(Nat) /\ acked \in SUBSET Nat
  /\ throws \in Nat /\ torn \in BOOLEAN /\ retried \in BOOLEAN /\ overrun \in BOOLEAN

Increasing(s) == \A i, j \in DOMAIN s : i < j => s[i] < s[j]
Stored == {At(i) : i \in plow .. pwrite - 1}

(* The stream below gets every copy once and in the order of the copies,   *)
(* and the rest of them is what the buffer holds, as long as no exception  *)
(* has cut a flush that had already passed part of the buffer on           *)
(* (BufferedOutputStream::write, flush).                                   *)
CopiesInOrder ==
  ~torn => /\ \A i \in DOMAIN sent : sent[i] = i
           /\ Len(sent) + pwrite - plow = Len(copied)
           /\ ~direct =>
                \A i \in plow .. pwrite - 1 : buf[i] = Len(sent) + 1 + i - plow

(* The buffer stays out of a write straight on the stream. *)
DirectShape ==
  IF direct THEN pwrite = 0 /\ plow = 0 /\ wpc \in {"idle", "stream"}
            ELSE wpc # "stream"

(* No byte of a write that returned is lost: it is below, or in the part   *)
(* of the buffer the next flush offers.  Only close(), which ignores       *)
(* exceptions, may leave bytes behind, and a second exception: of a flush  *)
(* that took up after a first one and, offering c_pwrite bytes again, has  *)
(* passed c_pwrite; what is put in then is behind c_plow and never sent.   *)
NothingLost ==
  ~overrun /\ (wpc = "closed" => throws = 0) =>
    \A b \in acked : \E s \in DOMAIN copied :
      /\ copied[s] = b
      /\ \/ wpc # "closed" /\ s \in Stored
         \/ \E i \in DOMAIN sent : sent[i] = s

(* Bytes go in once and in order, unless FORCECS has repeated a call of    *)
(* BufferedOutputStream::write(); on the stream itself it may repeat.      *)
BytesOnce == ~retried => Increasing(copied)

(* What WriteFlag_FORCECS is for, "force complete size" (OutputStream.h):  *)
(* a write that returned has put exactly its own size in.                  *)
ForcedSize ==
  wpc = "idle" /\ 1 .. next - 1 \subseteq acked => Len(copied) = next - 1
=============================================================================
