------------------------------- MODULE GpioSer -------------------------------
(***************************************************************************)
(* tmb::GpioSer: commands to a board behind a serial line.  A command      *)
(* writes its bytes and reads an answer of known length; a page is written *)
(* in chunks, each answered before the next.  An exception ends the call   *)
(* wherever it is, and what the board still has to say stays in the line.  *)
(***************************************************************************)
EXTENDS GpioBoard, SequencesExt

CONSTANTS
  ChunkMax,             \* AVRPROGCHUNK_MAX
  Values, Images,       \* for each unit, the sets of pins and the memory contents
                        \* that the application writes
  MaxSlips              \* bound: what is counted in slips

\* Addresses, here of one byte, and the size the board tells go over the line;
\* a memory is whole pages; of a cell the application gives a byte.
ASSUME GpioAssumption ==
  /\ Size \in 1..256 /\ Room \in 0..255 /\ ChunkMax \in Nat \ {0}
  /\ \A e \in 0..1 : 2^e <= Size => Size % 2^e = 0
  /\ \A u \in 1..2 : Values[u] \subseteq SUBSET Bits /\ Images[u] \subseteq Seq(Bit)

VARIABLES
  call,                 \* the call under way
  i,                    \* cells of its page sent
  recvbufsize,          \* _recvbufsize
  answer,               \* the last call, with its result
  kpins, kmemory,       \* what the application knows of the board
  lost,                 \* an answer may be left over, or the board in a command
  slips                 \* calls of open(), and exceptions while the line moves

hostVars == <<call, i, recvbufsize, answer, kpins, kmemory, lost, slips>>
vars == <<lineVars, boardVars, hostVars>>

\* The address asked for, and that of the first cell, which differ for a page.
Call(op, a, s) == [op |-> op, asked |-> a, at |-> a, val |-> s]
NoCall == Call("none", 0, <<>>)
Answer(op, v) == answer' = [op |-> op, val |-> v]
Least(m, n) == IF m < n THEN m ELSE n

Blank == [a \in Addr |-> [k \in 1..unit |-> 0]]

Init ==
  /\ LineInit
  /\ unit \in {1, 2}
  /\ pins = {} /\ memory = Blank /\ taken = <<>>
  /\ call = NoCall /\ i = 0 /\ recvbufsize = 1
  /\ answer = [op |-> "none", val |-> <<>>]
  /\ kpins = pins /\ kmemory = memory
  /\ lost = TRUE /\ slips = 0

Known == <<kpins, kmemory>>

\* Host and board may be out of step: what was known of the board is void.
Lose == lost' = TRUE /\ kpins' = {} /\ kmemory' = Blank
Slip == slips < MaxSlips /\ slips' = slips + 1

-----------------------------------------------------------------------------
(* Calls *)

\* A cell of the memory in use with b in its (first) byte.
Cell(b) == [k \in 1..unit |-> IF k = 1 THEN b ELSE 1 - b]

\* A command is sent.  Those an application would send on a line out of step,
\* of which nothing is promised, are left out.
Enter(c, bytes) ==
  /\ pc = "idle" /\ fd \in {"open", "hung"} /\ ~lost
  /\ Send(bytes)
  /\ call' = c /\ i' = 0 /\ Answer("none", <<>>)
  /\ UNCHANGED <<fd, boardVars, recvbufsize, Known, lost, slips>>

CmdGetOut == Enter(Call("get", 0, <<>>), <<CMD_GET_PORT>>)
CmdPutOut(v) == Enter(Call("put", 0, v), <<CMD_PUT_PORT, Hi(v), Lo(v)>>)

\* cmdSetOut() and cmdClrOut(): bits of one half byte go in a command of one
\* byte, none need no command.
Halves(v) == {n \in 0..3 : v \cap (4 * n)..(4 * n + 3) # {}}

ByHalf(v, short, long) ==
  IF Cardinality(Halves(v)) = 1
    THEN LET n == CHOOSE h \in Halves(v) : TRUE IN
         <<short + 16 * n + Number({b - 4 * n : b \in v})>>
    ELSE <<long, Hi(v), Lo(v)>>

CmdSetOut(v) == v # {} /\ Enter(Call("set", 0, v), ByHalf(v, CMD_SETB4, CMD_SETB_PORT))
CmdClrOut(v) == v # {} /\ Enter(Call("clr", 0, v), ByHalf(v, CMD_CLRB4, CMD_CLRB_PORT))

\* cmdAvrReadProgMem(), cmdAvrReadEeprom(): nothing is sent for no cells.
CmdReadMem(a, n) ==
  /\ a + n <= Size
  /\ Enter(Call("read", a, [k \in 1..n |-> k]), <<CMD_READ_MEM, a, n>>)

\* cmdAvrWriteEepromByte()
CmdWriteByte(a, d) ==
  /\ unit = 1
  /\ Enter(Call("byte", a, <<[k \in 1..1 |-> d]>>), <<CMD_WRITE_BYTE, a, d>>)

\* Mutant of CmdWritePage: the page begins at a.
CmdWritePageAsked(a, e, image, offs) ==
  /\ 2^e <= Size /\ Len(image) >= offs + 2^e
  /\ Enter(Call("header", a, SubSeq(image, offs + 1, offs + 2^e)), <<CMD_WRITE_PAGE, a, e>>)

\* cmdAvrWriteProgMemPage(), cmdAvrWriteEepromPage(): the page that holds a.
CmdWritePage(a, e, image, offs) ==
  LET pagesize == 2^e
      addr == a - (a % pagesize)
      page == Call("header", addr, SubSeq(image, offs + 1, offs + pagesize))
  IN  /\ pagesize <= Size /\ Len(image) >= offs + pagesize
      /\ Enter([page EXCEPT !.asked = a], <<CMD_WRITE_PAGE, addr, e>>)

-----------------------------------------------------------------------------
(* The rest of a call *)

Return == pc' = "idle" /\ got' = <<>> /\ call' = NoCall /\ i' = 0

Expected == CASE call.op = "get" -> 2
              [] call.op = "read" -> unit * Len(call.val) + 1
              [] OTHER -> 1

\* The commands that are not answered return.
PutSent ==
  /\ Sent /\ call.op \in {"put", "set", "clr"}
  /\ Return /\ Answer(call.op, <<>>)
  /\ kpins' = CASE call.op = "put" -> call.val
                [] call.op = "set" -> kpins \cup call.val
                [] call.op = "clr" -> kpins \ call.val
  /\ UNCHANGED <<fd, tx, rx, out, need, boardVars, recvbufsize, kmemory, lost, slips>>

CommandSent ==
  /\ Sent /\ call.op \in {"get", "read", "byte", "version", "size"}
  /\ Receive(Expected)
  /\ UNCHANGED <<fd, boardVars, hostVars>>

BufSize == Least(recvbufsize, ChunkMax)

\* Mutant of ChunkCells: a cell too many.
ChunkCellsMore(k) == Least(BufSize \div unit + 1, Len(call.val) - k)

\* The cells of the next chunk: bytes are put into it, a cell at a time, as
\* long as there are fewer than bufsize.
ChunkCells(k) == Least((BufSize + unit - 1) \div unit, Len(call.val) - k)

\* The header, or an answered chunk, is followed by a chunk.
SendChunk(c, k) ==
  /\ call' = [c EXCEPT !.op = "page"] /\ i' = k
  /\ Send(LET n == ChunkCells(k) IN Flat(SubSeq(c.val, k + 1, k + n)))
  /\ UNCHANGED <<fd, boardVars, recvbufsize, answer, kpins, kmemory, lost, slips>>

HeaderSent == Sent /\ call.op = "header" /\ SendChunk(call, 0)

ChunkSent ==
  /\ Sent /\ call.op = "page"
  /\ Receive(ChunkCells(i))
  /\ UNCHANGED <<fd, boardVars, hostVars>>

\* Each cell but the page's last is answered RC_NEXT.
LastChunk == i + ChunkCells(i) = Len(call.val)
AllNext(s) == \A j \in DOMAIN s : s[j] = RC_NEXT

ChunkAnswered ==
  /\ Received /\ call.op = "page" /\ ~LastChunk /\ AllNext(got)
  /\ SendChunk(call, i + ChunkCells(i))

\* Bytes as cells, and a byte before them.
Cells(s) == [j \in 1..(Len(s) \div unit) |-> SubSeq(s, (j - 1) * unit + 1, j * unit)]
Written == [a \in Addr |-> IF a \in call.at..(call.at + Len(call.val) - 1)
                            THEN call.val[a - call.at + 1] ELSE kmemory[a]]

\* The call returns what was read.
Answered ==
  /\ Received
  /\ \/ call.op = "get" /\ Answer("get", Joined(got[1], got[2])) /\ UNCHANGED kmemory
     \/ /\ call.op = "read" /\ got[Len(got)] = RC_OK
        /\ Answer("read", Cells(SubSeq(got, 1, Len(got) - 1))) /\ UNCHANGED kmemory
     \/ /\ \/ call.op = "byte" /\ got[1] = RC_OK
           \/ call.op = "page" /\ LastChunk /\ AllNext(Front(got)) /\ Last(got) = RC_OK
        /\ Answer("write", <<>>) /\ kmemory' = Written
  /\ Return
  /\ UNCHANGED <<fd, tx, rx, out, need, boardVars, recvbufsize, kpins, lost, slips>>

\* AVR_RC(): the board reports an error at the end of its answer.
BoardError ==
  /\ Received
  /\ \/ call.op \in {"read", "byte"} /\ Last(got) # RC_OK
     \/ call.op = "page" /\ LastChunk /\ AllNext(Front(got)) /\ Last(got) # RC_OK
  /\ Return /\ Answer("error", <<>>)
  /\ kmemory' = IF call.op = "read" THEN kmemory ELSE memory
  /\ UNCHANGED <<fd, tx, rx, out, need, boardVars, recvbufsize, kpins, lost, slips>>

\* "communication error: RC_NEXT expected"
NotNext ==
  /\ Received /\ call.op = "page"
  /\ ~AllNext(IF LastChunk THEN Front(got) ELSE got)
  /\ Return /\ Answer("exception", <<>>) /\ Lose
  /\ UNCHANGED <<fd, tx, rx, out, need, boardVars, recvbufsize, slips>>

-----------------------------------------------------------------------------
(* open() and close() *)

OpenLine ==
  /\ pc = "idle" /\ fd = "closed"
  /\ fd' = "open" /\ Flush /\ Slip
  /\ pc' = "write" /\ out' = <<CMD_GET_VERSION>> /\ UNCHANGED <<need, got>>
  /\ call' = Call("version", 0, <<>>) /\ i' = 0
  /\ UNCHANGED <<boardVars, recvbufsize, answer, kpins, kmemory, lost>>

OpenFails ==
  /\ pc = "idle" /\ LineOpenFails
  /\ Answer("exception", <<>>)
  /\ UNCHANGED <<boardVars, call, i, recvbufsize, kpins, kmemory, lost, slips>>

Versioned ==
  /\ Received /\ call.op = "version" /\ got[1] # 0
  /\ Send(<<CMD_GET_RECVBUFSIZE>>)
  /\ call' = [call EXCEPT !.op = "size"]
  /\ UNCHANGED <<fd, boardVars, i, recvbufsize, answer, Known, lost, slips>>

NoVersion ==
  /\ Received /\ call.op = "version" /\ got[1] = 0
  /\ LineClose /\ Return /\ Answer("exception", <<>>)
  /\ UNCHANGED <<boardVars, recvbufsize, Known, lost, slips>>

Greatest(m, n) == IF m > n THEN m ELSE n

\* The last command of open(), cmdClrErrorFlags(); an exception of the one
\* before it only makes the size 1.
Sized ==
  /\ Received /\ call.op = "size"
  /\ recvbufsize' = Greatest(got[1], 1)
  /\ Send(<<CMD_CLR_ERROR_FLAGS>>)
  /\ call' = [call EXCEPT !.op = "clear"]
  /\ UNCHANGED <<fd, boardVars, i, answer, Known, lost, slips>>

\* open() returns.  The line is in step if nothing of an earlier call was left
\* in it; the application then knows what the board has.
Opened ==
  /\ Sent /\ call.op = "clear"
  /\ Return /\ Answer("open", <<>>)
  /\ IF rx = <<>> /\ taken = <<>> /\ tx \in {<<>>, <<CMD_CLR_ERROR_FLAGS>>}
          /\ recvbufsize \in {1, Room}
       THEN lost' = FALSE /\ kpins' = pins /\ kmemory' = memory
       ELSE Lose
  /\ UNCHANGED <<fd, tx, rx, out, need, boardVars, recvbufsize, slips>>

Close ==
  /\ pc = "idle" /\ fd # "closed"
  /\ LineClose /\ UNCHANGED <<pc, got>>
  /\ Answer("close", <<>>) /\ Lose
  /\ UNCHANGED <<boardVars, call, i, recvbufsize, slips>>
-----------------------------------------------------------------------------
(* Exceptions of the line *)

\* Nothing more will come, and read() gives up after its timeout; or write()
\* gets EIO, from a line that hung up.  Else an exception may come or not.
GivesUp ==
  \/ fd = "open" /\ pc = "read" /\ tx = <<>> /\ rx = <<>>
  \/ fd = "hung" /\ pc = "write"

Throws ==
  /\ TurnMayThrow
  /\ IF GivesUp THEN UNCHANGED slips ELSE Slip

\* Mutant of CallFails: the turn that timed out is taken again.
CallFailsAgain ==
  /\ Throws /\ call.op \notin {"version", "size"}
  /\ UNCHANGED <<lineVars, boardVars, call, i, recvbufsize, answer, Known, lost>>

CallFails ==
  /\ Throws /\ call.op \notin {"version", "size"}
  /\ Dropped /\ call' = NoCall /\ i' = 0
  /\ Answer("exception", <<>>) /\ Lose
  /\ UNCHANGED <<fd, boardVars, recvbufsize>>

\* open() closes the line after a timeout, and only then.
VersionFails ==
  /\ Throws /\ call.op = "version"
  /\ Dropped /\ call' = NoCall /\ i' = 0
  /\ fd' = fd \/ (fd = "open" /\ fd' = "closed")
  /\ Answer("exception", <<>>) /\ Lose
  /\ UNCHANGED <<boardVars, recvbufsize>>

SizeFails ==
  /\ Throws /\ call.op = "size"
  /\ recvbufsize' = 1
  /\ pc' = "write" /\ out' = <<CMD_CLR_ERROR_FLAGS>> /\ need' = 0 /\ got' = <<>>
  /\ call' = [call EXCEPT !.op = "clear"]
  /\ UNCHANGED <<fd, tx, rx, boardVars, i, answer, Known, lost>>

-----------------------------------------------------------------------------
Commands ==
  \/ CmdGetOut
  \/ \E v \in Values[unit] : CmdPutOut(v) \/ CmdSetOut(v) \/ CmdClrOut(v)
  \/ \E a \in Addr : \/ \E n \in 1..2 : CmdReadMem(a, n)
                     \/ \E d \in Bit : CmdWriteByte(a, d)
                     \/ \E e \in 0..1, image \in Images[unit], offs \in 0..1 :
                          CmdWritePage(a, e, [k \in DOMAIN image |-> Cell(image[k])], offs)

HostGoesOn ==
  \/ WriteSome /\ UNCHANGED <<boardVars, hostVars>>
  \/ ReadSome /\ UNCHANGED <<boardVars, hostVars>>
  \/ PutSent \/ CommandSent \/ HeaderSent \/ ChunkSent \/ ChunkAnswered
  \/ Answered \/ BoardError \/ NotNext
  \/ Versioned \/ NoVersion \/ Sized \/ Opened
  \/ CallFails \/ VersionFails \/ SizeFails

BoardGoesOn == BoardTakes /\ UNCHANGED hostVars

LineHangsUp == HangUp /\ UNCHANGED <<boardVars, hostVars>>

Next ==
  \/ Commands \/ OpenLine \/ OpenFails \/ Close
  \/ HostGoesOn \/ BoardGoesOn \/ LineHangsUp

Spec == Init /\ [][Next]_vars

\* No signal need come, and of a line that hung up nothing need arrive.
Fairness ==
  /\ WF_vars(HostGoesOn /\ slips' = slips)
  /\ WF_vars(BoardGoesOn /\ fd = "open")

FairSpec == Spec /\ Fairness

-----------------------------------------------------------------------------
(* Properties *)

Byte == 0..255

\* What goes over the line are bytes, and _recvbufsize is never 0, with which
\* a page would be written in empty chunks for ever (GpioSer.cpp:109, 333).
TypeOK ==
  /\ fd \in {"closed", "open", "hung", "failed"}
  /\ {tx, rx, out, got, taken} \subseteq Seq(Byte)
  /\ recvbufsize \in Byte \ {0}
  /\ pins \in SUBSET Bits /\ memory \in [Addr -> Items]
  /\ i \in 0..Size /\ lost \in BOOLEAN

\* While a page is written, the board is never sent more bytes without having
\* answered them than its receive buffer takes, if a whole number of cells fits
\* into a chunk (GpioSer.cpp:333-345, 374-383).  Every variable has its type.
ChunkFits ==
  /\ TypeOK
  /\ ~lost /\ call.op = "page" /\ Len(taken) >= 3 /\ BufSize % unit = 0
    => Len(out) + Len(tx) + ((Len(taken) - 3) % unit) <= Greatest(Room, 1)

\* Every call returns or throws, whatever the board does or leaves undone, and
\* also when the line hangs up, unless the call then reads: that loop turns for
\* ever, though RS232Device.h:103-104 promises otherwise (RS232Device.cpp:137-191).
CallEnds == pc # "idle" ~> pc = "idle" \/ (pc = "read" /\ fd = "hung")
=============================================================================
