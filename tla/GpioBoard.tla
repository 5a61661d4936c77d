----------------------------- MODULE GpioBoard ------------------------------
(***************************************************************************)
(* tmb::RS232Device and the microcontroller behind it.                     *)
(* A serial line is opened without blocking; each turn of the loops of     *)
(* read() and write() waits with Select.  The line itself, with the queues *)
(* of the system and the bytes under way, is external: tx goes to the      *)
(* device, rx comes from it.                                               *)
(***************************************************************************)
EXTENDS Integers, Sequences, FiniteSets

CONSTANT LineRoom     \* bytes the way to the device holds

VARIABLES
  fd,       \* "closed": _fd is -1; "open"; "hung": open, but the line hung up;
            \* "failed": open() threw, and _fd still has the number of the
            \* descriptor, closed or not
  tx, rx,
  pc,       \* the host's place: "idle", "write" or "read"
  out,      \* what the write() under way has still to send
  need,     \* how many bytes the read() under way still lacks, and
  got       \* those it has

lineVars == <<fd, tx, rx, pc, out, need, got>>

LineInit ==
  /\ fd = "closed" /\ tx = <<>> /\ rx = <<>>
  /\ pc = "idle" /\ out = <<>> /\ need = 0 /\ got = <<>>

From(s, k) == SubSeq(s, k + 1, Len(s))

\* TCIOFLUSH: what has not left the system's queue, and what arrived, is gone;
\* bytes on the wire are not.
Flush ==
  \E j \in 0..Len(tx), k \in 0..Len(rx) : tx' = SubSeq(tx, 1, j) /\ rx' = From(rx, k)

\* open() throws before ::open() gave a descriptor, or after it.
LineOpenFails ==
  /\ fd = "closed"
  /\ fd' \in {"closed", "failed"}
  /\ UNCHANGED <<tx, rx, pc, out, need, got>>

\* The line hangs up.  What is on its way, or in the system's queues, is not
\* read any more, and may be lost.
HangUp == fd = "open" /\ fd' = "hung" /\ UNCHANGED <<tx, rx, pc, out, need, got>>

LineClose == fd' = "closed" /\ UNCHANGED <<tx, rx, out, need>>

\* The calls write(bytes) and read(n).
Send(bytes) == pc' = "write" /\ out' = bytes /\ got' = <<>> /\ UNCHANGED <<tx, rx, need>>
Receive(n) == pc' = "read" /\ need' = n /\ got' = <<>> /\ UNCHANGED <<tx, rx, out>>

Sent == pc = "write" /\ out = <<>>
Received == pc = "read" /\ need = 0

\* A turn of write(): the system takes some of the bytes.
WriteSome ==
  /\ pc = "write" /\ fd = "open"
  /\ \E k \in 1..Len(out) :
       /\ Len(tx) + k <= LineRoom
       /\ tx' = tx \o SubSeq(out, 1, k)
       /\ out' = From(out, k)
  /\ UNCHANGED <<fd, rx, pc, need, got>>

\* A turn of read(): some of the bytes have arrived.  On a line that hung up
\* select() reports the descriptor ready at once and ::read() returns 0: the
\* turn changes nothing, and the next one begins.
ReadSome ==
  /\ pc = "read"
  /\ \/ /\ fd = "open"
        /\ \E k \in 1..need :
             /\ k <= Len(rx)
             /\ got' = got \o SubSeq(rx, 1, k)
             /\ rx' = From(rx, k)
             /\ need' = need - k
     \/ fd = "hung" /\ need > 0 /\ UNCHANGED <<rx, need, got>>
  /\ UNCHANGED <<fd, tx, pc, out>>

\* A turn may throw: Select ran out of time and the system had nothing to do
\* (TryAgainException), a signal came (InterruptedException), the line failed.
\* What was sent or read so far is dropped with the call.
TurnMayThrow == (pc = "write" /\ out # <<>>) \/ (pc = "read" /\ need > 0)
Dropped == pc' = "idle" /\ out' = <<>> /\ need' = 0 /\ got' = <<>> /\ UNCHANGED <<tx, rx>>

-----------------------------------------------------------------------------
(* The microcontroller behind GpioSer, external: as GpioSer expects it.  It*)
(* takes one byte after the other, does a command when its last byte is in *)
(* and answers; it cannot tell a byte that is out of place.  Addresses,    *)
(* two bytes in the protocol, are one here.                                *)

CONSTANTS
  Size,               \* cells of the memory
  Room                \* the board's receive buffer, as CMD_GET_RECVBUFSIZE tells

VARIABLES
  unit,               \* bytes in a cell: 1 for EEPROM, 2 for program memory
  pins, memory,
  taken               \* the bytes of the command under way

boardVars == <<unit, pins, memory, taken>>

CMD_CLR_ERROR_FLAGS == 0
CMD_GET_VERSION == 2
CMD_GET_RECVBUFSIZE == 5
CMD_READ_MEM == 18
CMD_WRITE_PAGE == 20
CMD_WRITE_BYTE == 22
CMD_GET_PORT == 53
CMD_PUT_PORT == 58
CMD_SETB_PORT == 60
CMD_CLRB_PORT == 61
CMD_SETB4 == 128
CMD_CLRB4 == 192
RC_OK == 90
RC_NEXT == 2
RC_POLL_TIMEOUT == 1
VERSION == 7

Addr == 0..(Size - 1)
Bits == 0..15
Bit == {0, 1}
Items == [1..unit -> Bit]

\* The bits of a byte as a number, the bytes of a set of bits, and back.
Number(S) == LET w(b) == IF b \in S THEN 2^b ELSE 0
             IN  w(0) + w(1) + w(2) + w(3) + w(4) + w(5) + w(6) + w(7)
BitsOf(n) == {i \in Bits : (n \div 2^i) % 2 = 1}
Hi(S) == Number({i - 8 : i \in S \cap 8..15})
Lo(S) == Number(S \cap 0..7)
Joined(hi, lo) == {i + 8 : i \in BitsOf(hi) \cap 0..7} \cup (BitsOf(lo) \cap 0..7)
Nibble(n, b) == {i + 4 * n : i \in BitsOf(b % 16)}

At(a) == a % Size
Flat(s) == [j \in 1..(unit * Len(s)) |-> s[(j - 1) \div unit + 1][((j - 1) % unit) + 1]]

Says(bytes) == rx' = rx \o bytes
Quiet == UNCHANGED <<pins, memory>>

\* Commands of one byte and of three.
DoShort(b) ==
  \/ b = CMD_GET_VERSION /\ Says(<<VERSION>>) /\ Quiet
  \/ b = CMD_GET_RECVBUFSIZE /\ Says(<<Room>>) /\ Quiet
  \/ b = CMD_GET_PORT /\ Says(<<Hi(pins), Lo(pins)>>) /\ Quiet
  \/ /\ b \in CMD_SETB4..(CMD_SETB4 + 63)
     /\ pins' = pins \cup Nibble((b - CMD_SETB4) \div 16, b) /\ UNCHANGED <<rx, memory>>
  \/ /\ b \in CMD_CLRB4..(CMD_CLRB4 + 63)
     /\ pins' = pins \ Nibble((b - CMD_CLRB4) \div 16, b) /\ UNCHANGED <<rx, memory>>

ShortCommands == {CMD_GET_VERSION, CMD_GET_RECVBUFSIZE, CMD_GET_PORT}
                   \cup CMD_SETB4..(CMD_CLRB4 + 63)

DoLong(c, x, y, rc) ==
  \/ c = CMD_PUT_PORT /\ pins' = Joined(x, y) /\ UNCHANGED <<rx, memory>>
  \/ c = CMD_SETB_PORT /\ pins' = pins \cup Joined(x, y) /\ UNCHANGED <<rx, memory>>
  \/ c = CMD_CLRB_PORT /\ pins' = pins \ Joined(x, y) /\ UNCHANGED <<rx, memory>>
  \/ /\ c = CMD_READ_MEM
     /\ LET items == [i \in 1..(y % 8) |-> memory[At(x + i - 1)]] IN
          Says(Append(Flat(items), rc))
     /\ Quiet
  \/ /\ c = CMD_WRITE_BYTE
     /\ memory' = [memory EXCEPT ![At(x)] = IF rc = RC_OK THEN [k \in 1..unit |-> y % 2] ELSE @]
     /\ Says(<<rc>>) /\ UNCHANGED pins

LongCommands == {CMD_PUT_PORT, CMD_SETB_PORT, CMD_CLRB_PORT, CMD_READ_MEM, CMD_WRITE_BYTE}

\* A page: address, exponent, then cell after cell, each answered.
PageCells(c) == 2^(c[3] % 4)
DoPage(c, rc) ==
  LET k == (Len(c) - 3) \div unit
      cell == [j \in 1..unit |-> c[Len(c) - unit + j] % 2]
  IN  IF Len(c) <= 3 \/ (Len(c) - 3) % unit # 0 THEN taken' = c /\ UNCHANGED rx /\ Quiet
      ELSE /\ UNCHANGED pins
           /\ IF rc = RC_OK
                THEN /\ memory' = [memory EXCEPT ![At(c[2] + k - 1)] = cell]
                     /\ IF k = PageCells(c) THEN taken' = <<>> /\ Says(<<RC_OK>>)
                                            ELSE taken' = c /\ Says(<<RC_NEXT>>)
                ELSE taken' = <<>> /\ Says(<<rc>>) /\ UNCHANGED memory

BoardTakes ==
  /\ tx # <<>>
  /\ tx' = Tail(tx)
  /\ LET c == Append(taken, Head(tx)) IN
       \/ Len(c) = 1 /\ c[1] \in ShortCommands /\ DoShort(c[1]) /\ taken' = <<>>
       \/ /\ c[1] \in LongCommands
          /\ IF Len(c) < 3 THEN taken' = c /\ UNCHANGED rx /\ Quiet
             ELSE \E rc \in {RC_OK, RC_POLL_TIMEOUT} :
                    taken' = <<>> /\ DoLong(c[1], c[2], c[3], rc)
       \/ c[1] = CMD_WRITE_PAGE /\ \E rc \in {RC_OK, RC_POLL_TIMEOUT} : DoPage(c, rc)
       \/ /\ c[1] \notin ShortCommands \cup LongCommands \cup {CMD_WRITE_PAGE}
          /\ taken' = <<>> /\ UNCHANGED rx /\ Quiet
  /\ UNCHANGED <<fd, pc, out, need, got, unit>>
=============================================================================
