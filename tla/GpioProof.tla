----------------------------- MODULE GpioProof ------------------------------
(***************************************************************************)
(* SelectAnswers, ChunkFits and IsRegisters of MCGpioSer, for any          *)
(* descriptors, any sizes of the line, of the memory and of the board's    *)
(* buffer, and any pins and pages.                                         *)
(***************************************************************************)
EXTENDS MCGpioSer, FiniteSetTheorems, SequenceTheorems, WellFoundedInduction, TLAPS

-----------------------------------------------------------------------------
(* Select: the maximum of each set *)

\* A set of descriptors has a largest member, and Max() gives it.
LEMMA LargestMember ==
  ASSUME NEW F, F \subseteq SelFDs, F # {}
  PROVE  Sel!Max(F) \in F /\ \A g \in F : g <= Sel!Max(F)
<1> DEFINE Above(f) == {g \in F : g > f}
           T == {Above(f) : f \in F}
<1>1. T \subseteq FiniteSubsetsOf(SelFDs) /\ T # {}
  <2>1. ASSUME NEW f \in F PROVE Above(f) \subseteq SelFDs /\ IsFiniteSet(Above(f))
    BY FS_Subset, SelectAssumption
  <2> QED BY <2>1 DEF FiniteSubsetsOf
<1>2. PICK b \in T : \A c \in T : ~(<<c, b>> \in StrictSubsetOrdering(SelFDs))
  <2>1. IsWellFoundedOn(StrictSubsetOrdering(SelFDs), FiniteSubsetsOf(SelFDs))
    BY FS_StrictSubsetOrderingWellFounded
  <2> HIDE DEF T
  <2> QED BY <1>1, <2>1, WFMin, Zenon
<1>3. PICK f \in F : b = Above(f)
  BY <1>2
<1>0. \A h \in F : h \in Nat
  BY SelectAssumption
<1>4. ASSUME NEW g \in F, g > f PROVE FALSE
  <2>1. Above(g) \in T
    OBVIOUS
  <2>2. Above(g) \subseteq b /\ g \in b /\ g \notin Above(g)
    BY <1>0, <1>3, <1>4
  <2>3. <<Above(g), b>> \in StrictSubsetOrdering(SelFDs)
    BY <1>3, <2>2 DEF StrictSubsetOrdering
  <2> QED BY <1>2, <2>1, <2>3
<1>5. \E x \in F : \A y \in F : x >= y
  BY <1>0, <1>4
<1> HIDE DEF Above, T
<1>6. Sel!Max(F) \in F /\ \A y \in F : Sel!Max(F) >= y
  BY <1>5 DEF Sel!Max
<1> QED BY <1>0, <1>6

\* Each maximum is the largest member of its set, and -1 for an empty one; a call
\* under way has no outcome yet.
Largest(m) ==
  \/ sets[m] = {} /\ maxfd[m] = -1
  \/ maxfd[m] \in sets[m] /\ \A f \in sets[m] : f <= maxfd[m]

SelInv ==
  /\ sets \in [Sel!Modes -> SUBSET SelFDs] /\ maxfd \in [Sel!Modes -> Int]
  /\ \A m \in Sel!Modes : Largest(m)
  /\ waits => outcome = "none"

LEMMA AddKeeps ==
  ASSUME SelInv, NEW f \in SelFDs \cup {-1}, NEW mask \in Sel!Masks, Sel!Add(f, mask)
  PROVE  SelInv'
<1>1. f \in SelFDs /\ f \in Nat /\ \A g \in SelFDs : g \in Nat
  BY SelectAssumption DEF Sel!Add
<1>2. sets' \in [Sel!Modes -> SUBSET SelFDs] /\ maxfd' \in [Sel!Modes -> Int]
  BY <1>1 DEF Sel!Add, Sel!Larger, SelInv
<1>3. ASSUME NEW m \in Sel!Modes PROVE Largest(m)'
  <2>1. Largest(m) /\ maxfd[m] \in Int /\ sets[m] \subseteq SelFDs
    BY DEF SelInv
  <2>2. CASE m \in mask
    <3>1. sets'[m] = sets[m] \cup {f} /\ maxfd'[m] = IF f > maxfd[m] THEN f ELSE maxfd[m]
      BY <2>2 DEF Sel!Add, Sel!Larger
    <3>2. \A g \in sets[m] : g <= maxfd[m] \/ g <= f
      BY <2>1 DEF Largest
    <3>3. ASSUME NEW g \in sets'[m] PROVE g <= maxfd'[m]
      <4>1. g \in Nat /\ (g = f \/ g <= maxfd[m] \/ g <= f)
        BY <1>1, <2>1, <3>1, <3>2
      <4> QED BY <1>1, <2>1, <3>1, <4>1
    <3>4. maxfd'[m] \in sets'[m]
      BY <1>1, <2>1, <3>1 DEF Largest
    <3> QED BY <3>3, <3>4 DEF Largest
  <2>3. CASE m \notin mask
    BY <2>1, <2>3 DEF Sel!Add, Largest
  <2> QED BY <2>2, <2>3
<1>4. (waits => outcome = "none")'
  BY DEF SelInv, Sel!Add, Sel!Remove
<1> QED BY <1>2, <1>3, <1>4 DEF SelInv

LEMMA RemoveKeeps ==
  ASSUME SelInv, NEW f \in SelFDs \cup {-1}, NEW mask \in Sel!Masks, Sel!Remove(f, mask)
  PROVE  SelInv'
<1>1. \A g \in SelFDs : g \in Nat
  BY SelectAssumption
<1>2. ASSUME NEW m \in Sel!Modes
      PROVE  /\ sets'[m] \subseteq SelFDs /\ maxfd'[m] \in Int
             /\ Largest(m)'
  <2>1. Largest(m) /\ maxfd[m] \in Int /\ sets[m] \subseteq SelFDs
    BY DEF SelInv
  <2>2. CASE m \in mask /\ Sel!Held(f, m)
    <3> DEFINE rest == sets[m] \ {f}
               below == {g \in rest : g <= maxfd[m]}
    <3>1. sets'[m] = rest /\ maxfd'[m] = IF below = {} THEN -1 ELSE Sel!Max(below)
      BY <2>2 DEF Sel!Remove, Sel!Lowered
    <3>2. below = rest
      BY <1>1, <2>1 DEF Largest
    <3>3. CASE rest = {}
      BY <3>1, <3>2, <3>3 DEF Largest
    <3>4. CASE rest # {}
      <4>1. rest \subseteq SelFDs
        BY <2>1
      <4>2. Sel!Max(rest) \in rest /\ \A g \in rest : g <= Sel!Max(rest)
        BY <3>4, <4>1, LargestMember
      <4> HIDE DEF rest
      <4> QED BY <1>1, <3>1, <3>2, <3>4, <4>1, <4>2 DEF Largest
    <3> QED BY <3>3, <3>4
  <2>3. CASE ~(m \in mask /\ Sel!Held(f, m))
    BY <2>1, <2>3 DEF Sel!Remove, Largest
  <2> QED BY <2>2, <2>3
<1>3. /\ sets' = [m \in Sel!Modes |-> sets'[m]] /\ maxfd' = [m \in Sel!Modes |-> maxfd'[m]]
  BY DEF Sel!Remove
<1>4. (waits => outcome = "none")'
  BY DEF SelInv, Sel!Add, Sel!Remove
<1> QED BY <1>2, <1>3, <1>4 DEF SelInv

LEMMA SelKeeps == SelInv /\ [Sel!SelNext]_selvars => SelInv'
<1> SUFFICES ASSUME SelInv, [Sel!SelNext]_selvars PROVE SelInv'
  OBVIOUS
<1>1. CASE UNCHANGED <<sets, maxfd>> /\ (waits' => outcome' = "none")
  BY <1>1 DEF SelInv, Largest
<1>2. CASE Sel!Clear
  BY <1>2 DEF Sel!Clear, Sel!Reset, Sel!Nothing, SelInv, Largest
<1>3. CASE \/ Sel!Call \/ Sel!Returns \/ Sel!TimesOut \/ Sel!Throws \/ Sel!Event
           \/ \E forever \in BOOLEAN : Sel!SetTimeout(forever)
  BY <1>1, <1>3 DEF Sel!Call, Sel!Returns, Sel!TimesOut, Sel!Throws, Sel!Event, Sel!SetTimeout,
                    Sel!Ends, Sel!mine, SelInv
<1>4. CASE UNCHANGED selvars
  BY <1>1, <1>4 DEF selvars, SelInv
<1> QED BY <1>2, <1>3, <1>4, AddKeeps, RemoveKeeps DEF Sel!SelNext

\* But for a hidden exception set, everything asked for is passed to the kernel
\* and within the largest maximum.
LEMMA AllWatched ==
  ASSUME SelInv, ~Sel!Hidden
  PROVE  Sel!Watched = Sel!Asked /\ \A e \in Sel!Asked : Sel!isSet(e[2], {e[1]})
<1>1. ASSUME NEW e \in Sel!Asked
      PROVE  e \in Sel!Watched /\ Sel!isSet(e[2], {e[1]})
  <2>1. /\ e[1] \in Sel!Modes /\ e[2] \in SelFDs /\ e[2] \in sets[e[1]] /\ e[2] \in Nat
        /\ e \in Sel!Events
    BY SelectAssumption DEF Sel!Asked, Sel!Events
  <2>2. e[2] <= maxfd[e[1]] /\ \A m \in Sel!Modes : maxfd[m] \in Int
    BY <2>1 DEF SelInv, Largest
  <2>3. maxfd[e[1]] <= Sel!imaxfd
    BY <2>1, <2>2 DEF Sel!Hidden, Sel!imaxfd, Sel!Modes
  <2>4. Sel!imaxfd \in Int
    BY <2>2 DEF Sel!imaxfd, Sel!Modes
  <2>5. e[2] <= Sel!imaxfd /\ maxfd[e[1]] >= 0
    BY <2>1, <2>2, <2>3, <2>4
  <2> QED BY <2>1, <2>4, <2>5 DEF Sel!Watched, Sel!Passed, Sel!isSet
<1> QED BY <1>1 DEF Sel!Watched, Sel!Asked

\* Whatever was added and removed before, and in whatever order: select() reports
\* of the descriptors asked for those that are ready, and times out only when
\* none is (Select.cpp:44-193).
THEOREM SelectAnswersHolds == MCSpec => SelectAnswers
<1> DEFINE all == <<part, vars, selvars>>
           Ok == ~Sel!Hidden /\ (waits \/ waits') =>
                   /\ outcome' = "ready" => Sel!Reported = Sel!Asked \cap ready
                   /\ outcome' = "timeout" => Sel!Asked \cap ready = {}
                   /\ waits' /\ ~waits => \A e \in Sel!Asked : Sel!isSet(e[2], {e[1]})
<1>1. MCInit => SelInv
  BY DEF MCInit, Sel!SelInit, Sel!Nothing, SelInv, Largest
<1>2. [MCNext]_all => [Sel!SelNext]_selvars
  BY DEF MCNext
<1>3. SelInv /\ [MCNext]_all => SelInv'
  BY <1>2, SelKeeps
<1>4. ASSUME SelInv, [Sel!SelNext]_selvars PROVE [Ok]_selvars
  <2> SUFFICES ASSUME Sel!SelNext, ~Sel!Hidden, waits \/ waits' PROVE Ok
    BY <1>4
  <2>0. Sel!Watched = Sel!Asked /\ \A e \in Sel!Asked : Sel!isSet(e[2], {e[1]})
    BY <1>4, AllWatched
  <2>1. CASE Sel!Call
    BY <2>0, <2>1 DEF Sel!Call
  <2>2. CASE Sel!Returns
    <3>1. PICK above \in {{}, {e \in Sel!Events : e[1] \in Sel!Passed /\ e[2] \in sets[e[1]]} \ Sel!Watched} :
            result' = [m \in Sel!Modes |-> {f \in SelFDs : <<m, f>> \in (Sel!Watched \cap ready) \cup above}]
      BY <2>2 DEF Sel!Returns
    <3>2. above = {}
      BY <2>0, <3>1 DEF Sel!Asked
    <3>3. \A e \in Sel!Events : e[2] \in result'[e[1]] <=> e \in Sel!Watched \cap ready
      BY <3>1, <3>2 DEF Sel!Events
    <3>4. Sel!Reported = Sel!Asked \cap ready
      BY <2>0, <3>3 DEF Sel!Reported, Sel!Asked
    <3> QED BY <2>2, <3>4 DEF Sel!Returns, Sel!Ends
  <2>3. CASE Sel!TimesOut
    BY <2>0, <2>3 DEF Sel!TimesOut, Sel!Ends
  <2>4. CASE Sel!Throws
    BY <2>4 DEF Sel!Throws, Sel!Ends
  <2>5. CASE Sel!Event
    BY <1>4, <2>5 DEF Sel!Event, SelInv
  <2> QED BY <2>1, <2>2, <2>3, <2>4, <2>5
          DEF Sel!SelNext, Sel!Add, Sel!Remove, Sel!Clear, Sel!SetTimeout
<1>5. SelInv /\ [MCNext]_all => [Ok]_(Sel!selvars)
  <2>1. UNCHANGED selvars <=> UNCHANGED Sel!selvars
    BY DEF selvars, Sel!selvars, Sel!mine
  <2> HIDE DEF Ok
  <2> QED BY <1>2, <1>4, <2>1
<1>6. MCSpec => [][Ok]_(Sel!selvars)
  <2> HIDE DEF Ok
  <2> QED BY <1>1, <1>3, <1>5, PTL DEF MCSpec
<1> QED BY <1>6, PTL DEF SelectAnswers, Sel!SelectAnswers

-----------------------------------------------------------------------------
(* The bytes on the line: what the board has still to take or to end       *)

Line == taken \o tx \o out
Heard == got \o rx

\* Commands the board does not answer: CMD_CLR_ERROR_FLAGS, which it does not
\* know, and those of one and of three bytes that change pins.
OneByte == {CMD_CLR_ERROR_FLAGS} \cup CMD_SETB4..(CMD_CLRB4 + 63)
ThreeBytes == {CMD_PUT_PORT, CMD_SETB_PORT, CMD_CLRB_PORT}

\* What they make of the pins p.
AfterOne(p, b) ==
  IF b \in CMD_SETB4..(CMD_SETB4 + 63) THEN p \cup Nibble((b - CMD_SETB4) \div 16, b)
  ELSE IF b \in CMD_CLRB4..(CMD_CLRB4 + 63) THEN p \ Nibble((b - CMD_CLRB4) \div 16, b)
  ELSE p
AfterThree(p, b, x, y) ==
  IF b = CMD_PUT_PORT THEN Joined(x, y)
  ELSE IF b = CMD_SETB_PORT THEN p \cup Joined(x, y)
  ELSE p \ Joined(x, y)

\* The first q bytes of s are such commands, which begin and end at the places B,
\* where the pins are as P says.
Cut(s, q, B, P) ==
  /\ B \subseteq 0..q /\ 0 \in B /\ q \in B
  /\ \A b \in B : b < q =>
       \/ s[b + 1] \in OneByte /\ b + 1 \in B /\ P[b + 1] = AfterOne(P[b], s[b + 1])
       \/ /\ s[b + 1] \in ThreeBytes /\ b + 3 \in B
          /\ P[b + 3] = AfterThree(P[b], s[b + 1], s[b + 2], s[b + 3])

\* They take the pins from p to r.
Leads(s, q, p, r) ==
  \E B \in SUBSET (0..q), P \in [0..q -> SUBSET Bits] :
    Cut(s, q, B, P) /\ P[0] = p /\ P[q] = r

\* What the call c, which is not answered, makes of the pins p.
Effect(c, p) ==
  IF c.op = "put" THEN c.val
  ELSE IF c.op = "set" THEN p \cup c.val
  ELSE IF c.op = "clr" THEN p \ c.val
  ELSE p

\* What comes after them: the command of the call c, no byte of which has been
\* answered; n is the length of its first chunk.
Header(c, s, q) ==
  s[q + 1] = CMD_WRITE_PAGE /\ s[q + 2] = c.at /\ 2^(s[q + 3] % 4) = Len(c.val)
Asking(c, n, s, q) ==
  \/ c.op = "get" /\ Len(s) = q + 1 /\ s[q + 1] = CMD_GET_PORT
  \/ /\ c.op = "read" /\ Len(s) = q + 3 /\ s[q + 1] = CMD_READ_MEM
     /\ s[q + 2] = c.at /\ s[q + 3] % 8 = Len(c.val)
  \/ /\ c.op = "byte" /\ Len(s) = q + 3 /\ s[q + 1] = CMD_WRITE_BYTE
     /\ s[q + 2] = c.at /\ c.val = <<[k \in 1..unit |-> s[q + 3] % 2]>>
  \/ c.op = "header" /\ Len(s) = q + 3 /\ Header(c, s, q)
  \/ /\ c.op = "page" /\ Len(s) = q + 3 + n /\ Header(c, s, q)
     /\ \A j \in 1..n : s[q + 3 + j] = Flat(c.val)[j]
Request(s, q) == Asking(call, unit * ChunkCells(0), s, q) /\ (call.op = "page" => i = 0)

Silence == got = <<>> /\ rx = <<>>

NothingAsked ==
  /\ call.op \in {"none", "put", "set", "clr"} /\ Silence
  /\ Leads(Line, Len(Line), pins, Effect(call, kpins)) /\ memory = kmemory

Asked == /\ Silence /\ Len(taken) <= 3 /\ memory = kmemory
         /\ \E q \in 0..Len(Line) : Leads(Line, q, pins, kpins) /\ Request(Line, q)

\* What the application knows of the cells it reads.
CellsRead == [k \in 1..Len(call.val) |-> kmemory[call.at + k - 1]]

Replied ==
  /\ call.op \in {"get", "read", "byte"} /\ taken = <<>> /\ tx = <<>> /\ out = <<>>
  /\ Len(Heard) = Expected /\ pins = kpins
  /\ call.op = "get" => Heard = <<Hi(kpins), Lo(kpins)>>
  /\ call.op = "read" => \A j \in 1..Len(Heard) - 1 : Heard[j] = Flat(CellsRead)[j]
  /\ memory = IF call.op = "byte" /\ Heard[1] = RC_OK THEN Written ELSE kmemory

\* A page under way: m cells are in and answered, and r bytes of the next one.
FirstWritten(m) == [a \in Addr |-> IF a \in call.at..(call.at + m - 1)
                                     THEN call.val[a - call.at + 1] ELSE kmemory[a]]
InPage(m, r) ==
  /\ Len(taken) = 3 + unit * m + r /\ r < unit
  /\ i <= m /\ m < Len(call.val)
  /\ Len(taken) + Len(tx) + Len(out) = 3 + unit * (i + ChunkCells(i))
  /\ Len(Heard) = m - i /\ \A j \in 1..Len(Heard) : Heard[j] = RC_NEXT
  /\ memory = FirstWritten(m)
Paging ==
  /\ call.op = "page" /\ Len(taken) >= 3 /\ Header(call, Line, 0) /\ pins = kpins
  /\ \A j \in 1..Len(Line) - 3 : Line[3 + j] = Flat(call.val)[j]
  /\ \E m \in 0..Size : \E r \in 0..1 : InPage(m, r)

\* The board is through with the page, or has given it up: it takes what is
\* still on the line for commands it does not know.
PageOver ==
  /\ call.op = "page" /\ taken = <<>> /\ pins = kpins
  /\ \A j \in 1..Len(tx) : tx[j] \in Bit
  /\ \A j \in 1..Len(out) : out[j] \in Bit
  /\ Len(Heard) > 0 /\ Heard[Len(Heard)] # RC_NEXT
  /\ Len(tx) + Len(out) <= unit * (ChunkCells(i) - Len(Heard))
  /\ IF Heard[Len(Heard)] = RC_OK THEN memory = Written
     ELSE \E m \in 0..(Len(call.val) - 1) : memory = FirstWritten(m)

InStep == ~lost => NothingAsked \/ Asked \/ Replied \/ Paging \/ PageOver

\* The host: where its call is, and what it knows.
Ops == {"none", "get", "put", "set", "clr", "read", "byte", "header", "page",
        "version", "size", "clear"}
Shaped(c) == c \in [op : Ops, asked : Nat, at : Nat, val : {c.val}]
Callable(c) ==
  /\ Shaped(c)
  /\ c.op \in {"put", "set", "clr"} => c.val \in Values[unit]
  /\ c.op = "read" => c.val \in Seq(Nat) /\ Len(c.val) \in 1..2
  /\ c.op \in {"byte", "header", "page"} => c.val \in Seq(Items) /\ Len(c.val) \in 1..Size
  /\ c.op \in {"read", "byte", "header", "page"} => c.at \in Addr /\ c.at + Len(c.val) <= Size
  /\ c.op = "read" => c.asked = c.at
  /\ c.op \in {"byte", "header", "page"} => c.at = c.asked - (c.asked % Len(c.val))
CallTyped ==
  /\ Callable(call)
  /\ IF call.op = "page" THEN i < Len(call.val) ELSE i = 0
  /\ call.op = "none" => call = NoCall
KnownTyped == kpins \in SUBSET Bits /\ kmemory \in [Addr -> Items]

Placed ==
  /\ pc \in {"idle", "write", "read"} /\ (pc = "idle" <=> call.op = "none")
  /\ pc # "idle" => fd \in {"open", "hung"}
  /\ pc # "read" => got = <<>>
  /\ pc # "write" => out = <<>>
  /\ pc = "read" => /\ call.op \in {"get", "read", "byte", "page", "version", "size"}
                    /\ need \in Nat
                    /\ Len(got) + need = IF call.op = "page" THEN ChunkCells(i) ELSE Expected

Outside ==
  /\ fd \in {"closed", "failed"} \/ call.op \in {"version", "size", "clear"} => lost
  /\ ~lost => recvbufsize \in {1, Room}

\* The board waits for more bytes only of a command that has more.
TakenOk ==
  /\ taken # <<>> => taken[1] \in LongCommands \cup {CMD_WRITE_PAGE}
  /\ taken # <<>> /\ taken[1] \in LongCommands => Len(taken) < 3

GpioInv ==
  /\ TypeOK /\ unit \in {1, 2} /\ CallTyped /\ KnownTyped
  /\ Placed /\ Outside /\ TakenOk /\ InStep

LEMMA SizesGiven ==
  Size \in 1..256 /\ Size \in Nat /\ Room \in 0..255 /\ ChunkMax \in Nat \ {0}
BY GpioAssumption

-----------------------------------------------------------------------------
(* Sequences *)

LEMMA PartFacts ==
  ASSUME NEW S, NEW s \in Seq(S), NEW k \in 0..Len(s)
  PROVE  /\ From(s, k) \in Seq(S) /\ Len(From(s, k)) = Len(s) - k
         /\ \A j \in 1..Len(s) - k : From(s, k)[j] = s[k + j]
         /\ SubSeq(s, 1, k) \in Seq(S) /\ Len(SubSeq(s, 1, k)) = k
         /\ \A j \in 1..k : SubSeq(s, 1, k)[j] = s[j]
BY SMTT(30) DEF From

LEMMA Split ==
  ASSUME NEW S, NEW s \in Seq(S), NEW k \in 0..Len(s)
  PROVE  SubSeq(s, 1, k) \o From(s, k) = s
<1>1. /\ 1 \in 1..Len(s) + 1 /\ k \in 1 - 1..Len(s) /\ Len(s) \in k..Len(s)
  OBVIOUS
<1>2. SubSeq(s, 1, k) \o SubSeq(s, k + 1, Len(s)) = SubSeq(s, 1, Len(s))
  BY <1>1, ConcatAdjacentSubSeq
<1> QED BY <1>2, SubSeqFull DEF From

LEMMA HeadFirst ==
  ASSUME NEW S, NEW s \in Seq(S), s # <<>>
  PROVE  /\ Head(s) = s[1] /\ Head(s) \in S /\ Tail(s) = From(s, 1) /\ Tail(s) \in Seq(S)
         /\ Len(s) \in Nat \ {0} /\ Len(Tail(s)) = Len(s) - 1
         /\ s = <<Head(s)>> \o Tail(s)
<1>1. 1 \in 0..Len(s) /\ 1 \in 1..Len(s) /\ Len(s) \in 1..Len(s)
  OBVIOUS
<1>2. SubSeq(s, 1, Len(s)) = <<s[1]>> \o SubSeq(s, 2, Len(s))
  BY <1>1, SubSeqRecursiveFirst
<1>3. Tail(s) = SubSeq(s, 2, Len(s)) /\ Head(s) = s[1]
  BY TailIsSubSeq
<1>4. 1 + 1 = 2
  OBVIOUS
<1> QED BY <1>1, <1>2, <1>3, <1>4, SubSeqFull, HeadTailProperties DEF From

-----------------------------------------------------------------------------
(* What the steps do to the line *)

LEMMA LineFacts ==
  ASSUME TypeOK
  PROVE  /\ Line \in Seq(Byte) /\ Len(Line) = Len(taken) + Len(tx) + Len(out)
         /\ Heard \in Seq(Byte) /\ Len(Heard) = Len(got) + Len(rx)
         /\ \A j \in 1..Len(taken) : Line[j] = taken[j]
         /\ \A j \in 1..Len(tx) : Line[Len(taken) + j] = tx[j]
         /\ \A j \in 1..Len(out) : Line[Len(taken) + Len(tx) + j] = out[j]
         /\ Len(taken) \in Nat /\ Len(tx) \in Nat /\ Len(out) \in Nat
         /\ Len(got) \in Nat /\ Len(rx) \in Nat
<1> DEFINE a == taken \o tx
<1>1. /\ taken \in Seq(Byte) /\ tx \in Seq(Byte) /\ out \in Seq(Byte)
      /\ got \in Seq(Byte) /\ rx \in Seq(Byte)
  BY DEF TypeOK
<1>2. /\ a \in Seq(Byte) /\ Len(a) = Len(taken) + Len(tx)
      /\ \A j \in 1..Len(taken) + Len(tx) : a[j] = IF j <= Len(taken) THEN taken[j] ELSE tx[j - Len(taken)]
  BY <1>1, ConcatProperties
<1>3. Line = a \o out
  BY DEF Line
<1>4. Heard \in Seq(Byte) /\ Len(Heard) = Len(got) + Len(rx)
  BY <1>1, ConcatProperties DEF Heard
<1>5. /\ Len(taken) \in Nat /\ Len(tx) \in Nat /\ Len(out) \in Nat
      /\ Len(got) \in Nat /\ Len(rx) \in Nat
  BY <1>1
<1> HIDE DEF a
<1>6. /\ Line \in Seq(Byte) /\ Len(Line) = Len(a) + Len(out)
      /\ \A j \in 1..Len(a) + Len(out) : Line[j] = IF j <= Len(a) THEN a[j] ELSE out[j - Len(a)]
  <2>1. a \in Seq(Byte) /\ out \in Seq(Byte)
    BY <1>1, <1>2
  <2>2. /\ a \o out \in Seq(Byte) /\ Len(a \o out) = Len(a) + Len(out)
        /\ \A j \in 1..Len(a) + Len(out) : (a \o out)[j] = IF j <= Len(a) THEN a[j] ELSE out[j - Len(a)]
    BY ONLY <2>1, ConcatProperties
  <2> QED BY ONLY <1>3, <2>2
<1>7. \A j \in 1..Len(taken) : Line[j] = taken[j]
  BY <1>2, <1>5, <1>6
<1>8. ASSUME NEW j \in 1..Len(tx) PROVE Line[Len(taken) + j] = tx[j]
  <2>1. /\ Len(taken) + j \in 1..Len(taken) + Len(tx) /\ ~(Len(taken) + j <= Len(taken))
        /\ (Len(taken) + j) - Len(taken) = j
    BY <1>5
  <2>2. Len(taken) + j \in 1..Len(a) + Len(out) /\ Len(taken) + j <= Len(a)
    BY <1>2, <1>5
  <2>3. a[Len(taken) + j] = tx[j]
    BY <1>2, <2>1
  <2> QED BY <1>6, <2>2, <2>3
<1>9. ASSUME NEW j \in 1..Len(out) PROVE Line[Len(taken) + Len(tx) + j] = out[j]
  <2>1. /\ Len(a) + j \in 1..Len(a) + Len(out) /\ ~(Len(a) + j <= Len(a))
        /\ (Len(a) + j) - Len(a) = j
    BY <1>2, <1>5
  <2>2. Line[Len(a) + j] = out[j]
    BY <1>6, <2>1
  <2> QED BY <1>2, <2>2
<1> QED BY <1>2, <1>4, <1>5, <1>6, <1>7, <1>8, <1>9

\* Bytes put on the line in three parts are the same line however they are grouped.
LEMMA Regrouped ==
  ASSUME NEW a \in Seq(Byte), NEW b \in Seq(Byte), NEW c \in Seq(Byte)
  PROVE  (a \o b) \o c = a \o (b \o c)
BY ONLY ConcatAssociative, a \in Seq(Byte), b \in Seq(Byte), c \in Seq(Byte)

LEMMA Joins ==
  ASSUME NEW s \in Seq(Byte), NEW b \in Seq(Byte)
  PROVE  /\ s \o b \in Seq(Byte) /\ Len(s \o b) = Len(s) + Len(b)
         /\ \A j \in 1..Len(s) : (s \o b)[j] = s[j]
         /\ \A j \in 1..Len(b) : (s \o b)[Len(s) + j] = b[j]
         /\ Len(s) \in Nat /\ Len(b) \in Nat
<1>1. /\ s \o b \in Seq(Byte) /\ Len(s \o b) = Len(s) + Len(b)
      /\ \A j \in 1..Len(s) + Len(b) :
           (s \o b)[j] = IF j <= Len(s) THEN s[j] ELSE b[j - Len(s)]
  BY ConcatProperties
<1>2. Len(s) \in Nat /\ Len(b) \in Nat
  OBVIOUS
<1>3. ASSUME NEW j \in 1..Len(b) PROVE (s \o b)[Len(s) + j] = b[j]
  <2>1. /\ Len(s) + j \in 1..Len(s) + Len(b) /\ ~(Len(s) + j <= Len(s))
        /\ (Len(s) + j) - Len(s) = j
    BY <1>2
  <2> QED BY <1>1, <2>1
<1>4. \A j \in 1..Len(s) : (s \o b)[j] = s[j]
  BY <1>1, <1>2
<1> QED BY <1>1, <1>2, <1>3, <1>4

\* The system takes bytes from the host: the line stays as it is.
LEMMA SystemTakes ==
  ASSUME TypeOK, NEW k \in 1..Len(out), tx' = tx \o SubSeq(out, 1, k), out' = From(out, k),
         taken' = taken
  PROVE  /\ Line' = Line /\ tx' \in Seq(Byte) /\ out' \in Seq(Byte)
         /\ Len(tx') + Len(out') = Len(tx) + Len(out)
<1> DEFINE p == SubSeq(out, 1, k)
           r == From(out, k)
<1>1. taken \in Seq(Byte) /\ tx \in Seq(Byte) /\ out \in Seq(Byte)
  BY DEF TypeOK
<1>2. k \in 0..Len(out)
  BY <1>1
<1>3. /\ p \in Seq(Byte) /\ r \in Seq(Byte) /\ p \o r = out
      /\ Len(p) = k /\ Len(r) = Len(out) - k
  BY <1>1, <1>2, PartFacts, Split, ZenonT(30)
<1> HIDE DEF p, r
<1>4. tx \o p \in Seq(Byte) /\ taken \o tx \in Seq(Byte) /\ Len(tx \o p) = Len(tx) + Len(p)
  BY <1>1, <1>3, ConcatProperties
<1>5. taken \o (tx \o p) = (taken \o tx) \o p
  <2>1. taken \in Seq(Byte) /\ tx \in Seq(Byte) /\ p \in Seq(Byte)
    BY <1>1, <1>3
  <2> QED BY ONLY <2>1, Regrouped
<1>6. ((taken \o tx) \o p) \o r = (taken \o tx) \o (p \o r)
  BY <1>3, <1>4, Regrouped, ZenonT(30)
<1>7. tx' = tx \o p /\ out' = r
  BY DEF p, r
<1>8. Len(tx) \in Nat /\ Len(out) \in Nat /\ k \in Nat
  BY <1>1
<1>9. Len(tx \o p) + Len(r) = Len(tx) + Len(out)
  BY ONLY <1>3, <1>4, <1>8
<1> QED BY <1>3, <1>4, <1>5, <1>6, <1>7, <1>9 DEF Line

\* The board takes the first byte of what is under way to it.
LEMMA BoardReads ==
  ASSUME TypeOK, tx # <<>>, tx' = Tail(tx), out' = out, NEW c, c = Append(taken, Head(tx))
  PROVE  /\ c \in Seq(Byte) /\ Len(c) = Len(taken) + 1 /\ Len(c) <= Len(Line)
         /\ \A j \in 1..Len(c) : c[j] = Line[j]
         /\ c[Len(c)] = tx[1] /\ \A j \in 1..Len(taken) : c[j] = taken[j]
         /\ tx' \in Seq(Byte) /\ Len(tx') = Len(tx) - 1
         /\ \A j \in 1..Len(tx') : tx'[j] = tx[j + 1]
         /\ taken' = c => Line' = Line
         /\ taken' = <<>> => Line' = From(Line, Len(c))
<1>1. taken \in Seq(Byte) /\ tx \in Seq(Byte) /\ out \in Seq(Byte)
  BY DEF TypeOK
<1>2. /\ Head(tx) = tx[1] /\ Head(tx) \in Byte /\ Tail(tx) \in Seq(Byte)
      /\ Len(tx) \in Nat \ {0} /\ Len(Tail(tx)) = Len(tx) - 1
      /\ tx = <<Head(tx)>> \o Tail(tx)
      /\ \A j \in 1..Len(Tail(tx)) : Tail(tx)[j] = tx[j + 1]
  BY <1>1, HeadFirst, HeadTailProperties
<1>3. /\ c \in Seq(Byte) /\ Len(c) = Len(taken) + 1 /\ c[Len(taken) + 1] = tx[1]
      /\ \A j \in 1..Len(taken) : c[j] = taken[j]
      /\ c = taken \o <<Head(tx)>>
  BY <1>1, <1>2, AppendProperties, AppendIsConcat
<1>4. <<Head(tx)>> \in Seq(Byte)
  BY <1>2
<1>5. taken \o (<<Head(tx)>> \o Tail(tx)) = (taken \o <<Head(tx)>>) \o Tail(tx)
  BY <1>1, <1>2, <1>4, ConcatAssociative, SMTT(30)
<1>6. taken \o tx = c \o Tail(tx)
  BY <1>2, <1>3, <1>5
<1>7. Line = (c \o Tail(tx)) \o out
  BY <1>6 DEF Line
<1>8. Line = c \o (Tail(tx) \o out)
  <2>1. (c \o Tail(tx)) \o out = c \o (Tail(tx) \o out)
    <3> DEFINE t == Tail(tx)
    <3>1. c \in Seq(Byte) /\ t \in Seq(Byte) /\ out \in Seq(Byte)
      BY <1>1, <1>2, <1>3
    <3> HIDE DEF t
    <3>2. (c \o t) \o out = c \o (t \o out)
      BY ONLY <3>1, Regrouped, ZenonT(30)
    <3> QED BY ONLY <3>2 DEF t
  <2> QED BY ONLY <1>7, <2>1
<1> DEFINE rest == Tail(tx) \o out
<1>9. rest \in Seq(Byte)
  BY <1>1, <1>2, ConcatProperties
<1>10. Line = c \o rest
  BY <1>8
<1>11. taken' = c => Line' = Line
  BY <1>7 DEF Line
<1>12. taken' = <<>> => Line' = rest
  <2> SUFFICES ASSUME taken' = <<>> PROVE Line' = rest
    OBVIOUS
  <2>1. <<>> \o Tail(tx) = Tail(tx)
    BY <1>2, ConcatEmptySeq
  <2> QED BY <2>1 DEF Line
<1> HIDE DEF rest
<1>13. /\ Line \in Seq(Byte) /\ Len(Line) = Len(c) + Len(rest)
       /\ \A j \in 1..Len(c) + Len(rest) : Line[j] = IF j <= Len(c) THEN c[j] ELSE rest[j - Len(c)]
  BY <1>3, <1>9, <1>10, ConcatProperties
<1>14. Len(c) \in Nat /\ Len(rest) \in Nat /\ Len(c) \in 0..Len(Line)
  BY <1>3, <1>9, <1>13
<1>15. rest = From(Line, Len(c))
  <2> DEFINE f == From(Line, Len(c))
  <2>1. /\ f \in Seq(Byte) /\ Len(f) = Len(rest)
        /\ \A j \in 1..Len(rest) : f[j] = Line[Len(c) + j]
    <3>1. /\ From(Line, Len(c)) \in Seq(Byte) /\ Len(From(Line, Len(c))) = Len(Line) - Len(c)
          /\ \A j \in 1..Len(Line) - Len(c) : From(Line, Len(c))[j] = Line[Len(c) + j]
      BY ONLY <1>13, <1>14, PartFacts, Zenon
    <3>2. Len(Line) - Len(c) = Len(rest)
      BY ONLY <1>13, <1>14
    <3> QED BY <3>1, <3>2
  <2> HIDE DEF f
  <2>2. ASSUME NEW j \in 1..Len(rest) PROVE f[j] = rest[j]
    <3>1. /\ Len(c) + j \in 1..Len(c) + Len(rest) /\ ~(Len(c) + j <= Len(c))
          /\ (Len(c) + j) - Len(c) = j
      BY <1>14
    <3> QED BY <1>13, <2>1, <3>1
  <2>3. f = rest
    BY <1>9, <2>1, <2>2, SeqEqual
  <2> QED BY <2>3 DEF f
<1>16. \A j \in 1..Len(c) : c[j] = Line[j]
  BY <1>13, <1>14
<1> QED BY <1>2, <1>3, <1>11, <1>12, <1>14, <1>15, <1>16

-----------------------------------------------------------------------------
(* Bits *)

LEMMA Powers ==
  /\ 2^0 = 1 /\ 2^1 = 2 /\ 2^2 = 4 /\ 2^3 = 8 /\ 2^4 = 16 /\ 2^5 = 32 /\ 2^6 = 64
  /\ 2^7 = 128 /\ 2^8 = 256 /\ 2^9 = 512 /\ 2^10 = 1024 /\ 2^11 = 2048
  /\ 2^12 = 4096 /\ 2^13 = 8192 /\ 2^14 = 16384 /\ 2^15 = 32768
OBVIOUS

LEMMA NumberIsByte ==
  ASSUME NEW S
  PROVE  Number(S) \in Byte
<1> DEFINE w(b) == IF b \in S THEN 2^b ELSE 0
<1>1. /\ w(0) \in {0, 1} /\ w(1) \in {0, 2} /\ w(2) \in {0, 4} /\ w(3) \in {0, 8}
      /\ w(4) \in {0, 16} /\ w(5) \in {0, 32} /\ w(6) \in {0, 64} /\ w(7) \in {0, 128}
  BY Powers
<1>2. Number(S) = w(0) + w(1) + w(2) + w(3) + w(4) + w(5) + w(6) + w(7)
  BY DEF Number
<1> HIDE DEF w
<1> QED BY ONLY <1>1, <1>2 DEF Byte

LEMMA NumberOfFour ==
  ASSUME NEW S, S \subseteq 0..3
  PROVE  Number(S) \in 0..15
<1> DEFINE w(b) == IF b \in S THEN 2^b ELSE 0
<1>1. /\ w(0) \in {0, 1} /\ w(1) \in {0, 2} /\ w(2) \in {0, 4} /\ w(3) \in {0, 8}
      /\ w(4) = 0 /\ w(5) = 0 /\ w(6) = 0 /\ w(7) = 0
  BY Powers
<1>2. Number(S) = w(0) + w(1) + w(2) + w(3) + w(4) + w(5) + w(6) + w(7)
  BY DEF Number
<1> HIDE DEF w
<1> QED BY ONLY <1>1, <1>2

LEMMA NibbleIsBits ==
  ASSUME NEW n \in 0..3, NEW b \in Nat
  PROVE  Nibble(n, b) \subseteq Bits
<1> DEFINE x == b % 16
<1>1. x \in 0..15
  OBVIOUS
<1> HIDE DEF x
<1>2. \A p \in Nat : p > 15 => x \div p = 0
  BY <1>1
<1>3. ASSUME NEW k \in 4..15 PROVE 2^k \in Nat /\ 2^k > 15
  <2>1. \/ k = 4 \/ k = 5 \/ k = 6 \/ k = 7 \/ k = 8 \/ k = 9 \/ k = 10
        \/ k = 11 \/ k = 12 \/ k = 13 \/ k = 14 \/ k = 15
    OBVIOUS
  <2>2. /\ 2^4 > 15 /\ 2^5 > 15 /\ 2^6 > 15 /\ 2^7 > 15 /\ 2^8 > 15 /\ 2^9 > 15
        /\ 2^10 > 15 /\ 2^11 > 15 /\ 2^12 > 15 /\ 2^13 > 15 /\ 2^14 > 15 /\ 2^15 > 15
    BY Powers
  <2>3. /\ 2^4 \in Nat /\ 2^5 \in Nat /\ 2^6 \in Nat /\ 2^7 \in Nat /\ 2^8 \in Nat /\ 2^9 \in Nat
        /\ 2^10 \in Nat /\ 2^11 \in Nat /\ 2^12 \in Nat /\ 2^13 \in Nat /\ 2^14 \in Nat
        /\ 2^15 \in Nat
    BY Powers
  <2> QED BY ONLY <2>1, <2>2, <2>3, Zenon
<1>4. ASSUME NEW k \in 4..15 PROVE (x \div (2^k)) % 2 # 1
  <2>1. x \div (2^k) = 0
    BY ONLY <1>2, <1>3, k \in 4..15
  <2>2. 0 % 2 = 0
    OBVIOUS
  <2> QED BY ONLY <2>1, <2>2
<1>5. BitsOf(x) \subseteq 0..3
  <2> SUFFICES ASSUME NEW k \in BitsOf(x) PROVE k \in 0..3
    OBVIOUS
  <2>1. k \in 0..15 /\ (x \div (2^k)) % 2 = 1
    BY DEF BitsOf, Bits
  <2>2. k \notin 4..15
    BY <1>4, <2>1
  <2> QED BY ONLY <2>1, <2>2
<1>6. Nibble(n, b) = {k + 4 * n : k \in BitsOf(x)}
  BY DEF Nibble, x
<1> HIDE DEF Nibble
<1> QED BY <1>5, <1>6 DEF Bits

LEMMA JoinedIsBits ==
  ASSUME NEW x, NEW y
  PROVE  Joined(x, y) \subseteq Bits
BY DEF Joined, Bits

\* A byte has no bits above the eighth.
LEMMA NoHigherBits ==
  ASSUME NEW n \in Byte, NEW k \in 8..15
  PROVE  (n \div 2^k) % 2 # 1
<1>1. 2^k \in Nat /\ 2^k > 255
  <2>1. \/ k = 8 \/ k = 9 \/ k = 10 \/ k = 11 \/ k = 12 \/ k = 13 \/ k = 14 \/ k = 15
    OBVIOUS
  <2>2. /\ 2^8 > 255 /\ 2^9 > 255 /\ 2^10 > 255
        /\ 2^11 > 255 /\ 2^12 > 255 /\ 2^13 > 255 /\ 2^14 > 255 /\ 2^15 > 255
    BY Powers
  <2>3. /\ 2^8 \in Nat /\ 2^9 \in Nat
        /\ 2^10 \in Nat /\ 2^11 \in Nat /\ 2^12 \in Nat /\ 2^13 \in Nat /\ 2^14 \in Nat
        /\ 2^15 \in Nat
    BY Powers
  <2> QED BY ONLY <2>1, <2>2, <2>3, Zenon
<1>2. \A p \in Nat : p > 255 => n \div p = 0
  BY DEF Byte
<1>3. n \div 2^k = 0
  BY ONLY <1>1, <1>2
<1>4. 0 % 2 = 0
  OBVIOUS
<1> QED BY ONLY <1>3, <1>4

\* The bits of a byte, made a number, are found in it again.
LEMMA BitsFound ==
  ASSUME NEW T, T \subseteq 0..7
  PROVE  BitsOf(Number(T)) = T
<1> DEFINE w(b) == IF b \in T THEN 2^b ELSE 0
           v(b) == IF b \in T THEN 1 ELSE 0
           n == Number(T)
<1>1. /\ w(0) = v(0) /\ w(1) = 2 * v(1) /\ w(2) = 4 * v(2) /\ w(3) = 8 * v(3)
      /\ w(4) = 16 * v(4) /\ w(5) = 32 * v(5) /\ w(6) = 64 * v(6) /\ w(7) = 128 * v(7)
  BY Powers
<1>2. n = w(0) + w(1) + w(2) + w(3) + w(4) + w(5) + w(6) + w(7)
  BY DEF Number
<1>3. /\ v(0) \in {0, 1} /\ v(1) \in {0, 1} /\ v(2) \in {0, 1} /\ v(3) \in {0, 1}
      /\ v(4) \in {0, 1} /\ v(5) \in {0, 1} /\ v(6) \in {0, 1} /\ v(7) \in {0, 1}
  OBVIOUS
<1>4. \A b : v(b) = 1 <=> b \in T
  OBVIOUS
<1> HIDE DEF w, v, n
<1>5. /\ n % 2 = v(0)
      /\ (n \div 2) % 2 = v(1)
      /\ (n \div 4) % 2 = v(2)
      /\ (n \div 8) % 2 = v(3)
      /\ (n \div 16) % 2 = v(4)
      /\ (n \div 32) % 2 = v(5)
      /\ (n \div 64) % 2 = v(6)
      /\ (n \div 128) % 2 = v(7)
  <2>1. n = v(0) + 2 * v(1) + 4 * v(2) + 8 * v(3) + 16 * v(4) + 32 * v(5) + 64 * v(6) + 128 * v(7)
    BY <1>1, <1>2
  <2>2. n % 2 = v(0)
    BY ONLY <1>3, <2>1
  <2>3. (n \div 2) % 2 = v(1)
    BY ONLY <1>3, <2>1
  <2>4. (n \div 4) % 2 = v(2)
    BY ONLY <1>3, <2>1
  <2>5. (n \div 8) % 2 = v(3)
    BY ONLY <1>3, <2>1
  <2>6. (n \div 16) % 2 = v(4)
    BY ONLY <1>3, <2>1
  <2>7. (n \div 32) % 2 = v(5)
    BY ONLY <1>3, <2>1
  <2>8. (n \div 64) % 2 = v(6)
    BY ONLY <1>3, <2>1
  <2>9. (n \div 128) % 2 = v(7)
    BY ONLY <1>3, <2>1
  <2> QED BY <2>2, <2>3, <2>4, <2>5, <2>6, <2>7, <2>8, <2>9
<1>6. n \in Byte
  BY NumberIsByte DEF n
<1>7. \A k \in 0..7 : (n \div 2^k) % 2 = v(k)
  <2>1. n \div 1 = n
    BY <1>6 DEF Byte
  <2>2. /\ (n \div 2^0) % 2 = v(0) /\ (n \div 2^1) % 2 = v(1) /\ (n \div 2^2) % 2 = v(2)
        /\ (n \div 2^3) % 2 = v(3) /\ (n \div 2^4) % 2 = v(4) /\ (n \div 2^5) % 2 = v(5)
        /\ (n \div 2^6) % 2 = v(6) /\ (n \div 2^7) % 2 = v(7)
    BY ONLY <1>5, <2>1, Powers
  <2>3. \A k \in 0..7 : k = 0 \/ k = 1 \/ k = 2 \/ k = 3 \/ k = 4 \/ k = 5 \/ k = 6 \/ k = 7
    OBVIOUS
  <2> QED BY ONLY <2>2, <2>3, Zenon
<1>8. \A k \in Bits : k \in 0..7 \/ k \in 8..15
  BY DEF Bits
<1>9. \A k \in 0..7 : k \in Bits
  BY DEF Bits
<1>10. \A k \in 8..15 : (n \div 2^k) % 2 # 1 /\ k \notin 0..7
  <2>1. \A k \in 8..15 : (n \div 2^k) % 2 # 1
    BY <1>6, NoHigherBits, Zenon
  <2>2. \A k \in 8..15 : k \notin 0..7
    OBVIOUS
  <2> QED BY ONLY <2>1, <2>2, Zenon
<1>11. \A k \in Bits : (n \div 2^k) % 2 = 1 <=> k \in T
  BY ONLY <1>4, <1>7, <1>8, <1>10, T \subseteq 0..7
<1>12. BitsOf(n) = {k \in Bits : (n \div 2^k) % 2 = 1}
  BY DEF BitsOf
<1>13. T \subseteq Bits
  BY <1>9
<1>14. BitsOf(n) = T
  BY ONLY <1>11, <1>12, <1>13
<1> QED BY <1>14 DEF n

LEMMA JoinedAgain ==
  ASSUME NEW S \in SUBSET Bits
  PROVE  Joined(Hi(S), Lo(S)) = S
<1> DEFINE H == {b - 8 : b \in S \cap 8..15}
           L == S \cap 0..7
<1>1. H \subseteq 0..7 /\ L \subseteq 0..7
  OBVIOUS
<1>2. BitsOf(Hi(S)) = H /\ BitsOf(Lo(S)) = L
  BY <1>1, BitsFound DEF Hi, Lo
<1>3. Joined(Hi(S), Lo(S)) = {b + 8 : b \in H} \cup L
  BY <1>1, <1>2 DEF Joined
<1>4. {b + 8 : b \in H} = S \cap 8..15
  <2>1. ASSUME NEW b \in S \cap 8..15 PROVE b \in {c + 8 : c \in H}
    <3>1. b - 8 \in H /\ (b - 8) + 8 = b
      OBVIOUS
    <3> HIDE DEF H
    <3> QED BY <3>1
  <2>2. ASSUME NEW b \in H PROVE b + 8 \in S \cap 8..15
    <3>1. PICK c \in S \cap 8..15 : b = c - 8
      OBVIOUS
    <3>2. b + 8 = c
      BY <3>1
    <3> QED BY <3>2
  <2> HIDE DEF H
  <2> QED BY <2>1, <2>2
<1>5. (S \cap 8..15) \cup (S \cap 0..7) = S
  <2>1. \A b \in Bits : b \in 8..15 \/ b \in 0..7
    BY DEF Bits
  <2> QED BY ONLY <2>1, S \subseteq Bits
<1> QED BY <1>3, <1>4, <1>5

-----------------------------------------------------------------------------
(* Commands without an answer *)

LEMMA SamePrefix ==
  ASSUME NEW s, NEW t, NEW q \in Nat, NEW p, NEW r, Leads(s, q, p, r),
         \A j \in 1..q : t[j] = s[j]
  PROVE  Leads(t, q, p, r)
<1>1. PICK B \in SUBSET (0..q), P \in [0..q -> SUBSET Bits] :
        Cut(s, q, B, P) /\ P[0] = p /\ P[q] = r
  BY DEF Leads
<1>2. ASSUME NEW b \in B, b < q
      PROVE  \/ t[b + 1] \in OneByte /\ b + 1 \in B /\ P[b + 1] = AfterOne(P[b], t[b + 1])
             \/ /\ t[b + 1] \in ThreeBytes /\ b + 3 \in B
                /\ P[b + 3] = AfterThree(P[b], t[b + 1], t[b + 2], t[b + 3])
  <2>1. b \in 0..q
    BY <1>1
  <2>2. \/ s[b + 1] \in OneByte /\ b + 1 \in B /\ P[b + 1] = AfterOne(P[b], s[b + 1])
        \/ /\ s[b + 1] \in ThreeBytes /\ b + 3 \in B
           /\ P[b + 3] = AfterThree(P[b], s[b + 1], s[b + 2], s[b + 3])
    BY <1>1, <1>2 DEF Cut
  <2>3. t[b + 1] = s[b + 1]
    <3>1. b + 1 \in 1..q
      BY <1>2, <2>1
    <3> QED BY ONLY <3>1, \A j \in 1..q : t[j] = s[j]
  <2>4. b + 3 \in B => t[b + 2] = s[b + 2] /\ t[b + 3] = s[b + 3]
    <3>1. b + 3 \in B => b + 2 \in 1..q /\ b + 3 \in 1..q
      BY <1>1, <2>1
    <3> QED BY ONLY <3>1, \A j \in 1..q : t[j] = s[j]
  <2> QED BY ONLY <2>2, <2>3, <2>4
<1>3. Cut(t, q, B, P)
  BY <1>1, <1>2 DEF Cut
<1> QED BY <1>1, <1>3 DEF Leads

\* What is left when the first k bytes are done, k being a place of B.
LEMMA Shifted ==
  ASSUME NEW s \in Seq(Byte), NEW q \in 0..Len(s), NEW B, NEW P \in [0..q -> SUBSET Bits],
         Cut(s, q, B, P), NEW k \in B
  PROVE  k \in 0..q /\ Leads(From(s, k), q - k, P[k], P[q])
<1> DEFINE D == {b \in 0..q - k : b + k \in B}
           Q == [b \in 0..q - k |-> P[b + k]]
           t == From(s, k)
<1>1. k \in 0..q /\ k \in Nat /\ q \in Nat /\ k \in 0..Len(s) /\ Len(s) \in Nat
  BY DEF Cut
<1>2. \A j \in 1..Len(s) - k : t[j] = s[k + j]
  BY <1>1, PartFacts
<1> HIDE DEF t
<1>3. D \subseteq 0..q - k /\ 0 \in D /\ q - k \in D
  BY <1>1 DEF Cut
<1>4. /\ Q \in [0..q - k -> SUBSET Bits] /\ Q[0] = P[k] /\ Q[q - k] = P[q]
      /\ \A b \in 0..q - k : Q[b] = P[b + k]
  <2>1. \A b \in 0..q - k : b + k \in 0..q
    BY <1>1
  <2>2. 0 \in 0..q - k /\ q - k \in 0..q - k /\ 0 + k = k /\ (q - k) + k = q
    BY <1>1
  <2> QED BY <2>1, <2>2
<1> HIDE DEF Q
<1>5. ASSUME NEW b \in D, b < q - k
      PROVE  \/ t[b + 1] \in OneByte /\ b + 1 \in D /\ Q[b + 1] = AfterOne(Q[b], t[b + 1])
             \/ /\ t[b + 1] \in ThreeBytes /\ b + 3 \in D
                /\ Q[b + 3] = AfterThree(Q[b], t[b + 1], t[b + 2], t[b + 3])
  <2>1. b + k \in B /\ b + k < q /\ b \in Nat /\ b \in 0..q - k
    BY <1>1, <1>5
  <2>2. \A x \in 1..3 : (b + k) + x <= q => t[b + x] = s[(b + k) + x]
    <3> SUFFICES ASSUME NEW x \in 1..3, (b + k) + x <= q PROVE t[b + x] = s[(b + k) + x]
      OBVIOUS
    <3>1. k + (b + x) = (b + k) + x /\ b + x \in 1..Len(s) - k
      BY <1>1, <2>1
    <3>2. t[b + x] = s[k + (b + x)]
      BY ONLY <1>2, <3>1
    <3> QED BY <3>1, <3>2
  <2>3. \/ /\ s[(b + k) + 1] \in OneByte /\ (b + k) + 1 \in B
           /\ P[(b + k) + 1] = AfterOne(P[b + k], s[(b + k) + 1])
        \/ /\ s[(b + k) + 1] \in ThreeBytes /\ (b + k) + 3 \in B
           /\ P[(b + k) + 3]
                = AfterThree(P[b + k], s[(b + k) + 1], s[(b + k) + 2], s[(b + k) + 3])
    BY <2>1 DEF Cut
  <2>4. \A x \in {1, 3} : (b + k) + x \in B =>
          /\ b + x \in D /\ Q[b + x] = P[(b + k) + x]
          /\ \A y \in 1..3 : y <= x => (b + k) + y <= q
    <3> SUFFICES ASSUME NEW x \in {1, 3}, (b + k) + x \in B
                 PROVE  /\ b + x \in D /\ Q[b + x] = P[(b + k) + x]
                        /\ \A y \in 1..3 : y <= x => (b + k) + y <= q
      OBVIOUS
    <3>1. (b + k) + x \in 0..q
      BY DEF Cut
    <3>2. b + x \in 0..q - k /\ (b + x) + k = (b + k) + x
      BY <1>1, <2>1, <3>1
    <3> QED BY <1>1, <1>4, <2>1, <3>1, <3>2
  <2>5. Q[b] = P[b + k]
    BY <1>4, <2>1
  <2> HIDE DEF D
  <2>6. (b + k) + 1 \in B => t[b + 1] = s[(b + k) + 1]
    BY <2>2, <2>4
  <2>7. (b + k) + 3 \in B => \A y \in 1..3 : t[b + y] = s[(b + k) + y]
    BY <2>2, <2>4
  <2> QED BY <2>3, <2>4, <2>5, <2>6, <2>7
<1>6. Cut(t, q - k, D, Q)
  <2> HIDE DEF D
  <2> QED BY <1>3, <1>5 DEF Cut
<1>7. Leads(t, q - k, P[k], P[q])
  BY <1>3, <1>4, <1>6 DEF Leads
<1> QED BY <1>1, <1>7 DEF t

LEMMA AfterIsBits ==
  ASSUME NEW p \in SUBSET Bits
  PROVE  /\ \A b \in Byte : AfterOne(p, b) \in SUBSET Bits
         /\ \A b, x, y : AfterThree(p, b, x, y) \in SUBSET Bits
<1>1. ASSUME NEW b \in Byte PROVE AfterOne(p, b) \in SUBSET Bits
  <2>1. b \in CMD_SETB4..(CMD_SETB4 + 63) => (b - CMD_SETB4) \div 16 \in 0..3 /\ b \in Nat
    BY DEF CMD_SETB4, Byte
  <2>2. b \in CMD_SETB4..(CMD_SETB4 + 63) => Nibble((b - CMD_SETB4) \div 16, b) \subseteq Bits
    BY <2>1, NibbleIsBits
  <2> QED BY <2>2 DEF AfterOne
<1>2. ASSUME NEW b, NEW x, NEW y PROVE AfterThree(p, b, x, y) \in SUBSET Bits
  BY JoinedIsBits DEF AfterThree
<1> QED BY <1>1, <1>2

LEMMA Lengthened ==
  ASSUME NEW s \in Seq(Byte), NEW p, NEW r, Leads(s, Len(s), p, r), NEW t \in Seq(Byte), NEW z,
         \/ Len(t) = 1 /\ t[1] \in OneByte /\ z = AfterOne(r, t[1])
         \/ Len(t) = 3 /\ t[1] \in ThreeBytes /\ z = AfterThree(r, t[1], t[2], t[3])
  PROVE  Leads(s \o t, Len(s \o t), p, z)
<1> DEFINE u == s \o t
<1>1. /\ u \in Seq(Byte) /\ Len(u) = Len(s) + Len(t)
      /\ \A j \in 1..Len(s) + Len(t) : u[j] = IF j <= Len(s) THEN s[j] ELSE t[j - Len(s)]
  BY ConcatProperties
<1>2. Len(s) \in Nat /\ Len(t) \in {1, 3}
  OBVIOUS
<1>3. PICK B \in SUBSET (0..Len(s)), P \in [0..Len(s) -> SUBSET Bits] :
        Cut(s, Len(s), B, P) /\ P[0] = p /\ P[Len(s)] = r
  BY DEF Leads
<1> HIDE DEF u
<1> DEFINE D == B \cup {Len(u)}
           Q == [b \in 0..Len(u) |-> IF b <= Len(s) THEN P[b] ELSE z]
<1>4. D \subseteq 0..Len(u) /\ 0 \in D /\ Len(u) \in D
  <2>1. Len(u) \in Nat /\ Len(s) <= Len(u)
    BY ONLY <1>1, <1>2
  <2>2. 0..Len(s) \subseteq 0..Len(u) /\ Len(u) \in 0..Len(u)
    BY ONLY <1>2, <2>1
  <2>3. 0 \in B
    BY <1>3 DEF Cut
  <2>4. B \subseteq 0..Len(s)
    BY <1>3
  <2> QED BY ONLY <2>2, <2>3, <2>4
<1>5. z \in SUBSET Bits
  <2>1. r \in SUBSET Bits /\ t[1] \in Byte
    BY <1>2, <1>3
  <2>2. AfterOne(r, t[1]) \in SUBSET Bits /\ AfterThree(r, t[1], t[2], t[3]) \in SUBSET Bits
    BY <2>1, AfterIsBits
  <2>3. z = AfterOne(r, t[1]) \/ z = AfterThree(r, t[1], t[2], t[3])
    OBVIOUS
  <2> QED BY <2>2, <2>3, Zenon
<1>6. /\ Q \in [0..Len(u) -> SUBSET Bits] /\ Q[0] = p /\ Q[Len(u)] = z
      /\ \A b \in 0..Len(s) : Q[b] = P[b]
  <2>1. /\ Len(u) \in Nat /\ ~(Len(u) <= Len(s)) /\ 0 \in 0..Len(u) /\ Len(u) \in 0..Len(u)
        /\ \A b \in 0..Len(s) : b \in 0..Len(u) /\ b <= Len(s)
        /\ \A b \in 0..Len(u) : b <= Len(s) => b \in 0..Len(s)
        /\ 0 <= Len(s)
    BY <1>1, <1>2
  <2>2. ASSUME NEW b \in 0..Len(u) PROVE (IF b <= Len(s) THEN P[b] ELSE z) \in SUBSET Bits
    BY <1>5, <2>1
  <2>3. \A b \in 0..Len(u) : Q[b] = IF b <= Len(s) THEN P[b] ELSE z
    OBVIOUS
  <2>4. Q \in [0..Len(u) -> SUBSET Bits]
    BY <2>2
  <2> HIDE DEF Q
  <2> QED BY <1>3, <2>1, <2>3, <2>4
<1> HIDE DEF Q
<1>7. ASSUME NEW b \in D, b < Len(u)
      PROVE  \/ u[b + 1] \in OneByte /\ b + 1 \in D /\ Q[b + 1] = AfterOne(Q[b], u[b + 1])
             \/ /\ u[b + 1] \in ThreeBytes /\ b + 3 \in D
                /\ Q[b + 3] = AfterThree(Q[b], u[b + 1], u[b + 2], u[b + 3])
  <2>1. b \in B /\ b \in 0..Len(s) /\ Q[b] = P[b]
    BY <1>3, <1>6, <1>7
  <2>2. CASE b < Len(s)
    <3>1. \A x \in 1..3 : b + x <= Len(s) => u[b + x] = s[b + x] /\ Q[b + x] = P[b + x]
      BY <1>1, <1>2, <1>6, <2>1, <2>2
    <3>2. \/ s[b + 1] \in OneByte /\ b + 1 \in B /\ P[b + 1] = AfterOne(P[b], s[b + 1])
          \/ /\ s[b + 1] \in ThreeBytes /\ b + 3 \in B
             /\ P[b + 3] = AfterThree(P[b], s[b + 1], s[b + 2], s[b + 3])
      BY <1>3, <2>1, <2>2 DEF Cut
    <3>3. b + 3 \in B => b + 1 <= Len(s) /\ b + 2 <= Len(s) /\ b + 3 <= Len(s)
      BY <1>2, <1>3, <2>1
    <3>4. b + 1 <= Len(s)
      BY <1>2, <2>1, <2>2
    <3> QED BY <2>1, <3>1, <3>2, <3>3, <3>4
  <2>3. CASE b = Len(s)
    <3>1. \A x \in 1..Len(t) : u[b + x] = t[x]
      <4> SUFFICES ASSUME NEW x \in 1..Len(t) PROVE u[b + x] = t[x]
        OBVIOUS
      <4>1. b + x \in 1..Len(s) + Len(t) /\ ~(b + x <= Len(s)) /\ (b + x) - Len(s) = x
        BY <1>2, <2>1, <2>3
      <4> QED BY <1>1, <4>1
    <3>2. Q[b] = r /\ Q[Len(u)] = z
      BY <1>3, <1>6, <2>1, <2>3
    <3>3. CASE Len(t) = 1 /\ t[1] \in OneByte /\ z = AfterOne(r, t[1])
      <4>1. u[b + 1] = t[1] /\ b + 1 = Len(u)
        BY <1>1, <2>3, <3>1, <3>3
      <4> QED BY <3>2, <3>3, <4>1
    <3>4. CASE Len(t) = 3 /\ t[1] \in ThreeBytes /\ z = AfterThree(r, t[1], t[2], t[3])
      <4>1. u[b + 1] = t[1] /\ u[b + 2] = t[2] /\ u[b + 3] = t[3] /\ b + 3 = Len(u)
        BY <1>1, <2>3, <3>1, <3>4
      <4> QED BY <3>2, <3>4, <4>1
    <3> QED BY <3>3, <3>4
  <2> QED BY <2>1, <2>2, <2>3
<1>8. Cut(u, Len(u), D, Q)
  <2> HIDE DEF D
  <2> QED BY <1>4, <1>7 DEF Cut
<1>9. Leads(u, Len(u), p, z)
  BY <1>4, <1>6, <1>8 DEF Leads
<1> QED BY <1>9 DEF u

\* The first byte of such commands begins one.
LEMMA FirstOf ==
  ASSUME NEW s \in Seq(Byte), NEW q \in 1..Len(s), NEW p, NEW r, Leads(s, q, p, r)
  PROVE  \/ s[1] \in OneByte /\ Leads(From(s, 1), q - 1, AfterOne(p, s[1]), r)
         \/ /\ s[1] \in ThreeBytes /\ q >= 3
            /\ Leads(From(s, 3), q - 3, AfterThree(p, s[1], s[2], s[3]), r)
<1>1. PICK B \in SUBSET (0..q), P \in [0..q -> SUBSET Bits] :
        Cut(s, q, B, P) /\ P[0] = p /\ P[q] = r
  BY DEF Leads
<1>2. \/ s[1] \in OneByte /\ 1 \in B /\ P[1] = AfterOne(p, s[1])
      \/ s[1] \in ThreeBytes /\ 3 \in B /\ P[3] = AfterThree(p, s[1], s[2], s[3])
  <2>1. 0 \in B /\ 0 < q /\ 0 + 1 = 1 /\ 0 + 2 = 2 /\ 0 + 3 = 3
    BY <1>1 DEF Cut
  <2>2. \/ s[0 + 1] \in OneByte /\ 0 + 1 \in B /\ P[0 + 1] = AfterOne(P[0], s[0 + 1])
        \/ /\ s[0 + 1] \in ThreeBytes /\ 0 + 3 \in B
           /\ P[0 + 3] = AfterThree(P[0], s[0 + 1], s[0 + 2], s[0 + 3])
    BY <1>1, <2>1 DEF Cut
  <2> QED BY <1>1, <2>1, <2>2
<1>3. q \in 0..Len(s)
  OBVIOUS
<1>4. \A k \in B : k \in 0..q /\ Leads(From(s, k), q - k, P[k], r)
  BY <1>1, <1>3, Shifted
<1> QED BY <1>2, <1>4

\* No bytes, no effect.
LEMMA NothingLeft ==
  ASSUME NEW s
  PROVE  /\ \A p \in SUBSET Bits : Leads(s, 0, p, p)
         /\ \A p, r : Leads(s, 0, p, r) => p = r
<1>1. ASSUME NEW p \in SUBSET Bits PROVE Leads(s, 0, p, p)
  <2> DEFINE P == [b \in 0..0 |-> p]
  <2>1. P \in [0..0 -> SUBSET Bits] /\ P[0] = p
    OBVIOUS
  <2> HIDE DEF P
  <2>2. {0} \in SUBSET (0..0) /\ Cut(s, 0, {0}, P)
    BY DEF Cut
  <2> QED BY <2>1, <2>2 DEF Leads
<1>2. ASSUME NEW p, NEW r, Leads(s, 0, p, r) PROVE p = r
  BY <1>2 DEF Leads
<1> QED BY <1>1, <1>2

-----------------------------------------------------------------------------
(* What the board does with a byte *)

LEMMA BoardSplits ==
  ASSUME BoardTakes
  PROVE  /\ tx # <<>> /\ tx' = Tail(tx)
         /\ UNCHANGED <<fd, pc, out, need, got, unit>>
BY DEF BoardTakes

LEMMA BoardCases ==
  ASSUME BoardTakes, NEW c, c = Append(taken, Head(tx))
  PROVE  \/ Len(c) = 1 /\ c[1] \in ShortCommands /\ DoShort(c[1]) /\ taken' = <<>>
         \/ c[1] \in LongCommands /\ Len(c) < 3 /\ taken' = c /\ rx' = rx /\ Quiet
         \/ /\ c[1] \in LongCommands /\ ~(Len(c) < 3) /\ taken' = <<>>
            /\ \E rc \in {RC_OK, RC_POLL_TIMEOUT} : DoLong(c[1], c[2], c[3], rc)
         \/ c[1] = CMD_WRITE_PAGE /\ \E rc \in {RC_OK, RC_POLL_TIMEOUT} : DoPage(c, rc)
         \/ /\ c[1] \notin ShortCommands \cup LongCommands \cup {CMD_WRITE_PAGE}
            /\ taken' = <<>> /\ rx' = rx /\ Quiet
BY DEF BoardTakes

\* What command a byte is.
LEMMA Kinds ==
  ASSUME NEW b
  PROVE  /\ b \in OneByte \cup Bit => /\ b \notin LongCommands \cup {CMD_WRITE_PAGE}
                                      /\ b \notin {CMD_GET_VERSION, CMD_GET_RECVBUFSIZE, CMD_GET_PORT}
         /\ b \in ThreeBytes => /\ b \in LongCommands
                                /\ b \notin ShortCommands \cup {CMD_WRITE_PAGE}
                                /\ b \notin {CMD_READ_MEM, CMD_WRITE_BYTE}
         /\ b = CMD_GET_PORT => /\ b \in ShortCommands
                                /\ b \notin LongCommands \cup {CMD_WRITE_PAGE}
                                /\ b \notin {CMD_GET_VERSION, CMD_GET_RECVBUFSIZE}
                                /\ b \notin CMD_SETB4..(CMD_CLRB4 + 63)
         /\ b \in {CMD_READ_MEM, CMD_WRITE_BYTE} =>
                                /\ b \in LongCommands
                                /\ b \notin ShortCommands \cup {CMD_WRITE_PAGE}
                                /\ b \notin ThreeBytes
         /\ b = CMD_WRITE_PAGE => b \notin ShortCommands \cup LongCommands
BY DEF OneByte, Bit, ThreeBytes, ShortCommands, LongCommands,
       CMD_CLR_ERROR_FLAGS, CMD_GET_VERSION, CMD_GET_RECVBUFSIZE, CMD_GET_PORT, CMD_SETB4,
       CMD_CLRB4, CMD_PUT_PORT, CMD_SETB_PORT, CMD_CLRB_PORT, CMD_READ_MEM, CMD_WRITE_BYTE,
       CMD_WRITE_PAGE

\* A command of one byte, or a byte the board does not know.
LEMMA BoardOne ==
  ASSUME BoardTakes, NEW c, c = Append(taken, Head(tx)), c[1] \in OneByte \cup Bit
  PROVE  taken' = <<>> /\ rx' = rx /\ memory' = memory /\ pins' = AfterOne(pins, c[1])
<1>1. \A b : b \in CMD_SETB4..(CMD_SETB4 + 63) \cup CMD_CLRB4..(CMD_CLRB4 + 63)
             => b \in ShortCommands
  BY DEF CMD_SETB4, CMD_CLRB4, ShortCommands
<1>2. \A b : b \in CMD_CLRB4..(CMD_CLRB4 + 63) => b \notin CMD_SETB4..(CMD_SETB4 + 63)
  BY DEF CMD_SETB4, CMD_CLRB4
<1>3. c[1] \in ShortCommands /\ DoShort(c[1])
        => rx' = rx /\ memory' = memory /\ pins' = AfterOne(pins, c[1])
  BY <1>2, Kinds DEF DoShort, AfterOne
<1>4. c[1] \notin ShortCommands => AfterOne(pins, c[1]) = pins
  BY <1>1 DEF AfterOne
<1> QED BY <1>3, <1>4, BoardCases, Kinds DEF Quiet

LEMMA BoardThree ==
  ASSUME BoardTakes, NEW c, c = Append(taken, Head(tx)), c[1] \in ThreeBytes
  PROVE  /\ rx' = rx /\ memory' = memory
         /\ IF Len(c) < 3 THEN taken' = c /\ pins' = pins
            ELSE taken' = <<>> /\ pins' = AfterThree(pins, c[1], c[2], c[3])
<1>1. \A rc : DoLong(c[1], c[2], c[3], rc)
                => rx' = rx /\ memory' = memory /\ pins' = AfterThree(pins, c[1], c[2], c[3])
  <2>1. /\ CMD_SETB_PORT # CMD_PUT_PORT /\ CMD_CLRB_PORT # CMD_PUT_PORT
        /\ CMD_CLRB_PORT # CMD_SETB_PORT
    BY DEF CMD_SETB_PORT, CMD_PUT_PORT, CMD_CLRB_PORT
  <2> QED BY <2>1, Kinds DEF DoLong, AfterThree
<1> QED BY <1>1, BoardCases, Kinds DEF Quiet

LEMMA BoardPort ==
  ASSUME BoardTakes, NEW c, c = Append(taken, Head(tx)), c[1] = CMD_GET_PORT
  PROVE  taken' = <<>> /\ rx' = rx \o <<Hi(pins), Lo(pins)>> /\ pins' = pins /\ memory' = memory
<1>1. \A n : n \in CMD_SETB4..(CMD_SETB4 + 63) \cup CMD_CLRB4..(CMD_CLRB4 + 63)
             => n \in CMD_SETB4..(CMD_CLRB4 + 63)
  BY DEF CMD_SETB4, CMD_CLRB4
<1>2. DoShort(c[1])
        => rx' = rx \o <<Hi(pins), Lo(pins)>> /\ pins' = pins /\ memory' = memory
  BY <1>1, Kinds DEF DoShort, Says, Quiet
<1> QED BY <1>2, BoardCases, Kinds

\* What a read of the memory answers.
Contents(c) == Flat([k \in 1..(c[3] % 8) |-> memory[At(c[2] + k - 1)]])

LEMMA BoardMemory ==
  ASSUME BoardTakes, NEW c, c = Append(taken, Head(tx)), c[1] \in {CMD_READ_MEM, CMD_WRITE_BYTE}
  PROVE  /\ pins' = pins
         /\ IF Len(c) < 3 THEN taken' = c /\ rx' = rx /\ memory' = memory
            ELSE /\ taken' = <<>>
                 /\ \E rc \in {RC_OK, RC_POLL_TIMEOUT} :
                      IF c[1] = CMD_WRITE_BYTE
                        THEN /\ rx' = rx \o <<rc>>
                             /\ memory' = [memory EXCEPT ![At(c[2])] =
                                  IF rc = RC_OK THEN [k \in 1..unit |-> c[3] % 2] ELSE @]
                        ELSE rx' = rx \o Append(Contents(c), rc) /\ memory' = memory
<1>1. CMD_READ_MEM # CMD_WRITE_BYTE /\ CMD_READ_MEM \notin ThreeBytes /\ CMD_WRITE_BYTE \notin ThreeBytes
  BY DEF CMD_READ_MEM, CMD_WRITE_BYTE, ThreeBytes, CMD_PUT_PORT, CMD_SETB_PORT, CMD_CLRB_PORT
<1>2. \A rc : DoLong(c[1], c[2], c[3], rc) =>
                /\ pins' = pins
                /\ IF c[1] = CMD_WRITE_BYTE
                     THEN /\ rx' = rx \o <<rc>>
                          /\ memory' = [memory EXCEPT ![At(c[2])] =
                               IF rc = RC_OK THEN [k \in 1..unit |-> c[3] % 2] ELSE @]
                     ELSE rx' = rx \o Append(Contents(c), rc) /\ memory' = memory
  BY <1>1 DEF DoLong, Says, ThreeBytes, Contents, Quiet
<1>3. \/ Len(c) < 3 /\ taken' = c /\ rx' = rx /\ pins' = pins /\ memory' = memory
      \/ /\ ~(Len(c) < 3) /\ taken' = <<>>
         /\ \E rc \in {RC_OK, RC_POLL_TIMEOUT} : DoLong(c[1], c[2], c[3], rc)
  BY BoardCases, Kinds DEF Quiet
<1> QED BY <1>2, <1>3

LEMMA BoardPage ==
  ASSUME BoardTakes, NEW c, c = Append(taken, Head(tx)), c[1] = CMD_WRITE_PAGE
  PROVE  \E rc \in {RC_OK, RC_POLL_TIMEOUT} : DoPage(c, rc)
BY BoardCases, Kinds

-----------------------------------------------------------------------------
(* Bytes *)

LEMMA FlatFacts ==
  ASSUME unit \in {1, 2}, NEW s \in Seq(Items)
  PROVE  /\ Flat(s) \in Seq(Bit) /\ Flat(s) \in Seq(Byte)
         /\ Len(Flat(s)) = unit * Len(s)
<1>1. Len(s) \in Nat /\ \A k \in 1..Len(s) : s[k] \in [1..unit -> Bit]
  BY DEF Items
<1>2. unit * Len(s) \in Nat
  BY <1>1
<1>3. ASSUME NEW j \in 1..(unit * Len(s))
      PROVE  s[(j - 1) \div unit + 1][((j - 1) % unit) + 1] \in Bit
  <2>1. (j - 1) \div unit + 1 \in 1..Len(s) /\ ((j - 1) % unit) + 1 \in 1..unit
    <3>1. CASE unit = 1
      BY <1>1, <3>1
    <3>2. CASE unit = 2
      BY <1>1, <3>2
    <3> QED BY <3>1, <3>2
  <2> QED BY ONLY <1>1, <2>1
<1>4. Flat(s) = [j \in 1..(unit * Len(s)) |-> s[(j - 1) \div unit + 1][((j - 1) % unit) + 1]]
  BY DEF Flat
<1>5. Flat(s) \in Seq(Bit) /\ Len(Flat(s)) = unit * Len(s)
  <2> DEFINE g(j) == s[(j - 1) \div unit + 1][((j - 1) % unit) + 1]
             n == unit * Len(s)
  <2>1. n \in Nat /\ (\A j \in 1..n : g(j) \in Bit) /\ Flat(s) = [j \in 1..n |-> g(j)]
    BY <1>2, <1>3, <1>4
  <2> HIDE DEF g, n
  <2>2. Flat(s) \in Seq(Bit) /\ Len(Flat(s)) = n
    BY ONLY <2>1
  <2> QED BY <2>2 DEF n
<1>6. Seq(Bit) \subseteq Seq(Byte)
  BY DEF Bit, Byte
<1> QED BY <1>5, <1>6

\* Where the bytes of a cell are.
LEMMA FlatCell ==
  ASSUME unit \in {1, 2}, NEW s \in Seq(Items), NEW m \in Nat, m < Len(s), NEW j \in 1..unit
  PROVE  unit * m + j \in 1..unit * Len(s) /\ Flat(s)[unit * m + j] = s[m + 1][j]
<1> DEFINE x == unit * m + j
<1>1. Len(s) \in Nat
  OBVIOUS
<1>2. x \in 1..unit * Len(s) /\ (x - 1) \div unit + 1 = m + 1 /\ ((x - 1) % unit) + 1 = j
  <2>1. CASE unit = 1
    BY <1>1, <2>1
  <2>2. CASE unit = 2
    <3>1. x = 2 * m + j /\ j \in {1, 2}
      BY <2>2
    <3>2. x \in 1..2 * Len(s)
      BY <1>1, <3>1
    <3>3. \A y \in {1, 2} : ((2 * m + y) - 1) \div 2 = m /\ ((2 * m + y) - 1) % 2 = y - 1
      OBVIOUS
    <3> HIDE DEF x
    <3> QED BY <2>2, <3>1, <3>2, <3>3
  <2> QED BY <2>1, <2>2
<1>3. Flat(s) = [y \in 1..(unit * Len(s)) |-> s[(y - 1) \div unit + 1][((y - 1) % unit) + 1]]
  BY DEF Flat
<1> HIDE DEF x
<1>4. Flat(s)[x] = s[(x - 1) \div unit + 1][((x - 1) % unit) + 1]
  BY ONLY <1>2, <1>3
<1> QED BY <1>2, <1>4 DEF x

\* The bytes of some cells of a page are bytes of the page.
LEMMA FlatPart ==
  ASSUME unit \in {1, 2}, NEW s \in Seq(Items), NEW k \in Nat, NEW n \in Nat, k + n <= Len(s)
  PROVE  /\ SubSeq(s, k + 1, k + n) \in Seq(Items) /\ Len(SubSeq(s, k + 1, k + n)) = n
         /\ \A j \in 1..unit * n : /\ unit * k + j \in 1..unit * Len(s)
                                   /\ Flat(SubSeq(s, k + 1, k + n))[j] = Flat(s)[unit * k + j]
<1> DEFINE t == SubSeq(s, k + 1, k + n)
<1>1. t \in Seq(Items) /\ Len(t) = n /\ \A l \in 1..n : t[l] = s[k + l]
  BY DEF Items
<1> HIDE DEF t
<1>2. ASSUME NEW j \in 1..unit * n
      PROVE  unit * k + j \in 1..unit * Len(s) /\ Flat(t)[j] = Flat(s)[unit * k + j]
  <2>1. \E m \in 0..n - 1, l \in 1..unit : j = unit * m + l
    <3>1. CASE unit = 1
      <4>1. j - 1 \in 0..n - 1 /\ j = 1 * (j - 1) + 1 /\ 1 \in 1..1
        BY <3>1
      <4> QED BY <3>1, <4>1
    <3>2. CASE unit = 2
      <4>1. /\ (j - 1) \div 2 \in 0..n - 1 /\ ((j - 1) % 2) + 1 \in 1..2
            /\ j = 2 * ((j - 1) \div 2) + (((j - 1) % 2) + 1)
        BY <3>2
      <4> QED BY <3>2, <4>1
    <3> QED BY <3>1, <3>2
  <2>2. PICK m \in 0..n - 1, l \in 1..unit : j = unit * m + l
    BY <2>1
  <2>3. m \in Nat /\ m < Len(t) /\ k + m \in Nat /\ k + m < Len(s) /\ m + 1 \in 1..n
    BY <1>1
  <2>4. Flat(t)[j] = t[m + 1][l]
    BY <1>1, <2>2, <2>3, FlatCell
  <2>5. /\ unit * (k + m) + l \in 1..unit * Len(s)
        /\ Flat(s)[unit * (k + m) + l] = s[(k + m) + 1][l]
    BY <2>3, FlatCell
  <2>6. unit * (k + m) + l = unit * k + j /\ (k + m) + 1 = k + (m + 1)
    <3>1. CASE unit = 1
      BY <2>2, <3>1
    <3>2. CASE unit = 2
      BY <2>2, <3>2
    <3> QED BY <3>1, <3>2
  <2>7. t[m + 1] = s[k + (m + 1)]
    BY <1>1, <2>3
  <2> QED BY <2>4, <2>5, <2>6, <2>7
<1> QED BY <1>1, <1>2 DEF t

\* Cells() makes cells again of their bytes.
LEMMA CellsOfFlat ==
  ASSUME unit \in {1, 2}, NEW s \in Seq(Items), NEW t \in Seq(Byte), Len(t) = unit * Len(s),
         \A j \in 1..Len(t) : t[j] = Flat(s)[j]
  PROVE  Cells(t) = s
<1>1. Len(s) \in Nat /\ Len(t) \div unit = Len(s)
  <2>1. Len(s) \in Nat
    OBVIOUS
  <2>2. CASE unit = 1
    BY <2>1, <2>2
  <2>3. CASE unit = 2
    BY <2>1, <2>3
  <2> QED BY <2>1, <2>2, <2>3
<1>2. ASSUME NEW j \in 1..Len(s)
      PROVE  SubSeq(t, (j - 1) * unit + 1, j * unit) = s[j]
  <2> DEFINE a == (j - 1) * unit
             d == SubSeq(t, (j - 1) * unit + 1, j * unit)
  <2>1. a \in Nat /\ j * unit = a + unit /\ a + unit <= Len(t) /\ a = unit * (j - 1)
    <3>1. CASE unit = 1
      BY <1>1, <3>1
    <3>2. CASE unit = 2
      BY <1>1, <3>2
    <3> QED BY <3>1, <3>2
  <2>2. d = SubSeq(t, a + 1, a + unit)
    BY <2>1
  <2> HIDE DEF a, d
  <2>3. d \in Seq(Byte) /\ Len(d) = unit /\ \A l \in 1..unit : d[l] = t[a + l]
    <3>1. unit \in Nat /\ Len(t) \in Nat /\ a + 1 <= a + unit /\ a + 1 \in Int /\ a + unit \in Int
          /\ (a + unit) - (a + 1) + 1 = unit /\ \A l \in 1..unit : (a + 1) + l - 1 = a + l
      BY <2>1
    <3>2. \A l \in (a + 1)..(a + unit) : t[l] \in Byte
      BY <2>1, <3>1
    <3> DEFINE e == SubSeq(t, a + 1, a + unit)
    <3>3. e \in Seq(Byte) /\ Len(e) = (a + unit) - (a + 1) + 1
          /\ \A l \in 1..(a + unit) - (a + 1) + 1 : e[l] = t[(a + 1) + l - 1]
      BY ONLY <3>1, <3>2, SubSeqProperties, SMTT(30)
    <3> HIDE DEF e
    <3>4. e \in Seq(Byte) /\ Len(e) = unit /\ \A l \in 1..unit : e[l] = t[a + l]
      BY ONLY <3>1, <3>3
    <3> QED BY <2>2, <3>4 DEF e
  <2>4. ASSUME NEW l \in 1..unit PROVE t[a + l] = s[j][l]
    <3>1. j - 1 \in Nat /\ j - 1 < Len(s) /\ (j - 1) + 1 = j
      BY <1>1
    <3>2. unit * (j - 1) + l \in 1..unit * Len(s) /\ Flat(s)[unit * (j - 1) + l] = s[(j - 1) + 1][l]
      BY <3>1, FlatCell
    <3> QED BY <2>1, <3>1, <3>2
  <2>5. s[j] \in [1..unit -> Bit]
    BY DEF Items
  <2>6. d = s[j]
    <3>1. d = [l \in 1..unit |-> d[l]]
      BY <2>3
    <3>2. s[j] = [l \in 1..unit |-> s[j][l]]
      BY <2>5
    <3> QED BY ONLY <2>3, <2>4, <3>1, <3>2
  <2> QED BY <2>6 DEF d
<1>3. Cells(t) = [j \in 1..Len(s) |-> SubSeq(t, (j - 1) * unit + 1, j * unit)]
  BY <1>1 DEF Cells
<1>4. Cells(t) = [j \in 1..Len(s) |-> s[j]]
  BY ONLY <1>2, <1>3
<1>5. s = [j \in 1..Len(s) |-> s[j]]
  OBVIOUS
<1> QED BY ONLY <1>4, <1>5

LEMMA AtIsAddr ==
  ASSUME NEW x \in Nat
  PROVE  At(x) \in Addr
BY SizesGiven DEF At, Addr

LEMMA SaysBytes ==
  ASSUME rx \in Seq(Byte), NEW b \in Seq(Byte), Says(b)
  PROVE  rx' \in Seq(Byte) /\ Len(rx') = Len(rx) + Len(b)
BY ConcatProperties DEF Says

LEMMA Codes ==
  /\ RC_OK \in Byte /\ RC_POLL_TIMEOUT \in Byte /\ RC_NEXT \in Byte /\ VERSION \in Byte
  /\ Room \in Byte /\ RC_OK # RC_NEXT /\ RC_POLL_TIMEOUT # RC_NEXT /\ RC_OK # RC_POLL_TIMEOUT
BY SizesGiven DEF RC_OK, RC_POLL_TIMEOUT, RC_NEXT, VERSION, Byte

LEMMA ShortTypes ==
  ASSUME TypeOK, NEW b \in Byte, DoShort(b)
  PROVE  rx' \in Seq(Byte) /\ pins' \in SUBSET Bits /\ memory' = memory
<1> USE DEF Quiet
<1>1. rx \in Seq(Byte) /\ pins \in SUBSET Bits
  BY DEF TypeOK
<1>2. /\ <<VERSION>> \in Seq(Byte) /\ <<Room>> \in Seq(Byte)
      /\ <<Hi(pins), Lo(pins)>> \in Seq(Byte)
  BY Codes, NumberIsByte DEF Hi, Lo
<1>3. CASE b = CMD_GET_VERSION /\ Says(<<VERSION>>) /\ Quiet
  BY <1>1, <1>2, <1>3, SaysBytes
<1>4. CASE b = CMD_GET_RECVBUFSIZE /\ Says(<<Room>>) /\ Quiet
  BY <1>1, <1>2, <1>4, SaysBytes
<1>5. CASE b = CMD_GET_PORT /\ Says(<<Hi(pins), Lo(pins)>>) /\ Quiet
  BY <1>1, <1>2, <1>5, SaysBytes
<1>6. CASE /\ b \in CMD_SETB4..(CMD_SETB4 + 63)
           /\ pins' = pins \cup Nibble((b - CMD_SETB4) \div 16, b) /\ UNCHANGED <<rx, memory>>
  <2>1. (b - CMD_SETB4) \div 16 \in 0..3 /\ b \in Nat
    BY <1>6 DEF CMD_SETB4, Byte
  <2> QED BY <1>1, <1>6, <2>1, NibbleIsBits
<1>7. CASE /\ b \in CMD_CLRB4..(CMD_CLRB4 + 63)
           /\ pins' = pins \ Nibble((b - CMD_CLRB4) \div 16, b) /\ UNCHANGED <<rx, memory>>
  BY <1>1, <1>7
<1> QED BY <1>3, <1>4, <1>5, <1>6, <1>7 DEF DoShort

\* The cells a read of the memory tells.
LEMMA ContentsFacts ==
  ASSUME TypeOK, unit \in {1, 2}, NEW c, c[2] \in Byte, c[3] \in Byte
  PROVE  Contents(c) \in Seq(Byte) /\ Len(Contents(c)) = unit * (c[3] % 8)
<1> DEFINE s == [k \in 1..(c[3] % 8) |-> memory[At(c[2] + k - 1)]]
<1>1. c[3] % 8 \in Nat
  BY DEF Byte
<1>2. ASSUME NEW k \in 1..(c[3] % 8) PROVE memory[At(c[2] + k - 1)] \in Items
  <2>1. c[2] + k - 1 \in Nat
    BY <1>1 DEF Byte
  <2> QED BY <2>1, AtIsAddr DEF TypeOK
<1>3. s \in Seq(Items) /\ Len(s) = c[3] % 8
  <2> DEFINE g(k) == memory[At(c[2] + k - 1)]
             n == c[3] % 8
  <2>1. n \in Nat /\ (\A k \in 1..n : g(k) \in Items) /\ s = [k \in 1..n |-> g(k)]
    BY <1>1, <1>2
  <2> HIDE DEF g, n, s
  <2>2. s \in Seq(Items) /\ Len(s) = n
    BY ONLY <2>1
  <2> QED BY <2>2 DEF n
<1>4. Contents(c) = Flat(s)
  BY DEF Contents
<1> HIDE DEF s
<1> QED BY <1>3, <1>4, FlatFacts

LEMMA LongTypes ==
  ASSUME TypeOK, unit \in {1, 2}, NEW c, c[2] \in Byte, c[3] \in Byte,
         NEW rc \in {RC_OK, RC_POLL_TIMEOUT}, DoLong(c[1], c[2], c[3], rc)
  PROVE  rx' \in Seq(Byte) /\ pins' \in SUBSET Bits /\ memory' \in [Addr -> Items]
<1>1. rx \in Seq(Byte) /\ pins \in SUBSET Bits /\ memory \in [Addr -> Items]
  BY DEF TypeOK
<1>2. rc \in Byte
  BY Codes
<1>3. Joined(c[2], c[3]) \subseteq Bits
  BY JoinedIsBits
<1>4. CASE /\ pins' \in {Joined(c[2], c[3]), pins \cup Joined(c[2], c[3]), pins \ Joined(c[2], c[3])}
           /\ UNCHANGED <<rx, memory>>
  BY <1>1, <1>3, <1>4
<1>5. CASE Says(Append(Contents(c), rc)) /\ Quiet
  <2>1. Append(Contents(c), rc) \in Seq(Byte)
    BY <1>2, ContentsFacts, AppendProperties
  <2> QED BY <1>1, <1>5, <2>1, SaysBytes DEF Quiet
<1>6. CASE /\ memory' = [memory EXCEPT ![At(c[2])] =
                           IF rc = RC_OK THEN [k \in 1..unit |-> c[3] % 2] ELSE @]
           /\ Says(<<rc>>) /\ UNCHANGED pins
  <2>1. [k \in 1..unit |-> c[3] % 2] \in Items
    BY DEF Items, Bit, Byte
  <2>2. memory' \in [Addr -> Items]
    BY <1>1, <1>6, <2>1
  <2>3. <<rc>> \in Seq(Byte)
    BY <1>2
  <2> QED BY <1>1, <1>6, <2>2, <2>3, SaysBytes
<1> QED BY <1>4, <1>5, <1>6 DEF DoLong, Contents

LEMMA PageTypes ==
  ASSUME TypeOK, unit \in {1, 2}, NEW c \in Seq(Byte),
         NEW rc \in {RC_OK, RC_POLL_TIMEOUT}, DoPage(c, rc)
  PROVE  /\ rx' \in Seq(Byte) /\ pins' \in SUBSET Bits /\ memory' \in [Addr -> Items]
         /\ taken' \in {c, <<>>}
<1>1. rx \in Seq(Byte) /\ pins \in SUBSET Bits /\ memory \in [Addr -> Items]
  BY DEF TypeOK
<1>2. /\ <<RC_OK>> \in Seq(Byte) /\ <<RC_NEXT>> \in Seq(Byte) /\ <<rc>> \in Seq(Byte)
  BY Codes
<1>3. CASE Len(c) <= 3 \/ (Len(c) - 3) % unit # 0
  BY <1>1, <1>3 DEF DoPage, Quiet
<1>4. CASE ~(Len(c) <= 3 \/ (Len(c) - 3) % unit # 0)
  <2> DEFINE k == (Len(c) - 3) \div unit
             cell == [j \in 1..unit |-> c[Len(c) - unit + j] % 2]
  <2>1. /\ pins' = pins
        /\ \/ memory' = [memory EXCEPT ![At(c[2] + k - 1)] = cell] \/ memory' = memory
        /\ taken' \in {c, <<>>}
        /\ Says(<<RC_OK>>) \/ Says(<<RC_NEXT>>) \/ Says(<<rc>>)
    BY <1>4 DEF DoPage
  <2>2. rx' \in Seq(Byte)
    BY <1>1, <1>2, <2>1, SaysBytes
  <2>3. cell \in Items
    <3>1. ASSUME NEW j \in 1..unit PROVE c[Len(c) - unit + j] % 2 \in Bit
      <4>1. Len(c) - unit + j \in 1..Len(c)
        <5>1. Len(c) \in Nat
          OBVIOUS
        <5>2. ~(Len(c) <= 3)
          BY <1>4
        <5>3. CASE unit = 1
          BY ONLY <5>1, <5>2, <5>3, j \in 1..unit
        <5>4. CASE unit = 2
          BY ONLY <5>1, <5>2, <5>4, j \in 1..unit
        <5> QED BY <5>3, <5>4
      <4>2. c[Len(c) - unit + j] \in Byte
        BY <4>1
      <4>3. \A x \in Byte : x % 2 \in Bit
        BY DEF Byte, Bit
      <4> QED BY ONLY <4>2, <4>3
    <3> QED BY <3>1 DEF Items
  <2>4. memory' \in [Addr -> Items]
    <3> HIDE DEF cell, k
    <3> QED BY <1>1, <2>1, <2>3
  <2> QED BY <1>1, <2>1, <2>2, <2>4
<1> QED BY <1>3, <1>4

LEMMA BoardTypes ==
  ASSUME TypeOK, unit \in {1, 2}, BoardTakes
  PROVE  /\ {tx', rx', taken'} \subseteq Seq(Byte)
         /\ pins' \in SUBSET Bits /\ memory' \in [Addr -> Items]
<1> DEFINE c == Append(taken, Head(tx))
<1>1. tx # <<>> /\ tx' = Tail(tx) /\ out' = out
  BY BoardSplits
<1>2. c \in Seq(Byte) /\ Len(c) \in Nat \ {0} /\ tx' \in Seq(Byte)
  <2>1. c \in Seq(Byte) /\ Len(c) = Len(taken) + 1 /\ tx' \in Seq(Byte)
    BY <1>1, BoardReads
  <2>2. Len(taken) \in Nat
    BY LineFacts
  <2> QED BY <2>1, <2>2
<1>3. rx \in Seq(Byte) /\ pins \in SUBSET Bits /\ memory \in [Addr -> Items]
  BY DEF TypeOK
<1>4. <<>> \in Seq(Byte) /\ c[1] \in Byte
  BY <1>2
<1>5. c = Append(taken, Head(tx))
  OBVIOUS
<1> HIDE DEF c
<1>6. CASE DoShort(c[1]) /\ taken' = <<>>
  BY <1>2, <1>3, <1>4, <1>6, ShortTypes
<1>7. CASE taken' = c /\ rx' = rx /\ Quiet
  BY <1>2, <1>3, <1>7 DEF Quiet
<1>8. CASE taken' = <<>> /\ rx' = rx /\ Quiet
  BY <1>2, <1>3, <1>4, <1>8 DEF Quiet
<1>9. ASSUME NEW rc \in {RC_OK, RC_POLL_TIMEOUT}, ~(Len(c) < 3), DoLong(c[1], c[2], c[3], rc),
             taken' = <<>>
      PROVE  /\ {tx', rx', taken'} \subseteq Seq(Byte)
             /\ pins' \in SUBSET Bits /\ memory' \in [Addr -> Items]
  <2>1. c[2] \in Byte /\ c[3] \in Byte
    BY <1>2, <1>9
  <2> QED BY <1>2, <1>4, <1>9, <2>1, LongTypes
<1>10. ASSUME NEW rc \in {RC_OK, RC_POLL_TIMEOUT}, DoPage(c, rc)
       PROVE  /\ {tx', rx', taken'} \subseteq Seq(Byte)
              /\ pins' \in SUBSET Bits /\ memory' \in [Addr -> Items]
  BY <1>2, <1>4, <1>10, PageTypes
<1>11. \/ DoShort(c[1]) /\ taken' = <<>>
       \/ taken' = c /\ rx' = rx /\ Quiet
       \/ taken' = <<>> /\ rx' = rx /\ Quiet
       \/ /\ ~(Len(c) < 3) /\ taken' = <<>>
          /\ \E rc \in {RC_OK, RC_POLL_TIMEOUT} : DoLong(c[1], c[2], c[3], rc)
       \/ \E rc \in {RC_OK, RC_POLL_TIMEOUT} : DoPage(c, rc)
  BY <1>5 DEF BoardTakes
<1> QED BY <1>6, <1>7, <1>8, <1>9, <1>10, <1>11

-----------------------------------------------------------------------------
(* The commands of the host *)

\* The bits of one half byte as a number, and back.
LEMMA HalfFacts ==
  ASSUME NEW v \in SUBSET Bits, Cardinality(Halves(v)) = 1
  PROVE  LET n == CHOOSE h \in Halves(v) : TRUE
             w == Number({b - 4 * n : b \in v})
         IN  n \in 0..3 /\ w \in 0..15 /\ {x + 4 * n : x \in BitsOf(w)} = v
<1> DEFINE n == CHOOSE h \in Halves(v) : TRUE
<1>1. IsFiniteSet(Halves(v))
  <2>1. IsFiniteSet(0..3)
    <3>1. 0 \in Int /\ 3 \in Int
      OBVIOUS
    <3> QED BY ONLY <3>1, FS_Interval
  <2>2. Halves(v) \subseteq 0..3
    BY DEF Halves
  <2> HIDE DEF Halves
  <2> QED BY ONLY <2>1, <2>2, FS_Subset
<1>2. PICK half : Halves(v) = {half}
  BY <1>1, FS_Singleton
<1>3. n = half /\ half \in 0..3
  BY <1>2 DEF Halves
<1> HIDE DEF n
<1>4. ASSUME NEW b \in v PROVE b - 4 * n \in 0..3 /\ (b - 4 * n) + 4 * n = b
  <2>1. b \in 0..15
    BY DEF Bits
  <2>2. PICK h \in 0..3 : b \in (4 * h)..(4 * h + 3)
    <3>1. b \div 4 \in 0..3 /\ b \in (4 * (b \div 4))..(4 * (b \div 4) + 3)
      BY <2>1
    <3> QED BY <3>1
  <2>3. h \in Halves(v)
    BY <2>2 DEF Halves
  <2>4. h = n
    BY <1>2, <1>3, <2>3
  <2> QED BY ONLY <2>1, <2>2, <2>4
<1> DEFINE T == {b - 4 * n : b \in v}
<1>5. T \subseteq 0..3
  BY <1>4
<1>6. {x + 4 * n : x \in T} = v
  <2>1. \A y \in v : \E x \in T : x + 4 * n = y
    BY <1>4
  <2>2. \A x \in T : x + 4 * n \in v
    BY <1>4
  <2> QED BY ONLY <2>1, <2>2
<1> HIDE DEF T
<1>7. Number(T) \in 0..15 /\ BitsOf(Number(T)) = T
  <2>1. T \subseteq 0..7
    BY <1>5
  <2> QED BY <1>5, <2>1, NumberOfFour, BitsFound
<1> QED BY <1>3, <1>6, <1>7 DEF n, T

\* The bytes t are a command without an answer that takes the pins from p to z.
Does(t, p, z) ==
  \/ Len(t) = 1 /\ t[1] \in OneByte /\ z = AfterOne(p, t[1])
  \/ Len(t) = 3 /\ t[1] \in ThreeBytes /\ z = AfterThree(p, t[1], t[2], t[3])

\* What cmdSetOut() and cmdClrOut() send does what they promise.
LEMMA HalfCommand ==
  ASSUME NEW v \in SUBSET Bits, NEW op \in {"set", "clr"}, NEW short, NEW long,
         \/ op = "set" /\ short = CMD_SETB4 /\ long = CMD_SETB_PORT
         \/ op = "clr" /\ short = CMD_CLRB4 /\ long = CMD_CLRB_PORT
  PROVE  /\ ByHalf(v, short, long) \in Seq(Byte)
         /\ \A p \in SUBSET Bits : Does(ByHalf(v, short, long), p, Effect(Call(op, 0, v), p))
<1>1. \A p : Effect(Call(op, 0, v), p) = IF op = "set" THEN p \cup v ELSE p \ v
  BY DEF Effect, Call
<1>2. CASE Cardinality(Halves(v)) = 1
  <2> DEFINE n == CHOOSE h \in Halves(v) : TRUE
             w == Number({b - 4 * n : b \in v})
             x == short + 16 * n + w
  <2>1. n \in 0..3 /\ w \in 0..15 /\ {y + 4 * n : y \in BitsOf(w)} = v
    BY <1>2, HalfFacts
  <2>2. ByHalf(v, short, long) = <<x>>
    BY <1>2 DEF ByHalf
  <2> HIDE DEF n, w
  <2>3. /\ x \in Byte /\ x \in OneByte /\ (x - short) \div 16 = n /\ x % 16 = w
        /\ op = "set" => x \in CMD_SETB4..(CMD_SETB4 + 63)
        /\ op = "clr" => x \in CMD_CLRB4..(CMD_CLRB4 + 63) /\ x \notin CMD_SETB4..(CMD_SETB4 + 63)
    <3>1. CASE short = 128
      BY <2>1, <3>1 DEF CMD_SETB4, CMD_CLRB4, Byte, OneByte
    <3>2. CASE short = 192
      BY <2>1, <3>2 DEF CMD_SETB4, CMD_CLRB4, Byte, OneByte
    <3> QED BY <3>1, <3>2 DEF CMD_SETB4, CMD_CLRB4
  <2> HIDE DEF x
  <2>4. Nibble((x - short) \div 16, x) = v
    BY <2>1, <2>3 DEF Nibble
  <2>5. \A p : AfterOne(p, x) = IF op = "set" THEN p \cup v ELSE p \ v
    BY <2>3, <2>4 DEF AfterOne
  <2>6. \A p : Does(<<x>>, p, AfterOne(p, x))
    BY <2>3 DEF Does
  <2>7. <<x>> \in Seq(Byte)
    BY <2>3
  <2> QED BY <1>1, <2>2, <2>5, <2>6, <2>7
<1>3. CASE Cardinality(Halves(v)) # 1
  <2> DEFINE t == <<long, Hi(v), Lo(v)>>
  <2>1. ByHalf(v, short, long) = t
    BY <1>3 DEF ByHalf
  <2>2. long \in Byte /\ long \in ThreeBytes
    BY DEF Byte, ThreeBytes, CMD_SETB_PORT, CMD_CLRB_PORT
  <2>3. Hi(v) \in Byte /\ Lo(v) \in Byte
    BY NumberIsByte DEF Hi, Lo
  <2>4. t \in Seq(Byte) /\ Len(t) = 3 /\ t[1] = long /\ t[2] = Hi(v) /\ t[3] = Lo(v)
    BY <2>2, <2>3
  <2>5. \A p : AfterThree(p, long, Hi(v), Lo(v)) = IF op = "set" THEN p \cup v ELSE p \ v
    BY JoinedAgain DEF AfterThree, CMD_PUT_PORT, CMD_SETB_PORT, CMD_CLRB_PORT
  <2> HIDE DEF t
  <2>6. \A p : Does(t, p, AfterThree(p, long, Hi(v), Lo(v)))
    BY <2>2, <2>4 DEF Does
  <2>7. \A p : Effect(Call(op, 0, v), p) = AfterThree(p, long, Hi(v), Lo(v))
    BY ONLY <1>1, <2>5
  <2>8. \A p : Does(t, p, Effect(Call(op, 0, v), p))
    BY ONLY <2>6, <2>7
  <2> QED BY <2>1, <2>4, <2>8
<1> QED BY <1>2, <1>3

-----------------------------------------------------------------------------
(* The line and the call *)

LEMMA Appends ==
  ASSUME TypeOK, out = <<>>, NEW b \in Seq(Byte), out' = b, tx' = tx, taken' = taken
  PROVE  Line' = Line \o b
<1>1. taken \in Seq(Byte) /\ tx \in Seq(Byte)
  BY DEF TypeOK
<1>2. taken \o tx \in Seq(Byte)
  BY <1>1, ConcatProperties
<1>3. (taken \o tx) \o <<>> = taken \o tx
  BY <1>2, ConcatEmptySeq
<1> QED BY <1>3 DEF Line

\* The same command elsewhere in the line.
LEMMA AskingMoves ==
  ASSUME NEW c, NEW n, c.op = "page" => n \in Nat,
         NEW s \in Seq(Byte), NEW q \in 0..Len(s), Asking(c, n, s, q),
         NEW t \in Seq(Byte), NEW p \in 0..Len(t), Len(t) - p = Len(s) - q,
         \A j \in 1..Len(t) - p : t[p + j] = s[q + j]
  PROVE  Asking(c, n, t, p)
<1>1. Len(s) \in Nat /\ Len(t) \in Nat
  OBVIOUS
<1>2. Len(s) = q + 1 => Len(t) = p + 1 /\ t[p + 1] = s[q + 1]
  BY <1>1
<1>3. \A k \in Nat : Len(s) = q + 3 + k
        => /\ Len(t) = p + 3 + k
           /\ t[p + 1] = s[q + 1] /\ t[p + 2] = s[q + 2] /\ t[p + 3] = s[q + 3]
           /\ \A j \in 1..k : t[p + 3 + j] = s[q + 3 + j]
  <2> SUFFICES ASSUME NEW k \in Nat, Len(s) = q + 3 + k
               PROVE  /\ Len(t) = p + 3 + k
                      /\ t[p + 1] = s[q + 1] /\ t[p + 2] = s[q + 2] /\ t[p + 3] = s[q + 3]
                      /\ \A j \in 1..k : t[p + 3 + j] = s[q + 3 + j]
    OBVIOUS
  <2>1. Len(t) = p + 3 + k /\ Len(t) - p = 3 + k
    BY <1>1
  <2>2. \A l \in 1..3 + k : t[p + l] = s[q + l]
    BY <2>1
  <2>3. ASSUME NEW j \in 1..k PROVE t[p + 3 + j] = s[q + 3 + j]
    <3>1. 3 + j \in 1..3 + k /\ p + 3 + j = p + (3 + j) /\ q + 3 + j = q + (3 + j)
      OBVIOUS
    <3> QED BY ONLY <2>2, <3>1, SMTT(30)
  <2>4. 1 \in 1..3 + k /\ 2 \in 1..3 + k /\ 3 \in 1..3 + k
    OBVIOUS
  <2> QED BY <2>1, <2>2, <2>3, <2>4
<1>4. Len(s) = q + 3 => /\ Len(t) = p + 3
                        /\ t[p + 1] = s[q + 1] /\ t[p + 2] = s[q + 2] /\ t[p + 3] = s[q + 3]
  <2>1. q + 3 + 0 = q + 3 /\ p + 3 + 0 = p + 3 /\ 0 \in Nat
    BY <1>1
  <2> QED BY ONLY <1>3, <2>1
<1>5. CASE c.op \in {"get", "read", "byte", "header"}
  BY <1>2, <1>4, <1>5 DEF Asking, Header
<1>6. CASE c.op = "page"
  <2>1. /\ n \in Nat /\ Len(s) = q + 3 + n /\ Header(c, s, q)
        /\ \A j \in 1..n : s[q + 3 + j] = Flat(c.val)[j]
    BY <1>6 DEF Asking
  <2>2. Len(t) = p + 3 + n /\ Header(c, t, p) /\ \A j \in 1..n : t[p + 3 + j] = Flat(c.val)[j]
    BY <1>3, <2>1 DEF Header
  <2> QED BY <1>6, <2>2 DEF Asking
<1> QED BY <1>5, <1>6 DEF Asking

\* The line stays quiet and asks for nothing.
LEMMA Unasked ==
  ASSUME InStep, ~lost, call.op \in {"none", "put", "set", "clr"}
  PROVE  /\ Silence /\ Leads(Line, Len(Line), pins, Effect(call, kpins)) /\ memory = kmemory
BY DEF InStep, NothingAsked, Asked, Request, Asking, Replied, Paging, PageOver

\* Then the command the board has begun is not that of a page.
LEMMA BegunShort ==
  ASSUME TypeOK, TakenOk, NEW q \in 1..Len(Line), NEW p, NEW r, Leads(Line, q, p, r)
  PROVE  Len(taken) < 3
<1>1. taken # <<>> => Line[1] = taken[1] /\ Len(taken) \in Nat \ {0}
  <2>1. taken # <<>> => Len(taken) \in Nat \ {0}
    BY DEF TypeOK
  <2> QED BY <2>1, LineFacts
<1>2. Line[1] \in OneByte \cup ThreeBytes
  BY LineFacts, FirstOf
<1>3. Line[1] # CMD_WRITE_PAGE
  BY <1>2, Kinds
<1>4. taken = <<>> => Len(taken) = 0
  BY DEF TypeOK
<1> QED BY <1>1, <1>3, <1>4 DEF TakenOk

\* A chunk is of some cells, and of no more than are left.
LEMMA ChunkFacts ==
  ASSUME TypeOK, unit \in {1, 2}, NEW k \in Nat, Len(call.val) \in Nat, k < Len(call.val)
  PROVE  /\ ChunkCells(k) \in Nat \ {0} /\ k + ChunkCells(k) <= Len(call.val)
         /\ BufSize \in Nat \ {0} /\ BufSize <= recvbufsize
         /\ BufSize % unit = 0 => unit * ChunkCells(k) <= BufSize
<1>1. recvbufsize \in Nat \ {0} /\ ChunkMax \in Nat \ {0}
  BY SizesGiven DEF TypeOK, Byte
<1>2. BufSize \in Nat \ {0} /\ BufSize <= recvbufsize
  BY <1>1 DEF BufSize, Least
<1>3. ChunkCells(k) = Least((BufSize + unit - 1) \div unit, Len(call.val) - k)
  BY DEF ChunkCells
<1> HIDE DEF BufSize, ChunkCells
<1>4. CASE unit = 1
  BY <1>2, <1>3, <1>4 DEF Least
<1>5. CASE unit = 2
  BY <1>2, <1>3, <1>5 DEF Least
<1> QED BY <1>2, <1>4, <1>5

\* The same bytes and the same line in the next state.
LEMMA SameFlat ==
  ASSUME unit' = unit
  PROVE  \A s : Flat(s)' = Flat(s)
BY DEF Flat

LEMMA AskedNow ==
  ASSUME unit' = unit, Silence', Len(taken') <= 3, memory' = kmemory',
         NEW q \in 0..Len(Line'), Leads(Line', q, pins', kpins'),
         NEW n, Asking(call', n, Line', q),
         call'.op = "page" => i' = 0 /\ n = unit * ChunkCells(0)'
  PROVE  Asked'
<1>1. Asking(call, unit * ChunkCells(0), Line, q)'
  BY SameFlat DEF Asking, Header
<1>2. Request(Line, q)'
  BY <1>1 DEF Request
<1> QED BY <1>2 DEF Asked

-----------------------------------------------------------------------------
(* The host's steps *)

\* What a command sends: nothing that is answered, or what asks for the call.
Sends(c, b) ==
  \/ c.op \in {"put", "set", "clr"} /\ \A p \in SUBSET Bits : Does(b, p, Effect(c, p))
  \/ c.op \in {"get", "read", "byte", "header"} /\ Asking(c, 0, b, 0)

LEMMA Entered ==
  ASSUME GpioInv, NEW c, Callable(c), NEW b \in Seq(Byte), Sends(c, b), Enter(c, b)
  PROVE  GpioInv'
<1>1. /\ pc = "idle" /\ fd \in {"open", "hung"} /\ ~lost /\ pc' = "write" /\ out' = b /\ got' = <<>>
      /\ call' = c /\ i' = 0
      /\ UNCHANGED <<tx, rx, need, fd, unit, pins, memory, taken, recvbufsize, lost, kpins, kmemory>>
  BY DEF Enter, Send, boardVars, Known
<1>2. TypeOK /\ InStep /\ Placed /\ Outside /\ TakenOk /\ KnownTyped /\ unit \in {1, 2}
  BY DEF GpioInv
<1>3. call.op = "none" /\ out = <<>> /\ got = <<>>
  BY <1>1, <1>2 DEF Placed
<1>4. c.op \in {"put", "set", "clr", "get", "read", "byte", "header"}
  BY DEF Sends
<1>5. TypeOK'
  <2>1. /\ fd \in {"closed", "open", "hung", "failed"} /\ {tx, rx, taken} \subseteq Seq(Byte)
        /\ recvbufsize \in Byte \ {0} /\ pins \in SUBSET Bits /\ memory \in [Addr -> Items]
        /\ lost \in BOOLEAN
    BY <1>2 DEF TypeOK
  <2>2. <<>> \in Seq(Byte) /\ 0 \in 0..Size
    BY SizesGiven
  <2>3. Items' = Items
    BY <1>1 DEF Items
  <2> QED BY <1>1, <2>1, <2>2, <2>3 DEF TypeOK
<1>6. CallTyped'
  <2>1. Items' = Items
    BY <1>1 DEF Items
  <2> HIDE DEF Items
  <2> QED BY <1>1, <1>4, <2>1 DEF CallTyped, Callable
<1>7. Placed'
  BY <1>1, <1>3, <1>4 DEF Placed
<1>8. Outside' /\ TakenOk' /\ KnownTyped'
  <2>1. Items' = Items
    BY <1>1 DEF Items
  <2> QED BY <1>1, <1>2, <1>4, <2>1 DEF Outside, TakenOk, KnownTyped
<1>9. InStep'
  <2>1. Silence /\ Leads(Line, Len(Line), pins, kpins) /\ memory = kmemory
    <3>1. Effect(call, kpins) = kpins
      BY <1>3 DEF Effect
    <3> QED BY <1>1, <1>2, <1>3, <3>1, Unasked
  <2>2. Line' = Line \o b
    BY <1>1, <1>2, <1>3, Appends
  <2>3. Silence'
    BY <1>1, <2>1 DEF Silence
  <2>4. /\ Line \in Seq(Byte) /\ Len(Line) \in Nat /\ Line' \in Seq(Byte)
        /\ Len(Line') = Len(Line) + Len(b)
        /\ \A j \in 1..Len(Line) : Line'[j] = Line[j]
        /\ \A j \in 1..Len(b) : Line'[Len(Line) + j] = b[j]
    BY <1>2, <2>2, LineFacts, Joins
  <2>5. CASE c.op \in {"put", "set", "clr"}
    <3>1. Does(b, kpins, Effect(c, kpins))
      BY <1>2, <2>5 DEF Sends, KnownTyped
    <3>2. Leads(Line \o b, Len(Line \o b), pins, Effect(c, kpins))
      <4> DEFINE z == Effect(c, kpins)
      <4>1. \/ Len(b) = 1 /\ b[1] \in OneByte /\ z = AfterOne(kpins, b[1])
            \/ Len(b) = 3 /\ b[1] \in ThreeBytes /\ z = AfterThree(kpins, b[1], b[2], b[3])
        BY <3>1 DEF Does
      <4> HIDE DEF z
      <4>2. Leads(Line \o b, Len(Line \o b), pins, z)
        BY <2>1, <2>4, <4>1, Lengthened
      <4> QED BY <4>2 DEF z
    <3>3. Leads(Line', Len(Line'), pins', Effect(call, kpins)')
      <4>1. Effect(call, kpins)' = Effect(c, kpins)
        BY <1>1 DEF Effect
      <4> QED BY <1>1, <2>2, <3>2, <4>1
    <3> QED BY <1>1, <2>1, <2>3, <2>5, <3>3 DEF InStep, NothingAsked
  <2>6. CASE c.op \in {"get", "read", "byte", "header"}
    <3>1. Leads(Line', Len(Line), pins', kpins')
      BY <1>1, <2>1, <2>4, SamePrefix
    <3>2. Asking(c, 0, Line', Len(Line))
      <4>1. Asking(c, 0, b, 0)
        BY <2>6 DEF Sends
      <4>2. /\ Len(b) \in Nat /\ 0 \in 0..Len(b) /\ Len(Line) \in 0..Len(Line')
            /\ Len(Line') - Len(Line) = Len(b) - 0
            /\ \A j \in 1..Len(Line') - Len(Line) : Line'[Len(Line) + j] = b[0 + j]
        <5> DEFINE m == Len(Line)
                   l == Len(Line')
                   t == Line'
        <5>1. /\ Len(b) \in Nat /\ m \in Nat /\ l = m + Len(b)
              /\ \A j \in 1..Len(b) : t[m + j] = b[j]
          BY <2>4
        <5> HIDE DEF m, l, t
        <5>2. /\ Len(b) \in Nat /\ 0 \in 0..Len(b) /\ m \in 0..l /\ l - m = Len(b) - 0
              /\ \A j \in 1..l - m : t[m + j] = b[0 + j]
          BY ONLY <5>1
        <5> QED BY <5>2 DEF m, l, t
      <4> QED BY <2>4, <4>1, <4>2, AskingMoves
    <3>3. Len(Line) \in 0..Len(Line')
      BY <2>4
    <3>4. Asking(call', 0, Line', Len(Line))
      BY <1>1, <3>2
    <3>5. Len(taken) <= 3
      <4>1. CASE taken = <<>>
        BY <4>1
      <4>2. CASE taken # <<>>
        <5>1. Len(Line) >= 1
          BY <1>2, <4>2, LineFacts DEF TypeOK
        <5>2. Len(taken) < 3
          BY <1>2, <2>1, <2>4, <5>1, BegunShort
        <5> QED BY <1>2, <5>2, LineFacts
      <4> QED BY <4>1, <4>2
    <3>6. Len(taken') <= 3
      BY <1>1, <3>5
    <3>7. call'.op # "page"
      BY <1>1, <2>6
    <3>8. memory' = kmemory' /\ unit' = unit
      BY <1>1, <2>1
    <3>9. Asked'
      BY <2>3, <3>1, <3>3, <3>4, <3>6, <3>7, <3>8, AskedNow
    <3> QED BY <3>9 DEF InStep
  <2> QED BY <1>4, <2>5, <2>6
<1> QED BY <1>1, <1>2, <1>5, <1>6, <1>7, <1>8, <1>9 DEF GpioInv

LEMMA BoardRests ==
  ASSUME GpioInv, UNCHANGED boardVars
  PROVE  /\ unit' = unit /\ taken' = taken /\ Items' = Items /\ unit' \in {1, 2}
         /\ pins' \in SUBSET Bits /\ memory' \in [Addr -> Items'] /\ taken' \in Seq(Byte)
         /\ TakenOk'
BY DEF GpioInv, TypeOK, boardVars, Items, TakenOk

\* A call is over, or there was none.
LEMMA Idles ==
  ASSUME GpioInv, UNCHANGED boardVars,
         pc' = "idle", got' = <<>>, out' = <<>>, i' = 0,
         call' = NoCall \/ (call' = call /\ call.op = "none"),
         tx' \in Seq(Byte), rx' \in Seq(Byte), fd' \in {"closed", "open", "hung", "failed"},
         recvbufsize' \in Byte \ {0}, lost' \in BOOLEAN, fd' \notin {"open", "hung"} => lost', KnownTyped',
         ~lost' => /\ recvbufsize' \in {1, Room} /\ Silence'
                   /\ Leads(Line', Len(Line'), pins', kpins') /\ memory' = kmemory'
  PROVE  GpioInv'
<1>1. call' = NoCall /\ call'.op = "none" /\ Shaped(call')
  BY DEF NoCall, Call, Ops, Shaped, GpioInv, CallTyped, Callable
<1>2. TypeOK'
  <2>1. <<>> \in Seq(Byte) /\ 0 \in 0..Size
    BY SizesGiven
  <2> QED BY <2>1, BoardRests DEF TypeOK
<1>3. CallTyped' /\ Placed' /\ Outside'
  BY <1>1 DEF CallTyped, Callable, Placed, Outside
<1>4. InStep'
  <2>1. Effect(call, kpins)' = kpins'
    BY <1>1 DEF Effect
  <2> QED BY <1>1, <2>1 DEF InStep, NothingAsked
<1> QED BY <1>2, <1>3, <1>4, BoardRests DEF GpioInv

\* open() sends its next command.
LEMMA Opens ==
  ASSUME GpioInv, UNCHANGED boardVars,
         pc' = "write", got' = <<>>, out' \in Seq(Byte), i' = 0, fd' \in {"open", "hung"},
         call'.op \in {"version", "size", "clear"}, Shaped(call'),
         tx' \in Seq(Byte), rx' \in Seq(Byte), recvbufsize' \in Byte \ {0}, lost' = TRUE,
         UNCHANGED Known
  PROVE  GpioInv'
<1>1. TypeOK'
  <2>1. <<>> \in Seq(Byte) /\ 0 \in 0..Size
    BY SizesGiven
  <2> QED BY <2>1, BoardRests DEF TypeOK
<1>2. CallTyped' /\ Placed' /\ Outside'
  BY DEF CallTyped, Callable, Placed, Outside
<1>3. InStep'
  BY DEF InStep
<1>4. KnownTyped'
  BY BoardRests DEF GpioInv, KnownTyped, Known
<1> QED BY <1>1, <1>2, <1>3, <1>4, BoardRests DEF GpioInv

LEMMA OpenSteps ==
  ASSUME GpioInv, OpenLine \/ Versioned \/ Sized \/ SizeFails
  PROVE  GpioInv'
<1>1. /\ tx \in Seq(Byte) /\ rx \in Seq(Byte) /\ got \in Seq(Byte)
      /\ recvbufsize \in Byte \ {0}
  BY DEF GpioInv, TypeOK
<1>2. /\ Shaped(call)
      /\ call.op \in {"version", "size"} => i = 0 /\ lost = TRUE
      /\ fd = "closed" => lost = TRUE
      /\ pc # "idle" => fd \in {"open", "hung"}
  BY DEF GpioInv, CallTyped, Callable, Outside, Placed, TypeOK
<1>3. \A x \in {CMD_GET_VERSION, CMD_GET_RECVBUFSIZE, CMD_CLR_ERROR_FLAGS} : <<x>> \in Seq(Byte)
  BY DEF CMD_GET_VERSION, CMD_GET_RECVBUFSIZE, CMD_CLR_ERROR_FLAGS, Byte
<1>4. \A x \in {"size", "clear"} : Shaped([call EXCEPT !.op = x])
                                   /\ [call EXCEPT !.op = x].op = x
  BY <1>2 DEF Ops, Shaped
<1>5. CASE OpenLine
  <2>1. PICK j \in 0..Len(tx), k \in 0..Len(rx) : tx' = SubSeq(tx, 1, j) /\ rx' = From(rx, k)
    BY <1>5 DEF OpenLine, Flush
  <2>2. tx' \in Seq(Byte) /\ rx' \in Seq(Byte)
    BY <1>1, <2>1, PartFacts
  <2>3. /\ pc' = "write" /\ out' = <<CMD_GET_VERSION>> /\ got' = got /\ fd' = "open" /\ i' = 0
        /\ call' = Call("version", 0, <<>>) /\ pc = "idle" /\ fd = "closed"
        /\ UNCHANGED <<boardVars, recvbufsize, lost, Known>>
    BY <1>5 DEF OpenLine, Known
  <2>4. got = <<>> /\ lost = TRUE
    BY <1>2, <2>3 DEF GpioInv, Placed
  <2>5. Shaped(call') /\ call'.op = "version"
    BY <2>3 DEF Call, Ops, Shaped
  <2> QED BY <1>1, <1>3, <2>2, <2>3, <2>4, <2>5, Opens
<1>6. CASE Versioned
  <2>1. /\ pc' = "write" /\ out' = <<CMD_GET_RECVBUFSIZE>> /\ got' = <<>> /\ fd' = fd /\ i' = i
        /\ call' = [call EXCEPT !.op = "size"] /\ pc # "idle" /\ call.op = "version"
        /\ UNCHANGED <<boardVars, recvbufsize, lost, tx, rx, Known>>
    BY <1>6 DEF Versioned, Received, Send
  <2> QED BY <1>1, <1>2, <1>3, <1>4, <2>1, Opens
<1>7. CASE Sized
  <2>1. /\ pc' = "write" /\ out' = <<CMD_CLR_ERROR_FLAGS>> /\ got' = <<>> /\ fd' = fd /\ i' = i
        /\ call' = [call EXCEPT !.op = "clear"] /\ pc = "read" /\ need = 0 /\ call.op = "size"
        /\ recvbufsize' = Greatest(got[1], 1)
        /\ UNCHANGED <<boardVars, lost, tx, rx, Known>>
    BY <1>7 DEF Sized, Received, Send
  <2>2. Len(got) = 1
    BY <1>1, <2>1 DEF GpioInv, Placed, Expected
  <2>3. got[1] \in Byte
    <3>1. got \in Seq(Byte) /\ 1 \in 1..Len(got)
      BY <1>1, <2>2
    <3> QED BY ONLY <3>1
  <2>4. recvbufsize' \in Byte \ {0}
    BY <2>1, <2>3 DEF Greatest, Byte
  <2> QED BY <1>1, <1>2, <1>3, <1>4, <2>1, <2>4, Opens
<1>8. CASE SizeFails
  <2>1. /\ pc' = "write" /\ out' = <<CMD_CLR_ERROR_FLAGS>> /\ got' = <<>> /\ fd' = fd /\ i' = i
        /\ call' = [call EXCEPT !.op = "clear"] /\ pc # "idle" /\ call.op = "size"
        /\ recvbufsize' = 1
        /\ UNCHANGED <<boardVars, lost, tx, rx, Known>>
    BY <1>8 DEF SizeFails, Throws, TurnMayThrow
  <2>2. 1 \in Byte \ {0}
    BY DEF Byte
  <2> QED BY <1>1, <1>2, <1>3, <1>4, <2>1, <2>2, Opens
<1> QED BY <1>5, <1>6, <1>7, <1>8

-----------------------------------------------------------------------------
(* The end of a call *)

\* When all that a read() waited for is in, and no more chunk is to come, the
\* board has said what it had to say, and this is what it did.
Told ==
  /\ Line = <<>> /\ rx = <<>> /\ Len(got) > 0 /\ pins = kpins
  /\ call.op = "get" => got = <<Hi(kpins), Lo(kpins)>>
  /\ call.op = "read" => /\ Len(got) = unit * Len(call.val) + 1
                         /\ \A j \in 1..Len(got) - 1 : got[j] = Flat(CellsRead)[j]
  /\ call.op \in {"get", "read"} => memory = kmemory
  /\ call.op \in {"byte", "page"} =>
       IF got[Len(got)] = RC_OK THEN memory = Written
       ELSE \E m \in 0..(Len(call.val) - 1) : memory = FirstWritten(m)

LEMMA NoneWritten ==
  ASSUME CallTyped, KnownTyped, call.op \in {"byte", "header", "page"}
  PROVE  FirstWritten(0) = kmemory
<1>1. call.at \in Nat /\ call.at..(call.at + 0 - 1) = {} /\ kmemory \in [Addr -> Items]
  BY DEF CallTyped, Callable, KnownTyped, Addr
<1>2. FirstWritten(0) = [a \in Addr |-> kmemory[a]]
  BY <1>1 DEF FirstWritten
<1> QED BY <1>1, <1>2

LEMMA Finished ==
  ASSUME GpioInv, ~lost, Received, call.op \in {"get", "read", "byte", "page"},
         call.op = "page" => LastChunk
  PROVE  Told
<1>1. TypeOK /\ InStep /\ unit \in {1, 2} /\ pc = "read" /\ need = 0
  BY DEF GpioInv, Received
<1>2. /\ Len(got) = IF call.op = "page" THEN ChunkCells(i) ELSE Expected
      /\ Len(got) \in Nat /\ Len(rx) \in Nat /\ Len(taken) \in Nat /\ Len(tx) \in Nat /\ Len(out) \in Nat
      /\ Len(Heard) = Len(got) + Len(rx) /\ Len(Line) = Len(taken) + Len(tx) + Len(out)
  BY <1>1, LineFacts DEF GpioInv, Placed
<1>3. call.op = "page" => /\ i \in Nat /\ Len(call.val) \in Nat /\ i < Len(call.val)
                          /\ ChunkCells(i) \in Nat \ {0}
  <2>1. call.op = "page" => i \in Nat /\ Len(call.val) \in Nat /\ i < Len(call.val)
    BY <1>1 DEF GpioInv, CallTyped, Callable, TypeOK
  <2> QED BY <1>1, <2>1, ChunkFacts
<1>4. Len(got) > 0
  <2>1. CASE call.op = "page"
    BY <1>2, <1>3, <2>1
  <2>2. CASE call.op \in {"get", "byte"}
    BY <1>2, <2>2 DEF Expected
  <2>3. CASE call.op = "read"
    <3>1. Len(call.val) \in 1..2
      BY <2>3 DEF GpioInv, CallTyped, Callable
    <3> QED BY <1>1, <1>2, <2>3, <3>1 DEF Expected
  <2> QED BY <2>1, <2>2, <2>3
<1>5. ~NothingAsked /\ ~Asked
  BY <1>4 DEF NothingAsked, Asked, Silence
<1>6. \A s \in {rx, Line} : Len(s) = 0 => s = <<>>
  BY <1>1, LineFacts DEF TypeOK
<1>7. ASSUME Len(rx) = 0 PROVE Heard = got
  <2>1. rx = <<>> /\ got \in Seq(Byte)
    BY <1>1, <1>6, <1>7 DEF TypeOK
  <2> QED BY <2>1, ConcatEmptySeq DEF Heard
<1>8. CASE Replied
  <2>1. /\ call.op \in {"get", "read", "byte"} /\ taken = <<>> /\ tx = <<>> /\ out = <<>>
        /\ Len(Heard) = Expected /\ pins = kpins
        /\ call.op = "get" => Heard = <<Hi(kpins), Lo(kpins)>>
        /\ call.op = "read" => \A j \in 1..Len(Heard) - 1 : Heard[j] = Flat(CellsRead)[j]
        /\ memory = IF call.op = "byte" /\ Heard[1] = RC_OK THEN Written ELSE kmemory
    BY <1>8 DEF Replied
  <2>2. Len(got) = Len(Heard)
    BY <1>2, <2>1
  <2>3. Len(rx) = 0
    BY ONLY <1>2, <2>2
  <2>4. Heard = got
    BY <1>7, <2>3
  <2>5. call.op = "read" => Len(got) = unit * Len(call.val) + 1
    BY <2>1, <2>2 DEF Expected
  <2>6. call.op = "byte" => Len(got) = 1
    BY <2>1, <2>2 DEF Expected
  <2>7. Line = <<>> /\ rx = <<>>
    BY <1>2, <1>6, <2>1, <2>3
  <2>8. call.op = "byte" => kmemory = FirstWritten(0) /\ 0 \in 0..(Len(call.val) - 1)
    BY NoneWritten DEF GpioInv, CallTyped, Callable
  <2> QED BY <1>4, <2>1, <2>4, <2>5, <2>6, <2>7, <2>8 DEF Told
<1>9. CASE Paging
  <2>1. PICK m \in 0..Size, r \in 0..1 : InPage(m, r)
    BY <1>9 DEF Paging
  <2>2. call.op = "page" /\ i + ChunkCells(i) = Len(call.val)
    BY <1>9 DEF Paging, LastChunk
  <2>3. /\ Len(taken) = 3 + unit * m + r /\ i <= m /\ m < Len(call.val)
        /\ Len(Heard) = m - i /\ m \in Nat
    BY <2>1 DEF InPage
  <2>4. FALSE
    <3> DEFINE n == Len(call.val)
               k == ChunkCells(i)
    <3>1. i + k = n /\ m < n /\ Len(got) = k /\ Len(got) + Len(rx) = m - i
      BY <1>2, <2>2, <2>3
    <3>2. i \in Nat /\ n \in Nat /\ k \in Nat /\ m \in Nat /\ Len(rx) \in Nat
      BY <1>2, <1>3, <2>2, <2>3
    <3> HIDE DEF n, k
    <3> QED BY ONLY <3>1, <3>2
  <2> QED BY <2>4
<1>10. CASE PageOver
  <2> DEFINE k == ChunkCells(i)
  <2>1. /\ call.op = "page" /\ taken = <<>> /\ Len(taken) = 0
        /\ Len(tx) + Len(out) <= unit * (k - Len(Heard))
    BY <1>10 DEF PageOver
  <2>2. Len(got) = k /\ k \in Nat
    BY <1>2, <1>3, <2>1
  <2> HIDE DEF k
  <2>3. Len(tx) = 0 /\ Len(out) = 0 /\ Len(rx) = 0
    <3>1. Len(tx) + Len(out) <= unit * (0 - Len(rx))
      BY <1>2, <2>1, <2>2
    <3>2. CASE unit = 1
      BY ONLY <1>2, <3>1, <3>2
    <3>3. CASE unit = 2
      BY ONLY <1>2, <3>1, <3>3
    <3> QED BY <1>1, <3>2, <3>3
  <2>4. Heard = got
    BY <1>7, <2>3
  <2>5. /\ pins = kpins
        /\ IF got[Len(got)] = RC_OK THEN memory = Written
           ELSE \E m \in 0..(Len(call.val) - 1) : memory = FirstWritten(m)
    BY <1>10, <2>4 DEF PageOver
  <2>6. Line = <<>> /\ rx = <<>>
    BY <1>2, <1>6, <2>1, <2>3
  <2> QED BY <1>4, <2>1, <2>5, <2>6 DEF Told
<1> QED BY <1>1, <1>5, <1>8, <1>9, <1>10 DEF InStep

LEMMA WrittenTyped ==
  ASSUME CallTyped, KnownTyped, call.op \in {"byte", "header", "page"}
  PROVE  /\ Written \in [Addr -> Items]
         /\ \A m \in 0..Len(call.val) : FirstWritten(m) \in [Addr -> Items]
<1>1. /\ call.val \in Seq(Items) /\ call.at \in Nat /\ kmemory \in [Addr -> Items]
      /\ \A a \in Addr : a \in Nat
  BY DEF CallTyped, Callable, KnownTyped, Addr
<1> DEFINE d == call.at
           v == call.val
<1> HIDE DEF d, v
<1>2. \A m \in 0..Len(v) : \A a \in Addr : a \in d..(d + m - 1) => v[a - d + 1] \in Items
  BY <1>1 DEF d, v
<1>3. \A m \in 0..Len(v) : \A a \in Addr :
        (IF a \in d..(d + m - 1) THEN v[a - d + 1] ELSE kmemory[a]) \in Items
  BY <1>1, <1>2
<1>4. Len(v) \in 0..Len(v)
  BY <1>1 DEF v
<1> QED BY <1>3, <1>4 DEF Written, FirstWritten, d, v

LEMMA ReturnSteps ==
  ASSUME GpioInv, PutSent \/ Answered \/ BoardError
  PROVE  GpioInv'
<1>1. /\ tx \in Seq(Byte) /\ rx \in Seq(Byte) /\ recvbufsize \in Byte \ {0} /\ lost \in BOOLEAN
      /\ TypeOK /\ InStep /\ Outside /\ Placed
  BY DEF GpioInv, TypeOK
<1>2. /\ pc' = "idle" /\ got' = <<>> /\ i' = 0 /\ call' = NoCall /\ pc # "idle"
      /\ UNCHANGED boardVars /\ UNCHANGED <<fd, tx, rx, out, recvbufsize, lost>>
  BY DEF PutSent, Answered, BoardError, Return, Sent, Received
<1>3. out = <<>> /\ fd \in {"open", "hung"}
  BY <1>1, <1>2 DEF Placed, PutSent, Answered, BoardError, Sent, Received
<1>4. taken' = taken
  BY <1>2 DEF boardVars
<1>5. KnownTyped /\ KnownTyped'
  <2>1. KnownTyped /\ CallTyped /\ Items' = Items /\ memory \in [Addr -> Items] /\ unit \in 1..2
    BY <1>2, BoardRests DEF GpioInv, TypeOK
  <2>2. CASE PutSent
    <3>1. call.op \in {"put", "set", "clr"} /\ kpins' = Effect(call, kpins) /\ kmemory' = kmemory
      BY <2>2 DEF PutSent, Effect
    <3>2. call.val \in SUBSET Bits
      BY <2>1, <3>1, GpioAssumption DEF CallTyped, Callable
    <3> QED BY <2>1, <3>1, <3>2 DEF KnownTyped, Effect
  <2>3. CASE Answered \/ BoardError
    <3>1. kpins' = kpins /\ \/ kmemory' \in {kmemory, memory}
                            \/ kmemory' = Written /\ call.op \in {"byte", "page"}
      BY <2>3 DEF Answered, BoardError
    <3>2. call.op \in {"byte", "page"} => Written \in [Addr -> Items]
      BY <2>1, WrittenTyped
    <3> QED BY <2>1, <3>1, <3>2 DEF KnownTyped
  <2> QED BY <2>1, <2>2, <2>3
<1>6. ASSUME ~lost
      PROVE  rx = <<>> /\ Leads(Line', Len(Line'), pins', kpins') /\ memory' = kmemory'
  <2>1. Line' = Line /\ pins' = pins /\ memory' = memory
    BY <1>2, <1>4 DEF Line, boardVars
  <2>2. CASE PutSent
    <3>1. call.op \in {"put", "set", "clr"} /\ kpins' = Effect(call, kpins) /\ kmemory' = kmemory
      BY <2>2 DEF PutSent, Effect
    <3> QED BY <1>1, <1>6, <2>1, <3>1, Unasked DEF Silence
  <2>3. CASE Answered \/ BoardError
    <3>1. /\ Received /\ call.op \in {"get", "read", "byte", "page"}
          /\ call.op = "page" => LastChunk
          /\ kpins' = kpins
      BY <2>3 DEF Answered, BoardError
    <3>2. Told
      BY <1>6, <3>1, Finished
    <3>3. Leads(Line', Len(Line'), pins', kpins')
      <4>1. Line' = <<>> /\ Len(<<>>) = 0 /\ pins' = kpins' /\ kpins' \in SUBSET Bits
        BY <1>5, <2>1, <3>1, <3>2 DEF Told, KnownTyped
      <4> QED BY <4>1, NothingLeft
    <3>4. CASE BoardError
      BY <2>1, <3>2, <3>3, <3>4 DEF BoardError, Told
    <3>5. CASE Answered
      <4>1. call.op = "byte" => Len(got) = 1
        BY <1>1, <3>1 DEF Received, Placed, Expected
      <4>2. call.op \in {"byte", "page"} => got[Len(got)] = RC_OK /\ kmemory' = Written
        BY <3>5, <4>1 DEF Answered, Last
      <4>3. call.op \in {"get", "read"} => kmemory' = kmemory
        BY <3>5 DEF Answered
      <4> QED BY <2>1, <3>1, <3>2, <3>3, <4>2, <4>3 DEF Told
    <3> QED BY <2>3, <3>4, <3>5
  <2> QED BY <2>2, <2>3
<1>7. ~lost' => /\ Silence' /\ recvbufsize' \in {1, Room}
                /\ Leads(Line', Len(Line'), pins', kpins') /\ memory' = kmemory'
  BY <1>1, <1>2, <1>6 DEF Silence, Outside
<1> QED BY <1>1, <1>2, <1>3, <1>7, <1>5, Idles

LEMMA LosingSteps ==
  ASSUME GpioInv, NotNext \/ NoVersion \/ CallFails \/ VersionFails \/ Close \/ OpenFails
  PROVE  GpioInv'
<1>1. /\ tx \in Seq(Byte) /\ rx \in Seq(Byte) /\ recvbufsize \in Byte \ {0} /\ lost \in BOOLEAN
      /\ TypeOK /\ Outside /\ Placed /\ CallTyped
  BY DEF GpioInv, TypeOK
<1>2. UNCHANGED boardVars /\ UNCHANGED recvbufsize
  BY DEF NotNext, NoVersion, CallFails, VersionFails, Close, OpenFails
<1>3. /\ pc' = "idle" /\ got' = <<>> /\ out' = <<>> /\ UNCHANGED <<tx, rx>>
      /\ \/ i' = 0 /\ call' = NoCall
         \/ i' = i /\ call' = call /\ call.op = "none"
  BY <1>1 DEF NotNext, NoVersion, CallFails, VersionFails, Close, OpenFails, Return, Dropped,
              LineClose, LineOpenFails, Received, Placed
<1>4. fd' \in {"closed", "open", "hung", "failed"}
  BY <1>1 DEF NotNext, NoVersion, CallFails, VersionFails, Close, OpenFails, LineClose,
              LineOpenFails, TypeOK
<1>5. lost' = TRUE
  BY <1>1 DEF NotNext, NoVersion, CallFails, VersionFails, Close, OpenFails, Lose, Outside,
              LineOpenFails
<1>6. i' = 0 /\ KnownTyped'
  <2>1. i' = 0
    BY <1>1, <1>3 DEF CallTyped
  <2>2. KnownTyped /\ Items' = Items /\ unit' = unit
    BY <1>2, BoardRests DEF GpioInv
  <2>3. (kpins' = {} /\ kmemory' = Blank) \/ UNCHANGED Known
    BY DEF NotNext, NoVersion, CallFails, VersionFails, Close, OpenFails, Lose, Known
  <2>4. Blank \in [Addr -> Items]
    BY DEF Blank, Items, Bit
  <2> QED BY <2>1, <2>2, <2>3, <2>4 DEF KnownTyped, Known
<1> QED BY <1>1, <1>2, <1>3, <1>4, <1>5, <1>6, Idles

LEMMA OpenedStep ==
  ASSUME GpioInv, Opened
  PROVE  GpioInv'
<1>1. /\ tx \in Seq(Byte) /\ rx \in Seq(Byte) /\ recvbufsize \in Byte \ {0} /\ lost \in BOOLEAN
      /\ TypeOK /\ Outside /\ Placed /\ pins \in SUBSET Bits /\ memory \in [Addr -> Items]
  BY DEF GpioInv, TypeOK
<1>2. /\ pc' = "idle" /\ got' = <<>> /\ i' = 0 /\ call' = NoCall /\ pc = "write" /\ out = <<>>
      /\ UNCHANGED boardVars /\ UNCHANGED <<fd, tx, rx, out, recvbufsize>>
      /\ lost' \in BOOLEAN
      /\ ~lost' => /\ rx = <<>> /\ taken = <<>> /\ tx \in {<<>>, <<CMD_CLR_ERROR_FLAGS>>}
                   /\ recvbufsize \in {1, Room} /\ kpins' = pins /\ kmemory' = memory
  BY DEF Opened, Return, Sent, Lose
<1>3. fd \in {"open", "hung"}
  BY <1>1, <1>2 DEF Placed
<1>4. /\ <<CMD_CLR_ERROR_FLAGS>> \in Seq(Byte) /\ CMD_CLR_ERROR_FLAGS \in OneByte
      /\ AfterOne(pins, CMD_CLR_ERROR_FLAGS) = pins
  BY DEF CMD_CLR_ERROR_FLAGS, Byte, OneByte, AfterOne, CMD_SETB4, CMD_CLRB4
<1>5. ASSUME ~lost'
      PROVE  Leads(Line', Len(Line'), pins', kpins')
  <2>1. Line' = tx /\ pins' = pins /\ kpins' = pins
    <3>1. taken' = <<>> /\ out' = <<>> /\ tx' = tx /\ pins' = pins
      BY <1>2, <1>5 DEF boardVars
    <3>2. <<>> \o tx = tx /\ tx \o <<>> = tx
      BY <1>1, ConcatEmptySeq
    <3> QED BY <1>2, <1>5, <3>1, <3>2 DEF Line
  <2>2. CASE tx = <<>>
    <3>1. Len(<<>>) = 0
      OBVIOUS
    <3> QED BY <1>1, <2>1, <2>2, <3>1, NothingLeft
  <2>3. CASE tx = <<CMD_CLR_ERROR_FLAGS>>
    <3> DEFINE s == <<>>
               t == <<CMD_CLR_ERROR_FLAGS>>
    <3>1. /\ s \in Seq(Byte) /\ Len(s) = 0 /\ Leads(s, Len(s), pins, pins) /\ t \in Seq(Byte)
          /\ Len(t) = 1 /\ t[1] \in OneByte /\ pins = AfterOne(pins, t[1]) /\ s \o t = t
      BY <1>1, <1>4, NothingLeft
    <3> HIDE DEF s, t
    <3>2. Leads(s \o t, Len(s \o t), pins, pins)
      BY ONLY <3>1, Lengthened
    <3>3. Leads(t, Len(t), pins, pins)
      BY <3>1, <3>2
    <3> QED BY <2>1, <2>3, <3>3 DEF t
  <2> QED BY <1>2, <1>5, <2>2, <2>3
<1>6. ~lost' => /\ Silence' /\ recvbufsize' \in {1, Room}
                /\ Leads(Line', Len(Line'), pins', kpins') /\ memory' = kmemory'
  BY <1>2, <1>5 DEF Silence, boardVars
<1>7. KnownTyped'
  <2>1. kpins' \in {pins, {}} /\ kmemory' \in {memory, Blank}
    BY DEF Opened, Lose
  <2>2. Items' = Items /\ Blank \in [Addr -> Items]
    BY <1>2, BoardRests DEF Blank, Items, Bit
  <2> QED BY <1>1, <2>1, <2>2 DEF KnownTyped
<1> QED BY <1>1, <1>2, <1>3, <1>6, <1>7, Idles

-----------------------------------------------------------------------------
(* The loops of write() and read() *)

LEMMA HostReads ==
  ASSUME TypeOK, NEW k \in 1..Len(rx), got' = got \o SubSeq(rx, 1, k), rx' = From(rx, k)
  PROVE  /\ Heard' = Heard /\ got' \in Seq(Byte) /\ rx' \in Seq(Byte)
         /\ Len(got') = Len(got) + k
<1> DEFINE p == SubSeq(rx, 1, k)
           r == From(rx, k)
<1>1. got \in Seq(Byte) /\ rx \in Seq(Byte)
  BY DEF TypeOK
<1>2. k \in 0..Len(rx)
  BY <1>1
<1>3. p \in Seq(Byte) /\ r \in Seq(Byte) /\ p \o r = rx /\ Len(p) = k
  BY <1>1, <1>2, PartFacts, Split, ZenonT(30)
<1>4. got' = got \o p /\ rx' = r
  OBVIOUS
<1> HIDE DEF p, r
<1>5. got \o p \in Seq(Byte) /\ Len(got \o p) = Len(got) + k
  BY <1>1, <1>3, ConcatProperties
<1>6. (got \o p) \o r = got \o (p \o r)
  <2>1. got \in Seq(Byte) /\ p \in Seq(Byte) /\ r \in Seq(Byte)
    BY <1>1, <1>3
  <2> QED BY ONLY <2>1, ConcatAssociative, SMTT(30)
<1> QED BY <1>3, <1>4, <1>5, <1>6 DEF Heard

LEMMA SameCall ==
  ASSUME UNCHANGED <<call, i, unit, recvbufsize, kpins, kmemory>>
  PROVE  /\ CallTyped => CallTyped' 
         /\ KnownTyped => KnownTyped'
         /\ BufSize' = BufSize /\ \A k : ChunkCells(k)' = ChunkCells(k)
         /\ ChunkCells(i)' = ChunkCells(i) /\ ChunkCells(0)' = ChunkCells(0)
         /\ Expected' = Expected /\ Effect(call, kpins)' = Effect(call, kpins)
         /\ Flat(call.val)' = Flat(call.val) /\ Flat(CellsRead)' = Flat(CellsRead)
         /\ Written' = Written /\ \A m : FirstWritten(m)' = FirstWritten(m)
<1>1. (CallTyped => CallTyped') /\ (KnownTyped => KnownTyped')
  BY DEF CallTyped, Callable, KnownTyped, Items
<1>2. /\ BufSize' = BufSize /\ \A k : ChunkCells(k)' = ChunkCells(k)
      /\ ChunkCells(i)' = ChunkCells(i) /\ ChunkCells(0)' = ChunkCells(0)
      /\ Expected' = Expected /\ Effect(call, kpins)' = Effect(call, kpins)
  BY DEF BufSize, ChunkCells, Expected, Effect
<1>3. CellsRead' = CellsRead
  BY DEF CellsRead
<1>4. Flat(call.val)' = Flat(call.val) /\ Flat(CellsRead)' = Flat(CellsRead)
  BY <1>3, SameFlat
<1>5. Written' = Written /\ \A m : FirstWritten(m)' = FirstWritten(m)
  BY DEF Written, FirstWritten
<1> QED BY <1>1, <1>2, <1>4, <1>5

LEMMA AskedAgain ==
  ASSUME UNCHANGED <<call, i, unit, recvbufsize, kpins, kmemory>>, Silence', Len(taken') <= 3,
         memory' = kmemory, NEW q \in 0..Len(Line'), Leads(Line', q, pins', kpins),
         Asking(call, unit * ChunkCells(0), Line', q), call.op = "page" => i = 0
  PROVE  Asked'
<1>1. ChunkCells(0)' = ChunkCells(0)
  BY SameCall
<1>2. Leads(Line', q, pins', kpins') /\ memory' = kmemory'
  OBVIOUS
<1>3. Asking(call', unit * ChunkCells(0), Line', q)
  OBVIOUS
<1> QED BY <1>1, <1>2, <1>3, AskedNow

LEMMA PageFacts ==
  ASSUME TypeOK, CallTyped, unit \in {1, 2}, call.op = "page"
  PROVE  /\ i \in Nat /\ Len(call.val) \in 1..Size /\ Len(call.val) \in Nat /\ i < Len(call.val)
         /\ call.val \in Seq(Items) /\ call.at \in Addr /\ call.at + Len(call.val) <= Size
         /\ ChunkCells(i) \in Nat \ {0} /\ i + ChunkCells(i) <= Len(call.val)
         /\ unit * (ChunkCells(i) - Len(Heard)) \in Int
<1>1. /\ i \in Nat /\ Len(call.val) \in 1..Size /\ Len(call.val) \in Nat /\ i < Len(call.val)
      /\ call.val \in Seq(Items) /\ call.at \in Addr /\ call.at + Len(call.val) <= Size
  BY DEF CallTyped, Callable, TypeOK
<1>2. ChunkCells(i) \in Nat \ {0} /\ i + ChunkCells(i) <= Len(call.val)
  BY <1>1, ChunkFacts
<1>3. Len(Heard) \in Nat
  BY LineFacts
<1>4. unit * (ChunkCells(i) - Len(Heard)) \in Int
  BY <1>2, <1>3
<1> QED BY <1>1, <1>2, <1>4

\* A page under way whose bytes and cells stay as they are.
LEMMA PagesOn ==
  ASSUME Paging, UNCHANGED <<call, i, unit, recvbufsize, kpins, kmemory, taken, pins, memory>>,
         Line' = Line, Heard' = Heard, Len(tx') + Len(out') = Len(tx) + Len(out),
         Len(tx) \in Nat, Len(out) \in Nat, Len(tx') \in Nat, Len(out') \in Nat, Len(taken) \in Nat
  PROVE  Paging'
<1>1. PICK m \in 0..Size, r \in 0..1 : InPage(m, r)
  BY DEF Paging
<1>2. /\ ChunkCells(i)' = ChunkCells(i) /\ Flat(call.val)' = Flat(call.val)
      /\ FirstWritten(m)' = FirstWritten(m)
  BY SameCall
<1>3. Len(taken') + Len(tx') + Len(out') = Len(taken) + Len(tx) + Len(out)
  OBVIOUS
<1>4. InPage(m, r)'
  BY <1>1, <1>2, <1>3 DEF InPage
<1>5. Header(call, Line, 0)'
  BY DEF Paging, Header
<1> QED BY <1>2, <1>4, <1>5 DEF Paging

\* A page that is over stays so.
LEMMA StaysOver ==
  ASSUME PageOver, UNCHANGED <<call, i, unit, recvbufsize, kpins, kmemory, taken, pins, memory>>,
         Heard' = Heard, Len(tx') + Len(out') <= Len(tx) + Len(out), Len(tx) + Len(out) \in Nat,
         Len(tx') + Len(out') \in Nat, unit * (ChunkCells(i) - Len(Heard)) \in Int,
         \A j \in 1..Len(tx') : tx'[j] \in Bit, \A j \in 1..Len(out') : out'[j] \in Bit
  PROVE  PageOver'
<1>1. /\ ChunkCells(i)' = ChunkCells(i) /\ Written' = Written
      /\ \A m : FirstWritten(m)' = FirstWritten(m)
  BY SameCall
<1>2. Len(tx') + Len(out') <= unit' * (ChunkCells(i)' - Len(Heard'))
  <2> DEFINE u == unit * (ChunkCells(i) - Len(Heard))
             x == Len(tx') + Len(out')
             y == Len(tx) + Len(out)
  <2>1. x \in Nat /\ y \in Nat /\ u \in Int /\ x <= y /\ y <= u
    BY DEF PageOver
  <2>2. unit' * (ChunkCells(i)' - Len(Heard')) = u
    BY <1>1
  <2> HIDE DEF u, x, y
  <2>3. x <= u
    BY ONLY <2>1
  <2> QED BY <2>2, <2>3 DEF x
<1> QED BY <1>1, <1>2 DEF PageOver

\* Bytes that move on within the line.
LEMMA BitsMove ==
  ASSUME TypeOK, NEW k \in 1..Len(out), tx' = tx \o SubSeq(out, 1, k), out' = From(out, k),
         \A j \in 1..Len(tx) : tx[j] \in Bit, \A j \in 1..Len(out) : out[j] \in Bit
  PROVE  /\ Len(tx') + Len(out') = Len(tx) + Len(out)
         /\ \A j \in 1..Len(tx') : tx'[j] \in Bit
         /\ \A j \in 1..Len(out') : out'[j] \in Bit
<1> DEFINE p == SubSeq(out, 1, k)
           r == From(out, k)
<1>1. tx \in Seq(Byte) /\ out \in Seq(Byte)
  BY DEF TypeOK
<1>2. k \in 0..Len(out) /\ Len(out) \in Nat /\ Len(tx) \in Nat
  BY <1>1
<1>3. /\ p \in Seq(Byte) /\ Len(p) = k /\ \A j \in 1..k : p[j] = out[j]
      /\ r \in Seq(Byte) /\ Len(r) = Len(out) - k /\ \A j \in 1..Len(out) - k : r[j] = out[k + j]
  BY <1>1, <1>2, PartFacts
<1>4. tx' = tx \o p /\ out' = r
  OBVIOUS
<1> HIDE DEF p, r
<1>5. /\ Len(tx \o p) = Len(tx) + Len(p)
      /\ \A j \in 1..Len(tx) + Len(p) : (tx \o p)[j] = IF j <= Len(tx) THEN tx[j] ELSE p[j - Len(tx)]
  BY ONLY <1>1, <1>3, ConcatProperties, ZenonT(30)
<1>6. ASSUME NEW j \in 1..Len(tx) + k PROVE (tx \o p)[j] \in Bit
  <2>1. CASE j <= Len(tx)
    <3>1. j \in 1..Len(tx)
      BY <1>2, <2>1
    <3> QED BY <1>3, <1>5, <2>1, <3>1
  <2>2. CASE ~(j <= Len(tx))
    <3>1. j - Len(tx) \in 1..k /\ j - Len(tx) \in 1..Len(out)
      BY <1>2, <2>2
    <3> QED BY <1>3, <1>5, <2>2, <3>1
  <2> QED BY <2>1, <2>2
<1>7. ASSUME NEW j \in 1..Len(out) - k PROVE r[j] \in Bit
  <2>1. k + j \in 1..Len(out)
    BY <1>2
  <2>2. r[j] = out[k + j]
    BY ONLY <1>3, j \in 1..Len(out) - k
  <2>3. out[k + j] \in Bit
    BY ONLY <2>1, \A l \in 1..Len(out) : out[l] \in Bit
  <2> QED BY ONLY <2>2, <2>3
<1>8. Len(tx \o p) = Len(tx) + k /\ Len(r) = Len(out) - k
  BY <1>3, <1>5
<1>9. (Len(tx) + k) + (Len(out) - k) = Len(tx) + Len(out)
  BY <1>2
<1>10. (\A j \in 1..Len(tx \o p) : (tx \o p)[j] \in Bit) /\ (\A j \in 1..Len(r) : r[j] \in Bit)
  BY ONLY <1>6, <1>7, <1>8, Zenon
<1>11. Len(tx \o p) + Len(r) = Len(tx) + Len(out)
  BY ONLY <1>8, <1>9
<1> QED BY ONLY <1>4, <1>10, <1>11, Zenon

LEMMA WriteStep ==
  ASSUME GpioInv, WriteSome, UNCHANGED <<boardVars, hostVars>>
  PROVE  GpioInv'
<1>1. /\ TypeOK /\ CallTyped /\ KnownTyped /\ Placed /\ Outside /\ InStep /\ unit \in {1, 2}
      /\ UNCHANGED <<call, i, unit, recvbufsize, lost, taken, fd, rx, pc, need, got>>
      /\ UNCHANGED <<kpins, kmemory, pins, memory>>
  BY DEF GpioInv, WriteSome, boardVars, hostVars
<1>2. PICK k \in 1..Len(out) : tx' = tx \o SubSeq(out, 1, k) /\ out' = From(out, k)
  BY DEF WriteSome
<1>3. /\ Line' = Line /\ tx' \in Seq(Byte) /\ out' \in Seq(Byte)
      /\ Len(tx') + Len(out') = Len(tx) + Len(out)
  BY <1>1, <1>2, SystemTakes
<1>4. TypeOK'
  BY <1>1, <1>3, BoardRests DEF TypeOK, hostVars
<1>5. CallTyped' /\ KnownTyped' /\ Placed' /\ Outside'
  <2>1. CallTyped' /\ KnownTyped'
    BY <1>1, SameCall
  <2>2. Outside'
    BY <1>1 DEF Outside
  <2>3. Placed'
    <3>1. Expected' = Expected /\ ChunkCells(i)' = ChunkCells(i) /\ pc = "write"
      BY <1>1, SameCall DEF WriteSome
    <3> QED BY <1>1, <3>1 DEF Placed
  <2> QED BY <2>1, <2>2, <2>3
<1>6. Heard' = Heard /\ (Silence => Silence')
  BY <1>1 DEF Heard, Silence
<1>7. /\ Len(tx) \in Nat /\ Len(out) \in Nat /\ Len(tx') \in Nat /\ Len(out') \in Nat
      /\ Len(taken) \in Nat
  BY <1>1, <1>3, LineFacts
<1>8. ASSUME ~lost PROVE NothingAsked' \/ Asked' \/ Paging' \/ PageOver'
  <2>1. CASE NothingAsked
    <3>1. Effect(call, kpins)' = Effect(call, kpins)
      BY <1>1, SameCall
    <3> QED BY <1>1, <1>3, <1>6, <2>1, <3>1 DEF NothingAsked
  <2>2. CASE Asked
    <3>1. PICK q \in 0..Len(Line) : Leads(Line, q, pins, kpins) /\ Request(Line, q)
      BY <2>2 DEF Asked
    <3>2. Silence' /\ Len(taken') <= 3 /\ memory' = kmemory
      BY <1>1, <1>6, <2>2 DEF Asked
    <3> QED BY <1>1, <1>3, <3>1, <3>2, AskedAgain DEF Request
  <2>3. CASE Replied
    <3>1. Len(out) = 0
      BY <2>3 DEF Replied
    <3> QED BY <3>1
  <2>4. CASE Paging
    BY <1>1, <1>3, <1>6, <1>7, <2>4, PagesOn
  <2>5. CASE PageOver
    <3>1. /\ \A j \in 1..Len(tx') : tx'[j] \in Bit
          /\ \A j \in 1..Len(out') : out'[j] \in Bit
      BY <1>1, <1>2, <2>5, BitsMove DEF PageOver
    <3>2. unit * (ChunkCells(i) - Len(Heard)) \in Int
      BY <1>1, <2>5, PageFacts DEF PageOver
    <3>3. /\ Len(tx') + Len(out') <= Len(tx) + Len(out) /\ Len(tx) + Len(out) \in Nat
          /\ Len(tx') + Len(out') \in Nat
      BY ONLY <1>3, <1>7
    <3> QED BY <1>1, <1>6, <2>5, <3>1, <3>2, <3>3, StaysOver
  <2> QED BY <1>1, <1>8, <2>1, <2>2, <2>3, <2>4, <2>5 DEF InStep
<1>9. InStep'
  BY <1>1, <1>8 DEF InStep
<1> QED BY <1>4, <1>5, <1>9, BoardRests DEF GpioInv

LEMMA ReadStep ==
  ASSUME GpioInv, fd = "open", ReadSome, UNCHANGED <<boardVars, hostVars>>
  PROVE  GpioInv'
<1>1. /\ TypeOK /\ CallTyped /\ KnownTyped /\ Placed /\ Outside /\ InStep /\ pc = "read"
      /\ unit \in {1, 2}
      /\ UNCHANGED <<call, i, unit, recvbufsize, lost, taken, fd, tx, pc, out>>
      /\ UNCHANGED <<kpins, kmemory, pins, memory>>
  BY DEF GpioInv, ReadSome, boardVars, hostVars
<1>2. PICK k \in 1..need : /\ k <= Len(rx) /\ got' = got \o SubSeq(rx, 1, k)
                          /\ rx' = From(rx, k) /\ need' = need - k
  BY DEF ReadSome
<1>3. need \in Nat /\ Len(rx) \in Nat /\ k \in 1..Len(rx) /\ Len(got) \in Nat
  BY <1>1, <1>2, LineFacts DEF Placed
<1>4. /\ Heard' = Heard /\ got' \in Seq(Byte) /\ rx' \in Seq(Byte)
      /\ Len(got') = Len(got) + k
  BY <1>1, <1>2, <1>3, HostReads
<1>5. TypeOK'
  BY <1>1, <1>4, BoardRests DEF TypeOK, hostVars
<1>6. CallTyped' /\ KnownTyped' /\ Placed' /\ Outside'
  <2>1. CallTyped' /\ KnownTyped'
    BY <1>1, SameCall
  <2>2. Outside'
    BY <1>1 DEF Outside
  <2>3. Placed'
    <3>1. Expected' = Expected /\ ChunkCells(i)' = ChunkCells(i)
      BY <1>1, SameCall
    <3>2. need' \in Nat /\ Len(got') + need' = Len(got) + need
      BY ONLY <1>2, <1>3, <1>4
    <3> QED BY <1>1, <3>1, <3>2 DEF Placed
  <2> QED BY <2>1, <2>2, <2>3
<1>7. /\ ~Silence /\ Line' = Line /\ Len(tx') + Len(out') = Len(tx) + Len(out)
      /\ Len(tx) \in Nat /\ Len(out) \in Nat /\ Len(tx') \in Nat /\ Len(out') \in Nat
      /\ Len(taken) \in Nat
  <2>1. Len(rx) > 0
    BY <1>3
  <2>2. Len(tx) \in Nat /\ Len(out) \in Nat /\ Len(taken) \in Nat
    BY <1>1, LineFacts
  <2> QED BY <1>1, <2>1, <2>2 DEF Silence, Line
<1>8. ASSUME ~lost PROVE Replied' \/ Paging' \/ PageOver'
  <2>1. ~NothingAsked /\ ~Asked
    BY <1>7 DEF NothingAsked, Asked
  <2>2. CASE Replied
    <3>1. Expected' = Expected /\ Written' = Written /\ Flat(CellsRead)' = Flat(CellsRead)
      BY <1>1, SameCall
    <3> QED BY <1>1, <1>4, <2>2, <3>1 DEF Replied
  <2>3. CASE Paging
    BY <1>1, <1>4, <1>7, <2>3, PagesOn
  <2>4. CASE PageOver
    <3>1. /\ \A j \in 1..Len(tx') : tx'[j] \in Bit
          /\ \A j \in 1..Len(out') : out'[j] \in Bit
      BY <1>1, <2>4 DEF PageOver
    <3>2. unit * (ChunkCells(i) - Len(Heard)) \in Int
      BY <1>1, <2>4, PageFacts DEF PageOver
    <3>3. /\ Len(tx') + Len(out') <= Len(tx) + Len(out) /\ Len(tx) + Len(out) \in Nat
          /\ Len(tx') + Len(out') \in Nat
      BY ONLY <1>7
    <3> QED BY <1>1, <1>4, <2>4, <3>1, <3>2, <3>3, StaysOver
  <2> QED BY <1>1, <1>8, <2>1, <2>2, <2>3, <2>4 DEF InStep
<1>9. InStep'
  BY <1>1, <1>8 DEF InStep
<1> QED BY <1>5, <1>6, <1>9, BoardRests DEF GpioInv

\* What was to be sent is sent, and the answer waited for.
LEMMA ReceiveStep ==
  ASSUME GpioInv, CommandSent \/ ChunkSent
  PROVE  GpioInv'
<1>1. /\ TypeOK /\ CallTyped /\ KnownTyped /\ Placed /\ Outside /\ InStep
      /\ pc = "write" /\ out = <<>> /\ pc' = "read" /\ got' = <<>>
      /\ UNCHANGED <<call, i, unit, recvbufsize, lost, taken, fd, tx, out, rx>>
      /\ UNCHANGED <<kpins, kmemory, pins, memory>>
      /\ UNCHANGED <<boardVars, hostVars>>
  BY DEF GpioInv, CommandSent, ChunkSent, Receive, Sent, boardVars, hostVars
<1>2. got = <<>> /\ got' = got
  BY <1>1 DEF Placed
<1>3. /\ call.op \in {"get", "read", "byte", "page", "version", "size"}
      /\ need' = IF call.op = "page" THEN ChunkCells(i) ELSE Expected
  BY DEF CommandSent, ChunkSent, Receive
<1>4. need' \in Nat
  <2>1. CASE call.op = "page"
    <3>1. i \in Nat /\ Len(call.val) \in Nat /\ i < Len(call.val)
      BY <1>1, <2>1 DEF CallTyped, Callable, TypeOK
    <3> QED BY <1>3, <2>1, <3>1, ChunkFacts DEF GpioInv
  <2>2. CASE call.op = "read"
    <3>1. Len(call.val) \in 1..2 /\ unit \in {1, 2}
      BY <1>1, <2>2 DEF CallTyped, Callable, GpioInv
    <3> QED BY <1>3, <2>2, <3>1 DEF Expected
  <2>3. CASE call.op \notin {"page", "read"}
    BY <1>3, <2>3 DEF Expected
  <2> QED BY <2>1, <2>2, <2>3
<1>5. TypeOK'
  BY <1>1, <1>2, BoardRests DEF TypeOK, hostVars
<1>6. CallTyped' /\ KnownTyped' /\ Placed' /\ Outside'
  <2>1. CallTyped' /\ KnownTyped'
    BY <1>1, SameCall
  <2>2. Outside'
    BY <1>1 DEF Outside
  <2>3. Placed'
    <3>1. Expected' = Expected /\ ChunkCells(i)' = ChunkCells(i)
      BY <1>1, SameCall
    <3>2. Len(got') + need' = need'
      <4>1. Len(got') = 0
        BY <1>1
      <4>2. \A x \in Nat : 0 + x = x
        OBVIOUS
      <4> QED BY ONLY <1>4, <4>1, <4>2, Zenon
    <3> QED BY <1>1, <1>3, <1>4, <3>1, <3>2 DEF Placed
  <2> QED BY <2>1, <2>2, <2>3
<1>7. InStep'
  <2>1. Line' = Line /\ Heard' = Heard /\ (Silence' <=> Silence)
    BY <1>1, <1>2 DEF Line, Heard, Silence
  <2>2. /\ Expected' = Expected /\ Effect(call, kpins)' = Effect(call, kpins)
        /\ Written' = Written /\ Flat(CellsRead)' = Flat(CellsRead)
    BY <1>1, SameCall
  <2>3. NothingAsked => NothingAsked'
    BY <1>1, <2>1, <2>2 DEF NothingAsked
  <2>4. Asked => Asked'
    <3> SUFFICES ASSUME Asked PROVE Asked'
      OBVIOUS
    <3>1. PICK q \in 0..Len(Line) : Leads(Line, q, pins, kpins) /\ Request(Line, q)
      BY DEF Asked
    <3> QED BY <1>1, <2>1, <3>1, AskedAgain DEF Request, Asked
  <2>5. Replied => Replied'
    BY <1>1, <2>1, <2>2 DEF Replied
  <2>6. /\ Len(tx') + Len(out') = Len(tx) + Len(out)
        /\ Len(tx) \in Nat /\ Len(out) \in Nat /\ Len(tx') \in Nat /\ Len(out') \in Nat
        /\ Len(taken) \in Nat
    <3>1. Len(tx) \in Nat /\ Len(out) \in Nat /\ Len(taken) \in Nat
      BY <1>1, LineFacts
    <3> QED BY <1>1, <3>1
  <2>7. Paging => Paging'
    BY <1>1, <2>1, <2>6, PagesOn
  <2>8. PageOver => PageOver'
    <3> SUFFICES ASSUME PageOver PROVE PageOver'
      OBVIOUS
    <3>1. /\ \A j \in 1..Len(tx') : tx'[j] \in Bit
          /\ \A j \in 1..Len(out') : out'[j] \in Bit
      BY <1>1 DEF PageOver
    <3>2. unit * (ChunkCells(i) - Len(Heard)) \in Int
      BY <1>1, PageFacts DEF PageOver, GpioInv
    <3>3. /\ Len(tx') + Len(out') <= Len(tx) + Len(out) /\ Len(tx) + Len(out) \in Nat
          /\ Len(tx') + Len(out') \in Nat
      BY ONLY <2>6
    <3> QED BY <1>1, <2>1, <3>1, <3>2, <3>3, StaysOver
  <2> QED BY <1>1, <2>3, <2>4, <2>5, <2>7, <2>8 DEF InStep
<1>8. unit' \in {1, 2} /\ TakenOk'
  BY <1>1, BoardRests
<1> QED BY <1>5, <1>6, <1>7, <1>8 DEF GpioInv

-----------------------------------------------------------------------------
(* Chunks *)

LEMMA ChunkStarts ==
  ASSUME GpioInv, call.op \in {"header", "page"}, pc # "idle",
         NEW k \in Nat, k < Len(call.val), SendChunk(call, k)
  PROVE  /\ TypeOK' /\ CallTyped' /\ KnownTyped' /\ Placed' /\ Outside' /\ TakenOk'
         /\ unit' \in {1, 2}
         /\ out' \in Seq(Byte) /\ Len(out') = unit * ChunkCells(k)
         /\ \A j \in 1..unit * ChunkCells(k) : /\ unit * k + j \in 1..unit * Len(call.val)
                                              /\ out'[j] = Flat(call.val)[unit * k + j]
         /\ \A j : ChunkCells(j)' = ChunkCells(j)
         /\ call'.op = "page" /\ call'.val = call.val /\ call'.at = call.at
         /\ i' = k /\ got' = <<>>
         /\ UNCHANGED <<tx, rx, taken, unit, recvbufsize, lost, pins, memory, kpins, kmemory>>
<1> DEFINE v == call.val
           n == ChunkCells(k)
           s == SubSeq(v, k + 1, k + n)
<1>1. /\ TypeOK /\ CallTyped /\ Placed /\ Outside /\ unit \in {1, 2}
  BY DEF GpioInv
<1>2. /\ v \in Seq(Items) /\ Len(v) \in 1..Size /\ Len(v) \in Nat
      /\ Shaped(call)
      /\ call.at \in Addr /\ call.at + Len(v) <= Size
      /\ call.at = call.asked - (call.asked % Len(v))
  BY <1>1 DEF CallTyped, Callable
<1>3. n \in Nat \ {0} /\ k + n <= Len(v)
  BY <1>1, <1>2, ChunkFacts
<1>4. /\ call' = [call EXCEPT !.op = "page"] /\ i' = k /\ pc' = "write" /\ got' = <<>>
      /\ out' = Flat(s)
      /\ UNCHANGED <<fd, tx, rx, need, recvbufsize, lost, kpins, kmemory>>
      /\ UNCHANGED boardVars
  BY DEF SendChunk, Send
<1>5. /\ call'.op = "page" /\ call'.val = v /\ call'.at = call.at
      /\ call'.asked = call.asked /\ Shaped(call')
  BY <1>2, <1>4 DEF Ops, Shaped
<1>6. taken' = taken /\ unit' = unit /\ Items' = Items /\ TakenOk' /\ unit' \in {1, 2}
  BY <1>4, BoardRests
<1>7. /\ s \in Seq(Items) /\ Len(s) = n
      /\ \A j \in 1..unit * n : /\ unit * k + j \in 1..unit * Len(v)
                                /\ Flat(s)[j] = Flat(v)[unit * k + j]
  <2> HIDE DEF v, n
  <2>1. unit \in {1, 2} /\ v \in Seq(Items) /\ k \in Nat /\ n \in Nat /\ k + n <= Len(v)
    BY <1>1, <1>2, <1>3
  <2> QED BY ONLY <2>1, FlatPart DEF s
<1>8. out' \in Seq(Byte) /\ Len(out') = unit * n
  <2> HIDE DEF s, n
  <2> QED BY <1>1, <1>4, <1>7, FlatFacts
<1>9. TypeOK'
  <2>1. <<>> \in Seq(Byte) /\ k \in 0..Size
    <3>1. Size \in Nat
      BY SizesGiven
    <3> HIDE DEF v
    <3>2. k < Len(v)
      BY DEF v
    <3>3. k \in 0..Size
      BY ONLY <1>2, <3>1, <3>2, k \in Nat
    <3> QED BY <3>3
  <2>2. /\ tx' \in Seq(Byte) /\ rx' \in Seq(Byte) /\ recvbufsize' \in Byte \ {0}
        /\ fd' \in {"closed", "open", "hung", "failed"} /\ lost' \in BOOLEAN
    BY <1>1, <1>4 DEF TypeOK
  <2> HIDE DEF s, n, v
  <2> QED BY <1>4, <1>8, <2>1, <2>2, BoardRests DEF TypeOK
<1>10. CallTyped' /\ KnownTyped'
  <2> HIDE DEF v, n, s, Items
  <2>1. i' < Len(call'.val)
    BY <1>4, <1>5 DEF v
  <2>2. KnownTyped'
    BY <1>4, <1>6 DEF GpioInv, KnownTyped
  <2> QED BY <1>2, <1>5, <1>6, <2>1, <2>2 DEF CallTyped, Callable
<1>11. Placed' /\ Outside'
  <2>1. fd \in {"open", "hung"}
    BY <1>1 DEF Placed
  <2>2. Placed'
    BY <1>4, <1>5, <2>1 DEF Placed
  <2>3. Outside'
    BY <1>1, <1>4, <1>5, <2>1 DEF Outside
  <2> QED BY <2>2, <2>3
<1>12. \A j : ChunkCells(j)' = ChunkCells(j)
  BY <1>4, <1>5, <1>6 DEF ChunkCells, BufSize
<1>13. UNCHANGED <<pins, memory>>
  BY <1>4 DEF boardVars
<1>14. \A j \in 1..unit * n : /\ unit * k + j \in 1..unit * Len(v)
                             /\ out'[j] = Flat(v)[unit * k + j]
  BY <1>4, <1>7
<1> QED BY <1>4, <1>5, <1>6, <1>8, <1>9, <1>10, <1>11, <1>12, <1>13, <1>14

LEMMA HeaderStep ==
  ASSUME GpioInv, HeaderSent
  PROVE  GpioInv'
<1>1. /\ TypeOK /\ CallTyped /\ InStep /\ unit \in {1, 2} /\ pc # "idle" /\ out = <<>>
      /\ call.op = "header" /\ SendChunk(call, 0)
  BY DEF GpioInv, HeaderSent, Sent
<1>2. Len(call.val) \in 1..Size /\ 0 \in Nat /\ 0 < Len(call.val)
  BY <1>1 DEF CallTyped, Callable
<1>3. /\ TypeOK' /\ CallTyped' /\ KnownTyped' /\ Placed' /\ Outside' /\ TakenOk'
      /\ unit' \in {1, 2} /\ out' \in Seq(Byte) /\ Len(out') = unit * ChunkCells(0)
      /\ \A j \in 1..unit * ChunkCells(0) : out'[j] = Flat(call.val)[unit * 0 + j]
      /\ \A j : ChunkCells(j)' = ChunkCells(j)
      /\ call'.op = "page" /\ call'.val = call.val /\ call'.at = call.at
      /\ i' = 0 /\ got' = <<>>
      /\ UNCHANGED <<tx, rx, taken, unit, recvbufsize, lost, pins, memory, kpins, kmemory>>
  BY <1>1, <1>2, ChunkStarts
<1>4. ASSUME ~lost PROVE Asked'
  <2>1. Asked
    BY <1>1, <1>4 DEF InStep, NothingAsked, Replied, Paging, PageOver
  <2>2. PICK q \in 0..Len(Line) : Leads(Line, q, pins, kpins) /\ Request(Line, q)
    BY <2>1 DEF Asked
  <2>3. Len(Line) = q + 3 /\ Header(call, Line, q)
    BY <1>1, <2>2 DEF Request, Asking
  <2>4. Line' = Line \o out'
    BY <1>1, <1>3, Appends
  <2>5. /\ Line' \in Seq(Byte) /\ Len(Line') = Len(Line) + Len(out')
        /\ \A j \in 1..Len(Line) : Line'[j] = Line[j]
        /\ \A j \in 1..Len(out') : Line'[Len(Line) + j] = out'[j]
        /\ Len(Line) \in Nat /\ Len(out') \in Nat
    BY <1>1, <1>3, <2>4, LineFacts, Joins, ZenonT(30)
  <2>6. q \in Nat /\ q \in 0..Len(Line')
    BY <2>3, <2>5
  <2>7. Leads(Line', q, pins', kpins')
    <3>1. \A j \in 1..q : Line'[j] = Line[j]
      BY <2>3, <2>5, <2>6
    <3> QED BY <1>3, <2>2, <2>6, <3>1, SamePrefix
  <2>8. Header(call', Line', q)
    <3>1. q + 1 \in 1..Len(Line) /\ q + 2 \in 1..Len(Line) /\ q + 3 \in 1..Len(Line)
      BY <2>3, <2>6
    <3> QED BY <1>3, <2>3, <2>5, <3>1 DEF Header
  <2>9. ASSUME NEW j \in 1..unit * ChunkCells(0) PROVE Line'[q + 3 + j] = Flat(call'.val)[j]
    <3>1. unit * 0 + j = j
      BY <1>1
    <3>2. out'[j] = Flat(call.val)[j] /\ j \in 1..Len(out')
      BY <1>3, <3>1
    <3> QED BY <1>3, <2>3, <2>5, <3>2
  <2>10. Asking(call', unit * ChunkCells(0), Line', q)
    <3>1. Len(Line') = q + 3 + unit * ChunkCells(0)
      BY <1>3, <2>3, <2>5
    <3> QED BY <1>3, <2>8, <2>9, <3>1 DEF Asking
  <2>11. Silence' /\ Len(taken') <= 3 /\ memory' = kmemory'
    BY <1>3, <2>1 DEF Asked, Silence
  <2>12. unit' = unit /\ i' = 0 /\ unit * ChunkCells(0) = unit * ChunkCells(0)'
    BY <1>3
  <2> QED BY <2>6, <2>7, <2>10, <2>11, <2>12, AskedNow
<1>5. InStep'
  BY <1>3, <1>4 DEF InStep
<1> QED BY <1>3, <1>5 DEF GpioInv

LEMMA ChunkStep ==
  ASSUME GpioInv, ChunkAnswered
  PROVE  GpioInv'
<1> DEFINE k == ChunkCells(i)
           v == call.val
<1>1. /\ TypeOK /\ CallTyped /\ Placed /\ InStep /\ unit \in {1, 2}
      /\ pc = "read" /\ need = 0 /\ out = <<>>
      /\ call.op = "page" /\ ~LastChunk /\ AllNext(got) /\ SendChunk(call, i + k)
  BY DEF GpioInv, ChunkAnswered, Received, Placed
<1>2. /\ i \in Nat /\ Len(v) \in Nat /\ Len(v) \in 1..Size /\ i < Len(v)
  BY <1>1 DEF CallTyped, Callable, TypeOK
<1>3. /\ k \in Nat \ {0} /\ i + k <= Len(v) /\ i + k # Len(v)
  BY <1>1, <1>2, ChunkFacts DEF LastChunk
<1>4. i + k \in Nat /\ i + k < Len(v)
  <2> HIDE DEF k, v
  <2> QED BY ONLY <1>2, <1>3
<1>5. /\ Len(got) = k
      /\ Len(got) \in Nat /\ Len(rx) \in Nat /\ Len(taken) \in Nat /\ Len(tx) \in Nat /\ Len(out) \in Nat
      /\ Len(Heard) = Len(got) + Len(rx)
  BY <1>1, LineFacts DEF Placed
<1>6. /\ TypeOK' /\ CallTyped' /\ KnownTyped' /\ Placed' /\ Outside' /\ TakenOk'
      /\ unit' \in {1, 2} /\ out' \in Seq(Byte) /\ Len(out') = unit * ChunkCells(i + k)
      /\ \A j \in 1..unit * ChunkCells(i + k) : out'[j] = Flat(v)[unit * (i + k) + j]
      /\ \A j : ChunkCells(j)' = ChunkCells(j)
      /\ call'.op = "page" /\ call'.val = v /\ call'.at = call.at
      /\ i' = i + k /\ got' = <<>>
      /\ UNCHANGED <<tx, rx, taken, unit, recvbufsize, lost, pins, memory, kpins, kmemory>>
  <2>1. GpioInv /\ call.op \in {"header", "page"} /\ pc # "idle" /\ SendChunk(call, i + k)
    BY <1>1
  <2> HIDE DEF k
  <2> QED BY <1>4, <2>1, ChunkStarts
<1>7. ASSUME ~lost PROVE Paging'
  <2>1. ~NothingAsked /\ ~Asked /\ ~Replied
    <3>1. got # <<>>
      BY <1>3, <1>5
    <3> QED BY <1>1, <3>1 DEF NothingAsked, Asked, Silence, Replied
  <2>2. ~PageOver
    <3> SUFFICES ASSUME PageOver PROVE FALSE
      OBVIOUS
    <3>1. /\ Len(tx) + Len(out) <= unit * (k - Len(Heard))
          /\ Heard[Len(Heard)] # RC_NEXT
      BY DEF PageOver
    <3>2. Len(rx) = 0
      <4>1. Len(tx) + Len(out) <= unit * (0 - Len(rx))
        <5> HIDE DEF k
        <5>1. k - Len(Heard) = 0 - Len(rx)
          BY ONLY <1>3, <1>5
        <5> QED BY <3>1, <5>1
      <4>2. CASE unit = 1
        BY ONLY <1>5, <4>1, <4>2
      <4>3. CASE unit = 2
        BY ONLY <1>5, <4>1, <4>3
      <4> QED BY <1>1, <4>2, <4>3
    <3>3. Heard = got
      <4>1. rx = <<>> /\ got \in Seq(Byte)
        BY <1>1, <3>2 DEF TypeOK
      <4> QED BY <4>1, ConcatEmptySeq DEF Heard
    <3>4. Len(got) \in DOMAIN got
      <4>1. got \in Seq(Byte) /\ Len(got) \in Nat \ {0}
        BY <1>1, <1>3, <1>5 DEF TypeOK
      <4> QED BY <4>1
    <3> QED BY <1>1, <3>1, <3>3, <3>4 DEF AllNext
  <2>3. Paging
    BY <1>1, <1>7, <2>1, <2>2 DEF InStep
  <2>4. PICK m \in 0..Size, r \in 0..1 : InPage(m, r)
    BY <2>3 DEF Paging
  <2>5. /\ Len(taken) = 3 + unit * m + r /\ Len(taken) + Len(tx) + Len(out) = 3 + unit * (i + k)
        /\ Len(Heard) = m - i /\ m \in Nat /\ r \in {0, 1}
    BY <2>4 DEF InPage
  <2>6. /\ m = i + k /\ r = 0 /\ Len(tx) = 0 /\ Len(out) = 0 /\ Len(rx) = 0
    <3> HIDE DEF k
    <3>1. m = i + k + Len(rx)
      BY ONLY <1>2, <1>3, <1>5, <2>5, SMTT(30)
    <3>2. CASE unit = 1
      BY ONLY <1>2, <1>3, <1>5, <2>5, <3>1, <3>2, SMTT(30)
    <3>3. CASE unit = 2
      BY ONLY <1>2, <1>3, <1>5, <2>5, <3>1, <3>3, SMTT(30)
    <3> QED BY <1>1, <3>2, <3>3
  <2>7. Heard' = <<>> /\ Len(Heard') = 0
    <3>1. got' = <<>> /\ rx' = <<>>
      BY <1>1, <1>6, <2>6 DEF TypeOK
    <3>2. <<>> \o <<>> = <<>> /\ Len(<<>>) = 0
      OBVIOUS
    <3> QED BY <3>1, <3>2 DEF Heard
  <2>8. /\ Len(taken') = 3 + unit' * m + 0 /\ 0 < unit' /\ i' <= m /\ m < Len(v)
        /\ Len(taken') + Len(tx') + Len(out') = 3 + unit' * (i' + ChunkCells(i + k))
        /\ Len(Heard') = m - i'
    <3> DEFINE n == ChunkCells(i + k)
    <3>1. n \in Nat
      BY <1>1, <1>2, <1>4, ChunkFacts
    <3>2. /\ taken' = taken /\ tx' = tx /\ unit' = unit /\ i' = i + k /\ Len(out') = unit * n
          /\ Len(Heard') = 0
      BY <1>6, <2>7
    <3> HIDE DEF k, n, v
    <3>3. /\ Len(taken') = Len(taken) /\ Len(tx') = 0 /\ i' = m
      BY <2>6, <3>2
    <3>4. m < Len(v) /\ i' <= m /\ m - i' = 0
      BY ONLY <1>4, <2>5, <2>6, <3>3
    <3>5. CASE unit = 1
      <4>1. Len(taken) = 3 + m
        BY ONLY <2>5, <2>6, <3>5
      <4>2. Len(taken) + 0 + Len(out') = 3 + 1 * (m + n)
        BY ONLY <2>5, <3>1, <3>2, <3>5, <4>1
      <4>3. /\ Len(taken') = 3 + unit' * m + 0 /\ 0 < unit'
            /\ Len(taken') + Len(tx') + Len(out') = 3 + unit' * (i' + n)
        BY <2>6, <3>2, <3>3, <3>5, <4>1, <4>2
      <4> QED BY <3>2, <3>4, <4>3 DEF n, v
    <3>6. CASE unit = 2
      <4>1. Len(taken) = 3 + 2 * m
        BY ONLY <2>5, <2>6, <3>6
      <4>2. Len(taken) + 0 + Len(out') = 3 + 2 * (m + n)
        BY ONLY <2>5, <3>1, <3>2, <3>6, <4>1
      <4>3. /\ Len(taken') = 3 + unit' * m + 0 /\ 0 < unit'
            /\ Len(taken') + Len(tx') + Len(out') = 3 + unit' * (i' + n)
        BY <2>6, <3>2, <3>3, <3>6, <4>1, <4>2
      <4> QED BY <3>2, <3>4, <4>3 DEF n, v
    <3> QED BY <1>1, <3>5, <3>6
  <2>9. ChunkCells(i)' = ChunkCells(i + k)
    BY <1>6
  <2>10. InPage(m, 0)'
    <3>1. \A j \in 1..Len(Heard') : Heard'[j] = RC_NEXT
      BY <2>7
    <3>2. memory' = FirstWritten(m)'
      <4>1. FirstWritten(m)' = FirstWritten(m)
        BY <1>6 DEF FirstWritten
      <4> QED BY <1>6, <2>4, <4>1 DEF InPage
    <3> QED BY <1>6, <2>8, <2>9, <3>1, <3>2 DEF InPage
  <2>11. /\ Line' = Line \o out' /\ Len(Line) = 3 + unit * (i + k)
         /\ Len(Line') = 3 + unit * (i + k) + unit * ChunkCells(i + k)
         /\ \A j \in 1..Len(Line) : Line'[j] = Line[j]
         /\ \A j \in 1..Len(out') : Line'[Len(Line) + j] = out'[j]
    <3>1. Line' = Line \o out'
      BY <1>1, <1>6, Appends
    <3>2. Len(Line) = 3 + unit * (i + k)
      BY <1>1, <2>5, LineFacts
    <3>3. /\ Len(Line') = Len(Line) + Len(out')
          /\ \A j \in 1..Len(Line) : Line'[j] = Line[j]
          /\ \A j \in 1..Len(out') : Line'[Len(Line) + j] = out'[j]
      BY <1>1, <1>6, <3>1, LineFacts, Joins, ZenonT(30)
    <3> QED BY <1>6, <3>1, <3>2, <3>3
  <2>12. \A j \in 1..Len(Line) - 3 : Line[3 + j] = Flat(v)[j]
    BY <2>3 DEF Paging
  <2>13. ASSUME NEW j \in 1..Len(Line') - 3 PROVE Line'[3 + j] = Flat(v)[j]
    <3> DEFINE f == Flat(v)
               s == Line
               t == Line'
               b == out'
               w == unit * (i + k)
               n == unit * ChunkCells(i + k)
    <3>1. w \in Nat /\ n \in Nat
      <4>1. ChunkCells(i + k) \in Nat
        BY <1>1, <1>2, <1>4, ChunkFacts
      <4>2. \A x \in Nat : unit * x \in Nat
        BY <1>1
      <4> HIDE DEF k
      <4> QED BY <1>4, <4>1, <4>2
    <3>2. /\ Len(s) = 3 + w /\ Len(t) = 3 + w + n /\ Len(b) = n /\ j \in 1..Len(t) - 3
          /\ \A l \in 1..Len(s) : t[l] = s[l]
          /\ \A l \in 1..Len(b) : t[Len(s) + l] = b[l]
          /\ \A l \in 1..Len(s) - 3 : s[3 + l] = f[l]
          /\ \A l \in 1..n : b[l] = f[w + l]
      BY <1>6, <2>11, <2>12
    <3> HIDE DEF f, s, t, b, w, n, v
    <3>3. CASE j <= w
      <4>1. j \in 1..Len(s) - 3 /\ 3 + j \in 1..Len(s)
        BY ONLY <3>1, <3>2, <3>3
      <4> QED BY ONLY <3>2, <4>1 DEF f, t
    <3>4. CASE ~(j <= w)
      <4>1. /\ j - w \in 1..n /\ Len(s) + (j - w) = 3 + j /\ w + (j - w) = j
            /\ j - w \in 1..Len(b)
        BY ONLY <3>1, <3>2, <3>4
      <4>2. t[3 + j] = b[j - w] /\ b[j - w] = f[j]
        BY ONLY <3>2, <4>1
      <4> QED BY ONLY <4>2 DEF f, t
    <3> QED BY <3>3, <3>4
  <2>14. /\ Len(taken') >= 3 /\ Header(call', Line', 0) /\ pins' = kpins'
         /\ \A j \in 1..Len(Line') - 3 : Line'[3 + j] = Flat(call.val)'[j]
    <3>1. Len(taken) >= 3 /\ Header(call, Line, 0) /\ pins = kpins
      BY <2>3 DEF Paging
    <3>2. Line'[1] = Line[1] /\ Line'[2] = Line[2] /\ Line'[3] = Line[3]
      <4>1. Len(Line) \in Nat /\ Len(Line) >= 3
        BY <1>1, <1>5, <3>1, LineFacts
      <4> HIDE DEF Line
      <4>2. 1 \in 1..Len(Line) /\ 2 \in 1..Len(Line) /\ 3 \in 1..Len(Line)
        BY ONLY <4>1
      <4> QED BY <2>11, <4>2
    <3>3. Flat(call.val)' = Flat(v)
      BY <1>6 DEF Flat
    <3>4. Header(call', Line', 0)
      <4> DEFINE s == Line
                 t == Line'
      <4>1. t[0 + 1] = s[0 + 1] /\ t[0 + 2] = s[0 + 2] /\ t[0 + 3] = s[0 + 3]
        BY <3>2
      <4>2. /\ s[0 + 1] = CMD_WRITE_PAGE /\ s[0 + 2] = call.at
            /\ 2^(s[0 + 3] % 4) = Len(call.val)
        BY <3>1 DEF Header
      <4> HIDE DEF s, t
      <4>3. /\ t[0 + 1] = CMD_WRITE_PAGE /\ t[0 + 2] = call'.at
            /\ 2^(t[0 + 3] % 4) = Len(call'.val)
        BY ONLY <1>6, <4>1, <4>2
      <4> QED BY <4>3 DEF Header, t
    <3> QED BY <1>6, <2>13, <3>1, <3>3, <3>4
  <2>15. m \in 0..Size /\ 0 \in 0..1
    BY <2>4
  <2> QED BY <1>6, <2>10, <2>14, <2>15 DEF Paging
<1>8. InStep'
  BY <1>6, <1>7 DEF InStep
<1> QED BY <1>6, <1>8 DEF GpioInv

-----------------------------------------------------------------------------
(* The board's steps *)

\* It gets on with the commands it does not answer.
LEMMA BoardPasses ==
  ASSUME TypeOK, TakenOk, BoardTakes, NEW q \in 1..Len(Line),
         NEW z, Leads(Line, q, pins, z)
  PROVE  /\ rx' = rx /\ memory' = memory /\ Len(taken') <= 3
         /\ \E k \in 0..q : Line' = From(Line, k) /\ Leads(Line', q - k, pins', z)
<1> DEFINE c == Append(taken, Head(tx))
<1>1. tx # <<>> /\ tx' = Tail(tx) /\ out' = out
  BY BoardSplits
<1>2. /\ c \in Seq(Byte) /\ Len(c) = Len(taken) + 1 /\ Len(c) <= Len(Line)
      /\ \A j \in 1..Len(c) : c[j] = Line[j]
      /\ taken' = c => Line' = Line
      /\ taken' = <<>> => Line' = From(Line, Len(c))
      /\ \A j \in 1..Len(taken) : c[j] = taken[j]
  BY <1>1, BoardReads
<1>3. Line \in Seq(Byte) /\ Len(Line) \in Nat /\ Len(taken) \in Nat /\ q \in Nat
  BY LineFacts
<1>4. \/ /\ Line[1] \in OneByte
         /\ Leads(From(Line, 1), q - 1, AfterOne(pins, Line[1]), z)
      \/ /\ Line[1] \in ThreeBytes /\ q >= 3
         /\ Leads(From(Line, 3), q - 3, AfterThree(pins, Line[1], Line[2], Line[3]), z)
  BY <1>3, FirstOf
<1>5. c[1] = Line[1] /\ (taken # <<>> => c[1] = taken[1])
  <2>1. 1 \in 1..Len(c)
    BY <1>2, <1>3
  <2>2. taken # <<>> => 1 \in 1..Len(taken)
    BY DEF TypeOK
  <2> QED BY <1>2, <2>1, <2>2
<1>6. Len(taken) < 3
  BY <1>3, BegunShort
<1> HIDE DEF c
<1>7. CASE /\ Line[1] \in OneByte
           /\ Leads(From(Line, 1), q - 1, AfterOne(pins, Line[1]), z)
  <2>1. taken = <<>>
    BY <1>5, <1>7, Kinds DEF TakenOk
  <2>2. Len(c) = 1
    BY <1>2, <2>1
  <2>3. taken' = <<>> /\ rx' = rx /\ memory' = memory /\ pins' = AfterOne(pins, Line[1])
    BY <1>5, <1>7, BoardOne DEF c
  <2>4. Line' = From(Line, 1) /\ Len(taken') = 0 /\ 1 \in 0..q
    <3>1. Line' = From(Line, 1) /\ taken' = <<>>
      BY <1>2, <2>2, <2>3
    <3>2. Len(<<>>) = 0
      OBVIOUS
    <3>3. 1 \in 0..q
      BY <1>3
    <3> QED BY <3>1, <3>2, <3>3
  <2> QED BY <1>7, <2>3, <2>4
<1>8. CASE /\ Line[1] \in ThreeBytes /\ q >= 3
           /\ Leads(From(Line, 3), q - 3, AfterThree(pins, Line[1], Line[2], Line[3]), z)
  <2>1. /\ rx' = rx /\ memory' = memory
        /\ IF Len(c) < 3 THEN taken' = c /\ pins' = pins
           ELSE taken' = <<>> /\ pins' = AfterThree(pins, c[1], c[2], c[3])
    BY <1>5, <1>8, BoardThree DEF c
  <2>2. CASE Len(c) < 3
    <3>1. Line' = Line /\ From(Line, 0) = Line
      BY <1>2, <1>3, <2>1, <2>2, SubSeqFull DEF From
    <3>2. Leads(Line', q - 0, pins', z) /\ 0 \in 0..q
      <4>1. q - 0 = q /\ 0 \in 0..q
        BY <1>3
      <4> QED BY <2>1, <2>2, <3>1, <4>1
    <3>3. Len(taken') <= 3
      BY <1>2, <1>3, <2>1, <2>2
    <3> QED BY <2>1, <2>2, <3>1, <3>2, <3>3
  <2>3. CASE ~(Len(c) < 3)
    <3>1. Len(c) = 3
      BY <1>2, <1>3, <1>6, <2>3
    <3>2. Line' = From(Line, 3) /\ Len(taken') = 0 /\ 3 \in 0..q
      <4>1. Line' = From(Line, 3) /\ taken' = <<>>
        BY <1>2, <2>1, <2>3, <3>1
      <4>2. Len(<<>>) = 0
        OBVIOUS
      <4>3. 3 \in 0..q
        BY <1>3, <1>8
      <4> QED BY <4>1, <4>2, <4>3
    <3>3. c[1] = Line[1] /\ c[2] = Line[2] /\ c[3] = Line[3]
      <4>1. 1 \in 1..Len(c) /\ 2 \in 1..Len(c) /\ 3 \in 1..Len(c)
        BY <3>1
      <4> QED BY <1>2, <4>1
    <3> QED BY <1>8, <2>1, <2>3, <3>2, <3>3
  <2> QED BY <2>2, <2>3
<1> QED BY <1>4, <1>7, <1>8

\* Addresses within the memory are what they say.
LEMMA AtFits ==
  ASSUME NEW x \in Addr
  PROVE  At(x) = x
BY SizesGiven DEF At, Addr

\* What it answers to a read is what the application knows.
LEMMA ReadsKnown ==
  ASSUME call.op = "read", CallTyped, memory = kmemory,
         NEW c, c[2] = call.at, c[3] % 8 = Len(call.val)
  PROVE  Contents(c) = Flat(CellsRead)
<1> DEFINE n == Len(call.val)
           d == call.at
<1>1. n \in 1..2 /\ d \in Addr /\ d \in Nat /\ d + n <= Size
  BY DEF CallTyped, Callable, Addr
<1>2. ASSUME NEW k \in 1..n PROVE At(d + k - 1) = d + k - 1
  <2> HIDE DEF n, d
  <2>1. d + k - 1 \in Addr
    BY <1>1, SizesGiven DEF Addr
  <2> QED BY <2>1, AtFits
<1>3. /\ Contents(c) = Flat([k \in 1..n |-> memory[At(d + k - 1)]])
      /\ CellsRead = [k \in 1..n |-> memory[d + k - 1]]
  BY DEF Contents, CellsRead
<1> HIDE DEF n, d
<1>4. [k \in 1..n |-> memory[At(d + k - 1)]] = [k \in 1..n |-> memory[d + k - 1]]
  BY <1>2
<1> QED BY ONLY <1>3, <1>4

\* A byte written is the cell of the call.
LEMMA WritesByte ==
  ASSUME call.op = "byte", CallTyped, KnownTyped, memory = kmemory, NEW y,
         call.val = <<[k \in 1..unit |-> y % 2]>>, NEW ok \in BOOLEAN,
         memory' = [memory EXCEPT ![At(call.at)] = IF ok THEN [k \in 1..unit |-> y % 2] ELSE @]
  PROVE  memory' = IF ok THEN Written ELSE kmemory
<1> DEFINE d == call.at
           x == [k \in 1..unit |-> y % 2]
<1>1. /\ d \in Addr /\ d \in Nat /\ At(d) = d /\ kmemory \in [Addr -> Items]
      /\ Len(call.val) = 1 /\ call.val[1] = x
  BY AtFits DEF CallTyped, Callable, KnownTyped, Addr
<1>2. memory' = [a \in Addr |-> IF a = d /\ ok THEN x ELSE kmemory[a]]
  <2>1. memory' = [kmemory EXCEPT ![d] = IF ok THEN x ELSE @]
    BY <1>1
  <2> HIDE DEF d, x
  <2> QED BY <1>1, <2>1
<1>3. Written = [a \in Addr |-> IF a = d THEN x ELSE kmemory[a]]
  <2>1. \A a \in Addr : (a \in d..(d + 1 - 1) <=> a = d) /\ (a = d => a - d + 1 = 1)
    BY <1>1 DEF Addr
  <2>2. Written = [a \in Addr |-> IF a \in d..(d + 1 - 1) THEN call.val[a - d + 1] ELSE kmemory[a]]
    BY <1>1 DEF Written
  <2> HIDE DEF d, x
  <2> QED BY <1>1, <2>1, <2>2
<1> HIDE DEF d, x
<1>4. CASE ok
  BY <1>2, <1>3, <1>4
<1>5. CASE ~ok
  BY <1>1, <1>2, <1>5
<1> QED BY <1>4, <1>5

\* What it was asked for when nothing comes before it.
LEMMA BoardFirst ==
  ASSUME GpioInv, BoardTakes, UNCHANGED hostVars, Silence, Len(taken) < 3,
         memory = kmemory, Leads(Line, 0, pins, kpins), Request(Line, 0)
  PROVE  Asked' \/ Replied'
<1> DEFINE c == Append(taken, Head(tx))
<1>1. tx # <<>> /\ tx' = Tail(tx) /\ out' = out /\ got' = got
      /\ UNCHANGED <<call, i, unit, recvbufsize>> /\ TypeOK /\ unit \in {1, 2} /\ CallTyped
      /\ KnownTyped /\ UNCHANGED <<kpins, kmemory>>
  BY BoardSplits DEF hostVars, GpioInv
<1>2. pins = kpins /\ kpins \in SUBSET Bits
  BY <1>1, NothingLeft DEF KnownTyped
<1>3. /\ c \in Seq(Byte) /\ Len(c) = Len(taken) + 1 /\ Len(c) <= Len(Line)
      /\ \A j \in 1..Len(c) : c[j] = Line[j]
      /\ taken' = c => Line' = Line
      /\ taken' = <<>> => Line' = From(Line, Len(c))
  BY <1>1, BoardReads
<1>4. Line \in Seq(Byte) /\ Len(Line) \in Nat /\ Len(taken) \in Nat
  BY <1>1, LineFacts
<1>5. c[1] = Line[1]
  BY <1>3, <1>4
<1>6. call.op = "page" => i = 0
  BY DEF Request
<1> HIDE DEF c
<1>7. ASSUME taken' = c, rx' = rx, pins' = pins, memory' = memory PROVE Asked'
  <2>1. Line' = Line /\ 0 \in 0..Len(Line') /\ Leads(Line', 0, pins', kpins)
    BY <1>2, <1>3, <1>4, <1>7, NothingLeft
  <2>2. Silence' /\ Len(taken') <= 3
    BY <1>1, <1>3, <1>4, <1>7 DEF Silence
  <2>3. Asking(call, unit * ChunkCells(0), Line', 0) /\ memory' = kmemory
    BY <1>7, <2>1 DEF Request
  <2> QED BY <1>1, <1>6, <2>1, <2>2, <2>3, AskedAgain
<1>8. ASSUME taken' = <<>>, Len(c) = Len(Line), NEW b \in Seq(Byte), rx' = rx \o b,
             Len(b) = Expected, call.op \in {"get", "read", "byte"}, pins' = pins,
             call.op = "get" => b = <<Hi(kpins), Lo(kpins)>>,
             call.op = "read" => \A j \in 1..Len(b) - 1 : b[j] = Flat(CellsRead)[j],
             memory' = IF call.op = "byte" /\ b[1] = RC_OK THEN Written ELSE kmemory
      PROVE  Replied'
  <2>1. tx' = <<>> /\ out' = <<>>
    <3>1. Len(Line) = Len(taken) + Len(tx) + Len(out) /\ Len(tx) \in Nat /\ Len(out) \in Nat
      BY <1>1, LineFacts
    <3>2. Len(tx) = 0 \/ (Len(tx) = 1 /\ Len(out) = 0)
      <4>1. Len(c) = Len(taken) + 1 /\ Len(c) = Len(Line)
        BY <1>3, <1>8
      <4>2. \A x, y, z \in Nat : x + 1 = x + y + z => y = 0 \/ (y = 1 /\ z = 0)
        OBVIOUS
      <4>3. Len(taken) + 1 = Len(taken) + Len(tx) + Len(out)
        BY ONLY <3>1, <4>1, Zenon
      <4> QED BY ONLY <1>4, <3>1, <4>2, <4>3, Zenon
    <3>3. tx \in Seq(Byte) /\ out \in Seq(Byte)
      BY <1>1 DEF TypeOK
    <3>4. Len(tx) # 0
      BY <1>1, <3>3
    <3>5. Len(Tail(tx)) = 0 /\ Tail(tx) \in Seq(Byte)
      BY <1>1, <3>2, <3>3, <3>4, HeadFirst
    <3> QED BY <1>1, <3>2, <3>3, <3>4, <3>5
  <2>2. Heard' = b
    <3>1. got' = <<>> /\ rx' = <<>> \o b
      BY <1>1, <1>8 DEF Silence
    <3>2. <<>> \o b = b
      BY <1>8, ConcatEmptySeq
    <3> QED BY <3>1, <3>2 DEF Heard
  <2>3. /\ Len(Heard') = Expected' /\ Written' = Written
        /\ Flat(CellsRead)' = Flat(CellsRead)
    BY <1>1, <1>8, <2>2, SameCall
  <2>4. call'.op = "get" => Heard' = <<Hi(kpins'), Lo(kpins')>>
    BY <1>1, <1>8, <2>2
  <2> QED BY <1>2, <1>1, <1>8, <2>1, <2>2, <2>3, <2>4 DEF Replied
<1>9. CASE call.op = "get"
  <2>1. Len(Line) = 1 /\ Line[1] = CMD_GET_PORT
    BY <1>9 DEF Request, Asking
  <2>2. Len(c) = 1
    BY <1>3, <1>4, <2>1
  <2>3. /\ taken' = <<>> /\ rx' = rx \o <<Hi(pins), Lo(pins)>>
        /\ pins' = pins /\ memory' = kmemory
    BY <1>5, <2>1, <2>2, BoardPort DEF c
  <2>4. <<Hi(pins), Lo(pins)>> \in Seq(Byte) /\ Len(<<Hi(pins), Lo(pins)>>) = 2
    BY NumberIsByte DEF Hi, Lo
  <2>5. Expected = 2
    BY <1>9 DEF Expected
  <2> HIDE DEF Expected
  <2> QED BY <1>2, <1>8, <1>9, <2>1, <2>2, <2>3, <2>4, <2>5
<1>10. CASE call.op \in {"read", "byte"}
  <2>1. /\ Len(Line) = 3 /\ Line[1] \in {CMD_READ_MEM, CMD_WRITE_BYTE} /\ Line[2] = call.at
        /\ call.op = "read" => Line[1] = CMD_READ_MEM /\ Line[3] % 8 = Len(call.val)
        /\ call.op = "byte" => /\ Line[1] = CMD_WRITE_BYTE
                               /\ call.val = <<[k \in 1..unit |-> Line[3] % 2]>>
    BY <1>10 DEF Request, Asking
  <2>2. /\ pins' = pins
        /\ IF Len(c) < 3 THEN taken' = c /\ rx' = rx /\ memory' = memory
           ELSE /\ taken' = <<>>
                /\ \E rc \in {RC_OK, RC_POLL_TIMEOUT} :
                     IF c[1] = CMD_WRITE_BYTE
                       THEN /\ rx' = rx \o <<rc>>
                            /\ memory' = [memory EXCEPT ![At(c[2])] =
                                 IF rc = RC_OK THEN [k \in 1..unit |-> c[3] % 2] ELSE @]
                       ELSE rx' = rx \o Append(Contents(c), rc) /\ memory' = memory
    BY <1>5, <2>1, BoardMemory DEF c
  <2>3. CASE Len(c) < 3
    BY <1>7, <2>2, <2>3
  <2>4. CASE ~(Len(c) < 3)
    <3>1. Len(c) = 3
      BY <1>3, <1>4, <2>1, <2>4
    <3>2. PICK rc \in {RC_OK, RC_POLL_TIMEOUT} :
            IF c[1] = CMD_WRITE_BYTE
              THEN /\ rx' = rx \o <<rc>>
                   /\ memory' = [memory EXCEPT ![At(c[2])] =
                        IF rc = RC_OK THEN [k \in 1..unit |-> c[3] % 2] ELSE @]
              ELSE rx' = rx \o Append(Contents(c), rc) /\ memory' = memory
      BY <2>2, <2>4
    <3>3. c[2] \in Byte /\ c[3] \in Byte /\ c[2] = Line[2] /\ c[3] = Line[3]
      <4>1. c \in Seq(Byte) /\ 2 \in 1..Len(c) /\ 3 \in 1..Len(c)
        <5>1. 2 \in 1..3 /\ 3 \in 1..3
          OBVIOUS
        <5> QED BY ONLY <1>3, <3>1, <5>1, Zenon
      <4>2. c[2] = Line[2] /\ c[3] = Line[3]
        BY <1>3, <4>1
      <4> QED BY ONLY <4>1, <4>2
    <3>4. rc \in Byte
      BY Codes
    <3>5. taken' = <<>> /\ Len(c) = Len(Line) /\ pins' = pins
      BY <2>1, <2>2, <2>4, <3>1
    <3>6. CASE call.op = "byte"
      <4>1. /\ rx' = rx \o <<rc>>
            /\ memory' = [memory EXCEPT ![At(call.at)] =
                 IF rc = RC_OK THEN [k \in 1..unit |-> Line[3] % 2] ELSE @]
        <5>1. c[1] = CMD_WRITE_BYTE
          BY <1>5, <2>1, <3>6
        <5> QED BY <2>1, <3>2, <3>3, <5>1
      <4>2. Expected = 1 /\ <<rc>> \in Seq(Byte) /\ Len(<<rc>>) = 1 /\ <<rc>>[1] = rc
        BY <3>4, <3>6 DEF Expected
      <4>3. memory' = IF rc = RC_OK THEN Written ELSE kmemory
        <5> DEFINE ok == rc = RC_OK
                   y == Line[3]
        <5>1. /\ ok \in BOOLEAN /\ call.val = <<[k \in 1..unit |-> y % 2]>>
              /\ memory' = [memory EXCEPT ![At(call.at)] =
                   IF ok THEN [k \in 1..unit |-> y % 2] ELSE @]
          BY <2>1, <3>6, <4>1
        <5> HIDE DEF ok, y
        <5>2. memory' = IF ok THEN Written ELSE kmemory
          BY <1>1, <3>6, <5>1, WritesByte
        <5> QED BY <5>2 DEF ok
      <4> HIDE DEF Expected
      <4> QED BY <1>8, <3>5, <3>6, <4>1, <4>2, <4>3
    <3>7. CASE call.op = "read"
      <4>1. rx' = rx \o Append(Contents(c), rc) /\ memory' = kmemory
        <5>1. c[1] = CMD_READ_MEM
          BY <1>5, <2>1, <3>7
        <5> QED BY <3>2, <5>1 DEF CMD_READ_MEM, CMD_WRITE_BYTE
      <4>2. Contents(c) \in Seq(Byte) /\ Len(Contents(c)) = unit * Len(call.val)
        BY <1>1, <2>1, <3>3, <3>7, ContentsFacts
      <4>3. Contents(c) = Flat(CellsRead)
        BY <1>1, <2>1, <3>3, <3>7, ReadsKnown
      <4>4. Expected = unit * Len(call.val) + 1
        BY <3>7 DEF Expected
      <4> DEFINE t == Contents(c)
                 b == Append(Contents(c), rc)
      <4> HIDE DEF Expected, t
      <4>5. /\ b \in Seq(Byte) /\ Len(b) = Len(t) + 1 /\ Len(t) \in Nat
            /\ \A j \in 1..Len(t) : b[j] = t[j]
        BY <3>4, <4>2, AppendProperties DEF t
      <4> HIDE DEF b
      <4>6. Len(b) = Expected /\ Len(b) - 1 = Len(t)
        BY <4>2, <4>4, <4>5 DEF t
      <4>7. \A j \in 1..Len(b) - 1 : b[j] = Flat(CellsRead)[j]
        BY <4>3, <4>5, <4>6 DEF t
      <4>8. rx' = rx \o b
        BY <4>1 DEF b
      <4> QED BY <1>8, <3>5, <3>7, <4>1, <4>5, <4>6, <4>7, <4>8
    <3> QED BY <1>10, <3>6, <3>7
  <2> QED BY <2>3, <2>4
<1>11. CASE call.op \in {"header", "page"}
  <2>1. Line[1] = CMD_WRITE_PAGE
    BY <1>11 DEF Request, Asking, Header
  <2>2. PICK rc \in {RC_OK, RC_POLL_TIMEOUT} : DoPage(c, rc)
    BY <1>5, <2>1, BoardPage DEF c
  <2>3. Len(c) <= 3
    BY <1>3, <1>4
  <2>4. taken' = c /\ rx' = rx /\ pins' = pins /\ memory' = memory
    BY <2>2, <2>3 DEF DoPage, Quiet
  <2> QED BY <1>7, <2>4
<1> QED BY <1>9, <1>10, <1>11 DEF Request, Asking

\* A chunk that follows the header is one of a page under way.
LEMMA PageBegins ==
  ASSUME GpioInv, Asked, call.op = "page", Len(taken) = 3
  PROVE  Paging
<1>1. /\ TypeOK /\ TakenOk /\ CallTyped /\ unit \in {1, 2}
  BY DEF GpioInv
<1>2. /\ Silence /\ memory = kmemory
      /\ \E q \in 0..Len(Line) : Leads(Line, q, pins, kpins) /\ Request(Line, q)
  BY DEF Asked
<1>3. PICK q \in 0..Len(Line) : Leads(Line, q, pins, kpins) /\ Request(Line, q)
  BY <1>2
<1>4. q = 0
  <2> SUFFICES ASSUME q # 0 PROVE FALSE
    OBVIOUS
  <2>1. q \in 1..Len(Line)
    BY <1>1, LineFacts
  <2>2. Len(taken) < 3
    BY <1>1, <1>3, <2>1, BegunShort
  <2> QED BY <2>2
<1>5. /\ Len(Line) = 0 + 3 + unit * ChunkCells(0) /\ Header(call, Line, 0) /\ i = 0
      /\ \A j \in 1..unit * ChunkCells(0) : Line[0 + 3 + j] = Flat(call.val)[j]
  BY <1>3, <1>4 DEF Request, Asking
<1>6. /\ Len(call.val) \in 1..Size /\ 0 < Len(call.val) /\ ChunkCells(0) \in Nat
      /\ unit * ChunkCells(0) \in Nat
  <2>1. Len(call.val) \in 1..Size /\ 0 < Len(call.val)
    BY <1>1 DEF CallTyped, Callable
  <2>2. ChunkCells(0) \in Nat
    BY <1>1, <2>1, ChunkFacts
  <2>3. \A x \in Nat : unit * x \in Nat
    BY <1>1
  <2> QED BY <2>1, <2>2, <2>3
<1>7. pins = kpins
  BY <1>3, <1>4, NothingLeft
<1>8. \A j \in 1..Len(Line) - 3 : Line[3 + j] = Flat(call.val)[j]
  <2> DEFINE n == unit * ChunkCells(0)
             s == Line
  <2>1. n \in Nat /\ Len(s) = 0 + 3 + n /\ \A j \in 1..n : s[0 + 3 + j] = Flat(call.val)[j]
    BY <1>5, <1>6
  <2> HIDE DEF n, s
  <2>2. \A j \in 1..Len(s) - 3 : s[3 + j] = Flat(call.val)[j]
    <3> SUFFICES ASSUME NEW j \in 1..Len(s) - 3 PROVE s[3 + j] = Flat(call.val)[j]
      OBVIOUS
    <3>1. j \in 1..n /\ 0 + 3 + j = 3 + j
      BY <2>1
    <3> QED BY <2>1, <3>1
  <2> QED BY <2>2 DEF s
<1>9. InPage(0, 0)
  <2>1. Heard = <<>> /\ Len(Heard) = 0
    <3>1. <<>> \o <<>> = <<>> /\ Len(<<>>) = 0
      OBVIOUS
    <3> QED BY <1>2, <3>1 DEF Heard, Silence
  <2>2. Len(taken) = 3 + unit * 0 + 0 /\ 0 < unit
    BY <1>1
  <2>3. Len(taken) + Len(tx) + Len(out) = 3 + unit * (i + ChunkCells(i))
    <3>1. i + ChunkCells(i) = ChunkCells(0)
      BY <1>5, <1>6
    <3>2. Len(Line) = Len(taken) + Len(tx) + Len(out)
      BY <1>1, LineFacts
    <3> QED BY <1>5, <3>1, <3>2
  <2>4. i <= 0 /\ 0 < Len(call.val) /\ Len(Heard) = 0 - i
        /\ \A j \in 1..Len(Heard) : Heard[j] = RC_NEXT
    BY <1>5, <1>6, <2>1
  <2>5. memory = FirstWritten(0)
    <3>1. FirstWritten(0) = kmemory
      BY <1>1, NoneWritten DEF GpioInv
    <3> QED BY <1>2, <3>1
  <2> QED BY <2>2, <2>3, <2>4, <2>5 DEF InPage
<1>10. 0 \in 0..Size /\ 0 \in 0..1
  BY SizesGiven
<1> QED BY <1>5, <1>7, <1>8, <1>9, <1>10 DEF Paging

LEMMA HeardMore ==
  ASSUME TypeOK, NEW x \in Byte, got' = got, Says(<<x>>)
  PROVE  /\ Len(Heard') = Len(Heard) + 1 /\ Heard'[Len(Heard) + 1] = x
         /\ \A j \in 1..Len(Heard) : Heard'[j] = Heard[j]
         /\ Len(Heard) \in Nat
<1> DEFINE h == Heard
<1>1. got \in Seq(Byte) /\ rx \in Seq(Byte) /\ <<x>> \in Seq(Byte)
  BY DEF TypeOK
<1>2. got \o (rx \o <<x>>) = (got \o rx) \o <<x>>
  <2> DEFINE y == <<x>>
  <2>1. got \in Seq(Byte) /\ rx \in Seq(Byte) /\ y \in Seq(Byte)
    BY <1>1
  <2> HIDE DEF y
  <2>2. got \o (rx \o y) = (got \o rx) \o y
    BY ONLY <2>1, ConcatAssociative, SMTT(30)
  <2> QED BY <2>2 DEF y
<1>3. h \in Seq(Byte)
  BY LineFacts
<1>4. Heard' = h \o <<x>>
  BY <1>2 DEF Says, Heard
<1> HIDE DEF h
<1>5. h \o <<x>> = Append(h, x)
  BY <1>3, AppendIsConcat
<1>6. /\ Len(Append(h, x)) = Len(h) + 1 /\ Append(h, x)[Len(h) + 1] = x
      /\ \A j \in 1..Len(h) : Append(h, x)[j] = h[j]
      /\ Len(h) \in Nat
  BY <1>3, AppendProperties
<1> QED BY <1>4, <1>5, <1>6 DEF h

\* The cell whose last byte comes is put where it belongs.
LEMMA NextWritten ==
  ASSUME CallTyped, KnownTyped, call.op = "page", NEW m \in Nat, m < Len(call.val)
  PROVE  /\ At(call.at + m) = call.at + m
         /\ [FirstWritten(m) EXCEPT ![call.at + m] = call.val[m + 1]] = FirstWritten(m + 1)
         /\ m + 1 = Len(call.val) => FirstWritten(m + 1) = Written
<1> DEFINE d == call.at
           v == call.val
           n == Len(call.val)
<1>1. /\ d \in Addr /\ d \in Nat /\ n \in Nat /\ d + n <= Size /\ m \in Nat /\ m < n
      /\ \A a \in Addr : a \in Nat
  BY DEF CallTyped, Callable, Addr
<1>2. FirstWritten(m) = [a \in Addr |-> IF a \in d..(d + m - 1) THEN v[a - d + 1] ELSE kmemory[a]]
  BY DEF FirstWritten
<1>3. FirstWritten(m + 1) = [a \in Addr |-> IF a \in d..(d + (m + 1) - 1) THEN v[a - d + 1] ELSE kmemory[a]]
  BY DEF FirstWritten
<1>4. Written = [a \in Addr |-> IF a \in d..(d + n - 1) THEN v[a - d + 1] ELSE kmemory[a]]
  BY DEF Written
<1> HIDE DEF d, v, n
<1>5. d + m \in Addr /\ (d + m) - d + 1 = m + 1
  BY <1>1, SizesGiven DEF Addr
<1>6. At(d + m) = d + m
  BY <1>5, AtFits
<1>7. [FirstWritten(m) EXCEPT ![d + m] = v[m + 1]] = FirstWritten(m + 1)
  <2>1. \A a \in Addr : a # d + m => (a \in d..(d + m - 1) <=> a \in d..(d + (m + 1) - 1))
    BY <1>1
  <2>2. d + m \in d..(d + (m + 1) - 1)
    BY <1>1
  <2> QED BY <1>2, <1>3, <1>5, <2>1, <2>2
<1>8. m + 1 = n => FirstWritten(m + 1) = Written
  BY <1>3, <1>4
<1> QED BY <1>6, <1>7, <1>8 DEF d, v, n

\* And it is a cell of the page.
LEMMA CellTaken ==
  ASSUME unit \in {1, 2}, NEW v \in Seq(Items), NEW m \in Nat, m < Len(v),
         NEW c, Len(c) = 3 + unit * (m + 1),
         \A j \in 1..unit : c[3 + unit * m + j] = Flat(v)[unit * m + j]
  PROVE  [j \in 1..unit |-> c[Len(c) - unit + j] % 2] = v[m + 1]
<1> DEFINE w == unit * m
<1>1. w \in Nat /\ unit * (m + 1) = w + unit
  <2>1. CASE unit = 1
    BY <2>1
  <2>2. CASE unit = 2
    BY <2>2
  <2> QED BY <2>1, <2>2
<1>2. v[m + 1] \in [1..unit -> Bit]
  BY DEF Items
<1>3. ASSUME NEW j \in 1..unit PROVE c[Len(c) - unit + j] % 2 = v[m + 1][j]
  <2>1. c[3 + w + j] = v[m + 1][j]
    BY FlatCell
  <2> HIDE DEF w
  <2>2. Len(c) - unit + j = 3 + w + j
    BY <1>1
  <2>3. v[m + 1][j] \in {0, 1}
    BY <1>2 DEF Bit
  <2>4. \A x \in {0, 1} : x % 2 = x
    OBVIOUS
  <2> QED BY <2>1, <2>2, <2>3, <2>4
<1> QED BY <1>2, <1>3

LEMMA BoardPages ==
  ASSUME GpioInv, BoardTakes, UNCHANGED hostVars, Paging
  PROVE  Paging' \/ PageOver'
<1> DEFINE c == Append(taken, Head(tx))
           k == ChunkCells(i)
           n == Len(call.val)
<1>1. /\ tx # <<>> /\ tx' = Tail(tx) /\ out' = out /\ got' = got
      /\ UNCHANGED <<call, i, unit, recvbufsize, kpins, kmemory>>
      /\ TypeOK /\ unit \in {1, 2} /\ CallTyped /\ KnownTyped
  BY BoardSplits DEF hostVars, GpioInv
<1>2. /\ c \in Seq(Byte) /\ Len(c) = Len(taken) + 1 /\ Len(c) <= Len(Line)
      /\ \A j \in 1..Len(c) : c[j] = Line[j]
      /\ Len(tx') = Len(tx) - 1 /\ \A j \in 1..Len(tx') : tx'[j] = tx[j + 1]
      /\ taken' = c => Line' = Line
  BY <1>1, BoardReads
<1>3. /\ call.op = "page" /\ Len(taken) >= 3 /\ Header(call, Line, 0) /\ pins = kpins
      /\ \A j \in 1..Len(Line) - 3 : Line[3 + j] = Flat(call.val)[j]
  BY DEF Paging
<1>4. PICK m \in 0..Size, r \in 0..1 : InPage(m, r)
  BY DEF Paging
<1>5. /\ Len(taken) = 3 + unit * m + r /\ r < unit /\ i <= m /\ m < n
      /\ Len(taken) + Len(tx) + Len(out) = 3 + unit * (i + k)
      /\ Len(Heard) = m - i /\ \A j \in 1..Len(Heard) : Heard[j] = RC_NEXT
      /\ m \in Nat /\ r \in {0, 1} /\ memory = FirstWritten(m)
  BY <1>4 DEF InPage
<1>6. /\ Len(taken) \in Nat /\ Len(tx) \in Nat /\ Len(out) \in Nat /\ Len(Heard) \in Nat
      /\ i \in Nat /\ n \in 1..Size /\ n \in Nat /\ k \in Nat \ {0} /\ Size \in Nat
  <2>1. /\ i \in Nat /\ n \in 1..Size /\ n \in Nat /\ i < n
    BY <1>1, <1>3, PageFacts
  <2>2. k \in Nat \ {0}
    BY <1>1, <2>1, ChunkFacts
  <2>3. Size \in Nat
    BY SizesGiven
  <2>4. Len(taken) \in Nat /\ Len(tx) \in Nat /\ Len(out) \in Nat
    BY <1>1, LineFacts
  <2>5. Len(Heard) \in Nat
    BY <1>1, LineFacts
  <2> QED BY <2>1, <2>2, <2>3, <2>4, <2>5
<1>7. /\ c[1] = CMD_WRITE_PAGE /\ c[2] = call.at /\ PageCells(c) = n
      /\ \A j \in 4..Len(c) : c[j] = Flat(call.val)[j - 3]
  <2>1. 1 \in 1..Len(c) /\ 2 \in 1..Len(c) /\ 3 \in 1..Len(c) /\ Len(c) \in Nat
    BY <1>2, <1>3, <1>6
  <2>2. c[1] = Line[1] /\ c[2] = Line[2] /\ c[3] = Line[3] /\ 0 + 1 = 1 /\ 0 + 2 = 2 /\ 0 + 3 = 3
    BY <1>2, <2>1
  <2>3. c[1] = CMD_WRITE_PAGE /\ c[2] = call.at
    BY <1>3, <2>2 DEF Header
  <2>4. PageCells(c) = n
    <3>1. 2^(Line[3] % 4) = n
      BY <1>3, <2>2 DEF Header
    <3> QED BY <2>2, <3>1 DEF PageCells
  <2>5. ASSUME NEW j \in 4..Len(c) PROVE c[j] = Flat(call.val)[j - 3]
    <3> HIDE DEF c
    <3>1. Len(Line) \in Nat
      BY <1>1, LineFacts
    <3>2. j \in 1..Len(c) /\ j - 3 \in 1..Len(Line) - 3 /\ 3 + (j - 3) = j
      BY <1>2, <2>1, <3>1
    <3> HIDE DEF Line
    <3>3. Line[3 + (j - 3)] = Flat(call.val)[j - 3]
      BY <1>3, <3>2
    <3> QED BY <1>2, <3>2, <3>3
  <2> QED BY <2>3, <2>4, <2>5
<1>8. PICK rc \in {RC_OK, RC_POLL_TIMEOUT} : DoPage(c, rc)
  BY <1>7, BoardPage
<1>9. /\ ChunkCells(i)' = k /\ call'.op = "page" /\ Len(call'.val) = n /\ Written' = Written
      /\ \A l : FirstWritten(l)' = FirstWritten(l)
      /\ Flat(call.val)' = Flat(call.val)
  BY <1>1, <1>3, SameCall
<1>10. /\ \A j \in 1..Len(tx') : tx'[j] \in Bit
       /\ \A j \in 1..Len(out') : out'[j] \in Bit
  <2> DEFINE f == Flat(call.val)
             s == Line
             t == Len(taken)
             u == unit * (i + k)
  <2>1. /\ Len(s) = t + Len(tx) + Len(out) /\ Len(s) = 3 + u
        /\ \A j \in 1..Len(tx) : s[t + j] = tx[j]
        /\ \A j \in 1..Len(out) : s[t + Len(tx) + j] = out[j]
        /\ \A j \in 1..Len(s) - 3 : s[3 + j] = f[j]
        /\ t \in Nat /\ t >= 3
    BY <1>1, <1>3, <1>5, <1>6, LineFacts
  <2>2. u \in Nat /\ u <= Len(f) /\ f \in Seq(Bit)
    <3>1. i + k <= n /\ call.val \in Seq(Items)
      BY <1>1, <1>3, PageFacts
    <3>2. f \in Seq(Bit) /\ Len(f) = unit * n
      BY <1>1, <3>1, FlatFacts
    <3> HIDE DEF f, n, k
    <3>3. CASE unit = 1
      BY <1>6, <3>1, <3>2, <3>3
    <3>4. CASE unit = 2
      BY <1>6, <3>1, <3>2, <3>4
    <3> QED BY <1>1, <3>3, <3>4
  <2> HIDE DEF f, s, t, u
  <2>3. \A j \in 4..Len(s) : s[j] \in Bit
    <3> SUFFICES ASSUME NEW j \in 4..Len(s) PROVE s[j] \in Bit
      OBVIOUS
    <3>1. j - 3 \in 1..Len(s) - 3 /\ 3 + (j - 3) = j /\ j - 3 \in 1..Len(f)
      BY <2>1, <2>2
    <3>2. s[j] = f[j - 3]
      BY ONLY <2>1, <3>1
    <3> QED BY ONLY <2>2, <3>1, <3>2
  <2>4. ASSUME NEW j \in 1..Len(tx') PROVE tx'[j] \in Bit
    <3>1. /\ j + 1 \in 1..Len(tx) /\ tx'[j] = tx[j + 1] /\ t + (j + 1) \in 4..Len(s)
      BY <1>2, <1>6, <2>1, SMTT(30)
    <3> QED BY ONLY <2>1, <2>3, <3>1
  <2>5. ASSUME NEW j \in 1..Len(out') PROVE out'[j] \in Bit
    <3>1. j \in 1..Len(out) /\ t + Len(tx) + j \in 4..Len(s) /\ out'[j] = out[j]
      BY <1>1, <1>6, <2>1, SMTT(30)
    <3> QED BY ONLY <2>1, <2>3, <3>1
  <2> QED BY <2>4, <2>5
<1>11. Len(c) + Len(tx') + Len(out') = 3 + unit * (i + k)
  <2>1. Len(out') = Len(out)
    BY <1>1
  <2>2. (Len(taken) + 1) + (Len(tx) - 1) + Len(out) = Len(taken) + Len(tx) + Len(out)
    BY <1>6
  <2> QED BY ONLY <1>2, <1>5, <2>1, <2>2
<1> HIDE DEF c, k, n
 \* What a page that goes on has to show.
<1>12. ASSUME taken' = c, NEW m1 \in 0..Size, NEW r1 \in 0..1, InPage(m1, r1)'
       PROVE  Paging'
  <2>1. Len(taken') >= 3 /\ pins' = kpins' /\ Line' = Line
    <3>1. pins' = pins
      BY <1>8 DEF DoPage, Quiet
    <3> QED BY <1>1, <1>2, <1>3, <1>6, <1>12, <3>1
  <2>2. Header(call', Line', 0)
    BY <1>1, <1>3, <2>1
  <2> QED BY <1>3, <1>9, <1>12, <2>1, <2>2 DEF Paging
<1>13. CASE r + 1 # unit
  <2>1. unit = 2 /\ r = 0 /\ Len(c) = 3 + 2 * m + 1
    <3>1. unit = 2 /\ r = 0
      BY ONLY <1>1, <1>5, <1>13, r \in 0..1
    <3>2. Len(taken) = 3 + 2 * m + 0
      BY <1>5, <3>1
    <3>3. Len(taken) + 1 = 3 + 2 * m + 1
      BY ONLY <1>5, <3>2, m \in 0..Size, SizesGiven, SMTT(30)
    <3> QED BY <1>2, <3>1, <3>3
  <2>2. (Len(c) - 3) % unit # 0
    BY <1>5, <2>1
  <2>3. taken' = c /\ rx' = rx /\ memory' = memory
    BY <1>8, <2>2 DEF DoPage, Quiet
  <2>4. Heard' = Heard
    BY <1>1, <2>3 DEF Heard
  <2>5. InPage(m, 1)'
    <3>1. Len(taken') = 3 + unit' * m + 1 /\ 1 < unit'
      BY <1>1, <2>1, <2>3
    <3>2. Len(taken') + Len(tx') + Len(out') = 3 + unit' * (i' + ChunkCells(i)')
      BY <1>1, <1>9, <1>11, <2>3
    <3>3. /\ i' <= m /\ m < Len(call'.val) /\ Len(Heard') = m - i'
          /\ \A j \in 1..Len(Heard') : Heard'[j] = RC_NEXT
      BY <1>1, <1>5, <1>9, <2>4
    <3>4. memory' = FirstWritten(m)'
      BY <1>5, <1>9, <2>3
    <3> QED BY <3>1, <3>2, <3>3, <3>4 DEF InPage
  <2>6. 1 \in 0..1
    OBVIOUS
  <2> QED BY <1>12, <2>3, <2>5, <2>6
<1>14. CASE r + 1 = unit
  <2>1. Len(c) = 3 + unit * (m + 1)
    <3>1. CASE unit = 1
      BY ONLY <1>2, <1>5, <1>14, <3>1
    <3>2. CASE unit = 2
      BY ONLY <1>2, <1>5, <1>14, <3>2
    <3> QED BY <1>1, <3>1, <3>2
  <2>2. /\ ~(Len(c) <= 3) /\ (Len(c) - 3) % unit = 0 /\ (Len(c) - 3) \div unit = m + 1
    <3>1. CASE unit = 1
      BY <1>5, <2>1, <3>1
    <3>2. CASE unit = 2
      BY <1>5, <2>1, <3>2
    <3> QED BY <1>1, <3>1, <3>2
  <2>3. \/ m + 1 # n /\ taken' = c /\ Says(<<RC_NEXT>>) /\ memory' = FirstWritten(m + 1)
        \/ /\ taken' = <<>> /\ rc # RC_NEXT /\ Says(<<rc>>) /\ pins' = pins
           /\ IF rc = RC_OK THEN memory' = Written ELSE memory' = FirstWritten(m)
    <3> DEFINE cell == [j \in 1..unit |-> c[Len(c) - unit + j] % 2]
    <3>1. cell = call.val[m + 1]
      <4>1. call.val \in Seq(Items) /\ m < Len(call.val)
        BY <1>1, <1>3, <1>5, PageFacts DEF n
      <4>2. ASSUME NEW j \in 1..unit PROVE c[3 + unit * m + j] = Flat(call.val)[unit * m + j]
        <5> DEFINE w == unit * m
        <5>1. w \in Nat /\ unit * (m + 1) = w + unit
          <6>1. CASE unit = 1
            BY <1>5, <6>1
          <6>2. CASE unit = 2
            BY <1>5, <6>2
          <6> QED BY <1>1, <6>1, <6>2
        <5> HIDE DEF w
        <5>2. 3 + w + j \in 4..Len(c) /\ (3 + w + j) - 3 = w + j
          BY <1>1, <2>1, <5>1
        <5>3. c[3 + w + j] = Flat(call.val)[w + j]
          BY <1>7, <5>2
        <5> QED BY <5>3 DEF w
      <4> QED BY <1>1, <1>5, <2>1, <4>1, <4>2, CellTaken, ZenonT(30)
    <3>2. /\ At(c[2] + (m + 1) - 1) = call.at + m
          /\ [FirstWritten(m) EXCEPT ![call.at + m] = call.val[m + 1]] = FirstWritten(m + 1)
          /\ m + 1 = n => FirstWritten(m + 1) = Written
      <4>1. /\ At(call.at + m) = call.at + m
            /\ [FirstWritten(m) EXCEPT ![call.at + m] = call.val[m + 1]] = FirstWritten(m + 1)
            /\ m + 1 = n => FirstWritten(m + 1) = Written
        BY <1>1, <1>3, <1>5, NextWritten DEF n
      <4>2. c[2] + (m + 1) - 1 = call.at + m
        <5>1. call.at \in Nat
          BY <1>1 DEF CallTyped, Callable, Shaped
        <5> QED BY <1>5, <1>7, <5>1
      <4> QED BY <4>1, <4>2
    <3>3. /\ pins' = pins
          /\ IF rc = RC_OK
               THEN /\ memory' = [memory EXCEPT ![At(c[2] + (m + 1) - 1)] = cell]
                    /\ IF m + 1 = n THEN taken' = <<>> /\ Says(<<RC_OK>>)
                                    ELSE taken' = c /\ Says(<<RC_NEXT>>)
               ELSE taken' = <<>> /\ Says(<<rc>>) /\ memory' = memory
      BY <1>7, <1>8, <2>2 DEF DoPage
    <3> HIDE DEF cell
    <3>4. rc = RC_OK => memory' = FirstWritten(m + 1)
      BY <1>5, <3>1, <3>2, <3>3
    <3>5. rc # RC_NEXT
      BY Codes
    <3> QED BY <1>5, <3>2, <3>3, <3>4, <3>5
  <2>4. CASE m + 1 # n /\ taken' = c /\ Says(<<RC_NEXT>>) /\ memory' = FirstWritten(m + 1)
    <3>1. /\ Len(Heard') = Len(Heard) + 1 /\ Heard'[Len(Heard) + 1] = RC_NEXT
          /\ \A j \in 1..Len(Heard) : Heard'[j] = Heard[j]
      BY <1>1, <2>4, HeardMore, Codes
    <3>2. Len(Heard') = (m + 1) - i /\ i <= m + 1 /\ m + 1 < n /\ m + 1 \in 0..Size
      BY ONLY <1>5, <1>6, <2>4, <3>1
    <3>3. \A j \in 1..Len(Heard') : Heard'[j] = RC_NEXT
      <4> SUFFICES ASSUME NEW j \in 1..Len(Heard') PROVE Heard'[j] = RC_NEXT
        OBVIOUS
      <4>1. j \in 1..Len(Heard) \/ j = Len(Heard) + 1
        BY <1>6, <3>1
      <4> QED BY <1>5, <3>1, <4>1
    <3>4. InPage(m + 1, 0)'
      <4>1. Len(taken') = 3 + unit' * (m + 1) + 0 /\ 0 < unit'
        <5>1. unit' = unit /\ Len(taken') = 3 + unit * (m + 1)
          BY <1>1, <2>1, <2>4
        <5>2. unit * (m + 1) \in Nat
          BY <1>1, <1>5
        <5> QED BY <1>1, <5>1, <5>2
      <4>2. Len(taken') + Len(tx') + Len(out') = 3 + unit' * (i' + ChunkCells(i)')
        BY <1>1, <1>9, <1>11, <2>4
      <4>3. i' <= m + 1 /\ m + 1 < Len(call'.val) /\ Len(Heard') = (m + 1) - i'
        BY <1>1, <1>9, <3>2
      <4>4. memory' = FirstWritten(m + 1)'
        BY <1>9, <2>4
      <4> QED BY <3>3, <4>1, <4>2, <4>3, <4>4 DEF InPage
    <3>5. 0 \in 0..1
      OBVIOUS
    <3> QED BY <1>12, <2>4, <3>2, <3>4, <3>5
  <2>5. CASE /\ taken' = <<>> /\ rc # RC_NEXT /\ Says(<<rc>>) /\ pins' = pins
             /\ IF rc = RC_OK THEN memory' = Written ELSE memory' = FirstWritten(m)
    <3>1. rc \in Byte
      BY Codes
    <3>2. Len(Heard') = Len(Heard) + 1 /\ Heard'[Len(Heard) + 1] = rc
      BY <1>1, <2>5, <3>1, HeardMore
    <3>3. Len(Heard') > 0 /\ Heard'[Len(Heard')] = rc /\ rc # RC_NEXT
      BY <1>6, <2>5, <3>2
    <3>4. Len(tx') + Len(out') <= unit' * (ChunkCells(i)' - Len(Heard'))
      <4>1. Len(Heard') = (m + 1) - i
        BY <1>5, <1>6, <3>2
      <4>2. Len(tx') + Len(out') = unit * (i + k) - unit * (m + 1)
        <5> DEFINE d == unit * (i + k)
                   e == unit * (m + 1)
        <5>1. d \in Nat /\ e \in Nat
          BY <1>1, <1>5, <1>6
        <5>2. Len(tx') \in Nat /\ Len(out') \in Nat
          <6>1. tx' \in Seq(Byte) /\ out' \in Seq(Byte)
            BY <1>1, BoardReads DEF TypeOK
          <6> QED BY <6>1
        <5>3. 3 + e + Len(tx') + Len(out') = 3 + d
          BY <1>11, <2>1
        <5> HIDE DEF d, e
        <5>4. Len(tx') + Len(out') = d - e
          BY ONLY <5>1, <5>2, <5>3
        <5> QED BY <5>4 DEF d, e
      <4>3. unit * (i + k) - unit * (m + 1) = unit * (k - ((m + 1) - i))
        <5>1. CASE unit = 1
          BY ONLY <1>5, <1>6, <5>1
        <5>2. CASE unit = 2
          BY ONLY <1>5, <1>6, <5>2
        <5> QED BY <1>1, <5>1, <5>2
      <4>4. unit * (k - ((m + 1) - i)) \in Int
        BY <1>1, <1>5, <1>6
      <4>5. Len(tx') + Len(out') = unit' * (ChunkCells(i)' - Len(Heard'))
        BY <1>1, <1>9, <4>1, <4>2, <4>3
      <4> QED BY <1>1, <1>9, <4>1, <4>2, <4>3, <4>4, <4>5
    <3>5. IF rc = RC_OK THEN memory' = Written'
          ELSE \E l \in 0..(Len(call'.val) - 1) : memory' = FirstWritten(l)'
      <4>1. CASE rc = RC_OK
        BY <1>9, <2>5, <4>1
      <4>2. CASE rc # RC_OK
        <5>1. memory' = FirstWritten(m)' /\ m \in 0..(Len(call'.val) - 1)
          BY <1>1, <1>5, <1>6, <1>9, <2>5, <4>2 DEF n
        <5> QED BY <4>2, <5>1
      <4> QED BY <4>1, <4>2
    <3>6. pins' = kpins'
      BY <1>1, <1>3, <2>5
    <3> QED BY <1>9, <1>10, <2>5, <3>3, <3>4, <3>5, <3>6 DEF PageOver
  <2> QED BY <2>3, <2>4, <2>5
<1> QED BY <1>13, <1>14

\* Bytes that come after the end of a page are commands it does not know.
LEMMA BoardDrops ==
  ASSUME GpioInv, BoardTakes, UNCHANGED hostVars, PageOver
  PROVE  PageOver'
<1> DEFINE c == Append(taken, Head(tx))
<1>1. /\ tx # <<>> /\ tx' = Tail(tx) /\ out' = out /\ got' = got
      /\ UNCHANGED <<call, i, unit, recvbufsize, kpins, kmemory>>
      /\ TypeOK /\ CallTyped /\ unit \in {1, 2}
  BY BoardSplits DEF hostVars, GpioInv
<1>2. /\ c \in Seq(Byte) /\ Len(c) = Len(taken) + 1 /\ c[Len(c)] = tx[1]
      /\ Len(tx') = Len(tx) - 1 /\ \A j \in 1..Len(tx') : tx'[j] = tx[j + 1]
  BY <1>1, BoardReads
<1>3. /\ call.op = "page" /\ taken = <<>>
      /\ \A j \in 1..Len(tx) : tx[j] \in Bit
      /\ \A j \in 1..Len(out) : out[j] \in Bit
  BY DEF PageOver
<1>4. Len(tx) \in Nat \ {0} /\ Len(out) \in Nat
  <2>1. tx \in Seq(Byte) /\ out \in Seq(Byte)
    BY <1>1 DEF TypeOK
  <2> QED BY <1>1, <2>1
<1>5. Len(c) = 1 /\ c[1] \in Bit
  <2>1. Len(<<>>) = 0 /\ 1 \in 1..Len(tx)
    BY <1>4
  <2>2. Len(c) = 1
    BY <1>2, <1>3, <2>1
  <2> QED BY <1>2, <1>3, <2>1, <2>2
<1>6. taken' = <<>> /\ rx' = rx /\ memory' = memory /\ pins' = pins
  <2>1. taken' = <<>> /\ rx' = rx /\ memory' = memory /\ pins' = AfterOne(pins, c[1])
    BY <1>5, BoardOne
  <2>2. \A b \in Bit : AfterOne(pins, b) = pins
    BY DEF Bit, AfterOne, CMD_SETB4, CMD_CLRB4
  <2> QED BY <1>5, <2>1, <2>2
<1>7. Heard' = Heard /\ taken' = taken
  BY <1>1, <1>3, <1>6 DEF Heard
<1>8. ASSUME NEW j \in 1..Len(tx') PROVE tx'[j] \in Bit
  <2>1. j + 1 \in 1..Len(tx) /\ tx'[j] = tx[j + 1]
    BY <1>2, <1>4
  <2> QED BY <1>3, <2>1
<1>9. /\ Len(tx') + Len(out') <= Len(tx) + Len(out) /\ Len(tx) + Len(out) \in Nat
      /\ Len(tx') + Len(out') \in Nat
  BY <1>1, <1>2, <1>4
<1>10. unit * (ChunkCells(i) - Len(Heard)) \in Int
  BY <1>1, <1>3, PageFacts
<1>11. \A j \in 1..Len(out') : out'[j] \in Bit
  BY <1>1, <1>3
<1> QED BY <1>1, <1>6, <1>7, <1>8, <1>9, <1>10, <1>11, StaysOver

LEMMA BoardStep ==
  ASSUME GpioInv, BoardGoesOn
  PROVE  GpioInv'
<1>1. /\ BoardTakes /\ UNCHANGED hostVars /\ tx # <<>> /\ tx' = Tail(tx)
      /\ UNCHANGED <<fd, pc, out, need, got, unit>>
      /\ UNCHANGED <<call, i, recvbufsize, lost, kpins, kmemory>>
      /\ TypeOK /\ CallTyped /\ KnownTyped /\ Placed /\ Outside /\ TakenOk /\ InStep /\ unit \in {1, 2}
  BY BoardSplits DEF BoardGoesOn, GpioInv, hostVars
<1>2. TypeOK'
  <2>1. /\ tx' \in Seq(Byte) /\ rx' \in Seq(Byte) /\ taken' \in Seq(Byte)
        /\ pins' \in SUBSET Bits /\ memory' \in [Addr -> Items]
    BY <1>1, BoardTypes
  <2>2. Items' = Items
    BY <1>1 DEF Items
  <2> QED BY <1>1, <2>1, <2>2 DEF TypeOK
<1>3. CallTyped' /\ KnownTyped' /\ Placed' /\ Outside'
  <2>1. CallTyped' /\ KnownTyped' /\ Expected' = Expected /\ ChunkCells(i)' = ChunkCells(i)
    BY <1>1, SameCall
  <2>2. Placed'
    BY <1>1, <2>1 DEF Placed
  <2>3. Outside'
    BY <1>1 DEF Outside
  <2> QED BY <2>1, <2>2, <2>3
<1>4. TakenOk'
  <2> DEFINE c == Append(taken, Head(tx))
  <2>1. \/ taken' = <<>>
        \/ c[1] \in LongCommands /\ Len(c) < 3 /\ taken' = c
        \/ c[1] = CMD_WRITE_PAGE /\ \E rc \in {RC_OK, RC_POLL_TIMEOUT} : DoPage(c, rc)
    BY <1>1, BoardCases
  <2>2. \A rc : DoPage(c, rc) => taken' = c \/ taken' = <<>>
    <3> HIDE DEF c
    <3> QED BY DEF DoPage
  <2>3. c[1] = CMD_WRITE_PAGE => c[1] \notin LongCommands
    BY Kinds
  <2> HIDE DEF c
  <2> QED BY <2>1, <2>2, <2>3 DEF TakenOk
<1>5. ASSUME ~lost PROVE NothingAsked' \/ Asked' \/ Replied' \/ Paging' \/ PageOver'
  <2>1. /\ Line \in Seq(Byte) /\ Len(Line) \in Nat
        /\ Len(Line) = Len(taken) + Len(tx) + Len(out)
        /\ Len(taken) \in Nat /\ Len(out) \in Nat
    BY <1>1, LineFacts
  <2>2. Len(tx) \in Nat \ {0} /\ Len(Line) > Len(taken)
    <3>1. tx \in Seq(Byte)
      BY <1>1 DEF TypeOK
    <3>2. Len(tx) \in Nat \ {0}
      BY <1>1, <3>1
    <3> QED BY <2>1, <3>2
  <2>3. CASE NothingAsked
    <3> DEFINE z == Effect(call, kpins)
    <3>1. /\ Len(Line) \in 1..Len(Line) /\ Leads(Line, Len(Line), pins, z) /\ Silence
          /\ memory = kmemory
      BY <2>1, <2>2, <2>3 DEF NothingAsked, Silence
    <3>2. z' = z
      BY <1>1, SameCall
    <3> HIDE DEF z
    <3>3. PICK k \in 0..Len(Line) : Line' = From(Line, k) /\ Leads(Line', Len(Line) - k, pins', z)
      BY <1>1, <3>1, BoardPasses
    <3>4. rx' = rx /\ memory' = memory
      BY <1>1, <3>1, BoardPasses
    <3>5. Len(Line') = Len(Line) - k
      BY <2>1, <3>3, PartFacts
    <3>6. Silence' /\ Leads(Line', Len(Line'), pins', z')
      BY <1>1, <3>1, <3>2, <3>3, <3>4, <3>5 DEF Silence
    <3> QED BY <1>1, <2>3, <3>1, <3>4, <3>6 DEF NothingAsked, z
  <2>4. CASE Asked
    <3>1. PICK q \in 0..Len(Line) : Leads(Line, q, pins, kpins) /\ Request(Line, q)
      BY <2>4 DEF Asked
    <3>2. Silence /\ Len(taken) <= 3 /\ q \in Nat /\ memory = kmemory
      BY <2>1, <2>4 DEF Asked
    <3>3. CASE q # 0
      <4>1. q \in 1..Len(Line)
        BY <2>1, <3>2, <3>3
      <4>2. rx' = rx /\ memory' = memory /\ Len(taken') <= 3
        BY <1>1, <3>1, <4>1, BoardPasses
      <4>3. PICK k \in 0..q : Line' = From(Line, k) /\ Leads(Line', q - k, pins', kpins)
        BY <1>1, <3>1, <4>1, BoardPasses
      <4>4. k \in 0..Len(Line)
        BY <2>1, <3>2, <4>3
      <4>5. /\ Line' \in Seq(Byte) /\ Len(Line') = Len(Line) - k
            /\ \A j \in 1..Len(Line) - k : Line'[j] = Line[k + j]
        BY <2>1, <4>3, <4>4, PartFacts
      <4>6. /\ q - k \in 0..Len(Line') /\ Len(Line') - (q - k) = Len(Line) - q
            /\ \A j \in 1..Len(Line') - (q - k) : Line'[(q - k) + j] = Line[q + j]
        <5>1. q - k \in 0..Len(Line') /\ Len(Line') - (q - k) = Len(Line) - q
          BY <2>1, <3>2, <4>5
        <5> SUFFICES ASSUME NEW j \in 1..Len(Line) - q PROVE Line'[(q - k) + j] = Line[q + j]
          BY <5>1
        <5>2. (q - k) + j \in 1..Len(Line) - k /\ k + ((q - k) + j) = q + j
          BY <2>1, <3>2
        <5> QED BY <4>5, <5>2
      <4>7. call.op = "page" => unit * ChunkCells(0) \in Nat
        <5> SUFFICES ASSUME call.op = "page" PROVE unit * ChunkCells(0) \in Nat
          OBVIOUS
        <5>1. i = 0 /\ Len(call.val) \in Nat /\ 0 < Len(call.val)
          BY <1>1, <3>1, PageFacts DEF Request
        <5>2. ChunkCells(0) \in Nat
          BY <1>1, <5>1, ChunkFacts
        <5> QED BY <1>1, <5>2
      <4>8. Asking(call, unit * ChunkCells(0), Line', q - k)
        BY <2>1, <3>1, <4>5, <4>6, <4>7, AskingMoves DEF Request
      <4>9. Silence'
        BY <1>1, <3>2, <4>2 DEF Silence
      <4>10. Asked'
        <5>1. memory' = kmemory /\ (call.op = "page" => i = 0)
          BY <3>1, <3>2, <4>2 DEF Request
        <5> QED BY <1>1, <4>2, <4>3, <4>6, <4>8, <4>9, <5>1, AskedAgain
      <4> QED BY <4>10
    <3>4. CASE q = 0 /\ Len(taken) < 3
      BY <1>1, <3>1, <3>2, <3>4, BoardFirst
    <3>5. CASE q = 0 /\ Len(taken) = 3
      <4>1. call.op = "page"
        <5>1. Asking(call, unit * ChunkCells(0), Line, 0)
          BY <3>1, <3>5 DEF Request
        <5>2. Len(Line) > 3 /\ Len(Line) \in Nat
          <6>1. Len(taken) = 3 /\ Len(Line) > Len(taken)
            BY <2>2, <3>5
          <6>2. Len(Line) \in Nat
            BY <2>1
          <6> QED BY ONLY <6>1, <6>2, Zenon
        <5>3. Len(Line) # 0 + 1 /\ Len(Line) # 0 + 3
          <6>1. \A x \in Nat : x > 3 => x # 1 /\ x # 3
            OBVIOUS
          <6>2. 0 + 1 = 1 /\ 0 + 3 = 3
            OBVIOUS
          <6> QED BY ONLY <5>2, <6>1, <6>2, Zenon
        <5> QED BY <5>1, <5>3 DEF Asking
      <4>2. Paging
        BY <2>4, <3>5, <4>1, PageBegins
      <4> QED BY <1>1, <4>2, BoardPages
    <3>6. Len(taken) < 3 \/ Len(taken) = 3
      <4>1. \A x \in Nat : x <= 3 => x < 3 \/ x = 3
        OBVIOUS
      <4> QED BY ONLY <2>1, <3>2, <4>1, Zenon
    <3> QED BY <3>3, <3>4, <3>5, <3>6
  <2>5. CASE Replied
    BY <1>1, <2>5 DEF Replied
  <2>6. CASE Paging
    BY <1>1, <2>6, BoardPages
  <2>7. CASE PageOver
    BY <1>1, <2>7, BoardDrops
  <2> QED BY <1>1, <1>5, <2>3, <2>4, <2>5, <2>6, <2>7 DEF InStep
<1>6. InStep'
  BY <1>1, <1>5 DEF InStep
<1> QED BY <1>1, <1>2, <1>3, <1>4, <1>6 DEF GpioInv

-----------------------------------------------------------------------------
(* Commands begin *)

LEMMA CommandSteps ==
  ASSUME GpioInv, Commands
  PROVE  GpioInv'
<1>1. /\ TypeOK /\ unit \in {1, 2} /\ \A v \in Values[unit] : v \in SUBSET Bits
      /\ Images[unit] \subseteq Seq(Bit)
      /\ Size \in 1..256 /\ \A a \in Addr : a \in Byte /\ a \in Nat
  BY GpioAssumption DEF GpioInv, Addr, Byte
<1>2. ASSUME CmdGetOut PROVE GpioInv'
  <2> DEFINE c == Call("get", 0, <<>>)
             b == <<CMD_GET_PORT>>
  <2>1. Callable(c) /\ Sends(c, b) /\ b \in Seq(Byte)
    BY DEF Callable, Shaped, Sends, Asking, Call, Ops, CMD_GET_PORT, Byte
  <2>2. Enter(c, b)
    BY <1>2 DEF CmdGetOut
  <2> HIDE DEF c, b
  <2> QED BY <2>1, <2>2, Entered
<1>3. ASSUME NEW v \in Values[unit], CmdPutOut(v) PROVE GpioInv'
  <2> DEFINE c == Call("put", 0, v)
             b == <<CMD_PUT_PORT, Hi(v), Lo(v)>>
  <2>1. /\ b \in Seq(Byte) /\ Len(b) = 3 /\ b[1] \in ThreeBytes
        /\ \A p : AfterThree(p, b[1], b[2], b[3]) = v
    <3>1. Hi(v) \in Byte /\ Lo(v) \in Byte
      BY NumberIsByte DEF Hi, Lo
    <3>2. CMD_PUT_PORT \in Byte /\ CMD_PUT_PORT \in ThreeBytes
      BY DEF Byte, ThreeBytes, CMD_PUT_PORT
    <3>3. Joined(Hi(v), Lo(v)) = v
      BY <1>1, JoinedAgain
    <3> QED BY <3>1, <3>2, <3>3 DEF AfterThree
  <2>2. Enter(c, b)
    BY <1>3 DEF CmdPutOut
  <2>3. Callable(c) /\ c.op = "put" /\ c.val = v
    BY DEF Callable, Shaped, Call, Ops
  <2> HIDE DEF c, b
  <2>4. Sends(c, b)
    BY <2>1, <2>3 DEF Sends, Does, Effect
  <2> QED BY <2>1, <2>2, <2>3, <2>4, Entered
<1>4. ASSUME NEW v \in Values[unit], NEW op \in {"set", "clr"}, NEW short, NEW long,
             \/ op = "set" /\ short = CMD_SETB4 /\ long = CMD_SETB_PORT
             \/ op = "clr" /\ short = CMD_CLRB4 /\ long = CMD_CLRB_PORT,
             Enter(Call(op, 0, v), ByHalf(v, short, long))
      PROVE  GpioInv'
  <2> DEFINE c == Call(op, 0, v)
             b == ByHalf(v, short, long)
  <2>1. b \in Seq(Byte) /\ \A p \in SUBSET Bits : Does(b, p, Effect(c, p))
    BY <1>1, <1>4, HalfCommand
  <2>2. Enter(c, b)
    BY <1>4
  <2>3. Callable(c) /\ c.op \in {"put", "set", "clr"}
    BY DEF Callable, Shaped, Call, Ops
  <2> HIDE DEF c, b
  <2>4. Sends(c, b)
    BY <2>1, <2>3 DEF Sends
  <2> QED BY <2>1, <2>2, <2>3, <2>4, Entered
<1>5. ASSUME NEW v \in Values[unit], CmdSetOut(v) \/ CmdClrOut(v) PROVE GpioInv'
  BY <1>4, <1>5 DEF CmdSetOut, CmdClrOut
<1>6. ASSUME NEW a \in Addr, NEW n \in 1..2, CmdReadMem(a, n) PROVE GpioInv'
  <2> DEFINE s == [k \in 1..n |-> k]
             c == Call("read", a, s)
             b == <<CMD_READ_MEM, a, n>>
  <2>1. s \in Seq(Nat) /\ Len(s) = n
    OBVIOUS
  <2>2. c.op = "read" /\ c.val = s /\ c.at = a /\ c.asked = a /\ Shaped(c)
    BY <1>1 DEF Call, Ops, Shaped
  <2>3. Enter(c, b) /\ a + n <= Size
    BY <1>6 DEF CmdReadMem
  <2>4. /\ b \in Seq(Byte) /\ Len(b) = 3 /\ b[1] = CMD_READ_MEM /\ b[2] = a /\ b[3] = n
    BY <1>1 DEF Byte, CMD_READ_MEM
  <2>5. n % 8 = n
    OBVIOUS
  <2> HIDE DEF c, b, s
  <2>6. Callable(c)
    BY <2>1, <2>2, <2>3 DEF Callable
  <2>7. Sends(c, b)
    <3>1. 0 + 1 = 1 /\ 0 + 2 = 2 /\ 0 + 3 = 3
      OBVIOUS
    <3> QED BY <2>1, <2>2, <2>4, <2>5, <3>1 DEF Sends, Asking
  <2> QED BY <2>3, <2>4, <2>6, <2>7, Entered
<1>7. ASSUME NEW a \in Addr, NEW d \in Bit, CmdWriteByte(a, d) PROVE GpioInv'
  <2> DEFINE s == <<[k \in 1..1 |-> d]>>
             c == Call("byte", a, s)
             b == <<CMD_WRITE_BYTE, a, d>>
  <2>1. c.op = "byte" /\ c.val = s /\ c.at = a /\ c.asked = a /\ Shaped(c)
    BY <1>1 DEF Call, Ops, Shaped
  <2>2. Enter(c, b) /\ unit = 1
    BY <1>7 DEF CmdWriteByte
  <2>3. b \in Seq(Byte) /\ Len(b) = 3 /\ b[1] = CMD_WRITE_BYTE /\ b[2] = a /\ b[3] = d
    BY <1>1 DEF Byte, Bit, CMD_WRITE_BYTE
  <2>4. /\ s \in Seq(Items) /\ Len(s) = 1 /\ s = <<[k \in 1..unit |-> d % 2]>>
        /\ a + 1 <= Size /\ 1 \in 1..Size
    <3>1. d % 2 = d
      BY DEF Bit
    <3>2. [k \in 1..1 |-> d] \in Items
      BY <2>2 DEF Items
    <3>3. a + 1 <= Size /\ 1 \in 1..Size
      BY <1>1 DEF Addr
    <3> QED BY <2>2, <3>1, <3>2, <3>3
  <2> HIDE DEF c, b, s
  <2>5. Callable(c)
    <3>1. \A x \in Nat : x = x - (x % 1)
      OBVIOUS
    <3>2. a = a - (a % 1)
      BY <1>1, <3>1
    <3> QED BY <2>1, <2>4, <3>2 DEF Callable
  <2>6. Sends(c, b)
    <3>1. 0 + 1 = 1 /\ 0 + 2 = 2 /\ 0 + 3 = 3
      OBVIOUS
    <3> QED BY <2>1, <2>3, <2>4, <3>1 DEF Sends, Asking
  <2> QED BY <2>2, <2>3, <2>5, <2>6, Entered
<1>8. ASSUME NEW a \in Addr, NEW e \in 0..1, NEW image \in Images[unit], NEW offs \in 0..1,
             CmdWritePage(a, e, [k \in DOMAIN image |-> Cell(image[k])], offs)
      PROVE  GpioInv'
  <2> DEFINE cells == [k \in DOMAIN image |-> Cell(image[k])]
             p == 2^e
             s == SubSeq(cells, offs + 1, offs + p)
             c == [Call("header", a - (a % p), s) EXCEPT !.asked = a]
             b == <<CMD_WRITE_PAGE, a - (a % p), e>>
  <2>1. image \in Seq(Bit) /\ Len(image) \in Nat
    BY <1>1
  <2>2. cells \in Seq(Items) /\ Len(cells) = Len(image)
    <3>1. DOMAIN image = 1..Len(image)
      BY <2>1
    <3>2. ASSUME NEW k \in 1..Len(image) PROVE Cell(image[k]) \in Items
      <4>1. image[k] \in Bit
        BY <2>1
      <4>2. \A x \in Bit : 1 - x \in Bit
        BY DEF Bit
      <4> QED BY ONLY <4>1, <4>2 DEF Cell, Items
    <3> DEFINE g(k) == Cell(image[k])
               n == Len(image)
    <3>3. n \in Nat /\ (\A k \in 1..n : g(k) \in Items) /\ cells = [k \in 1..n |-> g(k)]
      BY <2>1, <3>1, <3>2
    <3> HIDE DEF g, n, cells
    <3>4. cells \in Seq(Items) /\ Len(cells) = n
      BY ONLY <3>3
    <3> QED BY <3>4 DEF n
  <2>3. p \in {1, 2}
    <3>1. e = 0 \/ e = 1
      OBVIOUS
    <3>2. 2^0 = 1 /\ 2^1 = 2
      BY Powers
    <3>3. 2^e = 1 \/ 2^e = 2
      BY ONLY <3>1, <3>2, Zenon
    <3> QED BY <3>3
  <2>4. p <= Size /\ Len(cells) >= offs + p /\ Enter(c, b)
    BY <1>8 DEF CmdWritePage
  <2>5. s \in Seq(Items) /\ Len(s) = p
    <3> HIDE DEF cells, p
    <3>1. Len(cells) \in Nat
      BY <2>1, <2>2
    <3> QED BY ONLY <2>2, <2>3, <2>4, <3>1, offs \in 0..1 DEF s
  <2>6. /\ a - (a % p) \in Byte /\ a - (a % p) \in Nat /\ a - (a % p) \in Addr
        /\ a - (a % p) + p <= Size
    <3>1. p <= Size => Size % p = 0
      BY GpioAssumption
    <3>5. p <= Size
      BY <2>4
    <3> HIDE DEF p
    <3>2. a \in 0..255 /\ a \in 0..Size - 1 /\ Size % p = 0 /\ Size \in Nat
      BY <1>1, <3>1, <3>5 DEF Byte, Addr
    <3>3. CASE p = 1
      BY ONLY <3>2, <3>3 DEF Byte, Addr
    <3>4. CASE p = 2
      <4>1. Size % 2 = 0 /\ a - (a % 2) \in 0..a
        BY ONLY <3>2, <3>4
      <4>2. a - (a % 2) + 2 <= Size
        BY ONLY <3>2, <3>4, <4>1
      <4> QED BY ONLY <3>2, <3>4, <4>1, <4>2 DEF Byte, Addr
    <3> QED BY <2>3, <3>3, <3>4
  <2>7. p \in 1..Size
    <3> HIDE DEF p
    <3> QED BY <1>1, <2>3, <2>4
  <2>8. 2^(e % 4) = p
    <3>1. e % 4 = e
      OBVIOUS
    <3> QED BY <3>1
  <2>9. b \in Seq(Byte) /\ Len(b) = 3 /\ b[1] = CMD_WRITE_PAGE
        /\ b[2] = a - (a % p) /\ b[3] = e
    <3>1. e \in Byte /\ CMD_WRITE_PAGE \in Byte
      BY DEF Byte, CMD_WRITE_PAGE
    <3> QED BY <2>6, <3>1
  <2>10. c.op = "header" /\ c.val = s /\ c.at = a - (a % p) /\ c.asked = a /\ Shaped(c)
    BY <1>1, <2>6 DEF Call, Ops, Shaped
  <2> HIDE DEF c, b, s, p, cells, Items
  <2>11. Callable(c)
    BY <2>5, <2>6, <2>7, <2>10 DEF Callable
  <2>12. Sends(c, b)
    <3>1. 0 + 1 = 1 /\ 0 + 2 = 2 /\ 0 + 3 = 3
      OBVIOUS
    <3>2. Header(c, b, 0)
      BY <2>5, <2>8, <2>9, <2>10, <3>1 DEF Header
    <3> QED BY <2>9, <2>10, <3>1, <3>2 DEF Sends, Asking
  <2> QED BY <2>4, <2>9, <2>11, <2>12, Entered
<1>9. CASE \E v \in Values[unit] : CmdPutOut(v) \/ CmdSetOut(v) \/ CmdClrOut(v)
  <2>1. PICK v \in Values[unit] : CmdPutOut(v) \/ CmdSetOut(v) \/ CmdClrOut(v)
    BY <1>9
  <2> QED BY <1>3, <1>5, <2>1
<1>10. CASE \E a \in Addr : \/ \E n \in 1..2 : CmdReadMem(a, n)
                           \/ \E d \in Bit : CmdWriteByte(a, d)
  BY <1>6, <1>7, <1>10
<1>11. CASE \E a \in Addr : \E e \in 0..1, image \in Images[unit], offs \in 0..1 :
              CmdWritePage(a, e, [k \in DOMAIN image |-> Cell(image[k])], offs)
  <2>1. PICK a \in Addr, e \in 0..1, image \in Images[unit], offs \in 0..1 :
          CmdWritePage(a, e, [k \in DOMAIN image |-> Cell(image[k])], offs)
    BY <1>11
  <2> QED BY <1>8, <2>1
<1>12. \/ CmdGetOut
       \/ \E v \in Values[unit] : CmdPutOut(v) \/ CmdSetOut(v) \/ CmdClrOut(v)
       \/ \E a \in Addr : \/ \E n \in 1..2 : CmdReadMem(a, n)
                         \/ \E d \in Bit : CmdWriteByte(a, d)
       \/ \E a \in Addr : \E e \in 0..1, image \in Images[unit], offs \in 0..1 :
            CmdWritePage(a, e, [k \in DOMAIN image |-> Cell(image[k])], offs)
  BY Zenon DEF Commands
<1> QED BY <1>2, <1>9, <1>10, <1>11, <1>12

LEMMA GpioInit ==
  ASSUME Init
  PROVE  GpioInv
<1>1. /\ fd = "closed" /\ tx = <<>> /\ rx = <<>> /\ pc = "idle" /\ out = <<>> /\ got = <<>>
      /\ unit \in {1, 2} /\ pins = {} /\ memory = Blank /\ taken = <<>>
      /\ call = NoCall /\ i = 0 /\ recvbufsize = 1 /\ lost = TRUE
      /\ kpins = pins /\ kmemory = memory
  BY DEF Init, LineInit
<1>2. call.op = "none" /\ Shaped(call)
  BY <1>1 DEF NoCall, Call, Ops, Shaped
<1>3. TypeOK
  <2>1. memory \in [Addr -> Items]
    BY <1>1 DEF Blank, Items, Bit
  <2>2. <<>> \in Seq(Byte)
    OBVIOUS
  <2>3. 0 \in 0..Size
    BY ONLY SizesGiven
  <2>4. 1 \in Byte \ {0}
    BY DEF Byte
  <2> QED BY <1>1, <2>1, <2>2, <2>3, <2>4 DEF TypeOK, Bits
<1>4. CallTyped /\ Placed /\ Outside /\ TakenOk /\ InStep
  BY <1>1, <1>2 DEF CallTyped, Callable, Placed, Outside, TakenOk, InStep
<1>5. KnownTyped
  BY <1>1, <1>3 DEF KnownTyped, TypeOK
<1> QED BY <1>1, <1>3, <1>4, <1>5 DEF GpioInv

\* Nothing happens, or the line hangs up.
LEMMA GpioRests ==
  ASSUME GpioInv, UNCHANGED <<tx, rx, pc, out, need, got>>, UNCHANGED <<boardVars, hostVars>>,
         fd' = fd \/ (fd = "open" /\ fd' = "hung")
  PROVE  GpioInv'
<1>1. /\ UNCHANGED <<tx, rx, pc, out, need, got>> /\ UNCHANGED <<unit, pins, memory, taken>>
      /\ UNCHANGED <<call, i, recvbufsize, lost, kpins, kmemory>>
      /\ TypeOK /\ CallTyped /\ KnownTyped /\ Placed /\ Outside /\ TakenOk /\ InStep
      /\ unit \in {1, 2}
  BY DEF boardVars, hostVars, GpioInv
<1>2. /\ CallTyped' /\ KnownTyped' /\ ChunkCells(i)' = ChunkCells(i)
      /\ Expected' = Expected /\ Effect(call, kpins)' = Effect(call, kpins)
      /\ Flat(CellsRead)' = Flat(CellsRead) /\ Written' = Written
  BY <1>1, SameCall
<1>3. TypeOK' /\ Placed' /\ Outside' /\ TakenOk'
  <2>1. TypeOK'
    BY <1>1 DEF TypeOK, Items
  <2>2. Placed'
    BY <1>1, <1>2 DEF Placed
  <2> QED BY <1>1, <2>1, <2>2 DEF Outside, TakenOk
<1>4. Line' = Line /\ Heard' = Heard /\ (Silence => Silence')
  BY <1>1 DEF Line, Heard, Silence
<1>5. /\ Len(tx) \in Nat /\ Len(out) \in Nat /\ Len(tx') \in Nat /\ Len(out') \in Nat
      /\ Len(taken) \in Nat
  BY <1>1, LineFacts
<1>6. InStep'
  <2>1. NothingAsked => NothingAsked'
    BY <1>1, <1>2, <1>4 DEF NothingAsked
  <2>2. ASSUME Asked PROVE Asked'
    <3>1. PICK q \in 0..Len(Line) : Leads(Line, q, pins, kpins) /\ Request(Line, q)
      BY <2>2 DEF Asked
    <3> QED BY <1>1, <1>4, <2>2, <3>1, AskedAgain DEF Request, Asked
  <2>3. Replied => Replied'
    BY <1>1, <1>2, <1>4 DEF Replied
  <2>4. ASSUME Paging PROVE Paging'
    BY <1>1, <1>4, <1>5, <2>4, PagesOn
  <2>5. ASSUME PageOver PROVE PageOver'
    <3>1. /\ \A j \in 1..Len(tx') : tx'[j] \in Bit
          /\ \A j \in 1..Len(out') : out'[j] \in Bit
      BY <1>1, <2>5 DEF PageOver
    <3>2. unit * (ChunkCells(i) - Len(Heard)) \in Int
      BY <1>1, <2>5, PageFacts DEF PageOver
    <3>3. /\ Len(tx') + Len(out') <= Len(tx) + Len(out) /\ Len(tx) + Len(out) \in Nat
          /\ Len(tx') + Len(out') \in Nat
      BY <1>1, <1>5
    <3> QED BY <1>1, <1>4, <2>5, <3>1, <3>2, <3>3, StaysOver
  <2> QED BY <1>1, <2>1, <2>2, <2>3, <2>4, <2>5 DEF InStep
<1> QED BY <1>1, <1>2, <1>3, <1>6 DEF GpioInv

LEMMA GpioStep ==
  ASSUME GpioInv, Next
  PROVE  GpioInv'
<1>1. CASE Commands
  BY <1>1, CommandSteps
<1>2. CASE OpenLine \/ Versioned \/ Sized \/ SizeFails
  BY <1>2, OpenSteps
<1>3. CASE NotNext \/ NoVersion \/ CallFails \/ VersionFails \/ Close \/ OpenFails
  BY <1>3, LosingSteps
<1>4. CASE PutSent \/ Answered \/ BoardError
  BY <1>4, ReturnSteps
<1>5. CASE Opened
  BY <1>5, OpenedStep
<1>6. CASE WriteSome /\ UNCHANGED <<boardVars, hostVars>>
  BY <1>6, WriteStep
<1>7. CASE ReadSome /\ UNCHANGED <<boardVars, hostVars>>
  <2>1. CASE fd = "open"
    BY <1>7, <2>1, ReadStep
  <2>2. CASE fd = "hung"
    BY <1>7, <2>2, GpioRests DEF ReadSome
  <2> QED BY <1>7, <2>1, <2>2 DEF ReadSome
<1>8. CASE CommandSent \/ ChunkSent
  BY <1>8, ReceiveStep
<1>9. CASE HeaderSent
  BY <1>9, HeaderStep
<1>10. CASE ChunkAnswered
  BY <1>10, ChunkStep
<1>11. CASE BoardGoesOn
  BY <1>11, BoardStep
<1>12. HostGoesOn => \/ Versioned \/ Sized \/ SizeFails
                     \/ NotNext \/ NoVersion \/ CallFails \/ VersionFails
                     \/ PutSent \/ Answered \/ BoardError \/ Opened
                     \/ WriteSome /\ UNCHANGED <<boardVars, hostVars>>
                     \/ ReadSome /\ UNCHANGED <<boardVars, hostVars>>
                     \/ CommandSent \/ ChunkSent \/ HeaderSent \/ ChunkAnswered
  BY Zenon DEF HostGoesOn
<1>13. Next => \/ Commands \/ OpenLine \/ OpenFails \/ Close
               \/ HostGoesOn \/ BoardGoesOn \/ LineHangsUp
  BY Zenon DEF Next
<1>14. CASE LineHangsUp
  BY <1>14, GpioRests DEF LineHangsUp, HangUp
<1> QED BY <1>1, <1>2, <1>3, <1>4, <1>5, <1>6, <1>7, <1>8, <1>9, <1>10, <1>11, <1>12, <1>13, <1>14

LEMMA GpioFits ==
  ASSUME GpioInv
  PROVE  ChunkFits
<1>1. /\ TypeOK /\ CallTyped /\ Outside /\ InStep /\ unit \in {1, 2}
  BY DEF GpioInv
<1> SUFFICES ASSUME ~lost, call.op = "page", Len(taken) >= 3, BufSize % unit = 0
             PROVE  Len(out) + Len(tx) + ((Len(taken) - 3) % unit) <= Greatest(Room, 1)
  BY <1>1 DEF ChunkFits
<1> DEFINE k == ChunkCells(i)
<1>2. /\ Len(taken) \in Nat /\ Len(tx) \in Nat /\ Len(out) \in Nat /\ i \in Nat
  BY <1>1, LineFacts DEF TypeOK
<1>3. /\ k \in Nat /\ BufSize \in Nat /\ BufSize <= recvbufsize /\ unit * k <= BufSize
  <2>1. Len(call.val) \in Nat /\ i < Len(call.val)
    BY <1>1, PageFacts
  <2> QED BY <1>1, <1>2, <2>1, ChunkFacts
<1>4. recvbufsize <= Greatest(Room, 1) /\ recvbufsize \in Nat /\ Greatest(Room, 1) \in Nat
  BY <1>1, SizesGiven DEF Outside, Greatest, TypeOK
<1>5. Paging \/ taken = <<>> \/ (Asked /\ Len(taken) <= 3)
  BY <1>1 DEF InStep, NothingAsked, Replied, PageOver, Asked
<1>6. Paging
  <2>1. Asked /\ Len(taken) <= 3 => Paging
    <3>1. \A x \in Nat : x <= 3 /\ x >= 3 => x = 3
      OBVIOUS
    <3>2. Len(taken) <= 3 => Len(taken) = 3
      BY <1>2, <3>1
    <3> QED BY <3>2, PageBegins
  <2>2. taken # <<>>
    <3>1. Len(<<>>) = 0
      OBVIOUS
    <3> QED BY <1>2, <3>1
  <2> QED BY <1>5, <2>1, <2>2
<1>7. PICK m \in 0..Size, r \in 0..1 : InPage(m, r)
  BY <1>6 DEF Paging
<1>8. /\ Len(taken) = 3 + unit * m + r /\ r < unit /\ i <= m /\ m \in Nat /\ r \in {0, 1}
      /\ Len(taken) + Len(tx) + Len(out) = 3 + unit * (i + k)
  BY <1>7 DEF InPage
<1> DEFINE left == Len(out) + Len(tx) + ((Len(taken) - 3) % unit)
<1>9. left \in Nat /\ left <= unit * k
  <2> HIDE DEF k
  <2>1. CASE unit = 1
    BY ONLY <1>2, <1>3, <1>8, <2>1
  <2>2. CASE unit = 2
    <3>1. (Len(taken) - 3) % 2 = r
      <4>1. Len(taken) - 3 = 2 * m + r
        BY ONLY <1>2, <1>8, <2>2
      <4>2. \A x \in Nat, y \in {0, 1} : (2 * x + y) % 2 = y
        OBVIOUS
      <4> QED BY ONLY <1>8, <4>1, <4>2
    <3>2. Len(out) + Len(tx) + r \in Nat /\ Len(out) + Len(tx) + r <= 2 * k
      BY ONLY <1>2, <1>3, <1>8, <2>2
    <3> QED BY <2>2, <3>1, <3>2
  <2> QED BY <1>1, <2>1, <2>2
<1> HIDE DEF left
<1>10. left <= Greatest(Room, 1)
  <2> DEFINE e == unit * k
  <2>1. e \in Nat
    BY <1>1, <1>3
  <2>2. left <= e /\ e <= BufSize
    BY <1>3, <1>9
  <2> HIDE DEF e
  <2> QED BY ONLY <1>3, <1>4, <1>9, <2>1, <2>2
<1> QED BY <1>10 DEF left

(* ChunkFits, for boards of any size with a receive buffer of any size and *)
(* chunks of any length: while a page is written on a line in step, what   *)
(* the board was sent and has not answered fits into its buffer            *)
(* (GpioSer.cpp:333-345, 374-383), and every variable has its type.        *)
THEOREM ChunkFitsHolds == MCSpec => []ChunkFits
<1>1. MCInit => GpioInv
  BY GpioInit DEF MCInit
<1>2. GpioInv /\ [MCNext]_<<part, vars, selvars>> => GpioInv'
  <2> SUFFICES ASSUME GpioInv, [MCNext]_<<part, vars, selvars>> PROVE GpioInv'
    OBVIOUS
  <2>1. Next \/ UNCHANGED vars
    BY DEF MCNext
  <2>2. CASE UNCHANGED vars
    BY <2>2, GpioRests DEF vars, lineVars
  <2> QED BY <2>1, <2>2, GpioStep
<1>3. GpioInv => ChunkFits
  BY GpioFits
<1> QED BY <1>1, <1>2, <1>3, PTL DEF MCSpec

-----------------------------------------------------------------------------
(* The board as registers *)

\* What a call returns is what the application knows of the board.
LEMMA ReturnsKnown ==
  ASSUME GpioInv, ~lost, Answered
  PROVE  /\ UNCHANGED kpins
         /\ \/ call.op = "get" /\ answer' = [op |-> "get", val |-> kpins] /\ UNCHANGED kmemory
            \/ /\ call.op = "read" /\ answer' = [op |-> "read", val |-> CellsRead]
               /\ UNCHANGED kmemory
            \/ /\ call.op \in {"byte", "page"}
               /\ answer' = [op |-> "write", val |-> <<>>] /\ kmemory' = Written
<1>1. /\ TypeOK /\ CallTyped /\ KnownTyped /\ unit \in {1, 2} /\ Received /\ kpins' = kpins
      /\ call.op \in {"get", "read", "byte", "page"} /\ (call.op = "page" => LastChunk)
  BY DEF GpioInv, Answered
<1>2. Told
  BY <1>1, Finished
<1>3. CASE call.op = "get"
  <2>1. got = <<Hi(kpins), Lo(kpins)>> /\ kpins \in SUBSET Bits
    BY <1>1, <1>2, <1>3 DEF Told, KnownTyped
  <2>2. Joined(got[1], got[2]) = kpins
    BY <2>1, JoinedAgain
  <2> QED BY <1>1, <1>3, <2>2 DEF Answered, Answer
<1>4. CASE call.op = "read"
  <2> DEFINE n == Len(call.val)
             t == SubSeq(got, 1, Len(got) - 1)
  <2>1. n \in 1..2 /\ call.at \in Addr /\ call.at + n <= Size
    BY <1>1, <1>4 DEF CallTyped, Callable
  <2>2. CellsRead \in Seq(Items) /\ Len(CellsRead) = n
    <3>1. \A k \in 1..n : call.at + k - 1 \in Addr
      BY <2>1, SizesGiven DEF Addr
    <3>2. \A k \in 1..n : kmemory[call.at + k - 1] \in Items
      BY <1>1, <3>1 DEF KnownTyped
    <3> HIDE DEF n
    <3>3. CellsRead = [k \in 1..n |-> kmemory[call.at + k - 1]]
      BY DEF CellsRead, n
    <3> QED BY ONLY <2>1, <3>2, <3>3
  <2>3. /\ got \in Seq(Byte) /\ Len(got) = unit * n + 1
        /\ \A j \in 1..Len(got) - 1 : got[j] = Flat(CellsRead)[j]
    BY <1>1, <1>2, <1>4 DEF Told, TypeOK
  <2>4. unit * n \in Nat
    BY <1>1, <2>1
  <2> HIDE DEF n
  <2>5. /\ t \in Seq(Byte) /\ Len(t) = unit * n
        /\ \A j \in 1..Len(t) : t[j] = got[j]
    <3>1. Len(got) - 1 = unit * n /\ Len(got) - 1 \in 0..Len(got)
      BY ONLY <2>3, <2>4
    <3>2. /\ t \in Seq(Byte) /\ Len(t) = Len(got) - 1
          /\ \A j \in 1..Len(got) - 1 : t[j] = got[j]
      BY ONLY <2>3, <3>1, PartFacts, SMTT(30) DEF t
    <3> QED BY ONLY <3>1, <3>2
  <2>6. \A j \in 1..Len(t) : t[j] = Flat(CellsRead)[j]
    <3>1. Len(got) - 1 = Len(t)
      BY ONLY <2>3, <2>4, <2>5
    <3> QED BY ONLY <2>3, <2>5, <3>1
  <2> HIDE DEF t
  <2>7. Cells(t) = CellsRead
    BY <1>1, <2>2, <2>5, <2>6, CellsOfFlat
  <2> QED BY <1>1, <1>4, <2>7 DEF Answered, Answer, t
<1>5. CASE call.op \in {"byte", "page"}
  BY <1>1, <1>5 DEF Answered, Answer
<1> QED BY <1>1, <1>3, <1>4, <1>5

\* The call under way as it was made, and what the registers' writes make of the
\* memory.
LEMMA CallShown ==
  ASSUME CallTyped
  PROVE  /\ CallMade.op = IF call.op \in {"byte", "header", "page"} THEN "write"
                          ELSE IF call.op \in {"version", "size", "clear"} THEN "open"
                          ELSE call.op
         /\ CallMade.val = call.val
         /\ call.op = "none" => CallMade = Board!NoAsk
         /\ call.op = "read" => CallMade.at = call.at
         /\ call.op \in {"byte", "header", "page"} =>
              \A m \in 0..Len(call.val) : Board!WithFirst(m) = FirstWritten(m)
         /\ call.op \in {"byte", "header", "page"} =>
              Written = FirstWritten(Len(call.val)) /\ Len(call.val) \in Nat \ {0}
<1>1. /\ CallMade.val = call.val /\ CallMade.at = call.asked
      /\ CallMade.op = IF call.op \in {"byte", "header", "page"} THEN "write"
                       ELSE IF call.op \in {"version", "size", "clear"} THEN "open"
                       ELSE call.op
  BY DEF CallMade
<1>2. call.op = "none" => CallMade = Board!NoAsk
  <2>1. call.op = "none" => call = NoCall
    BY DEF CallTyped
  <2> QED BY <2>1 DEF CallMade, NoCall, Call, Board!NoAsk
<1>3. ASSUME call.op \in {"byte", "header", "page"}
      PROVE  /\ \A m \in 0..Len(call.val) : Board!WithFirst(m) = FirstWritten(m)
             /\ Written = FirstWritten(Len(call.val)) /\ Len(call.val) \in Nat \ {0}
  <2>1. Board!Addr = Addr
    BY DEF Board!Addr, Addr
  <2>2. Board!Start = call.at /\ Len(call.val) \in Nat \ {0}
    BY <1>1, <1>3, SizesGiven DEF CallTyped, Callable, Board!Start
  <2> QED BY <1>1, <2>1, <2>2 DEF Board!WithFirst, FirstWritten, Written
<1>4. call.op = "read" => CallMade.at = call.at
  BY <1>1 DEF CallTyped, Callable
<1> QED BY <1>1, <1>2, <1>3, <1>4

LEMMA RegisterSteps ==
  ASSUME GpioInv, GpioInv', Next
  PROVE  [Board!RsNext]_(Board!rsVars)
<1>1. /\ CallTyped /\ CallTyped' /\ Outside /\ Placed /\ lost \in BOOLEAN /\ lost' \in BOOLEAN
  BY DEF GpioInv, TypeOK
<1>2. CASE lost /\ lost'
  BY <1>2 DEF Board!RsNext
<1>3. ASSUME UNCHANGED <<answer, lost, kpins, kmemory>>, call'.val = call.val,
             call'.asked = call.asked, CallMade'.op = CallMade.op
      PROVE  [Board!RsNext]_(Board!rsVars)
  BY <1>3 DEF CallMade, Board!rsVars
<1>4. CASE ~lost /\ ~lost' /\ Board!RsCall
  BY <1>4 DEF Board!RsNext
<1>5. call' = NoCall => CallMade' = Board!NoAsk
  BY DEF CallMade, NoCall, Call, Board!NoAsk
<1>6. ASSUME NEW c, NEW b, Enter(c, b),
             c.op \in {"get", "put", "set", "clr", "read", "byte", "header"}
      PROVE  [Board!RsNext]_(Board!rsVars)
  <2>1. /\ pc = "idle" /\ ~lost /\ lost' = lost /\ answer' = [op |-> "none", val |-> <<>>]
        /\ call' = c /\ UNCHANGED <<kpins, kmemory>>
    BY <1>6 DEF Enter, Known, Answer
  <2>2. CallMade = Board!NoAsk
    BY <1>1, <2>1, CallShown DEF Placed
  <2>3. CallMade'.op \in {"get", "put", "set", "clr", "read", "write"}
    BY <1>6, <2>1 DEF CallMade
  <2>4. CallMade'.op = "read" => CallMade'.at + Len(CallMade'.val) <= Size
    <3>1. /\ CallMade'.op = "read" => call'.op = "read"
          /\ CallMade'.at = call'.asked /\ CallMade'.val = call'.val
      BY DEF CallMade
    <3>2. call'.op = "read" => call'.asked + Len(call'.val) <= Size
      BY <1>1 DEF CallTyped, Callable
    <3> QED BY <3>1, <3>2
  <2>5. Board!RsBegin
    BY <2>1, <2>2, <2>3, <2>4 DEF Board!RsBegin
  <2> QED BY <1>4, <2>1, <2>5 DEF Board!RsCall
<1>7. CASE Commands
  <2>1. PICK c, b : Enter(c, b) /\ c.op \in {"get", "put", "set", "clr", "read", "byte", "header"}
    <3>1. CASE CmdGetOut
      BY <3>1 DEF CmdGetOut, Call
    <3>2. ASSUME NEW v, CmdPutOut(v) \/ CmdSetOut(v) \/ CmdClrOut(v)
          PROVE  \E c, b : /\ Enter(c, b)
                           /\ c.op \in {"get", "put", "set", "clr", "read", "byte", "header"}
      BY <3>2 DEF CmdPutOut, CmdSetOut, CmdClrOut, Call
    <3>3. ASSUME NEW a, NEW n, CmdReadMem(a, n) \/ CmdWriteByte(a, n)
          PROVE  \E c, b : /\ Enter(c, b)
                           /\ c.op \in {"get", "put", "set", "clr", "read", "byte", "header"}
      BY <3>3 DEF CmdReadMem, CmdWriteByte, Call
    <3>4. ASSUME NEW a, NEW e, NEW image, NEW offs, CmdWritePage(a, e, image, offs)
          PROVE  \E c, b : /\ Enter(c, b)
                           /\ c.op \in {"get", "put", "set", "clr", "read", "byte", "header"}
      <4> DEFINE c == [Call("header", a - (a % 2^e), SubSeq(image, offs + 1, offs + 2^e))
                         EXCEPT !.asked = a]
      <4>1. \E b : Enter(c, b)
        BY <3>4 DEF CmdWritePage
      <4>2. c.op = "header"
        BY DEF Call
      <4> QED BY <4>1, <4>2
    <3> QED BY <1>7, <3>1, <3>2, <3>3, <3>4, Zenon DEF Commands
  <2> QED BY <1>6, <2>1
<1>8. CASE PutSent /\ ~lost
  <2>1. /\ call.op \in {"put", "set", "clr"} /\ lost' = lost /\ call' = NoCall
        /\ UNCHANGED kmemory /\ answer' = [op |-> call.op, val |-> <<>>]
        /\ kpins' = CASE call.op = "put" -> call.val
                      [] call.op = "set" -> kpins \cup call.val
                      [] call.op = "clr" -> kpins \ call.val
    BY <1>8 DEF PutSent, Answer, Return
  <2>2. CallMade.op = call.op /\ CallMade.val = call.val
    BY <1>1, <2>1, CallShown
  <2>3. Board!RsPut \/ Board!RsSet \/ Board!RsClr
    BY <1>5, <2>1, <2>2 DEF Board!RsPut, Board!RsSet, Board!RsClr, Board!RsEnd
  <2> QED BY <1>4, <1>8, <2>1, <2>3 DEF Board!RsCall
<1>9. CASE Answered /\ ~lost
  <2>1. lost' = lost /\ call' = NoCall
    BY <1>9 DEF Answered, Return
  <2>2. ASSUME call.op = "get", answer' = [op |-> "get", val |-> kpins],
               UNCHANGED <<kpins, kmemory>>
        PROVE  Board!RsGet
    BY <1>1, <1>5, <2>1, <2>2, CallShown DEF Board!RsGet, Board!RsEnd
  <2>3. ASSUME call.op = "read", answer' = [op |-> "read", val |-> CellsRead],
               UNCHANGED <<kpins, kmemory>>
        PROVE  Board!RsRead
    <3>1. CallMade.op = "read" /\ CallMade.val = call.val /\ CallMade.at = call.at
      BY <1>1, <2>3, CallShown
    <3> QED BY <1>5, <2>1, <2>3, <3>1 DEF Board!RsRead, Board!RsEnd, CellsRead
  <2>4. ASSUME call.op \in {"byte", "page"}, UNCHANGED kpins,
               answer' = [op |-> "write", val |-> <<>>], kmemory' = Written
        PROVE  Board!RsWrite
    <3>1. /\ CallMade.op = "write" /\ CallMade.val = call.val
          /\ Written = Board!WithFirst(Len(call.val))
      BY <1>1, <2>4, CallShown
    <3> QED BY <1>5, <2>1, <2>4, <3>1 DEF Board!RsWrite, Board!RsEnd
  <2>5. Board!RsCall
    BY <1>9, <2>2, <2>3, <2>4, ReturnsKnown DEF Board!RsCall
  <2> QED BY <1>4, <1>9, <2>1, <2>5
<1>10. CASE BoardError /\ ~lost
  <2>1. /\ Received /\ call.op \in {"read", "byte", "page"} /\ (call.op = "page" => LastChunk)
        /\ UNCHANGED kpins /\ answer' = [op |-> "error", val |-> <<>>]
        /\ kmemory' = IF call.op = "read" THEN kmemory ELSE memory
        /\ Last(got) # RC_OK /\ lost' = lost /\ call' = NoCall
    BY <1>10 DEF BoardError, Answer, Return
  <2>2. Told
    BY <1>10, <2>1, Finished
  <2>3. CASE call.op = "read"
    <3>1. CallMade.op = "read"
      BY <1>1, <2>3, CallShown
    <3> QED BY <1>4, <1>5, <1>10, <2>1, <2>3, <3>1 DEF Board!RsCall, Board!RsError, Board!RsEnd
  <2>4. CASE call.op \in {"byte", "page"}
    <3>1. PICK m \in 0..(Len(call.val) - 1) : memory = FirstWritten(m)
      BY <2>1, <2>2, <2>4 DEF Told, Last
    <3>2. CallMade.op = "write" /\ CallMade.val = call.val /\ kmemory' = Board!WithFirst(m)
      BY <1>1, <2>1, <2>4, <3>1, CallShown
    <3>3. Board!RsError
      BY <1>5, <2>1, <3>2 DEF Board!RsError, Board!RsEnd
    <3> QED BY <1>4, <1>10, <2>1, <3>3 DEF Board!RsCall
  <2> QED BY <2>1, <2>3, <2>4
<1>11. CASE (PutSent \/ Answered \/ BoardError) /\ lost
  BY <1>1, <1>2, <1>11 DEF PutSent, Answered, BoardError
<1>12. CASE OpenFails \/ NoVersion
  BY <1>1, <1>2, <1>12 DEF OpenFails, NoVersion, LineOpenFails, Outside
<1>13. CASE NotNext \/ CallFails \/ VersionFails \/ Close
  <2>1. lost' = TRUE /\ answer'.op \in {"exception", "close"}
    BY <1>13 DEF NotNext, CallFails, VersionFails, Close, Lose, Answer
  <2>2. call' = NoCall
    BY <1>1, <1>13 DEF NotNext, CallFails, VersionFails, Close, Return, CallTyped, Placed
  <2> QED BY <1>1, <1>2, <1>5, <2>1, <2>2 DEF Board!RsNext, Board!RsLose
<1>14. CASE Opened
  <2>1. /\ lost = TRUE /\ call.op = "clear" /\ call' = NoCall
        /\ answer' = [op |-> "open", val |-> <<>>]
    BY <1>1, <1>14 DEF Opened, Outside, Answer, Return
  <2>2. CallMade.op = "open"
    BY <1>1, <2>1, CallShown
  <2> QED BY <1>1, <1>2, <1>5, <2>1, <2>2 DEF Board!RsNext, Board!RsOpen
<1>15. CASE OpenLine \/ Versioned \/ Sized \/ SizeFails
  BY <1>1, <1>2, <1>15 DEF OpenLine, Versioned, Sized, SizeFails, Outside
<1>16. CASE HeaderSent \/ ChunkAnswered
  <2>1. /\ call.op \in {"header", "page"} /\ call' = [call EXCEPT !.op = "page"]
        /\ UNCHANGED <<answer, lost, kpins, kmemory>>
    BY <1>16 DEF HeaderSent, ChunkAnswered, SendChunk
  <2>2. call'.op = "page" /\ call'.val = call.val /\ call'.asked = call.asked
    BY <1>1, <2>1 DEF CallTyped, Callable, Shaped
  <2>3. CallMade.op = "write" /\ CallMade'.op = "write"
    BY <2>1, <2>2 DEF CallMade
  <2> QED BY <1>3, <2>1, <2>2, <2>3
<1>17. CASE \/ CommandSent \/ ChunkSent \/ BoardGoesOn \/ LineHangsUp
            \/ WriteSome /\ UNCHANGED <<boardVars, hostVars>>
            \/ ReadSome /\ UNCHANGED <<boardVars, hostVars>>
  <2>1. UNCHANGED hostVars
    BY <1>17 DEF CommandSent, ChunkSent, BoardGoesOn, LineHangsUp
  <2> QED BY <1>3, <2>1 DEF hostVars, CallMade
<1>18. HostGoesOn => \/ Versioned \/ Sized \/ SizeFails
                     \/ NotNext \/ NoVersion \/ CallFails \/ VersionFails
                     \/ PutSent \/ Answered \/ BoardError \/ Opened
                     \/ WriteSome /\ UNCHANGED <<boardVars, hostVars>>
                     \/ ReadSome /\ UNCHANGED <<boardVars, hostVars>>
                     \/ CommandSent \/ ChunkSent \/ HeaderSent \/ ChunkAnswered
  BY Zenon DEF HostGoesOn
<1>19. Next => \/ Commands \/ OpenLine \/ OpenFails \/ Close
               \/ HostGoesOn \/ BoardGoesOn \/ LineHangsUp
  BY Zenon DEF Next
<1> QED BY <1>1, <1>7, <1>8, <1>9, <1>10, <1>11, <1>12, <1>13, <1>14, <1>15, <1>16, <1>17, <1>18,
           <1>19

(* As long as the line is in step, the pins and the memory of the board    *)
(* behave as if each call were done at once, with the address and values   *)
(* it was made with, for boards of any size, any pins and pages, and       *)
(* wherever an exception ends a call: a read returns the cells asked for,  *)
(* a page goes where its address belongs, an error the board reports       *)
(* leaves no more than the page's first cells written, and only an         *)
(* exception and close() void what was known until an open() finds the     *)
(* line quiet (GpioSer.cpp:88-669).                                        *)
THEOREM IsRegistersHolds == MCSpec => IsRegisters
<1>1. MCInit => GpioInv /\ Board!RsInit
  BY GpioInit DEF MCInit, Init, Board!RsInit
<1>2. GpioInv /\ [MCNext]_<<part, vars, selvars>> =>
        GpioInv' /\ [Board!RsNext]_(Board!rsVars)
  <2> SUFFICES ASSUME GpioInv, [MCNext]_<<part, vars, selvars>>
               PROVE  GpioInv' /\ [Board!RsNext]_(Board!rsVars)
    OBVIOUS
  <2>1. Next \/ UNCHANGED vars
    BY DEF MCNext
  <2>2. GpioInv'
    BY <2>1, GpioStep, GpioRests DEF vars, lineVars
  <2>3. CASE Next
    BY <2>2, <2>3, RegisterSteps
  <2>4. CASE UNCHANGED vars
    BY <2>2, <2>4 DEF vars, hostVars, CallMade, Board!rsVars
  <2> QED BY <2>1, <2>2, <2>3, <2>4
<1> QED BY <1>1, <1>2, PTL DEF MCSpec, IsRegisters, Board!RsSpec
=============================================================================
