--------------------------- MODULE StreamPipeProof ---------------------------
(***************************************************************************)
(* Proofs about a BufferedOutputStream, and about it and a                 *)
(* BufferedInputStream at the two ends of one stream, for every buffer     *)
(* size, call size and number of exceptions.                               *)
(***************************************************************************)
EXTENDS StreamPipe, SequenceTheorems, TLAPS

USE OutputAssumption DEF OutputAssumption, Slots

(* n copies of bytes from the number from on are a sequence of numbers.    *)
LEMMA BytesType ==
  ASSUME NEW from \in Nat, NEW len \in Nat
  PROVE  Bytes(from, len) \in Seq(Nat) /\ Len(Bytes(from, len)) = len
<1> DEFINE b == [i \in 1 .. len |-> from + i - 1]
<1>1. b \in [1 .. len -> Nat]
  OBVIOUS
<1>2. b \in Seq(Nat) /\ Len(b) = len
  BY <1>1
<1> QED BY <1>2 DEF Bytes

(* The bytes of the write that returns are numbers.                        *)
LEMMA AckType ==
  ASSUME OutTypeOK, Acknowledge
  PROVE  acked' \in SUBSET Nat
<1>1. call.from \in Nat /\ call.len \in Nat /\ acked \subseteq Nat
  BY DEF OutTypeOK
<1>2. call.from .. call.from + call.len - 1 \subseteq Nat
  BY <1>1
<1> QED BY <1>1, <1>2 DEF Acknowledge

(* A memcpy into the buffer keeps the types (BufferedOutputStream::write).  *)
LEMMA CopyInType ==
  ASSUME OutTypeOK, NEW n \in Nat, n <= BufSize - pwrite, n <= size, CopyIn(n)
  PROVE  /\ buf' \in [Slots -> Nat] /\ pwrite' \in 0 .. BufSize /\ plow' \in Nat
         /\ p' \in Nat /\ size' \in Nat /\ copied' \in Seq(Nat)
         /\ Len(copied') = Len(copied) + n
<1>1. copied \in Seq(Nat) /\ Len(copied) \in Nat /\ p \in Nat
  BY DEF OutTypeOK
<1>2. Bytes(p, n) \in Seq(Nat) /\ Len(Bytes(p, n)) = n
  BY <1>1, BytesType
<1>3. copied' = copied \o Bytes(p, n)
  BY DEF CopyIn
<1>4. copied' \in Seq(Nat) /\ Len(copied') = Len(copied) + n
  <2> DEFINE b == Bytes(p, n)
  <2>1. b \in Seq(Nat) /\ Len(b) = n
    BY <1>2
  <2> HIDE DEF b
  <2>2. copied \o b \in Seq(Nat) /\ Len(copied \o b) = Len(copied) + n
    BY <1>1, <2>1, ConcatProperties
  <2>3. copied' = copied \o b
    BY <1>3 DEF b
  <2> QED BY <2>2, <2>3
<1>5. buf' \in [Slots -> Nat]
  BY <1>1 DEF OutTypeOK, CopyIn
<1>6. pwrite' \in 0 .. BufSize /\ plow' \in Nat /\ p' \in Nat /\ size' \in Nat
  BY DEF OutTypeOK, CopyIn
<1> QED BY <1>4, <1>5, <1>6

(* Every step keeps the types of the buffer, the frames and the histories. *)
LEMMA OutTypeStep ==
  /\ OutInit => OutTypeOK
  /\ OutTypeOK /\ [OutNext]_outVars => OutTypeOK'
<1>1. OutInit => OutTypeOK
  <2> SUFFICES ASSUME OutInit PROVE OutTypeOK
    OBVIOUS
  <2>1. buf \in [Slots -> Nat]
    BY DEF OutInit, Garbage
  <2>2. call \in [from : Nat, len : Nat, force : BOOLEAN]
    BY DEF OutInit, NoCall
  <2>3. sent \in Seq(Nat) /\ copied \in Seq(Nat)
    BY DEF OutInit
  <2>4. /\ pwrite \in 0 .. BufSize /\ plow \in Nat
        /\ wpc \in {"idle", "copy", "flush", "closed", "stream"}
        /\ p \in Nat /\ size \in Nat /\ fsize \in 0 .. BufSize
        /\ fret \in {"idle", "copy", "return", "closed"}
        /\ next \in Nat /\ acked \in SUBSET Nat /\ throws \in Nat
    BY DEF OutInit
  <2>5. direct \in BOOLEAN /\ torn \in BOOLEAN /\ retried \in BOOLEAN /\ overrun \in BOOLEAN
    BY DEF OutInit
  <2> QED BY <2>1, <2>2, <2>3, <2>4, <2>5 DEF OutTypeOK
<1>2. OutTypeOK /\ [OutNext]_outVars => OutTypeOK'
  <2> SUFFICES ASSUME OutTypeOK, [OutNext]_outVars PROVE OutTypeOK'
    OBVIOUS
  <2> USE DEF outObject, EnterFlush
  <2>1. ASSUME NEW len \in 1 .. MaxCall, NEW force \in BOOLEAN, WriteCall(len, force)
        PROVE  OutTypeOK'
    BY <2>1 DEF WriteCall, OutTypeOK
  <2>2. CASE Copy
    <3>1. CASE CopyFull
      BY <2>2, <3>1 DEF Copy, CopyFull, OutTypeOK
    <3>2. CASE CopyRest
      <4>1. CopyIn(size) /\ size <= BufSize - pwrite /\ size \in Nat /\ size <= size
        BY <3>2 DEF CopyRest, OutTypeOK
      <4>2. /\ buf' \in [Slots -> Nat] /\ pwrite' \in 0 .. BufSize /\ plow' \in Nat
            /\ p' \in Nat /\ size' \in Nat /\ copied' \in Seq(Nat)
        BY <4>1, CopyInType
      <4>3. acked' \in SUBSET Nat
        BY <3>2, AckType DEF CopyRest, OutTypeOK
      <4> QED BY <2>2, <3>2, <4>2, <4>3 DEF Copy, CopyRest, OutTypeOK
    <3>3. CASE CopyPart
      <4>1. CopyIn(BufSize - pwrite) /\ BufSize - pwrite <= size /\ BufSize - pwrite \in Nat
            /\ BufSize - pwrite <= BufSize - pwrite
        BY <3>3 DEF CopyPart, OutTypeOK
      <4>2. /\ buf' \in [Slots -> Nat] /\ pwrite' \in 0 .. BufSize /\ plow' \in Nat
            /\ p' \in Nat /\ size' \in Nat /\ copied' \in Seq(Nat)
        BY <4>1, CopyInType
      <4> QED BY <2>2, <3>3, <4>2 DEF Copy, CopyPart, OutTypeOK
    <3> QED BY <2>2, <3>1, <3>2, <3>3 DEF Copy
  <2>3. CASE FlushCall
    BY <2>3 DEF FlushCall, OutTypeOK
  <2>4. ASSUME NEW r \in 1 .. BufSize, FlushWrite(r) PROVE OutTypeOK'
    <3> DEFINE part == [i \in 1 .. r |-> At(plow + i - 1)]
    <3>1. part \in [1 .. r -> Nat]
      BY DEF At, Garbage, OutTypeOK
    <3>2. part \in Seq(Nat)
      BY <3>1
    <3>3. sent' \in Seq(Nat)
      BY <2>4, <3>2 DEF FlushWrite, OutTypeOK
    <3> QED BY <2>4, <3>3 DEF FlushWrite, OutTypeOK
  <2>5. CASE FlushDone
    <3>1. acked' \in SUBSET Nat
      BY <2>5, AckType DEF FlushDone, OutTypeOK
    <3> QED BY <2>5, <3>1 DEF FlushDone, OutTypeOK
  <2>6. ASSUME NEW again \in BOOLEAN, Throw(again) PROVE OutTypeOK'
    <3>1. wpc' \in {"idle", "copy", "flush", "closed", "stream"} /\ p' \in Nat /\ size' \in Nat
      BY <2>6 DEF Throw, Unwind, OutTypeOK
    <3>2. retried' \in BOOLEAN
      BY <2>6 DEF Throw, Unwind, OutTypeOK
    <3>3. torn' \in BOOLEAN /\ overrun' \in BOOLEAN
      BY <2>6 DEF Throw
    <3> QED BY <2>6, <3>1, <3>2, <3>3 DEF Throw, OutTypeOK
  <2>7. ASSUME NEW r \in 1 .. MaxCall, StreamWrite(r) PROVE OutTypeOK'
    <3> DEFINE stamps == [i \in 1 .. r |-> Len(copied) + i]
    <3>1. Bytes(p, r) \in Seq(Nat)
      BY BytesType DEF OutTypeOK
    <3>2. copied' \in Seq(Nat)
      BY <2>7, <3>1 DEF StreamWrite, OutTypeOK
    <3>3. stamps \in [1 .. r -> Nat]
      BY DEF OutTypeOK
    <3>4. stamps \in Seq(Nat)
      BY <3>3
    <3>5. sent' \in Seq(Nat)
      BY <2>7, <3>4 DEF StreamWrite, OutTypeOK
    <3>6. acked' \in SUBSET Nat
      BY <2>7, AckType DEF StreamWrite, OutTypeOK
    <3> QED BY <2>7, <3>2, <3>5, <3>6 DEF StreamWrite, OutTypeOK
  <2>8. CASE UNCHANGED outVars
    BY <2>8 DEF outVars, outFrame, OutTypeOK
  <2> QED BY <2>1, <2>2, <2>3, <2>4, <2>5, <2>6, <2>7, <2>8 DEF OutNext
<1> QED BY <1>1, <1>2

THEOREM OutTypeCorrect == OutSpec => []OutTypeOK
BY OutTypeStep, PTL DEF OutSpec
-----------------------------------------------------------------------------
(* What an untorn stream has part and what the buffer holds, spelled out. *)
Untorn ==
  /\ \A i \in DOMAIN sent : sent[i] = i
  /\ Len(sent) + pwrite - plow = Len(copied)
  /\ ~direct => \A i \in plow .. pwrite - 1 : buf[i] = Len(sent) + 1 + i - plow
  /\ plow <= pwrite
  /\ IF wpc = "flush" THEN plow + fsize = pwrite ELSE plow = 0

(* A memcpy into the buffer appends the copies that come next.              *)
LEMMA CopyInOrder ==
  ASSUME OutTypeOK, Untorn, DirectShape, wpc = "copy",
         NEW n \in Nat, n <= BufSize - pwrite, n <= size, CopyIn(n),
         UNCHANGED <<sent, direct>>, wpc' # "flush" \/ fsize' = pwrite'
  PROVE  Untorn'
<1>1. Len(copied') = Len(copied) + n
  BY CopyInType
<1>2. /\ plow = 0 /\ plow' = 0 /\ pwrite' = pwrite + n /\ pwrite \in Nat
      /\ ~direct /\ Len(sent) \in Nat /\ Len(sent) + pwrite = Len(copied)
  BY DEF Untorn, DirectShape, CopyIn, OutTypeOK
<1>3. Len(sent') + pwrite' - plow' = Len(copied')
  BY <1>1, <1>2
<1>4. ASSUME NEW i \in plow' .. pwrite' - 1
      PROVE  buf'[i] = Len(sent') + 1 + i - plow'
  <2>1. i \in Slots
    BY <1>2, <1>4 DEF OutTypeOK
  <2>2. CASE i < pwrite
    <3>1. buf'[i] = buf[i]
      BY <1>2, <2>1, <2>2 DEF CopyIn
    <3>2. buf[i] = Len(sent) + 1 + i - plow
      BY <1>2, <1>4, <2>2 DEF Untorn
    <3> QED BY <1>2, <3>1, <3>2
  <2>3. CASE i >= pwrite
    <3>1. buf'[i] = Len(copied) + 1 + i - pwrite
      BY <1>2, <1>4, <2>1, <2>3 DEF CopyIn
    <3> QED BY <1>2, <1>4, <3>1
  <2> QED BY <1>2, <2>2, <2>3
<1>5. \A i \in DOMAIN sent' : sent'[i] = i
  BY DEF Untorn
<1> QED BY <1>2, <1>3, <1>4, <1>5 DEF Untorn, OutTypeOK

(* r stamps that follow on keep a sequence of stamps one.                   *)
LEMMA StampsFollow ==
  ASSUME NEW s \in Seq(Nat), \A i \in DOMAIN s : s[i] = i,
         NEW t \in Seq(Nat), \A i \in 1 .. Len(t) : t[i] = Len(s) + i
  PROVE  Len(s \o t) = Len(s) + Len(t) /\ \A i \in DOMAIN (s \o t) : (s \o t)[i] = i
<1>1. /\ s \o t \in Seq(Nat) /\ Len(s \o t) = Len(s) + Len(t)
      /\ Len(s) \in Nat /\ Len(t) \in Nat
  BY ConcatProperties
<1>2. DOMAIN (s \o t) = 1 .. Len(s) + Len(t) /\ DOMAIN s = 1 .. Len(s)
  <2> DEFINE st == s \o t
  <2>1. st \in Seq(Nat) /\ Len(st) = Len(s) + Len(t)
    BY <1>1
  <2> HIDE DEF st
  <2>2. DOMAIN st = 1 .. Len(s) + Len(t) /\ DOMAIN s = 1 .. Len(s)
    BY <2>1
  <2> QED BY <2>2 DEF st
<1>3. \A i \in 1 .. Len(s) + Len(t) :
        (s \o t)[i] = IF i <= Len(s) THEN s[i] ELSE t[i - Len(s)]
  BY ConcatProperties
<1>4. ASSUME NEW i \in 1 .. Len(s) + Len(t) PROVE (s \o t)[i] = i
  <2>1. CASE i <= Len(s)
    BY <1>1, <1>2, <1>3, <2>1
  <2>2. CASE ~(i <= Len(s))
    <3>1. i - Len(s) \in 1 .. Len(t)
      BY <1>1, <2>2
    <3>2. (s \o t)[i] = t[i - Len(s)] /\ t[i - Len(s)] = Len(s) + (i - Len(s))
      BY <1>3, <2>2, <3>1
    <3> QED BY <1>1, <3>2
  <2> QED BY <2>1, <2>2
<1> QED BY <1>1, <1>2, <1>4

(* Every step keeps the order of the copies, unless it tears a flush.       *)
LEMMA OrderStep ==
  ASSUME OutTypeOK, DirectShape, torn \/ Untorn, [OutNext]_outVars
  PROVE  DirectShape' /\ (torn' \/ Untorn')
<1> USE DEF outObject, EnterFlush
<1> DEFINE Goal == DirectShape' /\ (torn' \/ Untorn')
<1>1. ASSUME NEW len \in 1 .. MaxCall, NEW force \in BOOLEAN, WriteCall(len, force)
      PROVE  Goal
  <2>1. DirectShape'
    BY <1>1 DEF WriteCall, DirectShape
  <2>2. torn' \/ Untorn'
    BY <1>1 DEF WriteCall, Untorn
  <2> QED BY <2>1, <2>2
<1>2. CASE Copy
  <2>1. ~direct /\ ~direct' /\ wpc = "copy" /\ torn' = torn /\ UNCHANGED <<sent, direct>>
    BY <1>2 DEF Copy, CopyFull, CopyRest, CopyPart, DirectShape
  <2>2. DirectShape'
    BY <1>2, <2>1 DEF Copy, CopyFull, CopyRest, CopyPart, DirectShape
  <2>3. ASSUME Untorn PROVE Untorn'
    <3>1. CASE CopyFull
      BY <2>1, <2>3, <3>1 DEF CopyFull, Untorn, OutTypeOK
    <3>2. CASE CopyRest
      <4>1. CopyIn(size) /\ size \in Nat /\ size <= BufSize - pwrite /\ size <= size
        BY <3>2 DEF CopyRest, OutTypeOK
      <4>2. wpc' # "flush" \/ fsize' = pwrite'
        BY <3>2 DEF CopyRest
      <4> QED BY <2>1, <2>3, <4>1, <4>2, CopyInOrder
    <3>3. CASE CopyPart
      <4>1. /\ CopyIn(BufSize - pwrite) /\ BufSize - pwrite \in Nat
            /\ BufSize - pwrite <= size /\ BufSize - pwrite <= BufSize - pwrite
        BY <3>3 DEF CopyPart, OutTypeOK
      <4>2. wpc' # "flush"
        BY <2>1, <3>3 DEF CopyPart
      <4> QED BY <2>1, <2>3, <4>1, <4>2, CopyInOrder
    <3> QED BY <1>2, <3>1, <3>2, <3>3 DEF Copy
  <2> QED BY <2>1, <2>2, <2>3
<1>3. CASE FlushCall
  <2>1. DirectShape'
    BY <1>3 DEF FlushCall, DirectShape
  <2>2. torn' \/ Untorn'
    BY <1>3 DEF FlushCall, Untorn, OutTypeOK
  <2> QED BY <2>1, <2>2
<1>4. ASSUME NEW r \in 1 .. BufSize, FlushWrite(r) PROVE Goal
  <2>1. DirectShape'
    BY <1>4 DEF FlushWrite, DirectShape
  <2>2. ASSUME Untorn PROVE Untorn'
    <3> DEFINE part == [i \in 1 .. r |-> At(plow + i - 1)]
    <3>1. /\ ~direct /\ plow \in Nat /\ pwrite \in Nat /\ pwrite <= BufSize
          /\ fsize \in Nat /\ r \in Nat /\ plow + fsize = pwrite /\ r <= fsize
          /\ Len(sent) \in Nat /\ sent \in Seq(Nat)
      BY <1>4, <2>2 DEF FlushWrite, Untorn, OutTypeOK, DirectShape
    <3>2. part \in Seq(Nat) /\ Len(part) = r
      <4>1. part \in [1 .. r -> Nat]
        BY DEF At, Garbage, OutTypeOK
      <4> QED BY <4>1
    <3>3. \A i \in 1 .. Len(part) : part[i] = Len(sent) + i
      <4> SUFFICES ASSUME NEW i \in 1 .. r PROVE At(plow + i - 1) = Len(sent) + i
        BY <3>2
      <4>1. plow + i - 1 \in plow .. pwrite - 1 /\ plow + i - 1 \in Slots
        BY <3>1
      <4>2. buf[plow + i - 1] = Len(sent) + 1 + (plow + i - 1) - plow
        BY <2>2, <3>1, <4>1 DEF Untorn
      <4> QED BY <3>1, <4>1, <4>2 DEF At
    <3>4. sent' = sent \o part
      BY <1>4 DEF FlushWrite
    <3> HIDE DEF part
    <3>5. Len(sent') = Len(sent) + r /\ \A i \in DOMAIN sent' : sent'[i] = i
      <4>1. \A i \in DOMAIN sent : sent[i] = i
        BY <2>2 DEF Untorn
      <4>2. /\ Len(sent \o part) = Len(sent) + Len(part)
            /\ \A i \in DOMAIN (sent \o part) : (sent \o part)[i] = i
        BY <3>1, <3>2, <3>3, <4>1, StampsFollow
      <4> QED BY <3>2, <3>4, <4>2
    <3>7. \A i \in plow' .. pwrite' - 1 : buf'[i] = Len(sent') + 1 + i - plow'
      BY <1>4, <2>2, <3>1, <3>5 DEF Untorn, FlushWrite
    <3>8. Len(sent') + pwrite' - plow' = Len(copied')
      <4>1. pwrite' = pwrite /\ plow' = plow + r /\ copied' = copied
        BY <1>4 DEF FlushWrite
      <4>2. Len(copied) = Len(sent) + pwrite - plow
        BY <2>2 DEF Untorn
      <4> QED BY <3>1, <3>5, <4>1, <4>2
    <3>9. wpc' = "flush" /\ plow' <= pwrite' /\ plow' + fsize' = pwrite'
      BY <1>4, <3>1 DEF FlushWrite
    <3> QED BY <3>5, <3>7, <3>8, <3>9 DEF Untorn
  <2> QED BY <1>4, <2>1, <2>2 DEF FlushWrite
<1>5. CASE FlushDone
  <2>1. DirectShape'
    BY <1>5 DEF FlushDone, DirectShape, OutTypeOK
  <2>2. ASSUME Untorn PROVE Untorn'
    BY <1>5, <2>2 DEF FlushDone, Untorn, OutTypeOK
  <2> QED BY <1>5, <2>1, <2>2 DEF FlushDone
<1>6. ASSUME NEW again \in BOOLEAN, Throw(again) PROVE Goal
  <2>1. /\ UNCHANGED <<buf, pwrite, plow, direct, sent, copied>>
        /\ torn' = (torn \/ (wpc = "flush" /\ plow > 0))
    BY <1>6 DEF Throw
  <2>2. wpc' # "flush" /\ DirectShape'
    BY <1>6, <2>1 DEF Throw, Unwind, DirectShape, OutTypeOK
  <2>3. ASSUME Untorn, ~torn' PROVE Untorn'
    <3>1. plow = 0
      <4>1. ~(wpc = "flush" /\ plow > 0)
        BY <2>1, <2>3
      <4>2. plow \in Nat /\ (wpc # "flush" => plow = 0)
        BY <2>3 DEF Untorn, OutTypeOK
      <4> QED BY <4>1, <4>2
    <3> QED BY <2>1, <2>2, <2>3, <3>1 DEF Untorn
  <2> QED BY <2>1, <2>2, <2>3
<1>7. ASSUME NEW r \in 1 .. MaxCall, StreamWrite(r) PROVE Goal
  <2>1. DirectShape' /\ direct /\ direct' /\ wpc' # "flush" /\ torn' = torn
    BY <1>7 DEF StreamWrite, DirectShape
  <2>2. ASSUME Untorn PROVE Untorn'
    <3> DEFINE stamps == [i \in 1 .. r |-> Len(copied) + i]
    <3>1. /\ plow = 0 /\ pwrite = 0 /\ r \in Nat /\ Len(sent) = Len(copied)
          /\ Len(copied) \in Nat /\ sent \in Seq(Nat) /\ copied \in Seq(Nat) /\ p \in Nat
      BY <2>1, <2>2 DEF Untorn, DirectShape, OutTypeOK
    <3>2. stamps \in Seq(Nat) /\ Len(stamps) = r
      <4>1. stamps \in [1 .. r -> Nat]
        BY <3>1
      <4> QED BY <4>1
    <3>3. sent' = sent \o stamps /\ copied' = copied \o Bytes(p, r)
      BY <1>7 DEF StreamWrite
    <3>4. Len(sent') = Len(sent) + r /\ \A i \in DOMAIN sent' : sent'[i] = i
      <4>1. \A i \in DOMAIN sent : sent[i] = i
        BY <2>2 DEF Untorn
      <4>2. \A i \in 1 .. Len(stamps) : stamps[i] = Len(sent) + i
        BY <3>1, <3>2
      <4> HIDE DEF stamps
      <4>3. /\ Len(sent \o stamps) = Len(sent) + Len(stamps)
            /\ \A i \in DOMAIN (sent \o stamps) : (sent \o stamps)[i] = i
        BY <3>1, <3>2, <4>1, <4>2, StampsFollow
      <4> QED BY <3>2, <3>3, <4>3
    <3>5. Len(copied') = Len(copied) + r
      <4>1. Bytes(p, r) \in Seq(Nat) /\ Len(Bytes(p, r)) = r
        BY <3>1, BytesType
      <4> QED BY <3>1, <3>3, <4>1, ConcatProperties
    <3>6. pwrite' = 0 /\ plow' = 0
      BY <1>7, <3>1 DEF StreamWrite
    <3>7. Len(sent') + pwrite' - plow' = Len(copied')
      BY <3>1, <3>4, <3>5, <3>6
    <3> QED BY <2>1, <3>4, <3>6, <3>7 DEF Untorn
  <2> QED BY <2>1, <2>2
<1>8. CASE UNCHANGED outVars
  <2>1. DirectShape'
    BY <1>8 DEF outVars, outFrame, DirectShape
  <2>2. torn' \/ Untorn'
    BY <1>8 DEF outVars, outFrame, Untorn
  <2> QED BY <2>1, <2>2
<1> QED BY <1>1, <1>2, <1>3, <1>4, <1>5, <1>6, <1>7, <1>8 DEF OutNext

(* The stream below gets every copy once and in order, whatever exceptions  *)
(* it throws, until one cuts a flush it has part part of                   *)
(* (BufferedOutputStream::write, flush).                                    *)
THEOREM CopiesInOrderHolds == OutSpec => []CopiesInOrder
<1> DEFINE Inv == OutTypeOK /\ DirectShape /\ (torn \/ Untorn)
<1>1. OutInit => Inv
  <2> SUFFICES ASSUME OutInit PROVE DirectShape /\ Untorn
    BY OutTypeStep
  <2> QED BY DEF OutInit, DirectShape, Untorn
<1>2. Inv /\ [OutNext]_outVars => Inv'
  BY OutTypeStep, OrderStep
<1>3. Inv => CopiesInOrder
  BY DEF CopiesInOrder, Untorn
<1> QED BY <1>1, <1>2, <1>3, PTL DEF OutSpec

-----------------------------------------------------------------------------
(* A sequence behind another: where the elements of each are.               *)
LEMMA Joined ==
  ASSUME NEW s \in Seq(Nat), NEW t \in Seq(Nat), NEW st, st = s \o t
  PROVE  /\ st \in Seq(Nat) /\ Len(st) = Len(s) + Len(t) /\ DOMAIN st = 1 .. Len(s) + Len(t)
         /\ \A i \in 1 .. Len(s) : st[i] = s[i]
         /\ \A i \in 1 .. Len(t) : st[Len(s) + i] = t[i]
<1>1. /\ st \in Seq(Nat) /\ Len(st) = Len(s) + Len(t) /\ Len(s) \in Nat /\ Len(t) \in Nat
      /\ \A i \in 1 .. Len(s) + Len(t) : st[i] = IF i <= Len(s) THEN s[i] ELSE t[i - Len(s)]
  BY ConcatProperties
<1>2. DOMAIN st = 1 .. Len(s) + Len(t)
  BY <1>1
<1>3. \A i \in 1 .. Len(s) : st[i] = s[i]
  BY <1>1
<1>4. ASSUME NEW i \in 1 .. Len(t) PROVE st[Len(s) + i] = t[i]
  <2>1. /\ Len(s) + i \in 1 .. Len(s) + Len(t) /\ ~(Len(s) + i <= Len(s))
        /\ (Len(s) + i) - Len(s) = i
    BY <1>1
  <2> QED BY <1>1, <2>1
<1> QED BY <1>1, <1>2, <1>3, <1>4

(* What a step does to the buffer, the copies and the stream below.         *)
LEMMA OutSteps ==
  ASSUME OutTypeOK, [OutNext]_outVars
  PROVE  \/ UNCHANGED <<buf, sent, copied>>
         \/ \E n \in Nat : /\ wpc = "copy" /\ n <= BufSize - pwrite /\ n <= size /\ CopyIn(n)
                           /\ sent' = sent
         \/ \E r \in 1 .. BufSize : FlushWrite(r)
         \/ \E r \in 1 .. MaxCall : StreamWrite(r)
<1>1. CASE Copy
  <2>1. CASE CopyFull
    BY <1>1, <2>1 DEF Copy, CopyFull, outObject
  <2>2. CASE CopyRest
    <3>1. size \in Nat /\ CopyIn(size) /\ wpc = "copy" /\ size <= BufSize - pwrite /\ sent' = sent
      BY <1>1, <2>2 DEF Copy, CopyRest, OutTypeOK
    <3> QED BY <3>1
  <2>3. CASE CopyPart
    <3>1. /\ BufSize - pwrite \in Nat /\ CopyIn(BufSize - pwrite) /\ wpc = "copy"
          /\ BufSize - pwrite <= size /\ sent' = sent
      BY <1>1, <2>3 DEF Copy, CopyPart, OutTypeOK
    <3> QED BY <3>1
  <2> QED BY <1>1, <2>1, <2>2, <2>3 DEF Copy
<1>2. CASE \/ FlushCall \/ FlushDone \/ \E again \in BOOLEAN : Throw(again)
           \/ \E len \in 1 .. MaxCall, force \in BOOLEAN : WriteCall(len, force)
  BY <1>2 DEF FlushCall, FlushDone, Throw, WriteCall, outObject
<1>3. CASE UNCHANGED outVars
  BY <1>3 DEF outVars, outObject
<1> QED BY <1>1, <1>2, <1>3 DEF OutNext

(* Copies and what the stream has taken only grow, and a stamp is that of a *)
(* copy that was made.                                                      *)
StampInv == /\ \A i \in DOMAIN sent : sent[i] <= Len(copied)
            /\ \A i \in Slots : buf[i] <= Len(copied)

Grows(s, t) == /\ Len(s) <= Len(t) /\ \A i \in 1 .. Len(s) : t[i] = s[i]

LEMMA OutGrows ==
  ASSUME OutTypeOK, StampInv, [OutNext]_outVars
  PROVE  StampInv' /\ Grows(sent, sent') /\ Grows(copied, copied')
<1>1. /\ sent \in Seq(Nat) /\ copied \in Seq(Nat) /\ Len(copied) \in Nat /\ Len(sent) \in Nat
      /\ DOMAIN sent = 1 .. Len(sent) /\ plow \in Nat /\ pwrite \in Nat /\ p \in Nat
      /\ \A i \in Slots : buf[i] \in Nat
      /\ \A i \in 1 .. Len(sent) : sent[i] \in Nat
  BY DEF OutTypeOK
<1>2. CASE UNCHANGED <<buf, sent, copied>>
  BY <1>1, <1>2 DEF StampInv, Grows
<1>3. ASSUME NEW n \in Nat, wpc = "copy", n <= BufSize - pwrite, n <= size, CopyIn(n), sent' = sent
      PROVE  StampInv' /\ Grows(sent, sent') /\ Grows(copied, copied')
  <2>1. Bytes(p, n) \in Seq(Nat) /\ Len(Bytes(p, n)) = n /\ copied' = copied \o Bytes(p, n)
    BY <1>1, <1>3, BytesType DEF CopyIn
  <2>2. Len(copied') = Len(copied) + n /\ \A i \in 1 .. Len(copied) : copied'[i] = copied[i]
    <3> DEFINE new == Bytes(p, n)
    <3>1. copied \in Seq(Nat) /\ new \in Seq(Nat) /\ copied' = copied \o new
      BY <1>1, <2>1
    <3>2. Len(new) = n
      BY <1>1, <2>1
    <3> HIDE DEF new
    <3>3. /\ Len(copied') = Len(copied) + Len(new)
          /\ \A i \in 1 .. Len(copied) : copied'[i] = copied[i]
      BY ONLY <3>1, Joined
    <3> QED BY ONLY <3>2, <3>3
  <2>3. ASSUME NEW i \in Slots PROVE buf'[i] <= Len(copied')
    <3>1. buf'[i] = IF i \in pwrite .. pwrite + n - 1 THEN Len(copied) + 1 + i - pwrite ELSE buf[i]
      BY <1>3 DEF CopyIn
    <3>2. buf[i] <= Len(copied) /\ buf[i] \in Nat
      BY <1>1 DEF StampInv
    <3> QED BY <1>1, <2>2, <3>1, <3>2
  <2>4. ASSUME NEW i \in DOMAIN sent' PROVE sent'[i] <= Len(copied')
    <3>1. i \in DOMAIN sent /\ sent'[i] = sent[i]
      BY <1>3
    <3>2. sent[i] \in Nat /\ sent[i] <= Len(copied)
      BY <1>1, <3>1 DEF StampInv
    <3> QED BY <1>1, <2>2, <3>1, <3>2
  <2> QED BY <1>1, <1>3, <2>2, <2>3, <2>4 DEF StampInv, Grows
<1>4. ASSUME NEW r \in 1 .. BufSize, FlushWrite(r)
      PROVE  StampInv' /\ Grows(sent, sent') /\ Grows(copied, copied')
  <2> DEFINE part == [i \in 1 .. r |-> At(plow + i - 1)]
  <2>1. part \in Seq(Nat) /\ Len(part) = r /\ \A i \in 1 .. r : part[i] <= Len(copied)
    <3>1. part \in [1 .. r -> Nat]
      BY DEF At, Garbage, OutTypeOK
    <3>2. \A i \in 1 .. r : part[i] <= Len(copied)
      BY <1>1 DEF StampInv, At, Garbage
    <3>3. part \in Seq(Nat) /\ Len(part) = r
      <4> HIDE DEF part
      <4> QED BY <3>1
    <3> QED BY <3>2, <3>3
  <2>2. sent' = sent \o part /\ buf' = buf /\ copied' = copied
    BY <1>4 DEF FlushWrite
  <2> HIDE DEF part
  <2>3. /\ Len(sent') = Len(sent) + r /\ DOMAIN sent' = 1 .. Len(sent) + r
        /\ \A i \in 1 .. Len(sent) : sent'[i] = sent[i]
        /\ \A i \in 1 .. r : sent'[Len(sent) + i] = part[i]
    <3>1. sent \in Seq(Nat) /\ part \in Seq(Nat) /\ sent' = sent \o part
      BY <1>1, <2>1, <2>2
    <3>2. /\ Len(sent') = Len(sent) + Len(part) /\ DOMAIN sent' = 1 .. Len(sent) + Len(part)
          /\ \A i \in 1 .. Len(sent) : sent'[i] = sent[i]
          /\ \A i \in 1 .. Len(part) : sent'[Len(sent) + i] = part[i]
      BY ONLY <3>1, Joined
    <3> QED BY <2>1, <3>2
  <2>4. ASSUME NEW i \in DOMAIN sent' PROVE sent'[i] <= Len(copied')
    <3>1. CASE i \in 1 .. Len(sent)
      BY <1>1, <2>2, <2>3, <3>1 DEF StampInv
    <3>2. CASE i \notin 1 .. Len(sent)
      <4>1. i - Len(sent) \in 1 .. r /\ i = Len(sent) + (i - Len(sent))
        BY <1>1, <2>3, <3>2
      <4> QED BY <2>1, <2>2, <2>3, <4>1
    <3> QED BY <3>1, <3>2
  <2> QED BY <1>1, <2>2, <2>3, <2>4 DEF StampInv, Grows
<1>5. ASSUME NEW r \in 1 .. MaxCall, StreamWrite(r)
      PROVE  StampInv' /\ Grows(sent, sent') /\ Grows(copied, copied')
  <2> DEFINE part == [i \in 1 .. r |-> Len(copied) + i]
  <2>1. part \in Seq(Nat) /\ Len(part) = r /\ \A i \in 1 .. r : part[i] <= Len(copied) + r
    <3>1. part \in [1 .. r -> Nat] /\ \A i \in 1 .. r : part[i] <= Len(copied) + r
      BY <1>1
    <3>2. part \in Seq(Nat) /\ Len(part) = r
      <4> HIDE DEF part
      <4> QED BY <3>1
    <3> QED BY <3>1, <3>2
  <2>2. /\ sent' = sent \o part /\ buf' = buf /\ copied' = copied \o Bytes(p, r)
        /\ Bytes(p, r) \in Seq(Nat) /\ Len(Bytes(p, r)) = r
    BY <1>1, <1>5, BytesType DEF StreamWrite, outObject
  <2> HIDE DEF part
  <2>3. /\ Len(sent') = Len(sent) + r /\ DOMAIN sent' = 1 .. Len(sent) + r
        /\ \A i \in 1 .. Len(sent) : sent'[i] = sent[i]
        /\ \A i \in 1 .. r : sent'[Len(sent) + i] = part[i]
    <3>1. sent \in Seq(Nat) /\ part \in Seq(Nat) /\ sent' = sent \o part
      BY <1>1, <2>1, <2>2
    <3>2. /\ Len(sent') = Len(sent) + Len(part) /\ DOMAIN sent' = 1 .. Len(sent) + Len(part)
          /\ \A i \in 1 .. Len(sent) : sent'[i] = sent[i]
          /\ \A i \in 1 .. Len(part) : sent'[Len(sent) + i] = part[i]
      BY ONLY <3>1, Joined
    <3> QED BY <2>1, <3>2
  <2>4. Len(copied') = Len(copied) + r /\ \A i \in 1 .. Len(copied) : copied'[i] = copied[i]
    <3> DEFINE new == Bytes(p, r)
    <3>1. copied \in Seq(Nat) /\ new \in Seq(Nat) /\ copied' = copied \o new
      BY <1>1, <2>2
    <3>2. Len(new) = r
      BY <1>1, <2>2
    <3> HIDE DEF new
    <3>3. /\ Len(copied') = Len(copied) + Len(new)
          /\ \A i \in 1 .. Len(copied) : copied'[i] = copied[i]
      BY ONLY <3>1, Joined
    <3> QED BY ONLY <3>2, <3>3
  <2>5. ASSUME NEW i \in DOMAIN sent' PROVE sent'[i] <= Len(copied')
    <3>1. CASE i \in 1 .. Len(sent)
      <4>1. sent'[i] = sent[i] /\ sent[i] <= Len(copied) /\ sent[i] \in Nat
        BY <1>1, <2>3, <3>1 DEF StampInv
      <4> QED BY <1>1, <2>4, <4>1
    <3>2. CASE i \notin 1 .. Len(sent)
      <4>1. i - Len(sent) \in 1 .. r /\ i = Len(sent) + (i - Len(sent))
        BY <1>1, <2>3, <3>2
      <4> QED BY <2>1, <2>3, <2>4, <4>1
    <3> QED BY <3>1, <3>2
  <2>6. ASSUME NEW i \in Slots PROVE buf'[i] <= Len(copied')
    <3>1. buf[i] <= Len(copied) /\ buf[i] \in Nat
      BY <1>1 DEF StampInv
    <3> QED BY <1>1, <2>2, <2>4, <3>1
  <2> QED BY <1>1, <2>3, <2>4, <2>5, <2>6 DEF StampInv, Grows
<1> QED BY <1>2, <1>3, <1>4, <1>5, OutSteps
-----------------------------------------------------------------------------
(* Where a copy is, as long as nothing has been lost: with the stream below *)
(* or in the part of the buffer the next flush offers.                      *)
Sent(s) == \E i \in DOMAIN sent : sent[i] = s
InBuffer(s) == \E i \in plow .. pwrite - 1 : i \in Slots /\ buf[i] = s
Placed(s) == Sent(s) \/ (wpc # "closed" /\ InBuffer(s))

Safe == ~overrun /\ (wpc = "closed" => throws = 0)
Bounded == IF wpc = "flush" THEN plow + fsize >= pwrite ELSE plow <= pwrite
Kept == Safe => (\A s \in 1 .. Len(copied) : Placed(s)) /\ Bounded

(* A closed stream does nothing more, and a loss is not undone.             *)
LEMMA SafeBack ==
  ASSUME OutTypeOK, [OutNext]_outVars, Safe'
  PROVE  Safe /\ (wpc = "closed" => UNCHANGED outVars)
<1>1. CASE UNCHANGED outVars
  BY <1>1 DEF outVars, outFrame, Safe
<1>2. ASSUME wpc # "closed", ~overrun' => ~overrun PROVE Safe
  BY <1>2 DEF Safe
<1>3. ASSUME NEW len \in 1 .. MaxCall, NEW force \in BOOLEAN, WriteCall(len, force)
      PROVE  wpc # "closed" /\ overrun' = overrun
  BY <1>3 DEF WriteCall
<1>4. ASSUME Copy PROVE wpc # "closed" /\ overrun' = overrun
  BY <1>4 DEF Copy, CopyFull, CopyRest, CopyPart
<1>5. ASSUME FlushCall PROVE wpc # "closed" /\ overrun' = overrun
  BY <1>5 DEF FlushCall
<1>6. ASSUME NEW r \in 1 .. BufSize, FlushWrite(r) PROVE wpc # "closed" /\ overrun' = overrun
  BY <1>6 DEF FlushWrite
<1>7. ASSUME FlushDone PROVE wpc # "closed" /\ overrun' = overrun
  BY <1>7 DEF FlushDone
<1>8. ASSUME NEW again \in BOOLEAN, Throw(again) PROVE wpc # "closed" /\ (~overrun' => ~overrun)
  BY <1>8, Zenon DEF Throw
<1>9. ASSUME NEW r \in 1 .. MaxCall, StreamWrite(r) PROVE wpc # "closed" /\ overrun' = overrun
  BY <1>9 DEF StreamWrite
<1>10. CASE OutNext
  <2>1. wpc # "closed" /\ (~overrun' => ~overrun)
    BY <1>10, <1>3, <1>4, <1>5, <1>6, <1>7, <1>8, <1>9 DEF OutNext
  <2> QED BY <1>2, <2>1
<1> QED BY <1>1, <1>10

(* What the stream below has taken it keeps.                                *)
LEMMA StaysSent ==
  ASSUME OutTypeOK, Grows(sent, sent'), sent' \in Seq(Nat), NEW s, Sent(s)
  PROVE  Sent(s)'
<1>1. PICK i \in 1 .. Len(sent) : sent[i] = s
  BY DEF Sent, OutTypeOK
<1>2. sent \in Seq(Nat)
  BY DEF OutTypeOK
<1>3. Len(sent) \in Nat /\ Len(sent') \in Nat /\ DOMAIN sent' = 1 .. Len(sent')
  BY ONLY <1>2, sent' \in Seq(Nat)
<1>4. i \in 1 .. Len(sent') /\ sent'[i] = s
  BY <1>1, <1>3 DEF Grows
<1> QED BY <1>3, <1>4 DEF Sent

(* A copy into the buffer puts the new stamps behind the old ones.          *)
LEMMA KeptCopyIn ==
  ASSUME OutTypeOK, StampInv, plow <= pwrite, \A s \in 1 .. Len(copied) : Placed(s),
         wpc # "closed", wpc' # "closed", sent' = sent,
         NEW n \in Nat, n <= BufSize - pwrite, n <= size, CopyIn(n)
  PROVE  \A s \in 1 .. Len(copied') : Placed(s)'
<1> SUFFICES ASSUME NEW s \in 1 .. Len(copied') PROVE Placed(s)'
  OBVIOUS
<1>1. /\ pwrite \in 0 .. BufSize /\ plow \in Nat /\ Len(copied) \in Nat
      /\ pwrite' = pwrite + n /\ plow' = plow /\ n + pwrite <= BufSize
  BY DEF OutTypeOK, CopyIn
<1>2. Len(copied') = Len(copied) + n
  BY CopyInType
<1>3. \A i \in Slots : buf'[i] = IF i \in pwrite .. pwrite + n - 1
                                 THEN Len(copied) + 1 + i - pwrite ELSE buf[i]
  BY DEF CopyIn
<1>4. CASE s \in 1 .. Len(copied)
  <2>1. CASE Sent(s)
    BY <2>1 DEF Sent, Placed
  <2>2. CASE InBuffer(s)
    <3>1. PICK i \in plow .. pwrite - 1 : i \in Slots /\ buf[i] = s
      BY <2>2 DEF InBuffer
    <3>2. i \in plow' .. pwrite' - 1 /\ buf'[i] = s
      BY <1>1, <1>3, <3>1
    <3>3. InBuffer(s)'
      BY <3>1, <3>2 DEF InBuffer
    <3> QED BY <3>3 DEF Placed
  <2> QED BY <1>4, <2>1, <2>2 DEF Placed
<1>5. CASE s \notin 1 .. Len(copied)
  <2> DEFINE i == pwrite + (s - Len(copied) - 1)
  <2>1. s \in Nat /\ Len(copied) < s /\ s <= Len(copied) + n
    BY <1>1, <1>2, <1>5
  <2>2. i \in Slots /\ i \in pwrite .. pwrite + n - 1 /\ i \in plow' .. pwrite' - 1
    BY <1>1, <2>1
  <2>3. buf'[i] = s
    BY <1>1, <1>3, <2>1, <2>2
  <2>4. InBuffer(s)'
    <3> HIDE DEF i
    <3> QED BY <2>2, <2>3 DEF InBuffer
  <2> QED BY <2>4 DEF Placed
<1> QED BY <1>4, <1>5

(* What a flush takes from the buffer the stream below has.                 *)
LEMMA KeptFlushWrite ==
  ASSUME OutTypeOK, StampInv, Kept, Safe, NEW r \in 1 .. BufSize, FlushWrite(r)
  PROVE  (\A s \in 1 .. Len(copied') : Placed(s)') /\ Bounded'
<1>1. /\ pwrite \in Nat /\ plow \in Nat /\ fsize \in Nat /\ r \in Nat
      /\ sent \in Seq(Nat) /\ Len(sent) \in Nat /\ buf \in [Slots -> Nat]
  BY DEF OutTypeOK
<1>2. /\ wpc = "flush" /\ wpc' = "flush" /\ plow' = plow + r /\ fsize' = fsize - r
      /\ pwrite' = pwrite /\ buf' = buf /\ copied' = copied
  BY DEF FlushWrite
<1>3. Bounded'
  BY <1>1, <1>2 DEF Kept, Bounded
<1> DEFINE part == [i \in 1 .. r |-> At(plow + i - 1)]
<1>4. part \in Seq(Nat) /\ Len(part) = r
  <2>1. part \in [1 .. r -> Nat]
    BY DEF At, Garbage, OutTypeOK
  <2> HIDE DEF part
  <2> QED BY <1>1, <2>1
<1>5. ASSUME NEW i \in 1 .. r PROVE part[i] = At(plow + i - 1)
  OBVIOUS
<1>6. sent' = sent \o part
  BY DEF FlushWrite
<1> HIDE DEF part
<1>7. /\ DOMAIN sent' = 1 .. Len(sent) + r
      /\ \A i \in 1 .. Len(sent) : sent'[i] = sent[i]
      /\ \A i \in 1 .. r : sent'[Len(sent) + i] = part[i]
  <2>1. /\ DOMAIN sent' = 1 .. Len(sent) + Len(part)
        /\ \A i \in 1 .. Len(sent) : sent'[i] = sent[i]
        /\ \A i \in 1 .. Len(part) : sent'[Len(sent) + i] = part[i]
    <3>1. sent \in Seq(Nat) /\ part \in Seq(Nat) /\ sent' = sent \o part
      BY <1>1, <1>4, <1>6
    <3> QED BY ONLY <3>1, Joined
  <2> QED BY <1>4, <2>1
<1>8. ASSUME NEW s \in 1 .. Len(copied') PROVE Placed(s)'
  <2>1. Placed(s)
    BY <1>2 DEF Kept
  <2>2. CASE Sent(s)
    <3>1. PICK i \in 1 .. Len(sent) : sent[i] = s
      BY <1>1, <2>2 DEF Sent
    <3>2. i \in DOMAIN sent' /\ sent'[i] = s
      BY <1>1, <1>7, <3>1
    <3>3. Sent(s)'
      BY <3>2 DEF Sent
    <3> QED BY <3>3 DEF Placed
  <2>3. CASE InBuffer(s)
    <3>1. PICK i \in plow .. pwrite - 1 : i \in Slots /\ buf[i] = s
      BY <2>3 DEF InBuffer
    <3>2. CASE i < plow + r
      <4>1. i - plow + 1 \in 1 .. r /\ plow + (i - plow + 1) - 1 = i
        BY <1>1, <3>1, <3>2
      <4>2. part[i - plow + 1] = At(plow + (i - plow + 1) - 1)
        BY <1>5, <4>1
      <4>3. part[i - plow + 1] = s
        BY <3>1, <4>1, <4>2 DEF At
      <4>4. /\ sent'[Len(sent) + (i - plow + 1)] = s
            /\ Len(sent) + (i - plow + 1) \in DOMAIN sent'
        BY <1>1, <1>7, <4>1, <4>3
      <4>5. Sent(s)'
        BY <4>4 DEF Sent
      <4> QED BY <4>5 DEF Placed
    <3>3. CASE ~(i < plow + r)
      <4>1. i \in plow' .. pwrite' - 1 /\ buf'[i] = s
        BY <1>1, <1>2, <3>1, <3>3
      <4>2. InBuffer(s)'
        BY <3>1, <4>1 DEF InBuffer
      <4> QED BY <1>2, <4>2 DEF Placed
    <3> QED BY <1>1, <3>1, <3>2, <3>3
  <2> QED BY <2>1, <2>2, <2>3 DEF Placed
<1> QED BY <1>3, <1>8

(* Every step leaves each copy with the stream below or in what the next    *)
(* flush offers (BufferedOutputStream::write, flush, close).                *)
LEMMA KeptStep ==
  ASSUME OutTypeOK, OutTypeOK', StampInv, Kept, [OutNext]_outVars
  PROVE  Kept'
<1> SUFFICES ASSUME Safe' PROVE (\A s \in 1 .. Len(copied') : Placed(s)') /\ Bounded'
  BY DEF Kept
<1>1. Safe /\ (wpc = "closed" => UNCHANGED outVars)
  BY SafeBack
<1>2. (\A s \in 1 .. Len(copied) : Placed(s)) /\ Bounded
  BY <1>1 DEF Kept
<1>3. pwrite \in Nat /\ plow \in Nat /\ fsize \in Nat /\ size \in Nat
  BY DEF OutTypeOK
<1>4. CASE UNCHANGED outVars
  <2>1. \A s \in 1 .. Len(copied) : Placed(s)'
    BY <1>2, <1>4 DEF outVars, outObject, outFrame, Placed, Sent, InBuffer
  <2>2. Bounded'
    BY <1>2, <1>4 DEF outVars, outObject, outFrame, Bounded
  <2> QED BY <1>4, <2>1, <2>2 DEF outVars
<1>5. ASSUME sent' = sent, copied' = copied, outObject' = outObject,
             wpc # "closed", wpc' # "closed"
      PROVE  \A s \in 1 .. Len(copied') : Placed(s)'
  BY <1>2, <1>5 DEF outObject, Placed, Sent, InBuffer
<1>6. CASE \E len \in 1 .. MaxCall, force \in BOOLEAN : WriteCall(len, force)
  <2>1. /\ sent' = sent /\ copied' = copied /\ outObject' = outObject
        /\ wpc = "idle" /\ wpc' \in {"copy", "stream"}
    BY <1>6 DEF WriteCall
  <2>2. Bounded'
    BY <1>2, <2>1 DEF Bounded, outObject
  <2> QED BY <1>5, <2>1, <2>2
<1>7. CASE Copy
  <2>1. CASE CopyFull
    <3>1. /\ sent' = sent /\ copied' = copied /\ outObject' = outObject
          /\ wpc = "copy" /\ wpc' = "flush" /\ fsize' = pwrite'
      BY <1>7, <2>1 DEF Copy, CopyFull, EnterFlush
    <3>2. Bounded'
      BY <1>3, <3>1 DEF Bounded, outObject
    <3> QED BY <1>5, <3>1, <3>2
  <2>2. ASSUME NEW n \in Nat, n <= BufSize - pwrite, n <= size, CopyIn(n), wpc = "copy",
               sent' = sent, wpc' \in {"flush", "copy", "idle"},
               wpc' = "flush" => fsize' = pwrite'
        PROVE  (\A s \in 1 .. Len(copied') : Placed(s)') /\ Bounded'
    <3>1. plow <= pwrite
      BY <1>2, <2>2 DEF Bounded
    <3>2. \A s \in 1 .. Len(copied') : Placed(s)'
      BY <1>2, <2>2, <3>1, KeptCopyIn
    <3>3. Bounded'
      BY <1>3, <2>2, <3>1 DEF Bounded, CopyIn
    <3> QED BY <3>2, <3>3
  <2>3. CASE CopyRest
    <3>1. /\ size \in Nat /\ size <= BufSize - pwrite /\ CopyIn(size) /\ wpc = "copy"
          /\ sent' = sent /\ wpc' \in {"flush", "copy", "idle"}
          /\ wpc' = "flush" => fsize' = pwrite'
      BY <1>3, <1>7, <2>3 DEF Copy, CopyRest, EnterFlush
    <3>2. size <= size
      BY <1>3
    <3> QED BY <2>2, <3>1, <3>2
  <2>4. CASE CopyPart
    <3>1. /\ BufSize - pwrite \in Nat /\ BufSize - pwrite <= size /\ CopyIn(BufSize - pwrite)
          /\ wpc = "copy" /\ sent' = sent /\ wpc' = "copy"
      BY <1>3, <1>7, <2>4 DEF Copy, CopyPart
    <3>2. BufSize - pwrite <= BufSize - pwrite
      BY <3>1
    <3> QED BY <2>2, <3>1, <3>2
  <2> QED BY <1>7, <2>1, <2>3, <2>4 DEF Copy
<1>8. CASE FlushCall
  <2>1. /\ sent' = sent /\ copied' = copied /\ outObject' = outObject
        /\ wpc = "idle" /\ wpc' = "flush" /\ fsize' = pwrite'
    BY <1>8 DEF FlushCall, EnterFlush
  <2>2. Bounded'
    BY <1>3, <2>1 DEF Bounded, outObject
  <2> QED BY <1>5, <2>1, <2>2
<1>9. CASE \E r \in 1 .. BufSize : FlushWrite(r)
  BY <1>1, <1>9, KeptFlushWrite
<1>10. CASE FlushDone
  <2>1. /\ wpc = "flush" /\ wpc' # "flush" /\ fsize = 0 /\ pwrite' = 0 /\ plow' = 0
        /\ sent' = sent /\ copied' = copied
    BY <1>10 DEF FlushDone, OutTypeOK
  <2>2. plow >= pwrite
    BY <1>2, <1>3, <2>1 DEF Bounded
  <2>3. ASSUME NEW s \in 1 .. Len(copied) PROVE Sent(s)
    <3>1. ~InBuffer(s)
      BY <1>3, <2>2 DEF InBuffer
    <3> QED BY <1>2, <3>1 DEF Placed
  <2>4. ASSUME NEW s \in 1 .. Len(copied) PROVE Sent(s)'
    BY <2>1, <2>3 DEF Sent
  <2>5. \A s \in 1 .. Len(copied') : Placed(s)'
    BY <2>1, <2>4 DEF Placed
  <2>6. Bounded'
    BY <2>1 DEF Bounded
  <2> QED BY <2>5, <2>6
<1>11. ASSUME NEW again \in BOOLEAN, Throw(again)
       PROVE  (\A s \in 1 .. Len(copied') : Placed(s)') /\ Bounded'
  <2>1. /\ sent' = sent /\ copied' = copied /\ outObject' = outObject
        /\ wpc \in {"stream", "flush"} /\ throws' = throws + 1 /\ throws \in Nat
        /\ fret \in {"idle", "copy", "return", "closed"}
    BY <1>11 DEF Throw, OutTypeOK
  <2>2. wpc' # "closed"
    BY <2>1 DEF Safe
  <2>3. wpc' # "flush"
    BY <1>11, <2>1 DEF Throw, Unwind
  <2>4. ~(wpc = "flush" /\ plow > pwrite)
    BY <1>11, Zenon DEF Throw, Safe
  <2>5. plow <= pwrite
    BY <1>2, <1>3, <2>1, <2>4 DEF Bounded
  <2>6. Bounded'
    BY <2>1, <2>3, <2>5 DEF Bounded, outObject
  <2> QED BY <1>5, <2>1, <2>2, <2>6
<1>12. ASSUME NEW r \in 1 .. MaxCall, StreamWrite(r)
       PROVE  (\A s \in 1 .. Len(copied') : Placed(s)') /\ Bounded'
  <2>1. /\ wpc = "stream" /\ wpc' \in {"idle", "stream"} /\ outObject' = outObject
        /\ copied' = copied \o Bytes(p, r) /\ r \in Nat
        /\ sent' = sent \o [i \in 1 .. r |-> Len(copied) + i]
    BY <1>12 DEF StreamWrite
  <2>2. Bounded'
    BY <1>2, <2>1 DEF Bounded, outObject
  <2>3. ASSUME NEW s \in 1 .. Len(copied) PROVE Placed(s)'
    <3>1. CASE Sent(s)
      <4>1. Grows(sent, sent') /\ sent' \in Seq(Nat)
        BY OutGrows DEF OutTypeOK
      <4> QED BY <3>1, <4>1, StaysSent DEF Placed
    <3>2. CASE InBuffer(s)
      <4>1. InBuffer(s)'
        BY <2>1, <3>2 DEF InBuffer, outObject
      <4> QED BY <2>1, <4>1 DEF Placed
    <3> QED BY <1>2, <3>1, <3>2 DEF Placed
  <2> DEFINE part == [i \in 1 .. r |-> Len(copied) + i]
  <2>4. part \in Seq(Nat) /\ Len(part) = r
    <3>1. part \in [1 .. r -> Nat]
      BY DEF OutTypeOK
    <3> HIDE DEF part
    <3> QED BY <2>1, <3>1
  <2>5. ASSUME NEW i \in 1 .. r PROVE part[i] = Len(copied) + i
    OBVIOUS
  <2>6. sent' = sent \o part
    BY <2>1
  <2> HIDE DEF part
  <2>7. DOMAIN sent' = 1 .. Len(sent) + r /\ \A i \in 1 .. r : sent'[Len(sent) + i] = part[i]
    <3>1. sent \in Seq(Nat) /\ part \in Seq(Nat) /\ sent' = sent \o part
      BY <2>4, <2>6 DEF OutTypeOK
    <3>2. /\ DOMAIN sent' = 1 .. Len(sent) + Len(part)
          /\ \A i \in 1 .. Len(part) : sent'[Len(sent) + i] = part[i]
      BY ONLY <3>1, Joined
    <3> QED BY <2>4, <3>2
  <2>8. Len(copied') = Len(copied) + r
    <3> DEFINE new == Bytes(p, r)
    <3>1. copied \in Seq(Nat) /\ new \in Seq(Nat) /\ copied' = copied \o new
      BY <2>1, BytesType DEF OutTypeOK
    <3>2. Len(new) = r
      BY <2>1, BytesType DEF OutTypeOK
    <3> HIDE DEF new
    <3>3. /\ Len(copied') = Len(copied) + Len(new)
          /\ \A i \in 1 .. Len(copied) : copied'[i] = copied[i]
      BY ONLY <3>1, Joined
    <3> QED BY ONLY <3>2, <3>3
  <2>9. ASSUME NEW s \in 1 .. Len(copied'), s \notin 1 .. Len(copied) PROVE Placed(s)'
    <3>1. Len(copied) \in Nat /\ Len(sent) \in Nat
      <4>1. copied \in Seq(Nat) /\ sent \in Seq(Nat)
        BY DEF OutTypeOK
      <4> QED BY ONLY <4>1
    <3>2. s - Len(copied) \in 1 .. r /\ Len(copied) + (s - Len(copied)) = s
      BY <2>1, <2>8, <2>9, <3>1
    <3>3. /\ Len(sent) + (s - Len(copied)) \in DOMAIN sent'
          /\ sent'[Len(sent) + (s - Len(copied))] = s
      BY <2>1, <2>5, <2>7, <3>1, <3>2
    <3>4. Sent(s)'
      BY <3>3 DEF Sent
    <3> QED BY <3>4 DEF Placed
  <2> QED BY <2>2, <2>3, <2>9
<1> QED BY <1>4, <1>6, <1>7, <1>8, <1>9, <1>10, <1>11, <1>12 DEF OutNext

-----------------------------------------------------------------------------
(* The bytes of a write: those before p have been put in, and, while no     *)
(* call of write() has been repeated, each once and in order.               *)
Copied(b) == \E s \in DOMAIN copied : copied[s] = b
Calling == wpc \in {"copy", "stream"} \/ (wpc = "flush" /\ fret \in {"copy", "return"})

AckedIn == \A b \in acked : Copied(b)
PartIn ==
  /\ p + size = call.from + call.len /\ p + size <= next
  /\ \A b \in call.from .. p - 1 : Copied(b)
Rising(s, bound) == Increasing(s) /\ \A i \in DOMAIN s : s[i] < bound
ByteInv ==
  /\ AckedIn
  /\ Calling => PartIn
  /\ wpc = "flush" /\ fret = "return" => size = 0
  /\ ~retried => Rising(copied, IF Calling THEN p ELSE next)

(* A byte that was put in stays put in.                                     *)
LEMMA StaysCopied ==
  ASSUME OutTypeOK, Grows(copied, copied'), copied' \in Seq(Nat)
  PROVE  \A b : Copied(b) => Copied(b)'
<1> SUFFICES ASSUME NEW b, Copied(b) PROVE Copied(b)'
  OBVIOUS
<1>1. PICK i \in 1 .. Len(copied) : copied[i] = b
  BY DEF Copied, OutTypeOK
<1>2. i \in DOMAIN copied' /\ copied'[i] = b
  BY <1>1 DEF Grows, OutTypeOK
<1> QED BY <1>2 DEF Copied

(* The next n bytes behind those before them, still in order.               *)
LEMMA RisesOn ==
  ASSUME NEW s \in Seq(Nat), NEW from \in Nat, NEW n \in Nat, Rising(s, from),
         NEW t, t = s \o Bytes(from, n)
  PROVE  /\ Rising(t, from + n)
         /\ \A b \in from .. from + n - 1 : \E i \in DOMAIN t : t[i] = b
<1> DEFINE new == Bytes(from, n)
<1>1. /\ Len(s) \in Nat /\ new \in Seq(Nat) /\ Len(new) = n /\ t = s \o new
      /\ \A i \in 1 .. Len(s) : s[i] \in Nat
  <2>1. new \in Seq(Nat) /\ Len(new) = n
    BY BytesType
  <2> HIDE DEF new
  <2>2. Len(s) \in Nat /\ \A i \in 1 .. Len(s) : s[i] \in Nat
    OBVIOUS
  <2>3. t = s \o new
    BY DEF new
  <2> QED BY <2>1, <2>2, <2>3
<1>2. \A i \in 1 .. n : new[i] = from + i - 1
  BY DEF Bytes
<1> HIDE DEF new
<1>3. /\ DOMAIN t = 1 .. Len(s) + n
      /\ \A i \in 1 .. Len(s) : t[i] = s[i]
      /\ \A i \in 1 .. n : t[Len(s) + i] = from + i - 1
  <2>1. /\ DOMAIN t = 1 .. Len(s) + Len(new)
        /\ \A i \in 1 .. Len(s) : t[i] = s[i]
        /\ \A i \in 1 .. Len(new) : t[Len(s) + i] = new[i]
    <3>1. s \in Seq(Nat) /\ new \in Seq(Nat) /\ t = s \o new
      BY <1>1
    <3> QED BY ONLY <3>1, Joined
  <2> QED BY <1>1, <1>2, <2>1
<1>4. /\ \A i \in 1 .. Len(s) : s[i] < from
      /\ \A i, j \in 1 .. Len(s) : i < j => s[i] < s[j]
  BY DEF Rising, Increasing
<1>5. ASSUME NEW i \in DOMAIN t, i \notin 1 .. Len(s)
      PROVE  t[i] = from + (i - Len(s)) - 1 /\ i - Len(s) \in 1 .. n
  <2>1. i - Len(s) \in 1 .. n /\ Len(s) + (i - Len(s)) = i
    BY <1>1, <1>3, <1>5
  <2> QED BY <1>3, <2>1
<1>6. ASSUME NEW i \in DOMAIN t PROVE t[i] < from + n
  <2>1. CASE i \in 1 .. Len(s)
    <3>1. t[i] = s[i] /\ s[i] < from /\ s[i] \in Nat
      BY <1>1, <1>3, <1>4, <2>1
    <3> QED BY <3>1
  <2>2. CASE i \notin 1 .. Len(s)
    <3>1. t[i] = from + (i - Len(s)) - 1 /\ i - Len(s) \in 1 .. n
      BY <1>5, <2>2
    <3> QED BY <3>1
  <2> QED BY <2>1, <2>2
<1>7. ASSUME NEW i \in DOMAIN t, NEW j \in DOMAIN t, i < j PROVE t[i] < t[j]
  <2>1. CASE j \in 1 .. Len(s)
    <3>1. i \in 1 .. Len(s)
      BY <1>1, <1>3, <1>7, <2>1
    <3> QED BY <1>3, <1>4, <1>7, <2>1, <3>1
  <2>2. CASE j \notin 1 .. Len(s) /\ i \in 1 .. Len(s)
    <3>1. t[i] = s[i] /\ s[i] < from /\ s[i] \in Nat
      BY <1>1, <1>3, <1>4, <2>2
    <3>2. PICK k \in 1 .. n : k = j - Len(s)
      BY <1>5, <2>2
    <3>3. t[j] = from + k - 1
      BY <1>5, <2>2, <3>2
    <3>4. from + k - 1 >= from /\ from + k - 1 \in Nat
      OBVIOUS
    <3> QED BY ONLY <3>1, <3>3, <3>4, from \in Nat
  <2>3. CASE j \notin 1 .. Len(s) /\ i \notin 1 .. Len(s)
    <3>1. t[i] = from + (i - Len(s)) - 1 /\ t[j] = from + (j - Len(s)) - 1
      BY <1>5, <2>3
    <3> QED BY <1>1, <1>3, <1>7, <3>1
  <2> QED BY <2>1, <2>2, <2>3
<1>8. ASSUME NEW b \in from .. from + n - 1 PROVE \E i \in DOMAIN t : t[i] = b
  <2>1. b - from + 1 \in 1 .. n /\ from + (b - from + 1) - 1 = b
    OBVIOUS
  <2>2. PICK j \in 1 .. n : from + j - 1 = b
    BY <2>1
  <2>3. Len(s) + j \in DOMAIN t /\ t[Len(s) + j] = b
    BY <1>1, <1>3, <2>2
  <2> QED BY <2>3
<1> QED BY <1>6, <1>7, <1>8 DEF Rising, Increasing

(* The next n bytes of a write under way: those before p are then in.       *)
LEMMA PutIn ==
  ASSUME OutTypeOK, StampInv, [OutNext]_outVars, copied' \in Seq(Nat),
         ByteInv, Calling, NEW n \in Nat, n <= size,
         copied' = copied \o Bytes(p, n), p' = p + n, size' = size - n,
         UNCHANGED <<call, next, retried>>
  PROVE  PartIn' /\ (~retried' => Rising(copied', p')) /\ \A b : Copied(b) => Copied(b)'
<1>1. /\ p \in Nat /\ size \in Nat /\ next \in Nat /\ call.from \in Nat /\ call.len \in Nat
      /\ copied \in Seq(Nat)
  BY DEF OutTypeOK
<1>2. PartIn
  BY DEF ByteInv
<1>3. Grows(copied, copied')
  BY OutGrows
<1>4. \A b : Copied(b) => Copied(b)'
  BY <1>3, StaysCopied
<1>5. ~retried' => Rising(copied', p')
  BY <1>1, RisesOn DEF ByteInv
<1>6. \A b \in p .. p + n - 1 : Copied(b)'
  <2> DEFINE new == Bytes(p, n)
  <2>1. /\ new \in Seq(Nat) /\ Len(new) = n /\ copied \in Seq(Nat) /\ copied' = copied \o new
    BY <1>1, BytesType
  <2>2. \A i \in 1 .. n : new[i] = p + i - 1
    BY DEF Bytes
  <2> HIDE DEF new
  <2>3. /\ DOMAIN copied' = 1 .. Len(copied) + Len(new)
        /\ \A i \in 1 .. Len(new) : copied'[Len(copied) + i] = new[i]
    <3>1. copied \in Seq(Nat) /\ new \in Seq(Nat) /\ copied' = copied \o new
      BY <2>1
    <3> QED BY ONLY <3>1, Joined
  <2>4. ASSUME NEW b \in p .. p + n - 1 PROVE Copied(b)'
    <3>1. b - p + 1 \in 1 .. n /\ p + (b - p + 1) - 1 = b /\ Len(copied) \in Nat
      BY <1>1
    <3>2. PICK j \in 1 .. n : p + j - 1 = b
      BY <3>1
    <3>3. Len(copied) + j \in DOMAIN copied' /\ copied'[Len(copied) + j] = b
      BY <2>1, <2>2, <2>3, <3>1, <3>2
    <3> QED BY <3>3 DEF Copied
  <2> QED BY <2>4
<1>7. \A b \in call.from .. p' - 1 : Copied(b)'
  <2>1. \A b \in call.from .. p - 1 : Copied(b)'
    BY <1>2, <1>4 DEF PartIn
  <2> QED BY <1>1, <1>6, <2>1
<1>8. p' + size' = call.from + call.len /\ p' + size' <= next
  BY <1>1, <1>2 DEF PartIn
<1> QED BY <1>4, <1>5, <1>7, <1>8 DEF PartIn

(* A write that returns has put all its bytes in.                           *)
LEMMA AckIn ==
  ASSUME OutTypeOK, ByteInv, Calling, \A b : Copied(b) => Copied(b)',
         NEW q \in Nat, q = call.from + call.len,
         \A b \in call.from .. q - 1 : Copied(b)', Acknowledge
  PROVE  AckedIn'
<1>1. acked' = acked \cup (call.from .. q - 1)
  <2>1. call.from \in Nat /\ call.len \in Nat
    BY DEF OutTypeOK
  <2>2. call.from + call.len - 1 = q - 1
    BY <2>1
  <2> QED BY <2>2 DEF Acknowledge
<1> QED BY <1>1 DEF AckedIn, ByteInv

(* Every step keeps what is put in of the writes, in its order, until       *)
(* FORCECS repeats a call (BufferedOutputStream::write).                    *)
LEMMA ByteStep ==
  ASSUME OutTypeOK, OutTypeOK', StampInv, ByteInv, [OutNext]_outVars
  PROVE  ByteInv'
<1>1. /\ p \in Nat /\ size \in Nat /\ next \in Nat /\ call.from \in Nat /\ call.len \in Nat
      /\ copied \in Seq(Nat)
  BY DEF OutTypeOK
<1>2. copied' \in Seq(Nat)
  BY DEF OutTypeOK
<1>3. \A b : Copied(b) => Copied(b)'
  BY <1>2, OutGrows, StaysCopied
<1>4. AckedIn /\ (Calling => PartIn)
  BY DEF ByteInv
<1>5. acked' = acked => AckedIn'
  BY <1>3, <1>4 DEF AckedIn
<1>6. PartIn => p <= next
  BY <1>1 DEF PartIn
<1>7. ASSUME NEW lo \in Nat, NEW hi \in Nat, lo <= hi, Rising(copied, lo)
      PROVE  Rising(copied, hi)
  <2>1. \A i \in DOMAIN copied : copied[i] \in Nat
    BY <1>1
  <2> QED BY <1>7, <2>1 DEF Rising
<1>8. ASSUME UNCHANGED <<copied, acked, p, size, call, next, retried>>, Calling' => Calling,
             wpc' = "flush" /\ fret' = "return" => size = 0
      PROVE  ByteInv'
  <2>1. Calling' => PartIn'
    BY <1>4, <1>8 DEF PartIn, Copied
  <2>2. ~retried' => Rising(copied', IF Calling' THEN p' ELSE next')
    <3>1. CASE Calling /\ ~Calling'
      BY <1>1, <1>4, <1>6, <1>7, <1>8, <3>1 DEF ByteInv
    <3>2. CASE Calling <=> Calling'
      BY <1>8, <3>2 DEF ByteInv
    <3> QED BY <1>8, <3>1, <3>2
  <2> QED BY <1>5, <1>8, <2>1, <2>2 DEF ByteInv
<1>9. CASE UNCHANGED outVars
  BY <1>8, <1>9 DEF outVars, outFrame, Calling, ByteInv
<1>10. ASSUME NEW len \in 1 .. MaxCall, NEW force \in BOOLEAN, WriteCall(len, force)
       PROVE  ByteInv'
  <2>1. /\ wpc = "idle" /\ wpc' \in {"copy", "stream"} /\ p' = next /\ size' = len
        /\ next' = next + len /\ acked' = acked /\ copied' = copied /\ retried' = retried
        /\ call' = [from |-> next, len |-> len, force |-> force]
    BY <1>10 DEF WriteCall
  <2>2. ~Calling /\ Calling'
    BY <2>1 DEF Calling
  <2>3. PartIn'
    <3>1. p' + size' = call'.from + call'.len /\ p' + size' <= next'
      BY <1>1, <2>1
    <3>2. \A b \in call'.from .. p' - 1 : FALSE
      BY <1>1, <2>1
    <3> QED BY <3>1, <3>2 DEF PartIn
  <2>4. ~retried' => Rising(copied', p')
    BY <2>1, <2>2 DEF ByteInv
  <2> QED BY <1>5, <2>1, <2>2, <2>3, <2>4 DEF ByteInv
<1>11. CASE Copy
  <2>1. CASE CopyFull
    <3>1. /\ UNCHANGED <<copied, acked, p, size, call, next, retried>>
          /\ wpc = "copy" /\ fret' = "copy"
      BY <1>11, <2>1 DEF Copy, CopyFull, EnterFlush
    <3> QED BY <1>8, <3>1 DEF Calling
  <2>2. CASE CopyRest
    <3>1. /\ wpc = "copy" /\ size \in Nat /\ size <= size /\ copied' = copied \o Bytes(p, size)
          /\ p' = p + size /\ size' = size - size /\ UNCHANGED <<call, next, retried>>
          /\ \/ wpc' = "flush" /\ fret' = "return" /\ UNCHANGED acked
             \/ wpc' = "idle" /\ Acknowledge
      BY <1>1, <1>11, <2>2 DEF Copy, CopyRest, CopyIn, EnterFlush
    <3>2. Calling
      BY <3>1 DEF Calling
    <3>3. PartIn' /\ (~retried' => Rising(copied', p'))
      BY <1>2, <3>1, <3>2, PutIn
    <3>4. p' \in Nat /\ p' = call.from + call.len /\ p' <= next'
      BY <1>1, <1>4, <3>1, <3>2 DEF PartIn
    <3>5. AckedIn'
      <4>1. CASE Acknowledge
        <5>1. \A b \in call.from .. p' - 1 : Copied(b)'
          BY <3>1, <3>3 DEF PartIn
        <5> QED BY <1>3, <3>2, <3>4, <4>1, <5>1, AckIn
      <4> QED BY <1>5, <3>1, <4>1
    <3>6. ~retried' => Rising(copied', IF Calling' THEN p' ELSE next')
      <4>1. next' \in Nat /\ \A i \in DOMAIN copied' : copied'[i] \in Nat
        BY <1>1, <1>2, <3>1
      <4>2. Rising(copied', p') => Rising(copied', next')
        BY <3>4, <4>1 DEF Rising
      <4> QED BY <3>3, <4>2
    <3> QED BY <1>1, <3>1, <3>3, <3>5, <3>6 DEF ByteInv
  <2>3. CASE CopyPart
    <3> DEFINE n == BufSize - pwrite
    <3>1. /\ wpc = "copy" /\ wpc' = "copy" /\ n \in Nat /\ n <= size
          /\ copied' = copied \o Bytes(p, n) /\ p' = p + n /\ size' = size - n
          /\ UNCHANGED <<call, next, retried, acked>>
      BY <1>1, <1>11, <2>3 DEF Copy, CopyPart, CopyIn, OutTypeOK
    <3> HIDE DEF n
    <3>2. Calling /\ Calling'
      BY <3>1 DEF Calling
    <3>3. PartIn' /\ (~retried' => Rising(copied', p'))
      BY <1>2, <3>1, <3>2, PutIn
    <3> QED BY <1>5, <3>1, <3>2, <3>3 DEF ByteInv
  <2> QED BY <1>11, <2>1, <2>2, <2>3 DEF Copy
<1>12. CASE FlushCall
  <2>1. /\ UNCHANGED <<copied, acked, p, size, call, next, retried>>
        /\ wpc' = "flush" /\ fret' \in {"idle", "closed"}
    BY <1>12 DEF FlushCall, EnterFlush
  <2> QED BY <1>8, <2>1 DEF Calling
<1>13. CASE \E r \in 1 .. BufSize : FlushWrite(r)
  <2>1. UNCHANGED <<copied, acked, p, size, call, next, retried, wpc, fret>>
    BY <1>13 DEF FlushWrite
  <2> QED BY <1>8, <2>1 DEF Calling, ByteInv
<1>14. CASE FlushDone
  <2>1. /\ UNCHANGED <<copied, p, size, call, next, retried, fret>> /\ wpc = "flush"
        /\ wpc' = (IF fret = "return" THEN "idle" ELSE fret)
        /\ IF fret = "return" THEN Acknowledge ELSE UNCHANGED acked
        /\ fret \in {"idle", "copy", "return", "closed"}
    BY <1>14 DEF FlushDone, OutTypeOK
  <2>2. CASE fret = "return"
    <3>1. Calling /\ size = 0 /\ Acknowledge /\ wpc' = "idle" /\ ~Calling'
      BY <2>1, <2>2 DEF Calling, ByteInv
    <3>2. p = call.from + call.len /\ p <= next
      BY <1>1, <1>4, <3>1 DEF PartIn
    <3>3. \A b \in call.from .. p - 1 : Copied(b)'
      BY <1>3, <1>4, <3>1 DEF PartIn
    <3>4. AckedIn'
      BY <1>1, <1>3, <3>1, <3>2, <3>3, AckIn
    <3>5. ~retried => Rising(copied, next)
      BY <1>1, <1>7, <3>1, <3>2 DEF ByteInv
    <3> QED BY <2>1, <3>1, <3>4, <3>5 DEF ByteInv
  <2>3. CASE fret # "return"
    <3>1. UNCHANGED acked /\ wpc' # "flush" /\ (Calling' => Calling)
      BY <2>1, <2>3 DEF Calling
    <3> QED BY <1>8, <2>1, <3>1
  <2> QED BY <2>2, <2>3
<1>15. ASSUME NEW again \in BOOLEAN, Throw(again) PROVE ByteInv'
  <2>1. UNCHANGED <<copied, acked, call, next, fret>> /\ wpc \in {"flush", "stream"}
        /\ fret \in {"idle", "copy", "return", "closed"}
    BY <1>15 DEF Throw, OutTypeOK
  <2>2. CASE UNCHANGED <<p, size, retried>> /\ wpc' # "flush" /\ (Calling' => Calling)
    BY <1>8, <2>1, <2>2
  <2>3. CASE retried' /\ p' = call.from /\ size' = call.len /\ Calling /\ wpc' # "flush"
    <3>1. p' + size' = call'.from + call'.len /\ p' + size' <= next'
      BY <1>1, <1>4, <2>1, <2>3 DEF PartIn
    <3>2. \A b \in call'.from .. p' - 1 : FALSE
      BY <1>1, <2>1, <2>3
    <3>3. PartIn'
      BY <3>1, <3>2 DEF PartIn
    <3> QED BY <1>5, <2>1, <2>3, <3>3 DEF ByteInv
  <2>4. CASE wpc = "stream" \/ fret \in {"copy", "return"}
    <3>1. Calling
      BY <2>1, <2>4 DEF Calling
    <3>2. CASE again /\ call.force
      <4>1. wpc' \in {"stream", "copy"}
        BY <1>15, <2>4, <3>2 DEF Throw, Unwind
      <4>2. CASE direct
        <5>1. UNCHANGED <<p, size>>
          BY <1>15, <2>4, <3>2, <4>2 DEF Throw, Unwind
        <5>2. retried' <=> retried
          BY <1>15, <2>4, <3>2, <4>2, Zenon DEF Throw, Unwind
        <5>3. retried' = retried
          BY <5>2 DEF OutTypeOK
        <5> QED BY <2>2, <3>1, <4>1, <5>1, <5>3
      <4>3. CASE ~direct
        <5>1. p' = call.from /\ size' = call.len
          BY <1>15, <2>4, <3>2, <4>3 DEF Throw, Unwind
        <5>2. retried'
          BY <1>15, <2>4, <3>2, <4>3, Zenon DEF Throw, Unwind
        <5> QED BY <2>3, <3>1, <4>1, <5>1, <5>2
      <4> QED BY <4>2, <4>3
    <3>3. CASE ~(again /\ call.force)
      <4>1. UNCHANGED <<p, size, retried>> /\ wpc' = "idle"
        BY <1>15, <2>4, <3>3 DEF Throw, Unwind
      <4> QED BY <2>2, <3>1, <4>1
    <3> QED BY <3>2, <3>3
  <2>5. CASE ~(wpc = "stream" \/ fret \in {"copy", "return"})
    <3>1. UNCHANGED <<p, size, retried>> /\ wpc' = fret /\ fret \in {"idle", "closed"}
      BY <1>15, <2>1, <2>5 DEF Throw, Unwind
    <3>2. ~Calling'
      BY <3>1 DEF Calling
    <3> QED BY <2>2, <3>1, <3>2
  <2> QED BY <2>4, <2>5
<1>16. ASSUME NEW r \in 1 .. MaxCall, StreamWrite(r) PROVE ByteInv'
  <2>1. /\ wpc = "stream" /\ r \in Nat /\ r <= size /\ copied' = copied \o Bytes(p, r)
        /\ p' = p + r /\ size' = size - r /\ UNCHANGED <<call, next, retried>>
        /\ \/ size = r /\ wpc' = "idle" /\ Acknowledge
           \/ wpc' = "stream" /\ UNCHANGED acked
    BY <1>16 DEF StreamWrite
  <2>2. Calling
    BY <2>1 DEF Calling
  <2>3. PartIn' /\ (~retried' => Rising(copied', p'))
    BY <1>2, <2>1, <2>2, PutIn
  <2>4. p' \in Nat /\ p' <= next' /\ (size = r => p' = call.from + call.len)
    <3>1. /\ p + size = call.from + call.len /\ p + size <= next
      BY <1>4, <2>2 DEF PartIn
    <3>2. p' = p + r /\ next' = next /\ r \in Nat /\ r <= size
      BY <2>1
    <3> QED BY <1>1, <3>1, <3>2
  <2>5. AckedIn'
    <3>1. CASE size = r /\ Acknowledge
      <4>1. \A b \in call.from .. p' - 1 : Copied(b)'
        BY <2>1, <2>3 DEF PartIn
      <4> QED BY <1>3, <2>2, <2>4, <3>1, <4>1, AckIn
    <3> QED BY <1>5, <2>1, <3>1
  <2>6. ~retried' => Rising(copied', IF Calling' THEN p' ELSE next')
    <3>1. next' \in Nat /\ \A i \in DOMAIN copied' : copied'[i] \in Nat
      <4>1. next' \in Nat
        BY <1>1, <2>1
      <4> QED BY ONLY <1>2, <4>1
    <3>2. Rising(copied', p') => Rising(copied', next')
      BY <2>4, <3>1 DEF Rising
    <3> QED BY <2>3, <3>2
  <2>7. wpc' # "flush"
    BY <2>1
  <2> QED BY <2>3, <2>5, <2>6, <2>7 DEF ByteInv
<1> QED BY <1>9, <1>10, <1>11, <1>12, <1>13, <1>14, <1>15, <1>16 DEF OutNext

(* What the properties promise follows: no byte of a write that returned is *)
(* lost, and none goes in twice.                                            *)
LEMMA EachByteOnceFrom ==
  ASSUME OutTypeOK, Kept, ByteInv
  PROVE  EachByteOnce
<1>1. BytesOnce
  BY DEF BytesOnce, ByteInv, Rising
<1>2. NothingLost
  <2> SUFFICES ASSUME Safe, NEW b \in acked
               PROVE  \E s \in DOMAIN copied :
                        /\ copied[s] = b
                        /\ \/ wpc # "closed" /\ s \in Stored
                           \/ \E i \in DOMAIN sent : sent[i] = s
    BY DEF NothingLost, Safe
  <2>1. PICK s \in DOMAIN copied : copied[s] = b
    BY DEF ByteInv, AckedIn, Copied
  <2>2. Placed(s)
    BY DEF Kept, OutTypeOK
  <2>3. CASE Sent(s)
    BY <2>1, <2>3 DEF Sent
  <2>4. CASE wpc # "closed" /\ InBuffer(s)
    <3>1. s \in Stored
      BY <2>4 DEF InBuffer, Stored, At
    <3> QED BY <2>1, <2>4, <3>1
  <2> QED BY <2>2, <2>3, <2>4 DEF Placed
<1> QED BY <1>1, <1>2 DEF EachByteOnce

(* What the histories say of the copies, together.                          *)
OutInv == OutTypeOK /\ StampInv /\ Kept /\ ByteInv

LEMMA OutInvStep ==
  /\ OutInit => OutInv
  /\ OutInv /\ [OutNext]_outVars => OutInv'
<1>1. OutInit => OutInv
  <2> SUFFICES ASSUME OutInit PROVE OutInv
    OBVIOUS
  <2>1. OutTypeOK
    BY OutTypeStep
  <2>2. sent = <<>> /\ copied = <<>> /\ acked = {} /\ wpc = "idle" /\ plow = 0 /\ pwrite = 0
    BY DEF OutInit
  <2>3. StampInv
    BY <2>2 DEF OutInit, StampInv, Garbage
  <2>4. Kept
    BY <2>2 DEF Kept, Bounded
  <2>5. ByteInv
    BY <2>2 DEF ByteInv, AckedIn, Calling, Rising, Increasing
  <2> QED BY <2>1, <2>3, <2>4, <2>5 DEF OutInv
<1>2. OutInv /\ [OutNext]_outVars => OutInv'
  BY OutTypeStep, OutGrows, KeptStep, ByteStep DEF OutInv
<1> QED BY <1>1, <1>2

(* No byte of a write that returned is lost, though the stream below may    *)
(* throw at any call, until an exception hits a flush that has passed       *)
(* c_pwrite; and none goes in twice until FORCECS repeats a call            *)
(* (BufferedOutputStream::write, flush, close).                             *)
THEOREM EachByteOnceHolds == Spec => []EachByteOnce
<1>1. Init => OutInv
  BY OutInvStep DEF Init
<1>2. OutInv /\ [Next]_vars => OutInv'
  <2> SUFFICES ASSUME OutInv, [Next]_vars PROVE OutInv'
    OBVIOUS
  <2>1. [OutNext]_outVars
    BY DEF Next, vars
  <2> QED BY <2>1, OutInvStep
<1>3. OutInv => EachByteOnce
  BY EachByteOnceFrom DEF OutInv
<1> QED BY <1>1, <1>2, <1>3, PTL DEF Spec

-----------------------------------------------------------------------------
(* s is what w has behind its first b elements.                             *)
Carries(w, s, b) == \A i \in 1 .. Len(s) : s[i] = w[b + i]

LEMMA CarriesJoined ==
  ASSUME NEW w, NEW s \in Seq(Nat), NEW t \in Seq(Nat), NEW b \in Nat,
         Carries(w, s, b), Carries(w, t, b + Len(s))
  PROVE  s \o t \in Seq(Nat) /\ Len(s \o t) = Len(s) + Len(t) /\ Carries(w, s \o t, b)
<1> DEFINE st == s \o t
<1>1. /\ st \in Seq(Nat) /\ Len(st) = Len(s) + Len(t)
      /\ \A i \in 1 .. Len(s) : st[i] = s[i]
      /\ \A i \in 1 .. Len(t) : st[Len(s) + i] = t[i]
  BY ONLY s \in Seq(Nat), t \in Seq(Nat), Joined
<1>2. Len(s) \in Nat /\ Len(t) \in Nat
  OBVIOUS
<1> HIDE DEF st
<1>3. ASSUME NEW i \in 1 .. Len(st) PROVE st[i] = w[b + i]
  <2>1. CASE i \in 1 .. Len(s)
    BY <1>1, <2>1 DEF Carries
  <2>2. CASE i \notin 1 .. Len(s)
    <3>1. PICK j \in 1 .. Len(t) : i = Len(s) + j
      <4>1. i - Len(s) \in 1 .. Len(t) /\ i = Len(s) + (i - Len(s))
        BY <1>1, <1>2, <2>2
      <4> QED BY <4>1
    <3>2. t[j] = w[(b + Len(s)) + j]
      BY DEF Carries
    <3>3. b + i = (b + Len(s)) + j
      BY <1>2, <3>1
    <3> QED BY <1>1, <3>1, <3>2, <3>3
  <2> QED BY <2>1, <2>2
<1>4. Carries(w, st, b)
  BY <1>3 DEF Carries
<1> QED BY <1>1, <1>4 DEF st

LEMMA CarriesPart ==
  ASSUME NEW w, NEW s \in Seq(Nat), NEW b \in Nat, Carries(w, s, b),
         NEW m \in Nat, NEW n \in Nat, m <= n, n <= Len(s), NEW d, d = b + m,
         NEW v, v = SubSeq(s, m + 1, n)
  PROVE  v \in Seq(Nat) /\ Len(v) = n - m /\ Carries(w, v, d)
<1> DEFINE part == SubSeq(s, m + 1, n)
<1>1. \A i \in m + 1 .. n : s[i] \in Nat
  OBVIOUS
<1>2. part \in Seq(Nat) /\ Len(part) = n - m /\ \A i \in 1 .. n - m : part[i] = s[m + i]
  <2>1. m + 1 \in Int /\ n \in Int /\ n - (m + 1) + 1 = n - m
    OBVIOUS
  <2>2. /\ part \in Seq(Nat) /\ Len(part) = (IF m + 1 <= n THEN n - (m + 1) + 1 ELSE 0)
        /\ \A i \in 1 .. n - (m + 1) + 1 : part[i] = s[m + 1 + i - 1]
    BY ONLY <1>1, <2>1, SubSeqProperties
  <2> HIDE DEF part
  <2> QED BY <2>2
<1> HIDE DEF part
<1>3. ASSUME NEW i \in 1 .. n - m PROVE part[i] = w[b + m + i]
  <2>1. s[m + i] = w[b + (m + i)]
    BY DEF Carries
  <2>2. b + (m + i) = b + m + i
    OBVIOUS
  <2> QED BY <1>2, <2>1, <2>2
<1>4. Carries(w, part, b + m)
  BY <1>2, <1>3 DEF Carries
<1> QED BY <1>2, <1>4 DEF part

(* What the reader has taken stays where it was when more is written.       *)
LEMMA CarriesOn ==
  ASSUME NEW w, NEW v, Grows(w, v), Len(w) \in Nat, NEW s \in Seq(Nat), NEW b \in Nat,
         b + Len(s) <= Len(w), Carries(w, s, b)
  PROVE  Carries(v, s, b)
<1> SUFFICES ASSUME NEW i \in 1 .. Len(s) PROVE s[i] = v[b + i]
  BY DEF Carries
<1>1. s[i] = w[b + i] /\ b + i \in 1 .. Len(w)
  BY DEF Carries
<1> QED BY <1>1 DEF Grows

LEMMA CarriesSame ==
  ASSUME NEW w \in Seq(Nat), NEW s \in Seq(Nat), Len(s) <= Len(w), Carries(w, s, 0)
  PROVE  s = SubSeq(w, 1, Len(s))
<1> DEFINE v == SubSeq(w, 1, Len(s))
<1>1. Len(s) \in Nat /\ \A i \in 1 .. Len(s) : w[i] \in Nat
  OBVIOUS
<1>2. v \in Seq(Nat) /\ Len(v) = Len(s) /\ \A i \in 1 .. Len(s) : v[i] = w[i]
  <2>1. 1 \in Int /\ Len(s) \in Int /\ Len(s) - 1 + 1 = Len(s)
    BY <1>1
  <2>2. /\ v \in Seq(Nat) /\ Len(v) = (IF 1 <= Len(s) THEN Len(s) - 1 + 1 ELSE 0)
        /\ \A i \in 1 .. Len(s) - 1 + 1 : v[i] = w[1 + i - 1]
    BY ONLY <1>1, <2>1, SubSeqProperties
  <2> HIDE DEF v
  <2> QED BY <1>1, <2>2
<1> HIDE DEF v
<1>3. \A i \in 1 .. Len(s) : s[i] = v[i]
  BY <1>1, <1>2 DEF Carries
<1>4. s = v
  BY <1>2, <1>3, SeqEqual
<1> QED BY <1>4 DEF v

LEMMA FunSeq ==
  ASSUME NEW n \in Nat, NEW f \in [1 .. n -> Nat]
  PROVE  f \in Seq(Nat) /\ Len(f) = n
OBVIOUS

(* The bytes on the wire are those of the copies, or Garbage.               *)
WireOf(sn, cp) == [i \in DOMAIN sn |-> IF sn[i] = Garbage THEN Garbage ELSE cp[sn[i]]]

LEMMA WireType ==
  ASSUME NEW sn \in Seq(Nat), NEW cp \in Seq(Nat), \A i \in DOMAIN sn : sn[i] <= Len(cp)
  PROVE  /\ WireOf(sn, cp) \in Seq(Nat) /\ Len(WireOf(sn, cp)) = Len(sn)
         /\ \A i \in 1 .. Len(sn) :
              WireOf(sn, cp)[i] = IF sn[i] = Garbage THEN Garbage ELSE cp[sn[i]]
<1> DEFINE w == WireOf(sn, cp)
<1>1. /\ Len(sn) \in Nat /\ Len(cp) \in Nat /\ DOMAIN sn = 1 .. Len(sn)
      /\ \A i \in 1 .. Len(cp) : cp[i] \in Nat
      /\ \A i \in 1 .. Len(sn) : sn[i] \in Nat
  OBVIOUS
<1>2. ASSUME NEW i \in 1 .. Len(sn)
      PROVE  w[i] = (IF sn[i] = Garbage THEN Garbage ELSE cp[sn[i]]) /\ w[i] \in Nat
  <2>1. w[i] = (IF sn[i] = Garbage THEN Garbage ELSE cp[sn[i]])
    BY <1>1 DEF WireOf
  <2>2. sn[i] \in Nat /\ sn[i] <= Len(cp)
    BY <1>1
  <2>3. sn[i] # 0 => cp[sn[i]] \in Nat
    BY <1>1, <2>2
  <2> QED BY <2>1, <2>3 DEF Garbage
<1>3. DOMAIN w = 1 .. Len(sn) /\ w = [i \in DOMAIN w |-> w[i]]
  BY <1>1 DEF WireOf
<1> HIDE DEF w
<1>4. w \in [1 .. Len(sn) -> Nat]
  BY <1>2, <1>3
<1>5. w \in Seq(Nat) /\ Len(w) = Len(sn)
  <2>1. Len(sn) \in Nat
    BY <1>1
  <2> QED BY ONLY <1>4, <2>1, FunSeq
<1> QED BY <1>2, <1>5 DEF w

(* What was written to the stream stays as it was.                          *)
LEMMA WireGrows ==
  ASSUME OutInv, OutInv', [OutNext]_outVars
  PROVE  /\ Grows(Wire, Wire') /\ Wire \in Seq(Nat) /\ Len(Wire) = Len(sent)
         /\ Wire' \in Seq(Nat) /\ Len(Wire') = Len(sent')
<1>1. /\ sent \in Seq(Nat) /\ copied \in Seq(Nat) /\ \A i \in DOMAIN sent : sent[i] <= Len(copied)
  BY DEF OutInv, OutTypeOK, StampInv
<1>2. /\ sent' \in Seq(Nat) /\ copied' \in Seq(Nat)
      /\ \A i \in DOMAIN sent' : sent'[i] <= Len(copied')
  BY DEF OutInv, OutTypeOK, StampInv
<1>3. Wire = WireOf(sent, copied) /\ Wire' = WireOf(sent', copied')
  BY DEF Wire, WireOf
<1>4. /\ Wire \in Seq(Nat) /\ Len(Wire) = Len(sent)
      /\ \A i \in 1 .. Len(sent) :
           Wire[i] = IF sent[i] = Garbage THEN Garbage ELSE copied[sent[i]]
  BY ONLY <1>1, <1>3, WireType
<1>5. /\ Wire' \in Seq(Nat) /\ Len(Wire') = Len(sent')
      /\ \A i \in 1 .. Len(sent') :
           Wire'[i] = IF sent'[i] = Garbage THEN Garbage ELSE copied'[sent'[i]]
  BY ONLY <1>2, <1>3, WireType
<1>6. /\ Len(sent) \in Nat /\ Len(copied) \in Nat /\ Len(sent') \in Nat
      /\ \A i \in 1 .. Len(sent) : sent[i] \in Nat /\ sent[i] <= Len(copied)
  BY ONLY <1>1, <1>2
<1>7. /\ Len(sent) <= Len(sent') /\ \A i \in 1 .. Len(sent) : sent'[i] = sent[i]
      /\ Len(copied) <= Len(copied') /\ \A i \in 1 .. Len(copied) : copied'[i] = copied[i]
  <2>1. Grows(sent, sent') /\ Grows(copied, copied')
    BY OutGrows DEF OutInv
  <2> QED BY <2>1 DEF Grows
<1>8. ASSUME NEW i \in 1 .. Len(sent) PROVE Wire'[i] = Wire[i]
  <2>1. i \in 1 .. Len(sent') /\ sent'[i] = sent[i] /\ sent[i] \in Nat /\ sent[i] <= Len(copied)
    BY <1>6, <1>7
  <2>2. sent[i] # 0 => copied'[sent[i]] = copied[sent[i]]
    BY <1>6, <1>7, <2>1
  <2> QED BY <1>4, <1>5, <2>1, <2>2 DEF Garbage
<1>9. Grows(Wire, Wire')
  <2> HIDE DEF Wire
  <2> QED BY <1>4, <1>5, <1>6, <1>7, <1>8 DEF Grows
<1> QED BY <1>4, <1>5, <1>9

(* Where the bytes the reader has taken are: the buffer holds the last of   *)
(* them, and, until a read that had copied some out is cut, the application *)
(* and the read under way have the others, in the order they came in.       *)
ReadTyped ==
  /\ rpc \in {"idle", "copy", "fill"} /\ asked \in Nat /\ whole \in Nat
  /\ out \in Seq(Nat) /\ got \in Seq(Nat) /\ chunk \in Seq(Nat)
  /\ whole <= Len(out) /\ pread \in 0 .. Len(chunk)
  /\ taken \in Nat /\ taken <= Len(sent)

ReadPlace ==
  /\ rpc # "idle" => Len(out) <= asked
  /\ rpc = "fill" => pread = Len(chunk)
  /\ rpc = "idle" => out = <<>>
  /\ Len(chunk) <= taken /\ Carries(Wire, chunk, taken - Len(chunk))

ReadOrder ==
  /\ Len(got) + Len(out) + (Len(chunk) - pread) = taken
  /\ Carries(Wire, got, 0) /\ Carries(Wire, out, Len(got))

ReadInv == ReadTyped /\ ReadPlace /\ (~dropped => ReadOrder)

(* The unread part of the buffer is the last part of what was taken.        *)
LEMMA RestIs ==
  ASSUME ReadTyped, ReadPlace
  PROVE  /\ In!Rest \in Seq(Nat) /\ Len(In!Rest) = Len(chunk) - pread
         /\ Carries(Wire, In!Rest, taken - (Len(chunk) - pread))
<1>1. /\ chunk \in Seq(Nat) /\ Len(chunk) \in Nat /\ pread \in Nat /\ pread <= Len(chunk)
      /\ taken \in Nat /\ taken - Len(chunk) \in Nat /\ Len(chunk) <= Len(chunk)
      /\ Carries(Wire, chunk, taken - Len(chunk))
  BY DEF ReadTyped, ReadPlace
<1> DEFINE r == SubSeq(chunk, pread + 1, Len(chunk))
<1>2. /\ r \in Seq(Nat) /\ Len(r) = Len(chunk) - pread
      /\ Carries(Wire, r, taken - Len(chunk) + pread)
  BY ONLY <1>1, CarriesPart
<1>3. taken - Len(chunk) + pread = taken - (Len(chunk) - pread)
  BY <1>1
<1> HIDE DEF r
<1>4. r \in Seq(Nat) /\ Len(r) = Len(chunk) - pread /\ Carries(Wire, r, taken - (Len(chunk) - pread))
  BY <1>2, <1>3
<1>5. In!Rest = r
  BY DEF In!Rest, r
<1> QED BY <1>4, <1>5

(* Every step of the reader keeps the bytes it has taken in their places    *)
(* (BufferedInputStream::read, InputStream::read).                          *)
LEMMA ReadStep ==
  ASSUME Wire \in Seq(Nat), Len(Wire) = Len(sent), ReadInv, In!InNext, UNCHANGED outVars
  PROVE  ReadInv'
<1>1. Wire' = Wire /\ sent' = sent
  BY DEF Wire, outVars
<1>2. /\ rpc \in {"idle", "copy", "fill"} /\ asked \in Nat /\ whole \in Nat
      /\ out \in Seq(Nat) /\ got \in Seq(Nat) /\ chunk \in Seq(Nat)
      /\ Len(out) \in Nat /\ Len(got) \in Nat /\ Len(chunk) \in Nat
      /\ whole <= Len(out) /\ pread \in Nat /\ pread <= Len(chunk)
      /\ taken \in Nat /\ taken <= Len(sent) /\ Len(sent) \in Nat
  <2>1. Len(sent) \in Nat
    BY ONLY Wire \in Seq(Nat), Len(Wire) = Len(sent)
  <2> QED BY <2>1 DEF ReadInv, ReadTyped
<1>3. ReadPlace
  BY DEF ReadInv
<1>4. /\ In!Rest \in Seq(Nat) /\ Len(In!Rest) = Len(chunk) - pread
      /\ Carries(Wire, In!Rest, taken - (Len(chunk) - pread))
  BY RestIs DEF ReadInv
<1>5. ReadOrder => Carries(Wire, In!Rest, Len(got) + Len(out))
  <2>1. ReadOrder => taken - (Len(chunk) - pread) = Len(got) + Len(out)
    BY <1>2 DEF ReadOrder
  <2> QED BY <1>4, <2>1
<1>6. ReadOrder => /\ got \o out \in Seq(Nat) /\ Len(got \o out) = Len(got) + Len(out)
                   /\ Carries(Wire, got \o out, 0)
  <2> SUFFICES ASSUME ReadOrder
               PROVE  /\ got \o out \in Seq(Nat) /\ Len(got \o out) = Len(got) + Len(out)
                      /\ Carries(Wire, got \o out, 0)
    OBVIOUS
  <2>1. Carries(Wire, got, 0) /\ Carries(Wire, out, 0 + Len(got))
    BY <1>2 DEF ReadOrder
  <2> QED BY <1>2, <2>1, CarriesJoined
<1>7. ASSUME NEW n \in 1 .. MaxRead, NEW force \in BOOLEAN, In!ReadCall(n, force) PROVE ReadInv'
  <2>1. /\ rpc = "idle" /\ rpc' = "copy" /\ asked' = n /\ whole' = 0 /\ out' = <<>> /\ out = <<>>
        /\ UNCHANGED <<taken, chunk, pread, got>> /\ dropped' = dropped
    BY <1>3, <1>7 DEF In!ReadCall, ReadPlace
  <2>2. ReadTyped'
    BY <1>1, <1>2, <2>1 DEF ReadTyped
  <2>3. ReadPlace'
    BY <1>1, <1>3, <2>1 DEF ReadPlace
  <2>4. ~dropped' => ReadOrder'
    BY <1>1, <2>1 DEF ReadInv, ReadOrder
  <2> QED BY <2>2, <2>3, <2>4 DEF ReadInv
<1>8. CASE In!CopyLast
  <2> DEFINE m == In!Missing
  <2>1. m = asked - Len(out) /\ m \in Nat /\ m <= Len(In!Rest) /\ m <= Len(chunk) - pread
    BY <1>2, <1>3, <1>4, <1>8 DEF In!CopyLast, In!Missing, ReadPlace
  <2>2. /\ got' = (got \o out) \o SubSeq(In!Rest, 1, m) /\ pread' = pread + m
        /\ rpc' = "idle" /\ asked' = 0 /\ whole' = 0 /\ out' = <<>>
        /\ UNCHANGED <<taken, chunk>> /\ dropped' = dropped
    BY <1>8 DEF In!CopyLast, In!EndRead, In!First
  <2> HIDE DEF m
  <2>3. got' \in Seq(Nat)
    <3>1. got \o out \in Seq(Nat)
      BY <1>2
    <3>2. SubSeq(In!Rest, 1, m) \in Seq(Nat)
      <4>1. 1 \in Int /\ m \in Int /\ \A i \in 1 .. m : In!Rest[i] \in Nat
        BY <1>4, <2>1
      <4> QED BY ONLY <4>1, SubSeqProperties
    <3>3. (got \o out) \o SubSeq(In!Rest, 1, m) \in Seq(Nat)
      BY ONLY <3>1, <3>2, ConcatProperties
    <3> QED BY <2>2, <3>3
  <2>4. ReadTyped'
    BY <1>1, <1>2, <2>1, <2>2, <2>3 DEF ReadTyped
  <2>5. ReadPlace'
    BY <1>1, <1>3, <2>2 DEF ReadPlace
  <2>6. ASSUME ReadOrder PROVE ReadOrder'
    <3>1. got' \in Seq(Nat) /\ Len(got') = Len(got) + Len(out) + m /\ Carries(Wire, got', 0)
      <4> DEFINE all == got \o out
                 f == SubSeq(In!Rest, 1, m)
      <4>1. /\ Carries(Wire, all, 0) /\ all \in Seq(Nat) /\ Len(all) = Len(got) + Len(out)
            /\ Carries(Wire, In!Rest, Len(all)) /\ got' = all \o f
        BY <1>2, <1>5, <1>6, <2>2, <2>6
      <4>2. f \in Seq(Nat) /\ Len(f) = m /\ \A i \in 1 .. m : f[i] = In!Rest[i]
        <5>1. 1 \in Int /\ m \in Int /\ \A i \in 1 .. m : In!Rest[i] \in Nat
          BY <1>4, <2>1
        <5>2. /\ f \in Seq(Nat) /\ Len(f) = (IF 1 <= m THEN m - 1 + 1 ELSE 0)
              /\ \A i \in 1 .. m - 1 + 1 : f[i] = In!Rest[1 + i - 1]
          BY ONLY <5>1, SubSeqProperties
        <5> HIDE DEF f
        <5> QED BY <2>1, <5>2
      <4> HIDE DEF all, f
      <4>3. Carries(Wire, f, 0 + Len(all))
        <5>1. 0 + Len(all) = Len(all)
          BY <4>1
        <5>2. ASSUME NEW i \in 1 .. Len(f) PROVE f[i] = Wire[0 + Len(all) + i]
          <6>1. i \in 1 .. m /\ i \in 1 .. Len(In!Rest)
            BY <1>4, <2>1, <4>2
          <6>2. In!Rest[i] = Wire[Len(all) + i]
            BY <4>1, <6>1 DEF Carries
          <6> QED BY <4>2, <5>1, <6>1, <6>2
        <5> QED BY <5>2 DEF Carries
      <4>4. all \o f \in Seq(Nat) /\ Len(all \o f) = Len(all) + Len(f) /\ Carries(Wire, all \o f, 0)
        BY <4>1, <4>2, <4>3, CarriesJoined
      <4>5. got' = all \o f /\ Len(all) = Len(got) + Len(out) /\ Len(f) = m
        BY <4>1, <4>2
      <4>6. got' \in Seq(Nat) /\ Len(got') = Len(all) + Len(f) /\ Carries(Wire, got', 0)
        BY ONLY <4>4, <4>5
      <4> QED BY ONLY <4>5, <4>6
    <3>2. Len(got') + Len(out') + (Len(chunk') - pread') = taken'
      <4>1. /\ Len(got') = Len(got) + Len(out) + m /\ Len(out') = 0 /\ chunk' = chunk
            /\ pread' = pread + m /\ taken' = taken
            /\ Len(got) + Len(out) + (Len(chunk) - pread) = taken
        BY <2>2, <2>6, <3>1 DEF ReadOrder
      <4>2. /\ Len(got) \in Nat /\ Len(out) \in Nat /\ m \in Nat /\ pread \in Nat
            /\ Len(chunk) \in Nat /\ taken \in Nat
        BY ONLY <1>2, <2>1
      <4>3. Len(got) + Len(out) + m + 0 + (Len(chunk) - (pread + m)) = taken
        BY ONLY <4>1, <4>2
      <4> QED BY ONLY <4>1, <4>3
    <3>3. Carries(Wire, out', Len(got'))
      BY <2>2 DEF Carries
    <3> QED BY <1>1, <3>1, <3>2, <3>3 DEF ReadOrder
  <2> QED BY <2>2, <2>4, <2>5, <2>6 DEF ReadInv
<1>9. CASE In!CopySome
  <2>1. /\ rpc = "copy" /\ out' = out \o In!Rest /\ pread' = Len(chunk) /\ rpc' = "fill"
        /\ UNCHANGED <<taken, chunk, asked, whole, got>> /\ dropped' = dropped
        /\ Len(In!Rest) < asked - Len(out)
    BY <1>9 DEF In!CopySome, In!Missing
  <2>2. out' \in Seq(Nat) /\ Len(out') = Len(out) + Len(In!Rest)
    BY <1>2, <1>4, <2>1, ConcatProperties
  <2>3. ReadTyped'
    BY <1>1, <1>2, <1>4, <2>1, <2>2 DEF ReadTyped
  <2>4. ReadPlace'
    BY <1>1, <1>2, <1>3, <1>4, <2>1, <2>2 DEF ReadPlace
  <2>5. ASSUME ReadOrder PROVE ReadOrder'
    <3>1. Carries(Wire, out', Len(got))
      <4>1. Carries(Wire, out, Len(got)) /\ Carries(Wire, In!Rest, Len(got) + Len(out))
        BY <1>5, <2>5 DEF ReadOrder
      <4> QED BY <1>2, <1>4, <2>1, <4>1, CarriesJoined
    <3>2. Len(got') + Len(out') + (Len(chunk') - pread') = taken'
      BY <1>2, <1>4, <2>1, <2>2, <2>5 DEF ReadOrder
    <3> QED BY <1>1, <2>1, <2>5, <3>1, <3>2 DEF ReadOrder
  <2> QED BY <2>1, <2>3, <2>4, <2>5 DEF ReadInv
<1>10. ASSUME NEW n \in 1 .. InSize, In!Fill(n) PROVE ReadInv'
  <2>1. /\ rpc = "fill" /\ n <= Len(Wire) - taken /\ pread' = 0
        /\ chunk' = SubSeq(Wire, taken + 1, taken + n) /\ taken' = taken + n /\ rpc' = "copy"
        /\ UNCHANGED <<asked, whole, out, got>> /\ dropped' = dropped
    BY <1>10 DEF In!Fill, In!Fillable
  <2>2. n \in Nat /\ 1 <= n
    BY InputAssumption DEF InputAssumption
  <2>3. pread = Len(chunk)
    BY <1>3, <2>1 DEF ReadPlace
  <2>4. chunk' \in Seq(Nat) /\ Len(chunk') = n /\ Carries(Wire, chunk', taken)
    <3>1. Carries(Wire, Wire, 0)
      BY <1>2 DEF Carries
    <3>2. taken + n \in Nat /\ taken <= taken + n /\ taken + n <= Len(Wire) /\ 0 \in Nat
      BY <1>2, <2>1, <2>2
    <3>3. \A i \in taken + 1 .. taken + n : Wire[i] \in Nat
      BY <1>2, <3>2
    <3>4. /\ chunk' \in Seq(Nat)
          /\ Len(chunk') = IF taken + 1 <= taken + n THEN (taken + n) - (taken + 1) + 1 ELSE 0
          /\ \A i \in 1 .. (taken + n) - (taken + 1) + 1 : chunk'[i] = Wire[(taken + 1) + i - 1]
      <4>1. taken + 1 \in Int /\ taken + n \in Int /\ chunk' = SubSeq(Wire, taken + 1, taken + n)
        BY <1>2, <2>1, <2>2
      <4> QED BY ONLY <3>3, <4>1, SubSeqProperties
    <3>5. Len(chunk') = n /\ \A i \in 1 .. n : chunk'[i] = Wire[taken + i]
      BY <1>2, <2>2, <3>4
    <3> QED BY <3>4, <3>5 DEF Carries
  <2>5. ReadTyped'
    BY <1>1, <1>2, <2>1, <2>2, <2>4 DEF ReadTyped
  <2>6. taken' - Len(chunk') = taken /\ Len(chunk') <= taken'
    BY <1>2, <2>1, <2>2, <2>4
  <2>7. ReadPlace'
    BY <1>1, <1>3, <2>1, <2>4, <2>6 DEF ReadPlace
  <2>8. ASSUME ReadOrder PROVE ReadOrder'
    <3>1. Len(got') + Len(out') + (Len(chunk') - pread') = taken'
      <4>1. /\ got' = got /\ out' = out /\ Len(chunk') = n /\ pread' = 0 /\ taken' = taken + n
            /\ Len(got) + Len(out) + (Len(chunk) - pread) = taken
        BY <2>1, <2>4, <2>8 DEF ReadOrder
      <4>2. /\ Len(got) \in Nat /\ Len(out) \in Nat /\ n \in Nat /\ pread \in Nat
            /\ Len(chunk) \in Nat /\ taken \in Nat
        BY ONLY <1>2, <2>2
      <4>3. Len(got) + Len(out) + (n - 0) = taken + n
        BY ONLY <4>1, <4>2, <2>3
      <4> QED BY ONLY <4>1, <4>3
    <3> QED BY <1>1, <2>1, <2>8, <3>1 DEF ReadOrder
  <2> QED BY <2>1, <2>5, <2>7, <2>8 DEF ReadInv
<1>11. ASSUME out' = <<>>, whole' = 0, asked' = 0, rpc' = "idle", UNCHANGED <<taken, chunk, pread>>,
              \/ got' = got /\ (~dropped' => ~dropped /\ Len(out) = 0)
              \/ got' = got \o out /\ dropped' = dropped
       PROVE  ReadInv'
  <2>1. got' \in Seq(Nat)
    <3>1. got \o out \in Seq(Nat)
      BY ONLY <1>2, ConcatProperties
    <3> QED BY <1>2, <1>11, <3>1
  <2>2. ReadTyped'
    BY <1>1, <1>2, <1>11, <2>1 DEF ReadTyped
  <2>3. ReadPlace'
    BY <1>1, <1>3, <1>11 DEF ReadPlace
  <2>4. Carries(Wire, <<>>, Len(got'))
    BY DEF Carries
  <2>5. ASSUME ~dropped' PROVE ReadOrder'
    <3>1. CASE got' = got /\ ~dropped /\ Len(out) = 0
      BY <1>1, <1>2, <1>11, <2>4, <3>1 DEF ReadInv, ReadOrder
    <3>2. CASE got' = got \o out /\ ~dropped
      <4>1. ReadOrder
        BY <3>2 DEF ReadInv
      <4>2. Len(got') = Len(got) + Len(out) /\ Carries(Wire, got', 0)
        BY <1>6, <3>2, <4>1
      <4>3. Len(got') + Len(out') + (Len(chunk') - pread') = taken'
        BY <1>2, <1>11, <4>1, <4>2 DEF ReadOrder
      <4> QED BY <1>1, <1>11, <2>4, <4>2, <4>3 DEF ReadOrder
    <3> QED BY <1>11, <2>5, <3>1, <3>2
  <2> QED BY <2>2, <2>3, <2>5 DEF ReadInv
<1>12. CASE In!FillEnd
  <2>1. rpc = "fill" /\ UNCHANGED <<taken, chunk, pread>>
    BY <1>12 DEF In!FillEnd, In!AtEnd
  <2>2. CASE ~forced /\ got' = got \o out /\ In!EndRead /\ UNCHANGED dropped
    BY <1>11, <2>1, <2>2 DEF In!EndRead
  <2>3. CASE /\ forced /\ Len(out) > whole /\ whole' = Len(out) /\ rpc' = "copy"
             /\ UNCHANGED <<asked, forced, out, got, dropped>>
    <3>1. ReadTyped'
      BY <1>1, <1>2, <2>1, <2>3 DEF ReadTyped
    <3>2. ReadPlace'
      BY <1>1, <1>3, <2>1, <2>3 DEF ReadPlace
    <3>3. ~dropped' => ReadOrder'
      BY <1>1, <2>1, <2>3 DEF ReadInv, ReadOrder
    <3> QED BY <3>1, <3>2, <3>3 DEF ReadInv
  <2>4. CASE /\ forced /\ Len(out) = whole /\ dropped' = (dropped \/ whole > 0)
             /\ In!EndRead /\ UNCHANGED got
    <3>1. ~dropped' => ~dropped /\ ~(whole > 0)
      BY <2>4, Zenon
    <3>2. ~(whole > 0) => Len(out) = 0
      BY <1>2, <2>4
    <3> QED BY <1>11, <2>1, <2>4, <3>1, <3>2 DEF In!EndRead
  <2> QED BY <1>12, <2>2, <2>3, <2>4 DEF In!FillEnd
<1>13. ASSUME NEW again \in BOOLEAN, In!Fail(again) PROVE ReadInv'
  <2>1. rpc = "fill" /\ UNCHANGED <<taken, chunk, pread, got>>
    BY <1>13 DEF In!Fail
  <2>2. CASE forced /\ again
    <3>1. /\ rpc' = "copy" /\ out' = SubSeq(out, 1, whole) /\ asked' = asked /\ whole' = whole
      BY <1>13, <2>2 DEF In!Fail
    <3>2. ~dropped' => ~dropped /\ ~(Len(out) > whole)
      BY <1>13, <2>2, Zenon DEF In!Fail
    <3>3. out' \in Seq(Nat) /\ Len(out') = whole
      <4>1. 1 \in Int /\ whole \in Int /\ \A i \in 1 .. whole : out[i] \in Nat
        BY <1>2
      <4>2. /\ SubSeq(out, 1, whole) \in Seq(Nat)
            /\ Len(SubSeq(out, 1, whole)) = IF 1 <= whole THEN whole - 1 + 1 ELSE 0
        BY ONLY <4>1, SubSeqProperties
      <4> QED BY <1>2, <3>1, <4>2
    <3>4. ReadTyped'
      BY <1>1, <1>2, <2>1, <3>1, <3>3 DEF ReadTyped
    <3>5. ReadPlace'
      BY <1>1, <1>2, <1>3, <2>1, <3>1, <3>3 DEF ReadPlace
    <3>6. ASSUME ~dropped' PROVE ReadOrder'
      <4>1. ReadOrder /\ Len(out) = whole
        BY <1>2, <3>2, <3>6 DEF ReadInv
      <4>2. out' = out
        <5>1. Len(out) <= Len(out) /\ Carries(out, out, 0)
          BY <1>2 DEF Carries
        <5>2. out = SubSeq(out, 1, Len(out))
          BY <1>2, <5>1, CarriesSame
        <5> QED BY <3>1, <4>1, <5>2
      <4> QED BY <1>1, <2>1, <4>1, <4>2 DEF ReadOrder
    <3> QED BY <3>4, <3>5, <3>6 DEF ReadInv
  <2>3. CASE ~(forced /\ again)
    <3>1. In!EndRead
      BY <1>13, <2>3 DEF In!Fail
    <3>2. ~dropped' => ~dropped /\ ~(Len(out) > 0)
      BY <1>13, <2>3, Zenon DEF In!Fail
    <3>3. ~(Len(out) > 0) => Len(out) = 0
      BY <1>2
    <3> QED BY <1>11, <2>1, <3>1, <3>2, <3>3 DEF In!EndRead
  <2> QED BY <2>2, <2>3
<1> QED BY <1>7, <1>8, <1>9, <1>10, <1>12, <1>13 DEF In!InNext

(* A step of the writer leaves what the reader has taken where it was.      *)
LEMMA ReadKept ==
  ASSUME Wire \in Seq(Nat), Len(Wire) = Len(sent), Grows(Wire, Wire'),
         Len(Wire') = Len(sent'), Wire' \in Seq(Nat), ReadInv, UNCHANGED inState
  PROVE  ReadInv'
<1>1. /\ out \in Seq(Nat) /\ got \in Seq(Nat) /\ chunk \in Seq(Nat)
      /\ Len(out) \in Nat /\ Len(got) \in Nat /\ Len(chunk) \in Nat
      /\ pread \in Nat /\ pread <= Len(chunk) /\ taken \in Nat /\ taken <= Len(Wire)
      /\ Len(Wire) \in Nat /\ Len(Wire') \in Nat
  <2>1. Len(Wire) \in Nat /\ Len(Wire') \in Nat
    BY ONLY Wire \in Seq(Nat), Wire' \in Seq(Nat)
  <2> QED BY <2>1 DEF ReadInv, ReadTyped
<1>2. Len(Wire) <= Len(Wire')
  BY DEF Grows
<1>3. ReadTyped'
  BY <1>1, <1>2 DEF ReadInv, ReadTyped, inState
<1>4. ReadPlace'
  <2>1. Len(chunk) <= taken /\ Carries(Wire, chunk, taken - Len(chunk))
    BY DEF ReadInv, ReadPlace
  <2>2. taken - Len(chunk) \in Nat /\ (taken - Len(chunk)) + Len(chunk) <= Len(Wire)
    BY <1>1, <2>1
  <2>3. Carries(Wire', chunk, taken - Len(chunk))
    BY <1>1, <2>1, <2>2, CarriesOn
  <2> QED BY <2>1, <2>3 DEF ReadInv, ReadPlace, inState
<1>5. ASSUME ~dropped PROVE ReadOrder'
  <2>1. ReadOrder
    BY <1>5 DEF ReadInv
  <2>2. Len(got) + Len(out) <= Len(Wire) /\ 0 + Len(got) <= Len(Wire)
    BY <1>1, <2>1 DEF ReadOrder
  <2>3. Carries(Wire', got, 0) /\ Carries(Wire', out, Len(got))
    BY <1>1, <2>1, <2>2, CarriesOn DEF ReadOrder
  <2> QED BY <2>1, <2>3 DEF ReadOrder, inState
<1> QED BY <1>3, <1>4, <1>5 DEF ReadInv, inState

(* What the reader has been given is the first part of the wire, and of the *)
(* copies when each stamp sent is its own place.                            *)
LEMMA ReadsInOrderFrom ==
  ASSUME OutInv, torn \/ Untorn, ReadInv
  PROVE  ReadsInOrder
<1>1. /\ sent \in Seq(Nat) /\ copied \in Seq(Nat) /\ \A i \in DOMAIN sent : sent[i] <= Len(copied)
  BY DEF OutInv, OutTypeOK, StampInv
<1>2. Wire = WireOf(sent, copied)
  BY DEF Wire, WireOf
<1>3. /\ Wire \in Seq(Nat) /\ Len(Wire) = Len(sent)
      /\ \A i \in 1 .. Len(sent) :
           Wire[i] = IF sent[i] = Garbage THEN Garbage ELSE copied[sent[i]]
  BY ONLY <1>1, <1>2, WireType
<1>4. /\ out \in Seq(Nat) /\ got \in Seq(Nat) /\ chunk \in Seq(Nat)
      /\ Len(out) \in Nat /\ Len(got) \in Nat /\ Len(chunk) \in Nat
      /\ pread \in Nat /\ pread <= Len(chunk) /\ taken \in Nat /\ taken <= Len(sent)
  BY DEF ReadInv, ReadTyped
<1>5. ASSUME ~dropped PROVE got \o out \o In!Rest = SubSeq(Wire, 1, taken)
  <2>1. /\ Carries(Wire, got, 0) /\ Carries(Wire, out, 0 + Len(got))
        /\ Len(got) + Len(out) + (Len(chunk) - pread) = taken
    BY <1>4, <1>5 DEF ReadInv, ReadOrder
  <2> DEFINE both == got \o out
             r == In!Rest
  <2>2. both \in Seq(Nat) /\ Len(both) = Len(got) + Len(out) /\ Carries(Wire, both, 0)
    BY <1>4, <2>1, CarriesJoined
  <2>3. /\ r \in Seq(Nat) /\ Len(r) = Len(chunk) - pread
        /\ Carries(Wire, r, taken - (Len(chunk) - pread))
    BY RestIs DEF ReadInv
  <2> HIDE DEF both, r
  <2>4. taken - (Len(chunk) - pread) = 0 + Len(both)
    BY <1>4, <2>1, <2>2
  <2>5. Carries(Wire, r, 0 + Len(both))
    BY <2>3, <2>4
  <2>6. both \o r \in Seq(Nat) /\ Len(both \o r) = Len(both) + Len(r) /\ Carries(Wire, both \o r, 0)
    BY <2>2, <2>3, <2>5, CarriesJoined
  <2>7. Len(both \o r) = taken
    BY <1>4, <2>1, <2>2, <2>3, <2>6
  <2>8. both \o r = SubSeq(Wire, 1, taken)
    <3> DEFINE s == both \o r
    <3>1. s \in Seq(Nat) /\ Len(s) = taken /\ Carries(Wire, s, 0) /\ Len(s) <= Len(Wire)
      BY <1>3, <1>4, <2>6, <2>7
    <3> HIDE DEF s
    <3>2. s = SubSeq(Wire, 1, Len(s))
      BY <1>3, <3>1, CarriesSame
    <3>3. s = SubSeq(Wire, 1, taken)
      BY ONLY <3>1, <3>2
    <3> QED BY <3>3 DEF s
  <2> QED BY <2>8 DEF both, r
<1>6. In!ReadExactly
  BY <1>5 DEF In!ReadExactly
<1>7. ASSUME ~dropped, ~torn PROVE IsPrefix(got, copied)
  <2>1. /\ \A i \in DOMAIN sent : sent[i] = i
        /\ Len(sent) + pwrite - plow = Len(copied) /\ plow <= pwrite
    BY <1>7 DEF Untorn
  <2>2. /\ Carries(Wire, got, 0) /\ Len(got) + Len(out) + (Len(chunk) - pread) = taken
    BY <1>7 DEF ReadInv, ReadOrder
  <2>3. Len(got) <= Len(sent) /\ Len(got) <= Len(copied) /\ Len(sent) \in Nat /\ Len(copied) \in Nat
    <3>1. plow \in Nat /\ pwrite \in Nat /\ Len(sent) \in Nat /\ Len(copied) \in Nat
      BY <1>1 DEF OutInv, OutTypeOK
    <3> QED BY <1>4, <2>1, <2>2, <3>1
  <2>4. ASSUME NEW i \in 1 .. Len(got) PROVE got[i] = copied[0 + i]
    <3>1. i \in 1 .. Len(sent) /\ i # 0 /\ 0 + i = i
      BY <1>4, <2>3
    <3>2. sent[i] = i
      BY <1>1, <2>1, <3>1
    <3>3. Wire[i] = copied[i]
      BY <1>3, <3>1, <3>2 DEF Garbage
    <3> QED BY <2>2, <3>1, <3>3 DEF Carries
  <2>5. Carries(copied, got, 0)
    BY <2>4 DEF Carries
  <2>6. got = SubSeq(copied, 1, Len(got))
    BY <1>1, <1>4, <2>3, <2>5, CarriesSame
  <2>7. Carries(got, got, 0) /\ Len(got) <= Len(got)
    BY <1>4 DEF Carries
  <2>8. got = SubSeq(got, 1, Len(got))
    BY <1>4, <2>7, CarriesSame
  <2> QED BY <2>3, <2>6, <2>8 DEF IsPrefix
<1> QED BY <1>6, <1>7 DEF ReadsInOrder, PipeInOrder

PipeInv == OutInv /\ DirectShape /\ (torn \/ Untorn) /\ ReadInv

LEMMA PipeStep ==
  /\ Init => PipeInv
  /\ PipeInv /\ [Next]_vars => PipeInv'
<1>1. Init => PipeInv
  <2> SUFFICES ASSUME Init PROVE PipeInv
    OBVIOUS
  <2>1. OutInv
    BY OutInvStep DEF Init
  <2>2. DirectShape /\ Untorn
    BY DEF Init, OutInit, DirectShape, Untorn
  <2>3. ReadInv
    <3>1. /\ rpc = "idle" /\ asked = 0 /\ whole = 0 /\ out = <<>> /\ got = <<>> /\ chunk = <<>>
          /\ pread = 0 /\ taken = 0 /\ sent = <<>>
      BY DEF Init, OutInit, In!InInit
    <3>2. ReadTyped
      BY <3>1 DEF ReadTyped
    <3>3. \A b : Carries(Wire, <<>>, b)
      BY DEF Carries
    <3>4. ReadPlace /\ ReadOrder
      BY <3>1, <3>3 DEF ReadPlace, ReadOrder
    <3> QED BY <3>2, <3>4 DEF ReadInv
  <2> QED BY <2>1, <2>2, <2>3 DEF PipeInv
<1>2. PipeInv /\ [Next]_vars => PipeInv'
  <2> SUFFICES ASSUME PipeInv, [Next]_vars PROVE PipeInv'
    OBVIOUS
  <2>1. [OutNext]_outVars
    BY DEF Next, vars
  <2>2. OutInv' /\ OutTypeOK /\ OutTypeOK'
    BY <2>1, OutInvStep DEF OutInv, PipeInv
  <2>3. DirectShape' /\ (torn' \/ Untorn')
    BY <2>1, <2>2, OrderStep DEF PipeInv
  <2>4. /\ Grows(Wire, Wire') /\ Wire \in Seq(Nat) /\ Len(Wire) = Len(sent)
        /\ Wire' \in Seq(Nat) /\ Len(Wire') = Len(sent')
    BY <2>1, <2>2, WireGrows DEF PipeInv
  <2>5. ReadInv'
    <3>1. CASE UNCHANGED inState
      BY <2>4, <3>1, ReadKept DEF PipeInv
    <3>2. CASE In!InNext /\ UNCHANGED outVars
      BY <2>4, <3>2, ReadStep DEF PipeInv
    <3> QED BY <3>1, <3>2 DEF Next, vars
  <2> QED BY <2>2, <2>3, <2>5 DEF PipeInv
<1> QED BY <1>1, <1>2

(* The application that reads has of the stream what it is told it has, in  *)
(* order, and it is what the application that writes has put in, until an   *)
(* exception cuts a flush or a read in its middle (BufferedInputStream,     *)
(* BufferedOutputStream, InputStream::read).                                *)
THEOREM ReadsInOrderHolds == Spec => []ReadsInOrder
<1>1. PipeInv => ReadsInOrder
  BY ReadsInOrderFrom DEF PipeInv
<1> QED BY <1>1, PipeStep, PTL DEF Spec

Full == rpc # "idle" /\ forced /\ got' # got => Len(got') - Len(got) = asked

(* What a step gives the application: all that it asked for, with FORCECS.  *)
LEMMA FullStep ==
  ASSUME ReadTyped, ReadPlace, In!InNext
  PROVE  Full
<1>1. /\ got \in Seq(Nat) /\ out \in Seq(Nat) /\ Len(out) \in Nat /\ Len(got) \in Nat /\ asked \in Nat
      /\ rpc # "idle" => Len(out) <= asked
  BY DEF ReadTyped, ReadPlace
<1>2. In!Rest \in Seq(Nat) /\ Len(In!Rest) \in Nat
  <2>1. In!Rest \in Seq(Nat)
    BY RestIs
  <2> QED BY <2>1
<1>3. CASE In!CopyLast
  <2> DEFINE m == asked - Len(out)
             f == SubSeq(In!Rest, 1, m)
             all == got \o out
  <2>1. m \in Nat /\ m <= Len(In!Rest)
    BY <1>1, <1>3 DEF In!CopyLast, In!Missing
  <2>2. got' = all \o f
    BY <1>3 DEF In!CopyLast, In!Missing, In!First
  <2> HIDE DEF m
  <2>3. f \in Seq(Nat) /\ Len(f) = m
    <3>1. 1 \in Int /\ m \in Int /\ \A i \in 1 .. m : In!Rest[i] \in Nat
      BY <1>2, <2>1
    <3>2. f \in Seq(Nat) /\ Len(f) = (IF 1 <= m THEN m - 1 + 1 ELSE 0)
      BY ONLY <3>1, SubSeqProperties
    <3> HIDE DEF f
    <3> QED BY <2>1, <3>2
  <2>4. all \in Seq(Nat) /\ Len(all) = Len(got) + Len(out)
    BY ONLY <1>1, ConcatProperties
  <2> HIDE DEF f, all
  <2>5. Len(all \o f) = Len(all) + Len(f)
    BY ONLY <2>3, <2>4, ConcatProperties
  <2>6. Len(got') = Len(got) + Len(out) + m
    BY <2>2, <2>3, <2>4, <2>5
  <2>7. /\ Len(got) \in Nat /\ Len(out) \in Nat /\ m \in Nat
        /\ Len(out) + m = asked
    BY <1>1, <2>1 DEF m
  <2>8. Len(got') - Len(got) = asked
    BY ONLY <2>6, <2>7, SMT
  <2> QED BY <2>8 DEF Full
<1>4. CASE In!FillEnd
  BY <1>4 DEF In!FillEnd, Full
<1>5. CASE In!CopySome \/ \E again \in BOOLEAN : In!Fail(again)
  BY <1>5 DEF In!CopySome, In!Fail, Full
<1>6. CASE \E n \in 1 .. InSize : In!Fill(n)
  BY <1>6 DEF In!Fill, Full
<1>7. CASE \E n \in 1 .. MaxRead, force \in BOOLEAN : In!ReadCall(n, force)
  BY <1>7 DEF In!ReadCall, Full
<1> QED BY <1>3, <1>4, <1>5, <1>6, <1>7 DEF In!InNext

(* A read with FORCECS never returns with less than it was asked for, also  *)
(* when the stream below was short, at its end or threw: it reads on, or    *)
(* leaves without giving anything (InputStream::read).                      *)
THEOREM ForcedIsFullHolds == Spec => ForcedIsFull
<1>1. PipeInv /\ [Next]_vars => [Full]_In!inVars
  <2> SUFFICES ASSUME PipeInv, [Next]_vars PROVE Full \/ UNCHANGED In!inVars
    OBVIOUS
  <2>1. CASE UNCHANGED inState
    BY <2>1 DEF Full, inState
  <2>2. CASE In!InNext
    BY <2>2, FullStep DEF PipeInv, ReadInv
  <2> QED BY <2>1, <2>2 DEF Next, vars
<1>2. Spec => [][Full]_In!inVars
  BY <1>1, PipeStep, PTL DEF Spec
<1> QED BY <1>2 DEF ForcedIsFull, In!ForcedIsFull, Full
=============================================================================
