------------------------------ MODULE ListSpec ------------------------------
(***************************************************************************)
(* What tmb::List and tmb::Array promise: a sequence of values, reached by *)
(* an index from 0 on.  last is the last call that ended, with its         *)
(* arguments and result.                                                   *)
(***************************************************************************)
EXTENDS Integers, SequencesExt

CONSTANTS Values, None, MaxLen    \* MaxLen bounds the length

VARIABLES seq, last

lsVars == <<seq, last>>

Indices == 0 .. Len(seq) - 1
Answer(op, i, v, result) == [op |-> op, index |-> i, value |-> v, result |-> result]

Starts == UNION {[1 .. n -> Values \cup {None}] : n \in 0 .. 2}
LsInit == seq \in Starts /\ last = Answer("none", 0, None, None)

(* Each call says first which one it was. *)
LsGet(i) ==
  /\ last'.op = "get" /\ i \in Indices
  /\ last' = Answer("get", i, None, seq[i + 1]) /\ UNCHANGED seq

LsPut(i, v) ==
  /\ last'.op = "put" /\ i \in Indices
  /\ last' = Answer("put", i, v, None) /\ seq' = ReplaceAt(seq, i + 1, v)

(* An index before the beginning or past the end means that end. *)
LsInsert(i, v) ==
  /\ last' = Answer("insert", i, v, None)
  /\ seq' = InsertAt(seq, (IF i < 0 THEN 0 ELSE IF i > Len(seq) THEN Len(seq) ELSE i) + 1, v)

LsRemove(i) ==
  /\ last' = Answer("remove", i, None, None)
  /\ seq' = IF i \in Indices THEN RemoveAt(seq, i + 1) ELSE seq

LsTake(i) ==
  /\ last'.op = "take" /\ i \in Indices
  /\ last' = Answer("take", i, None, seq[i + 1]) /\ seq' = RemoveAt(seq, i + 1)

(* The elements from start up to, not including, end go; a negative end,   *)
(* or one too large, is the length.                                        *)
LsRemoveRange(start, end) ==
  last' = Answer("range", start, end, None) /\
  LET stop == IF end \in 0 .. Len(seq) THEN end ELSE Len(seq)
  IN seq' = IF start \in Indices /\ start < stop
           THEN SubSeq(seq, 1, start) \o SubSeq(seq, stop + 1, Len(seq)) ELSE seq

Hits(v, start) == {i \in Indices : i >= start /\ seq[i + 1] = v}

LsIndexOf(v, start) ==
  /\ last'.op = "indexOf"
  /\ last' = Answer("indexOf", start, v,
               IF Hits(v, start) = {} THEN -1 ELSE Min(Hits(v, start)))
  /\ UNCHANGED seq

LsLastIndexOf(v) ==
  /\ last'.op = "lastIndexOf"
  /\ last' = Answer("lastIndexOf", 0, v, Max(Hits(v, 0) \cup {-1}))
  /\ UNCHANGED seq

(* The elements from n on go; setSize() may also add some of any value. *)
LsTruncate(n) ==
  /\ last' = Answer("truncate", n, None, None)
  /\ seq' = IF n \in Indices THEN SubSeq(seq, 1, n) ELSE seq

LsSetSize(n) ==
  /\ last' = Answer("setSize", n, None, None)
  /\ IF n < 0 THEN UNCHANGED seq
     ELSE IF n <= Len(seq) THEN seq' = SubSeq(seq, 1, n)
     ELSE \E more \in [1 .. n - Len(seq) -> Values \cup {None}] : seq' = seq \o more

(* The data of another sequence. *)
LsAssign(data) == last' = Answer("assign", Len(data), None, None) /\ seq' = data

(* The next call is under way. *)
LsCall == last' = Answer("none", 0, None, None) /\ UNCHANGED seq

(* A step is the call that last names, with the arguments it names. *)
LsNext ==
  LET i == last'.index  v == last'.value
  IN \/ LsCall
     \/ LsGet(i) \/ LsRemove(i) \/ LsTake(i) \/ LsTruncate(i) \/ LsSetSize(i)
     \/ LsRemoveRange(i, v) \/ LsPut(i, v) \/ LsInsert(i, v)
     \/ LsIndexOf(v, i) \/ LsLastIndexOf(v)
     \/ LsAssign(seq')

LsSpec == LsInit /\ [][LsNext]_lsVars
=============================================================================
