------------------------------- MODULE Array --------------------------------
(***************************************************************************)
(* tmb::Array, a buffer of _bufsize cells of which the first _size are in  *)
(* use, and the deleting of objects that tmb::ArrayP adds.  One thread     *)
(* calls it, so a call is a step.  An element is given by value: a         *)
(* reference into the array's own buffer is not modelled.                  *)
(***************************************************************************)
EXTENDS Integers, SequencesExt

CONSTANTS
  Values,      \* the elements, or the objects an ArrayP points to
  None,        \* a cell never written, and no value
  DefaultBuf,  \* DEFAULT_BUFSIZE
  MaxGrow,     \* the 10000 that insert() cuts the growth at
  MaxLen       \* bound: length of the array

VARIABLES
  cells,       \* _data[0 .. _bufsize - 1]
  count,       \* _size
  pointers,    \* this is an ArrayP
  removes,     \* ArrayP: _autodelete & AutoDelete_REMOVE
  dead,        \* the objects deleted and not made again
  broken,      \* "remove" once remove() has written in front of _data
  last         \* the last call that ended

vars == <<cells, count, pointers, removes, dead, broken, last>>

Answer(op, i, v, result) == [op |-> op, index |-> i, value |-> v, result |-> result]
Fresh(n) == [i \in 1 .. n |-> None]
Content == SubSeq(cells, 1, count)
Objects(start, end) == {cells[i] : i \in start + 1 .. end}

(* The constructors: empty, with a buffer, with a size, or of given data;  *)
(* a buffer is at least as long as the data, that of given data at least   *)
(* DEFAULT_BUFSIZE.                                                        *)
Init ==
  /\ \E n, buf \in {0, 2}, given \in BOOLEAN :
       LET long == IF buf < n THEN n ELSE buf
       IN \/ ~given /\ count = n /\ cells = Fresh(long)
          \/ /\ given /\ count = n
             /\ \E data \in [1 .. n -> Values] :
                  cells = data \o Fresh((IF long < DefaultBuf THEN DefaultBuf ELSE long) - n)
  /\ pointers \in BOOLEAN /\ removes \in BOOLEAN
  /\ removes => pointers
  /\ pointers => \A i, j \in 1 .. count : cells[i] # None /\ (cells[i] = cells[j] => i = j)
  /\ dead = {} /\ broken = "no" /\ last = Answer("none", 0, None, None)

-----------------------------------------------------------------------------
(* What the program puts into a deleting ArrayP is a new object. *)
Storable(v) == removes => v \notin Objects(0, count)

Index == 0 .. count - 1
Whole == broken = "no"

Get(i) ==
  /\ Whole /\ i \in Index /\ last' = Answer("get", i, None, cells[i + 1])
  /\ UNCHANGED <<cells, count, pointers, removes, dead, broken>>

(* A write through get(), operator[] or data(); put() has no definition. *)
Put(i, v) ==
  /\ Whole /\ i \in Index /\ Storable(v)
  /\ cells' = ReplaceAt(cells, i + 1, v) /\ dead' = dead \ {v}
  /\ last' = Answer("put", i, v, None)
  /\ UNCHANGED <<count, pointers, removes, broken>>

Grown == LET more == 2 * Len(cells)
         IN Len(cells) + DefaultBuf + (IF more > MaxGrow THEN MaxGrow ELSE more)

(* insert(): in place if a cell is free, otherwise into a longer buffer;   *)
(* behind the new element the old ones follow.                             *)
Insert(i, v) ==
  LET at == IF i < 0 THEN 0 ELSE IF i >= count THEN count ELSE i
      long == IF count >= Len(cells) THEN Grown ELSE Len(cells)
      data == InsertAt(Content, at + 1, v)
  IN /\ Whole /\ count < MaxLen /\ Storable(v)
     /\ cells' = IF count >= Len(cells) THEN data \o Fresh(long - count - 1)
                 ELSE data \o SubSeq(cells, count + 2, long)
     /\ count' = count + 1 /\ dead' = dead \ {v}
     /\ last' = Answer("insert", i, v, None)
     /\ UNCHANGED <<pointers, removes, broken>>

(* What moving the cells from stop on down to start leaves; the cells past *)
(* the new size keep what they had.                                        *)
Closed(start, stop) ==
  [i \in DOMAIN cells |->
     IF i > start /\ i <= count - (stop - start) THEN cells[i + stop - start] ELSE cells[i]]

(* remove(start, end).  ArrayP refuses a start outside; Array does not:    *)
(* with a negative start it writes in front of the buffer or makes the     *)
(* size negative, and the model ends there.                                *)
RemoveCells(start, end, op, result) ==
  LET stop == IF end < 0 \/ end > count THEN count ELSE end
      none == stop <= start \/ (pointers /\ op # "take" /\ start \notin Index)
  IN /\ Whole
     /\ IF none THEN UNCHANGED <<cells, count, dead, broken>>
        ELSE IF start < 0 THEN broken' = "remove" /\ UNCHANGED <<cells, count, dead>>
        ELSE /\ dead' = IF removes /\ op # "take" THEN dead \cup Objects(start, stop) ELSE dead
             /\ cells' = Closed(start, stop) /\ count' = count - (stop - start)
             /\ UNCHANGED broken
     /\ last' = Answer(op, start, result, IF op = "take" THEN cells[start + 1] ELSE None)
     /\ UNCHANGED <<pointers, removes>>

RemoveRange(start, end) == RemoveCells(start, end, "range", end)
RemoveOne(i) == RemoveCells(i, i + 1, "remove", None)

(* getAndRemove(): the object goes to the caller, none is deleted. *)
Take(i) == i \in Index /\ RemoveCells(i, i + 1, "take", None)

(* truncate(), and clear() with n = 0. *)
Truncate(n) ==
  /\ Whole
  /\ IF n >= 0 /\ n < count
     THEN count' = n /\ dead' = IF removes THEN dead \cup Objects(n, count) ELSE dead
     ELSE UNCHANGED <<count, dead>>
  /\ last' = Answer("truncate", n, None, None)
  /\ UNCHANGED <<cells, pointers, removes, broken>>

(* Mutant: the data is not copied. *)
ResizedEmpty(n) == LET long == IF n < count THEN count ELSE n
                   IN IF long = Len(cells) THEN cells ELSE Fresh(long)

(* setMinBufSize(): a new buffer of that length, but never shorter than    *)
(* the data, which alone is copied.                                        *)
Resized(n) == LET long == IF n < count THEN count ELSE n
              IN IF long = Len(cells) THEN cells ELSE Content \o Fresh(long - count)

SetMinBufSize(n) ==
  /\ Whole /\ cells' = Resized(n)
  /\ UNCHANGED <<count, pointers, removes, dead, broken, last>>

(* setSize(n), and setSize(n, buf) with buf >= 0.  What the cells taken    *)
(* into use hold is what they held before; ArrayP::setSize() names a       *)
(* private member of Array and cannot be used.                             *)
SetSize(n, buf) ==
  /\ Whole /\ ~pointers /\ n <= MaxLen
  /\ IF n < 0 THEN UNCHANGED <<cells, count>>
     ELSE /\ count' = n
          /\ cells' = IF buf >= 0 THEN Resized(IF buf < n THEN n ELSE buf)
                      ELSE IF n > Len(cells) THEN Resized(n) ELSE cells
  /\ last' = Answer("setSize", n, None, None)
  /\ UNCHANGED <<pointers, removes, dead, broken>>

Found(v, start) == {i \in Index : i >= start /\ cells[i + 1] = v}

IndexOf(v, start) ==
  /\ Whole /\ last' = Answer("indexOf", start, v, Min(Found(v, start) \cup
                               (IF Found(v, start) = {} THEN {-1} ELSE {})))
  /\ UNCHANGED <<cells, count, pointers, removes, dead, broken>>

LastIndexOf(v) ==
  /\ Whole /\ last' = Answer("lastIndexOf", 0, v, Max(Found(v, 0) \cup {-1}))
  /\ UNCHANGED <<cells, count, pointers, removes, dead, broken>>

(* operator=, from an array of other data in a buffer with spare cells: a  *)
(* shorter buffer is replaced; an ArrayP deletes its objects and no more.  *)
Assign(data, spare) ==
  /\ Whole /\ (pointers => IsInjective(data) /\ ToSet(data) \cap (Objects(0, count) \cup dead) = {})
  /\ dead' = IF removes THEN dead \cup Objects(0, count) ELSE dead
  /\ cells' = IF Len(cells) < Len(data) + spare THEN data \o Fresh(spare)
              ELSE data \o SubSeq(cells, Len(data) + 1, Len(cells))
  /\ count' = Len(data) /\ removes' = FALSE
  /\ last' = Answer("assign", Len(data), None, None)
  /\ UNCHANGED <<pointers, broken>>

(* The program goes on with a copy, with a buffer like the original's or   *)
(* of a given length; an ArrayP's copy deletes nothing.                  *)
Copy(minbuf) ==
  /\ Whole /\ minbuf >= 0 /\ removes' = FALSE
  /\ cells' = IF minbuf = 0 THEN Content \o Fresh(Len(cells) - count) ELSE Resized(minbuf)
  /\ UNCHANGED <<count, pointers, dead, broken, last>>

(* The other array's data, and the lengths asked for. *)
Data == UNION {[1 .. n -> Values] : n \in {0, 2}}
Lengths == {-1, 0, MaxLen - 1, MaxLen + 1}

Next ==
  \/ \E i \in -1 .. MaxLen + 1 :
       \/ Get(i) \/ RemoveOne(i) \/ Take(i) \/ Truncate(i)
       \/ \E end \in Lengths : RemoveRange(i, end)
       \/ \E v \in Values : Put(i, v) \/ Insert(i, v) \/ IndexOf(v, i)
  \/ \E v \in Values : LastIndexOf(v)
  \/ \E n \in Lengths :
       \/ SetMinBufSize(n) \/ Copy(n)
       \/ SetSize(n, -1) \/ SetSize(n, MaxLen + 1)
  \/ \E data \in Data, spare \in {0, 2} : Assign(data, spare)

Spec == Init /\ [][Next]_vars

-----------------------------------------------------------------------------
(* The data fits its buffer, however they grew, shrank or were assigned,   *)
(* and the only call that leaves the buffer is Array::remove() with a      *)
(* negative start, which ArrayP refuses (Array.h remove, insert, operator=,*)
(* setMinBufSize).                                                         *)
SizeFits ==
  /\ count \in 0 .. Len(cells)
  /\ broken = "remove" => ~pointers /\ last.op \in {"remove", "range"} /\ last.index < 0

(* An ArrayP that deletes what it removes never holds a deleted object.    *)
NoDangling == removes => Objects(0, count) \cap dead = {}
=============================================================================
