------------------------------ MODULE TextBlock -----------------------------
(***************************************************************************)
(* The block of data behind a tmb::String, cell by cell: the functions that*)
(* change a text in place, or into a new block when the old one is shared  *)
(* or too small (src/tmb/lang/String.cpp).  One String and, at times, a    *)
(* copy of it that shares its block.                                       *)
(***************************************************************************)
EXTENDS Text, FiniteSets, SequencesExt

CONSTANTS
  Junk,        \* what a cell holds that was never written
  Arguments,   \* the texts given to the calls
  MaxText,     \* bound: the length of the String
  MaxBuf,      \* bound: setMinBufSize()
  FormatSize   \* sizeof(buf) in vformat()

VARIABLES
  data,        \* _data: the cells, length, bufsize and whether it is shared
  copied,      \* the text of the copy that shares it
  torn,        \* the C library was called with overlapping or used up arguments
  want         \* history: the text that the calls so far should give

blockvars == <<data, copied, torn, want>>

Content(d) == [i \in 1..d.length |-> d.cells[i - 1]]

-----------------------------------------------------------------------------
(* The C library (external).  Writing past the end shows in the cells'      *)
(* domain.                                                                  *)

CString(t) == [i \in 0..Len(t) |-> IF i < Len(t) THEN At(t, i) ELSE Nul]

StrLen(cells, from) ==
  LeastOf({n \in 0..Cardinality(DOMAIN cells) - 1 - from : cells[from + n] = Nul})

MemMove(cells, to, source, from, n) ==
  [i \in DOMAIN cells \cup to..to + n - 1 |->
     IF i \in to..to + n - 1 THEN source[from + i - to] ELSE cells[i]]

StrCpy(cells, to, source, from) == MemMove(cells, to, source, from, StrLen(source, from) + 1)

StrNCpy(cells, to, source, from, n) ==
  [i \in DOMAIN cells \cup to..to + n - 1 |->
     IF i \notin to..to + n - 1 THEN cells[i]
     ELSE IF i - to <= StrLen(source, from) THEN source[from + i - to]
     ELSE Nul]

-----------------------------------------------------------------------------
(* Blocks *)

\* iinitData()
NewData(length, minbufsize) ==
  LET size == IF minbufsize <= length THEN length + 1 ELSE minbufsize
  IN  [cells |-> [i \in 0..size - 1 |-> IF i = length THEN Nul ELSE Junk],
       length |-> length, bufsize |-> size, linked |-> FALSE]

\* _nullstring, which always has links.
NullData == [cells |-> CString(<<>>), length |-> 0, bufsize |-> 0, linked |-> TRUE]

\* iinitCopyData()
CopyData(cells, from, length, minbufsize) ==
  LET d == NewData(length, minbufsize)
  IN  IF length = 0 THEN d ELSE [d EXCEPT !.cells = StrNCpy(@, 0, cells, from, length)]

\* iunlinkCopyData(), for data that is shared.
Unlinked(d) == IF d.linked THEN CopyData(d.cells, 0, d.length, d.bufsize) ELSE d

-----------------------------------------------------------------------------
(* The functions *)

Clipped(d, pos) == IF pos < 0 THEN 0 ELSE IF pos > d.length THEN d.length ELSE pos

\* Mutant of FitsInPlace: the terminating zero is not counted.
FitsInPlaceTight(d, n) == ~d.linked /\ d.length + n <= d.bufsize

FitsInPlace(d, n) == ~d.linked /\ d.length + n < d.bufsize

\* iinsert(); own: the text inserted is this String's own block, from its start.
Inserted(d, a, pos, own) ==
  LET n == IF own THEN d.length ELSE Len(a)
      p == Clipped(d, pos)
      source(cells) == IF own THEN cells ELSE CString(a)
      moved == MemMove(d.cells, p + n, d.cells, p, 1 + d.length - p)
      fresh == NewData(d.length + n, d.bufsize)
      begin == MemMove(fresh.cells, 0, d.cells, 0, p)
  IN  IF n = 0 THEN d
      ELSE IF FitsInPlace(d, n)
        THEN [d EXCEPT !.cells = MemMove(moved, p, source(moved), 0, n), !.length = @ + n]
      ELSE [fresh EXCEPT
              !.cells = StrCpy(StrCpy(begin, p, source(d.cells), 0), p + n, d.cells, p)]

Removed(d, start, end) ==
  LET from == FromZero(start)
      to == IF end < 0 \/ end > d.length THEN d.length ELSE IF end < from THEN from ELSE end
      fresh == NewData(d.length - (to - from), d.bufsize)
  IN  IF start >= 0 /\ start >= d.length THEN d
      ELSE IF ~d.linked
        THEN [d EXCEPT !.cells = MemMove(@, from, @, to, 1 + d.length - to),
                       !.length = @ - (to - from)]
      ELSE IF fresh.length = 0 THEN fresh
      ELSE [fresh EXCEPT !.cells = StrCpy(StrNCpy(@, 0, d.cells, 0, from), from, d.cells, to)]

Truncated(d, length) ==
  IF length < 0 \/ length >= d.length THEN d
  ELSE IF d.linked THEN CopyData(d.cells, 0, length, d.bufsize)
  ELSE [d EXCEPT !.length = length, !.cells[length] = Nul]

ReplacedChar(d, c, by) ==
  IF \A i \in 0..d.length - 1 : d.cells[i] # c THEN d
  ELSE [Unlinked(d) EXCEPT !.cells =
          [i \in DOMAIN @ |-> IF i < d.length /\ @[i] = c THEN by ELSE @[i]]]

RECURSIVE Replacing(_, _, _, _)
Replacing(d, a, by, from) ==
  LET i == IndexOfText(Content(d), a, from, FALSE)
      removed == Removed(d, i, i + Len(a))
  IN  IF i < 0 THEN d
      ELSE IF by = <<>> THEN Replacing(removed, a, by, i)
      ELSE Replacing(Inserted(removed, by, i, FALSE), a, by, i + Len(by))

\* replace(const String&, const String&), given other Strings than this.
ReplacedText(d, a, by) == IF a = <<>> THEN d ELSE Replacing(d, a, by, 0)

RECURSIVE Erasing(_, _, _)
Erasing(d, c, i) ==
  LET u == Unlinked(d)
  IN  IF i >= d.length THEN d
      ELSE IF d.cells[i] # c THEN Erasing(d, c, i + 1)
      ELSE Erasing([u EXCEPT !.cells = StrCpy(@, i, @, i + 1), !.length = @ - 1], c, i)

Blanks(t) == LeastOf({i \in 0..Len(t) : i = Len(t) \/ At(t, i) \notin White})

StrippedAtBegin(d) ==
  LET i == Blanks(Content(d))
      length == d.length - i
  IN  IF i = 0 THEN d
      ELSE IF d.linked THEN CopyData(d.cells, i, length, d.bufsize)
      ELSE [d EXCEPT !.cells = StrCpy(@, 0, @, i), !.length = length]

StrippedAtEnd(d) == Truncated(d, d.length - Blanks(Reverse(Content(d))))

\* lowerCase() and upperCase(), by the C library's tolower() and toupper().
Lower == "lower"
Upper == "upper"
InCase(c, case) ==
  IF case = Lower THEN (IF c = "A" THEN "a" ELSE c) ELSE (IF c = "a" THEN "A" ELSE c)

Mapped(d, case) ==
  [Unlinked(d) EXCEPT !.cells = [i \in DOMAIN @ |-> IF i < d.length THEN InCase(@[i], case) ELSE @[i]]]

\* substring(): a block of its own, or String::null.
SubstringData(d, start, end) ==
  LET t == Substring(Content(d), start, end)
      from == FromZero(start)
  IN  IF t = <<>> THEN NullData
      ELSE [NewData(Len(t), 0) EXCEPT !.cells = StrNCpy(@, 0, d.cells, from, Len(t))]

\* The token nextToken() gives, in a_token's own block if it fits there.
TokenData(d, t) ==
  LET count == Len(t)
      b == IF d.linked \/ d.bufsize < count + 1 THEN NewData(count, 0)
           ELSE [d EXCEPT !.cells[count] = Nul, !.length = count]
  IN  [b EXCEPT !.cells = StrNCpy(@, 0, CString(t), 0, count)]

-----------------------------------------------------------------------------
(* The calls *)

Becomes(d, t) ==
  /\ data' = d /\ want' = t
  /\ Len(t) <= MaxText
  /\ copied' = IF d.linked /\ d # NullData THEN copied ELSE <<>>

BlockInit == data = NullData /\ copied = <<>> /\ torn = FALSE /\ want = <<>>

Call(d, t) == ~torn /\ Becomes(d, t) /\ UNCHANGED torn

(* strcpy() with overlapping text, and a va_list used twice, are undefined: *)
(* what the text is then is anybody's guess.                                *)
Undefined(d, t) ==
  \/ Call(d, t)
  \/ /\ ~torn /\ torn' = TRUE
     /\ Becomes([d EXCEPT !.cells = [i \in DOMAIN @ |-> IF i < d.length THEN Junk ELSE @[i]]], t)

Assign(a) == Becomes(CopyData(CString(a), 0, Len(a), 0), a) /\ torn' = FALSE

\* s = s.c_str() + i
AssignOwn(i) ==
  /\ i <= data.length
  /\ Call(CopyData(data.cells, i, StrLen(data.cells, i), 0), Cut(want, i, Len(want)))

\* A copy of this String is made, or destroyed.
MakeCopy == /\ ~torn /\ data' = [data EXCEPT !.linked = TRUE] /\ copied' = Content(data)
            /\ UNCHANGED <<torn, want>>
DropCopy == /\ data.linked /\ data # NullData
            /\ data' = [data EXCEPT !.linked = FALSE] /\ copied' = <<>>
            /\ UNCHANGED <<torn, want>>

SetMinBufSize(n) ==
  /\ n > data.length /\ n # data.bufsize
  /\ Call(CopyData(data.cells, 0, data.length, n), want)

Between(i) == IF i < 0 THEN 0 ELSE IF i > Len(want) THEN Len(want) ELSE i
With(a, i) == Cut(want, 0, Between(i)) \o a \o Cut(want, Between(i), Len(want))

Insert(a, pos) == Call(Inserted(data, a, pos, FALSE), With(a, pos))
InsertOwn(pos) == Call(Inserted(data, <<>>, pos, TRUE), With(want, pos))

RemoveRange(start, end) ==
  LET from == Between(start)
      to == IF end < 0 THEN Len(want) ELSE Between(end)
  IN  Call(Removed(data, start, end),
           Cut(want, 0, from) \o Cut(want, IF to < from THEN from ELSE to, Len(want)))

Truncate(length) == Call(Truncated(data, length), Cut(want, 0, Between(length)))

ReplaceChar(c, by) == Call(ReplacedChar(data, c, by), ReplaceAll(want, c, by))
RECURSIVE AllReplaced(_, _, _)
AllReplaced(t, a, by) ==
  LET i == IndexOfText(t, a, 0, FALSE)
  IN  IF i < 0 THEN t
      ELSE Cut(t, 0, i) \o by \o AllReplaced(Cut(t, i + Len(a), Len(t)), a, by)

ReplaceText(a, by) ==
  Call(ReplacedText(data, a, by), IF a = <<>> THEN want ELSE AllReplaced(want, a, by))

Erase(c) ==
  LET result == Erasing(data, c, 0)
      t == SelectSeq(want, LAMBDA x : x # c)
  IN  IF \E i \in 0..data.length - 2 : data.cells[i] = c
        THEN Undefined(result, t) ELSE Call(result, t)

StripAtBegin ==
  LET i == Blanks(Content(data))
      t == Cut(want, Blanks(want), Len(want))
  IN  IF ~data.linked /\ i > 0 /\ data.length - i >= i
        THEN Undefined(StrippedAtBegin(data), t) ELSE Call(StrippedAtBegin(data), t)

StripAtEnd == Call(StrippedAtEnd(data), Reverse(Cut(Reverse(want), Blanks(Reverse(want)), Len(want))))

LowerCase == Call(Mapped(data, Lower), [i \in DOMAIN want |-> InCase(want[i], Lower)])
UpperCase == Call(Mapped(data, Upper), [i \in DOMAIN want |-> InCase(want[i], Upper)])

\* s = s.substring(start, end)
AssignSubstring(start, end) ==
  Call(SubstringData(data, start, end),
       Cut(want, Between(start), IF end < 0 THEN Len(want) ELSE Between(end)))

\* A token of another String is read into this one.
TakeToken(t) == Call(TokenData(data, t), t)

\* operator[] writes into the block, shared or not.
SetAt(i, c) ==
  /\ ~data.linked /\ i < data.length
  /\ Call([data EXCEPT !.cells[i] = c], [want EXCEPT ![i + 1] = c])

\* vformat(): a text that is too long for the first buffer is formatted again.
Format(t) ==
  IF Len(t) < FormatSize THEN Call(CopyData(CString(t), 0, Len(t), 0), t)
  ELSE Undefined([NewData(Len(t), 0) EXCEPT !.cells = CString(t)], t)

Chars == {"a", "A", Space}
Places == -1..MaxText + 1

BlockNext ==
  \/ \E a \in Arguments :
       \/ Assign(a) \/ TakeToken(a) \/ Format(a)
       \/ \E i \in Places : Insert(a, i)
       \/ \E by \in Arguments : ReplaceText(a, by)
  \/ \E i \in 0..MaxText : AssignOwn(i) \/ Truncate(i) \/ \E c \in Chars : SetAt(i, c)
  \/ \E i \in Places : InsertOwn(i) \/ \E j \in Places : RemoveRange(i, j) \/ AssignSubstring(i, j)
  \/ \E c \in Chars : Erase(c) \/ \E by \in Chars : ReplaceChar(c, by)
  \/ \E n \in 1..MaxBuf : SetMinBufSize(n)
  \/ MakeCopy \/ DropCopy
  \/ StripAtBegin \/ StripAtEnd \/ LowerCase \/ UpperCase

BlockSpec == BlockInit /\ [][BlockNext]_blockvars

-----------------------------------------------------------------------------
(* Whatever was inserted, removed, replaced or cut, in place or in a new   *)
(* block, the String holds the text the calls ask for, in its own cells,   *)
(* ended by a zero, and a copy that shares the block holds what it held    *)
(* (String.cpp:172-200, 611-860).                                          *)
BlockHolds ==
  /\ ~torn => Content(data) = want
  /\ DOMAIN data.cells = IF data = NullData THEN {0} ELSE 0..data.bufsize - 1
  /\ data.cells[data.length] = Nul
  /\ data.linked /\ ~torn => Content(data) = copied

(* Searches from both ends, and tests of the end, agree on where a text is;*)
(* and they give the same answer for a String that shares its block, which *)
(* is not compared, as for an equal one (String.cpp:521-607, 697-717).     *)
SearchesAgree ==
  ~torn => \A a \in Arguments \ {<<>>} :
    LET first == IndexOfText(want, a, 0, FALSE)
        final == LastIndexOfText(want, a, FALSE)
    IN  /\ final >= first
        /\ final >= 0 => Cut(want, final, final + Len(a)) = a
        /\ EndsWith(want, a, FALSE) <=> final >= 0 /\ final = Len(want) - Len(a)
        /\ a = want => /\ first = IndexOfText(want, a, 0, TRUE)
                       /\ final = LastIndexOfText(want, a, TRUE)
                       /\ EndsWith(want, a, FALSE) <=> EndsWith(want, a, TRUE)
=============================================================================
