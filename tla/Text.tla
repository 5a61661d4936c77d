-------------------------------- MODULE Text --------------------------------
(***************************************************************************)
(* What the const functions of tmb::String compute                         *)
(* (src/tmb/lang/String.cpp).  A text is the sequence of its characters,   *)
(* which the code counts from 0; -1 is its "not found".                    *)
(***************************************************************************)
EXTENDS Integers, Sequences

Nul == "\\0"
Newline == "\n"
Return == "\r"
Space == " "
Quote == "\""
Backslash == "\\"

LeastOf(S) == CHOOSE i \in S : \A j \in S : i <= j
FromZero(i) == IF i < 0 THEN 0 ELSE i

At(t, i) == t[i + 1]

\* The characters i to j-1.
Cut(t, i, j) == SubSeq(t, i + 1, j)

-----------------------------------------------------------------------------
(* Searches *)

FirstAmong(hits) == IF hits = {} THEN -1 ELSE LeastOf(hits)

IndexOfChar(t, c, start) ==
  FirstAmong({i \in FromZero(start)..Len(t) - 1 : At(t, i) = c})

LastIndexOfChar(t, c) ==
  LET hits == {i \in 0..Len(t) - 1 : At(t, i) = c}
  IN  IF hits = {} THEN -1 ELSE CHOOSE i \in hits : \A j \in hits : j <= i

\* shared: both Strings have one block of data, and no text is compared.
IndexOfText(t, a, start, shared) ==
  IF shared THEN (IF start <= 0 THEN 0 ELSE -1)
  ELSE IF FromZero(start) >= Len(t) THEN -1
  ELSE FirstAmong({i \in FromZero(start)..Len(t) - Len(a) : Cut(t, i, i + Len(a)) = a})

\* Search after search, each from one behind the last find.
LastIndexOfText(t, a, shared) ==
  LET Last[p \in -1..Len(t)] ==
        LET i == IndexOfText(t, a, p + 1, FALSE) IN IF i < 0 THEN p ELSE Last[i]
  IN  IF shared THEN 0 ELSE Last[-1]

EndsWith(t, a, shared) ==
  \/ shared
  \/ /\ Len(t) >= Len(a)
     /\ Cut(t, Len(t) - Len(a), Len(t)) = a

Substring(t, start, end) ==
  LET from == FromZero(start)
      to == IF end < 0 \/ end >= Len(t) THEN Len(t) ELSE end
  IN  IF from >= Len(t) \/ to <= from THEN <<>> ELSE Cut(t, from, to)

-----------------------------------------------------------------------------
(* nextToken() and hasNextToken(): tokens between white space, with the     *)
(* quotes and comments the caller gives, and escapes outside of quotes.     *)

White == {Space, Newline, Return}

\* The first place from i on with a character of S, or the end.
Skip(t, i, S) == LeastOf({j \in i..Len(t) : j = Len(t) \/ At(t, j) \in S})

\* Where the next token begins, -1 if none does: separators and comments,
\* which end with their line, are skipped.
TokenBegin(t, index, comments) ==
  LET Begin[i \in 0..Len(t)] ==
        LET j == LeastOf({k \in i..Len(t) : k = Len(t) \/ At(t, k) \notin White})
        IN  IF j = Len(t) THEN -1
            ELSE IF At(t, j) \in comments THEN Begin[Skip(t, j, {Newline})]
            ELSE j
  IN  IF index < 0 \/ index >= Len(t) THEN -1 ELSE Begin[index]

HasNextToken(t, index, comments) == TokenBegin(t, index, comments) >= 0

NotFound == [found |-> FALSE, text |-> <<>>, index |-> -1]
Token(t, text, end) ==
  [found |-> TRUE, text |-> text, index |-> IF end = Len(t) THEN -1 ELSE end]

\* A quote that is not closed ends with the line.
QuotedToken(t, i) ==
  LET end == Skip(t, i + 1, {At(t, i), Newline})
      cr == end < Len(t) /\ At(t, end) = Newline /\ end > i + 1 /\ At(t, end - 1) = Return
  IN  Token(t, Cut(t, i + 1, IF cr THEN end - 1 ELSE end), IF end = Len(t) THEN end ELSE end + 1)

Unescaped(c) ==
  CASE c = "n" -> Newline [] c = "r" -> Return [] c = "0" -> Nul [] OTHER -> c

(* An escaped character counts as one.  Once there was an escape, a         *)
(* backslash at the very end is decoded with the terminating zero.          *)
PlainToken(t, i, comments) ==
  LET Escape(j) == At(t, j) = Backslash /\ j + 1 < Len(t)
      End[j \in i..Len(t)] ==
        IF j = Len(t) THEN j
        ELSE IF Escape(j) THEN End[j + 2]
        ELSE IF At(t, j) \in White \cup comments THEN j
        ELSE End[j + 1]
      escapes == \E j \in i..End[i] - 1 : Escape(j)
      Text[j \in i..Len(t)] ==
        IF j >= End[i] THEN <<>>
        ELSE IF Escape(j) THEN <<Unescaped(At(t, j + 1))>> \o Text[j + 2]
        ELSE IF escapes /\ At(t, j) = Backslash THEN <<Nul>>
        ELSE <<At(t, j)>> \o Text[j + 1]
  IN  Token(t, Text[i], End[i])

NextToken(t, index, comments, quotes) ==
  LET i == TokenBegin(t, index, comments)
  IN  IF i < 0 THEN NotFound
      ELSE IF At(t, i) \in quotes THEN QuotedToken(t, i)
      ELSE PlainToken(t, i, comments)
=============================================================================
