----------------------------- MODULE Properties -----------------------------
(***************************************************************************)
(* tmb::Properties (src/tmb/util/Properties.cpp): a map of texts, saved to *)
(* a file and loaded again through StringTokenizer.  The file may also be  *)
(* written by hand, or cut short: save() does not look whether the stream  *)
(* took what it was given.  The keys' hash codes differ and none is 0 (see *)
(* HashMap).                                                               *)
(***************************************************************************)
EXTENDS Text, SequencesExt

CONSTANTS
  PropKeys, PropValues,  \* the texts that are put
  HandFiles,             \* the files written by hand
  MaxProps               \* bound: the number of properties

VARIABLES
  props,    \* _props
  file,     \* the file's text
  threw,    \* the last call was a load() that threw ParseException
  saved,    \* history: the map that the file was saved from,
  whole,    \*   and whether all of it got there
  before    \* history: the properties before the last call, if that was load()

propvars == <<props, file, threw, saved, whole, before>>

NoMap == <<>>
With(map, key, val) ==
  [k \in DOMAIN map \cup {key} |-> IF k = key THEN val ELSE map[k]]

PropInit ==
  /\ props = NoMap /\ saved = NoMap /\ before = <<>>
  /\ file \in HandFiles
  /\ threw = FALSE /\ whole = FALSE

-----------------------------------------------------------------------------
PropPut(key, val) ==
  /\ props' = With(props, key, val) /\ Cardinality(DOMAIN props') <= MaxProps
  /\ threw' = FALSE /\ before' = <<>>
  /\ UNCHANGED <<file, saved, whole>>

PropClear ==
  /\ props' = NoMap
  /\ threw' = FALSE /\ before' = <<>>
  /\ UNCHANGED <<file, saved, whole>>

\* What save() writes, in the order in which nextKey() walks through the map.
Lines(order) ==
  FlattenSeq([i \in DOMAIN order |->
    <<Quote>> \o order[i] \o <<Quote, "=", Quote>> \o props[order[i]] \o <<Quote, Newline>>])

Save(order) ==
  /\ file' = Lines(order)
  /\ saved' = props /\ whole' = TRUE
  /\ threw' = FALSE /\ before' = <<>>
  /\ UNCHANGED props

\* The disk is full, or the program ends, while save() writes.
SaveCut(order, n) ==
  /\ n < Len(Lines(order))
  /\ file' = SubSeq(Lines(order), 1, n)
  /\ saved' = props /\ whole' = FALSE
  /\ threw' = FALSE /\ before' = <<>>
  /\ UNCHANGED props

-----------------------------------------------------------------------------
(* load(): the first = of a line is made a token of its own. *)

Spread(line) ==
  LET i == IndexOfChar(line, "=", 0)
  IN  IF i < 0 THEN line
      ELSE Cut(line, 0, i) \o <<Space, "=", Space>> \o Cut(line, i + 1, Len(line))

\* StringTokenizer::next() and hasNext(), which keeps its place when next() throws.
Next(line, index) == NextToken(line, index, {"#"}, {Quote, "'"})

Skipped == [pair |-> FALSE, bad |-> FALSE, key |-> <<>>, val |-> <<>>]

\* Mutant of IsProperty: what is between the key and the value is not looked at.
IsPropertyLoose(key, eq, more) == key.text # <<>> /\ ~more

IsProperty(key, eq, more) ==
  key.text # <<>> /\ eq.found /\ eq.text = <<"=">> /\ ~more

Property(fits, key, val) ==
  [pair |-> fits, bad |-> ~fits, key |-> key.text, val |-> IF val.found THEN val.text ELSE <<>>]

\* The three calls of next(), the second and third of which may throw, and hasNext().
Valued(line, key, eq, val) ==
  LET index == IF val.found THEN val.index ELSE IF eq.found THEN eq.index ELSE key.index
  IN  Property(IsProperty(key, eq, HasNextToken(line, index, {"#"})), key, val)
Equated(line, key, eq) == Valued(line, key, eq, Next(line, eq.index))
Keyed(line, key) ==
  IF ~key.found THEN Skipped ELSE Equated(line, key, Next(line, key.index))
Parsed(line) == Keyed(line, Next(line, 0))

\* The text up to each line's end, and what is behind the last.
LinesOf(text) ==
  LET ends == SetToSortSeq({i \in 0..Len(text) - 1 : At(text, i) = Newline}, LAMBDA i, j : i < j)
      cuts == <<-1>> \o ends \o <<Len(text)>>
  IN  [n \in 1..Len(cuts) - 1 |-> Substring(text, cuts[n] + 1, cuts[n + 1])]

\* Put into the map, until a line is no property.
Taken(result, line) ==
  IF result.threw THEN result
  ELSE [props |-> IF line.pair THEN With(result.props, line.key, line.val) ELSE result.props,
        threw |-> line.bad]

Loaded(text, map) ==
  LET lines == LinesOf(text)
  IN  FoldLeft(Taken, [props |-> map, threw |-> FALSE],
               [n \in DOMAIN lines |-> Parsed(Spread(lines[n]))])

Load ==
  LET result == Loaded(file, props)
  IN  /\ props' = result.props /\ threw' = result.threw
      /\ before' = <<props>>
      /\ UNCHANGED <<file, saved, whole>>

-----------------------------------------------------------------------------
Orders == {s \in [1..Cardinality(DOMAIN props) -> DOMAIN props] : IsInjective(s)}

PropNext ==
  \/ \E k \in PropKeys, v \in PropValues : PropPut(k, v)
  \/ PropClear
  \/ \E order \in Orders : Save(order) \/ \E n \in 0..Len(Lines(order)) : SaveCut(order, n)
  \/ Load

PropSpec == PropInit /\ [][PropNext]_propvars

-----------------------------------------------------------------------------
\* Texts that come back: a quote or a line's end stops a token, an empty key is
\* no key, and the first = of the line is taken for the one between the two.
Plain(map) ==
  \A k \in DOMAIN map :
    /\ k # <<>> /\ \A c \in {Quote, Newline, "="} : ~Contains(k, c)
    /\ \A c \in {Quote, Newline} : ~Contains(map[k], c)

(* What save() wrote, load() brings back, key for key, whatever comments,  *)
(* blanks, escapes or single quotes are in the texts, and puts it over what*)
(* was there; of a file that was cut it brings back the part there is, of  *)
(* which one value, that of the last line, may be shorter than it was, and *)
(* then without an error (Properties.cpp:71-112, String.cpp:880-985).      *)
FileIsReadBack ==
  before # <<>> /\ DOMAIN saved # {} /\ Plain(saved) =>
    LET old == before[1]
        Old(k) == k \in DOMAIN old /\ props[k] = old[k]
        New(k) == k \in DOMAIN saved /\ props[k] = saved[k]
        short == {k \in DOMAIN props : ~Old(k) /\ ~New(k)}
    IN  /\ whole => /\ ~threw
                    /\ DOMAIN props = DOMAIN old \cup DOMAIN saved
                    /\ \A k \in DOMAIN saved : New(k)
        /\ Cardinality(short) <= 1
        /\ \A k \in short : k \in DOMAIN saved /\ IsStrictPrefix(props[k], saved[k]) /\ ~whole
        /\ DOMAIN old \subseteq DOMAIN props
=============================================================================
