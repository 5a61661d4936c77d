---------------------------- MODULE HttpRequest -----------------------------
(***************************************************************************)
(* http::HttpRequest::readRequest() over InputStream::readLine().  The     *)
(* stream is a sequence of lines, each its kind, the number of its bytes,  *)
(* the end of the line counted, and what a line of its kind says:          *)
(*   "get", "post": the kind of URI in uri;   "bad": no such request line; *)
(*   "length": a Content-Length, n its number;  "tight": the same without  *)
(*   the space behind the colon;  "header": any other;  "empty";  "body";  *)
(*   "rest": what is left of a line whose beginning was read.              *)
(***************************************************************************)
EXTENDS Integers, Sequences

CONSTANTS
  LineMax,      \* 2048: the bytes a line of the header may have
  ContentMax    \* 10 MB

VARIABLES
  stream,       \* what is still to be read
  closed,       \* the other end sends no more
  at,           \* where the reader is: "idle", "header", "content"
  uri, number,  \* c_uri's kind, and the request's number
  length,       \* c_header's content-length, or Absent
  left          \* cntlen

NaN == -3     \* what toLong() does not take
Absent == -2  \* no such header

reader == <<at, uri, number, length, left>>

RequestInit == stream = <<>> /\ closed = FALSE /\ at = "idle"
               /\ uri = "none" /\ number = 0 /\ length = Absent /\ left = 0

Line == Head(stream)
Least(a, b) == IF a < b THEN a ELSE b

(* readLine(max): a line, or its first max bytes, the rest to be read as a *)
(* line of its own.                                                        *)
Rest(line, n) == [line EXCEPT !.kind = "rest", !.size = @ - n]
After(n) == IF n < Line.size THEN <<Rest(Line, n)>> \o Tail(stream) ELSE Tail(stream)
ReadLine(max) == stream # <<>> /\ stream' = After(Least(max, Line.size))
Cut(max) == Line.size > max

(* No byte at all: ParseException. *)
AtEnd == stream = <<>> /\ closed

(* "\n" alone is an empty line, "\r\n" too. *)
Empties == Line.kind = "empty" \/ (Line.kind = "rest" /\ Line.size = 1)

Stop == at' = "idle" /\ uri' = "none" /\ number' = 0 /\ length' = Absent /\ left' = 0

-----------------------------------------------------------------------------
(* The request line: a cut one is taken if it is cut in the protocol only. *)
ReadFirst ==
  /\ at = "idle" /\ ReadLine(LineMax)
  /\ Line.kind \in {"get", "post"}
  /\ at' = "header" /\ uri' = Line.uri /\ number' = Line.of
  /\ UNCHANGED <<length, left>>

(* ParseException *)
RefuseFirst ==
  /\ at = "idle" /\ ReadLine(LineMax)
  /\ Line.kind \notin {"get", "post"} \/ Cut(LineMax)
  /\ UNCHANGED reader

(* A name that came before has its values joined, which is no number. *)
Value(line) == IF line.kind = "tight" \/ length # Absent THEN NaN ELSE line.n

ReadHeader ==
  /\ at = "header" /\ ReadLine(LineMax) /\ ~Empties
  /\ length' = IF Line.kind \in {"length", "tight"} THEN Value(Line) ELSE length
  /\ UNCHANGED <<at, uri, number, left>>

Announced == length # NaN /\ length # Absent

(* The header is over; nothing to read if there is no length, or none that *)
(* is a number.                                                            *)
EndHeader(next) ==
  /\ at = "header" /\ ReadLine(LineMax) /\ Empties
  /\ ~Announced \/ length \in 0 .. ContentMax
  /\ at' = next /\ left' = IF Announced THEN length ELSE 0
  /\ UNCHANGED <<uri, number, length>>

(* "invalid or to huge content length" *)
RefuseLength ==
  /\ at = "header" /\ ReadLine(LineMax) /\ Empties
  /\ Announced /\ length \notin 0 .. ContentMax
  /\ Stop

\* Mutant: the end of a line is not counted.
ReadContentUncounted ==
  /\ at = "content" /\ left > 0 /\ ReadLine(left)
  /\ left' = left - (IF Cut(left) THEN left ELSE IF Line.size > 1 THEN Line.size - 1 ELSE 1)
  /\ UNCHANGED <<at, uri, number, length>>

ReadContent ==
  /\ at = "content" /\ left > 0 /\ ReadLine(left)
  /\ left' = left - Least(left, Line.size)
  /\ UNCHANGED <<at, uri, number, length>>

(* The end of the stream, or it throws, after n bytes of a line.           *)
Break(n) ==
  /\ \/ AtEnd /\ n = 0 /\ UNCHANGED stream
     \/ stream # <<>> /\ n < Line.size /\ stream' = (IF n = 0 THEN stream ELSE After(n))
  /\ Stop
=============================================================================
