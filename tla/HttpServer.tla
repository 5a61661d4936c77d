----------------------------- MODULE HttpServer -----------------------------
(***************************************************************************)
(* http::HttpResponse and http::HttpServer.                                *)
(* A response is a record: its return code, its three contents and the two *)
(* headers the class sets itself.  A content is its length.  The response  *)
(* may be used again once it is written.                                   *)
(***************************************************************************)
EXTENDS HttpRequest

CONSTANT ErrorSize            \* the length of the default error page

NoData == -1                  \* no content, no header

VARIABLES
  response,     \* the HttpResponse
  written,      \* what the last writeResponse() put into the stream
  latest        \* history: the content set last

respvars == <<response, written, latest>>

Nothing == [code |-> 0, announced |-> NoData, sent |-> 0, by |-> "none"]

Fresh == [code |-> 200, text |-> 0, binary |-> NoData, template |-> NoData,
          length |-> NoData, type |-> "none"]

ResponseInit == response = Fresh /\ written = Nothing /\ latest = [by |-> "text", size |-> 0]

Failed(r) == r.code >= 400 /\ r.code < 600

(* The default error page takes the place of whatever was to be sent. *)
Page(r) ==
  IF Failed(r) THEN [r EXCEPT !.text = ErrorSize, !.binary = NoData, !.template = NoData,
                              !.type = "text/html"]
  ELSE r

(* A template goes before binary data, and they before the text. *)
Source(r) ==
  IF r.template # NoData THEN "template" ELSE IF r.binary # NoData THEN "binary" ELSE "text"
Body(r) ==
  CASE Source(r) = "template" -> r.template [] Source(r) = "binary" -> r.binary [] OTHER -> r.text

(* "Content-Length" is put unless a template is sent, whose length nobody  *)
(* knows: then it is what an earlier response has left.                    *)
Headed(r) == [r EXCEPT !.length = IF Source(r) = "template" THEN @ ELSE Body(r)]

(* What remains when all is written. *)
Sent(r) == [r EXCEPT !.text = 0, !.binary = NoData, !.template = NoData]

Output(r) == [code |-> r.code, announced |-> r.length, sent |-> Body(r), by |-> Source(r)]

WriteResponse ==
  LET r == Headed(Page(response))
  IN written' = Output(r) /\ response' = Sent(r)

(* The stream throws in the header or the content: nothing is released. *)
WriteThrows == response' = Headed(Page(response)) /\ written' = Nothing

-----------------------------------------------------------------------------
(* The program fills a response, or the next one, in any order. *)
SetContent(by, size) ==
  /\ response' = CASE by = "text" -> [response EXCEPT !.text = size]
                   [] by = "binary" -> [response EXCEPT !.binary = size]
                   [] OTHER -> [response EXCEPT !.template = size]
  /\ latest' = [by |-> by, size |-> size]
  /\ UNCHANGED written

SetRetcode(code) ==
  /\ response' = [response EXCEPT !.code = code] /\ UNCHANGED <<written, latest>>

ResponseNext ==
  \/ \E by \in {"text", "binary", "template"}, size \in {1, 2} : SetContent(by, size)
  \/ \E code \in {200, 404} : SetRetcode(code)
  \/ WriteResponse /\ latest' = [by |-> "text", size |-> 0]
  \/ WriteThrows /\ UNCHANGED latest

-----------------------------------------------------------------------------
(* A response announces the length that follows, also the second time an   *)
(* HttpResponse is used; one from a template alone announces none, or what *)
(* a response before it had.  An error response is its page whatever was   *)
(* set (HttpResponse.cpp:124-234).                                         *)
ResponseFramed ==
  /\ written.by \in {"text", "binary"} => written.announced = written.sent
  /\ Failed(written) => written.by = "text" /\ written.sent = ErrorSize

-----------------------------------------------------------------------------
(* http::HttpServer::serve(), which the program calls again and again on   *)
(* one connection, also after it threw.  The other end sends requests one  *)
(* behind the other, without waiting, and may close in the middle of one.  *)

CONSTANTS
  Requests,     \* what is sent: sequences of lines
  MaxRequests,  \* bound: requests on the connection
  FileSize      \* the length of the file there is

VARIABLES
  asked,        \* history: the URIs of the requests sent, whole
  answers,      \* history: the responses, each with its request's number
  broken        \* history: what is read is not what was sent

servevars == <<stream, closed, reader, asked, answers, broken>>

ServeInit == RequestInit /\ asked = <<>> /\ answers = <<>> /\ broken = FALSE

Numbered(lines, n) ==
  [i \in DOMAIN lines |-> [kind |-> lines[i].kind, size |-> lines[i].size, n |-> lines[i].n,
                           uri |-> lines[i].uri, of |-> n]]

Send(request) ==
  /\ ~closed /\ Len(asked) < MaxRequests
  /\ stream' = stream \o Numbered(request, Len(asked) + 1)
  /\ asked' = Append(asked, request[1].uri)
  /\ UNCHANGED <<closed, reader, answers, broken>>

(* Only the first k lines, or the k-th without its end. *)
SendPart(request) ==
  /\ ~closed /\ closed' = TRUE
  /\ \E k \in 0 .. Len(request) - 1, end \in {0, 1} :
       LET lines == SubSeq(Numbered(request, Len(asked) + 1), 1, k)
       IN /\ end = 1 => k > 0 /\ lines[k].size > 1
          /\ stream' = stream \o (IF end = 0 THEN lines ELSE [lines EXCEPT ![k].size = @ - 1])
  /\ UNCHANGED <<reader, asked, answers, broken>>

-----------------------------------------------------------------------------
Read(step, breaks) ==
  /\ step /\ broken' = (broken \/ breaks)
  /\ UNCHANGED <<closed, asked, answers>>

ServeReads ==
  \/ Read(ReadFirst, FALSE)
  \/ Read(RefuseFirst, TRUE)
  \/ at = "header" /\ Read(ReadHeader, Line.kind = "tight" \/ (Line.kind = "length" /\ length # Absent))
  \/ at = "header" /\ Read(EndHeader("content"), Line.kind = "rest")
  \/ Read(RefuseLength, TRUE)
  \/ Read(ReadContent, FALSE)
  \/ \E n \in 0 .. LineMax : Read(Break(n), at # "idle" \/ n > 0)

(* validateRequest() *)
validateRequest(u) ==
  IF u \in {"empty", "dots", "relative"} THEN 404 ELSE IF u = "long" THEN 414 ELSE 0

(* execRequest(): the file, or 404 whatever File::load() throws. *)
execRequest(r, u) ==
  IF u = "file" THEN [r EXCEPT !.binary = FileSize, !.type = "mime"] ELSE [r EXCEPT !.code = 404]

Response(u) ==
  LET code == validateRequest(u)
  IN Headed(Page(IF code # 0 THEN [Fresh EXCEPT !.code = code] ELSE execRequest(Fresh, u)))

Answer(of, out) == [of |-> of, code |-> out.code, whole |-> out.announced = out.sent]

Serve ==
  /\ at = "content" /\ left = 0 /\ Stop
  /\ answers' = Append(answers, Answer(number, Output(Response(uri))))
  /\ UNCHANGED <<stream, closed, asked, broken>>

(* writeResponse() throws, a part of the response written. *)
ServeThrows ==
  /\ at = "content" /\ left = 0 /\ Stop /\ broken' = TRUE
  /\ UNCHANGED <<stream, closed, asked, answers>>

(* The model follows a connection until it is broken. *)
ServeNext ==
  /\ ~broken
  /\ \/ \E request \in Requests : Send(request) \/ SendPart(request)
     \/ ServeReads \/ Serve \/ ServeThrows

ServeSpec == ServeInit /\ [][ServeNext]_servevars

-----------------------------------------------------------------------------
Expected(u) == CASE u = "file" -> 200 [] u = "long" -> 414 [] OTHER -> 404

(* Requests sent one behind the other are answered in their order, each    *)
(* with its own answer, one that was cut off never, and after each the     *)
(* next is read from its beginning.  What breaks this: an exception in a   *)
(* request, a header line whose end alone is beyond the bytes a line may   *)
(* have, a Content-Length given twice or without the space                 *)
(* (HttpRequest.cpp:46-191, HttpServer.cpp:60-99).                         *)
AnswersInOrder ==
  ~broken =>
    /\ Len(answers) <= Len(asked)
    /\ \A k \in DOMAIN answers :
         answers[k].of = k /\ answers[k].code = Expected(asked[k]) /\ answers[k].whole
    /\ at = "idle" /\ stream # <<>> => Line.of = Len(answers) + 1 /\ Line.kind \in {"get", "post", "bad"}
=============================================================================
