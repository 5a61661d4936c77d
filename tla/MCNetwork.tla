----------------------------- MODULE MCNetwork ------------------------------
(***************************************************************************)
(* What the program does over a network, side by side: remote calls, the   *)
(* descriptors of its sockets, the two ends of a public key                *)
(* authentication, an HTTP connection and an HttpResponse.  A behaviour is *)
(* that of one of them, the others stay as they began.                     *)
(***************************************************************************)
EXTENDS RMIClient, FiniteSets

CONSTANTS
  FDs, Other, None, Unheld, Sockets, Servers, SSLSockets,   \* Net
  MaxRounds, MaxAuthThrow,                                \* PublicKeyAuth
  LineMax, ContentMax, ErrorSize, FileSize, MaxRequests   \* HttpServer

(* The kernel's numbers are natural, and nobody's, everybody else's and a   *)
(* lost descriptor are no object's.                                        *)
ASSUME NetAssumption ==
  /\ FDs \subseteq Nat /\ IsFiniteSet(FDs)
  /\ Other # None /\ Other # Unheld /\ None # Unheld
  /\ {Other, None, Unheld} \cap (Sockets \cup Servers) = {}
  /\ SSLSockets \subseteq Sockets

(* The longest line, the longest content (2048 bytes and 10 MB in the code) *)
(* and the lengths of what is answered are sizes.                          *)
ASSUME HttpAssumption ==
  LineMax \in Nat \ {0} /\ ContentMax \in Nat /\ ErrorSize \in Nat /\ FileSize \in Nat

VARIABLES
  part,
  table, exists, handle, ignores, pc, stale, c_ssl, moved,
  goodkey, toC, toR, rpc, authcpc, challenge, signed, auththrows, signatures, accepted, confirmed,
  stream, closed, at, uri, number, length, left, asked, answers, broken,
  response, written, latest

netvars == <<table, exists, handle, ignores, pc, stale, c_ssl, moved>>
authvars == <<goodkey, toC, toR, rpc, authcpc, challenge, signed, auththrows,
              signatures, accepted, confirmed>>
servevars == <<stream, closed, at, uri, number, length, left, asked, answers, broken>>
respvars == <<response, written, latest>>

(* Requests: with and without a body, of every kind of URI, with lines at  *)
(* and beyond the longest, with lengths that are none, too large or twice. *)
TextLine(kind, size) == [kind |-> kind, size |-> size, n |-> 0, uri |-> "none"]
First(kind, size, u) == [TextLine(kind, size) EXCEPT !.uri = u]
Length(kind, v) == [TextLine(kind, 2) EXCEPT !.n = v]
NoNumber == -3
End == TextLine("empty", 1)
Requests == {
  <<First("get", 2, "file"), End>>,
  <<First("get", 2, "missing"), TextLine("header", LineMax + 1), TextLine("header", 2), End>>,
  <<First("get", LineMax + 2, "dots"), TextLine("header", LineMax + 3), End>>,
  <<First("post", 2, "long"), Length("length", LineMax + 2), End,
    TextLine("body", LineMax + 1), TextLine("body", 1)>>,
  <<First("post", 2, "empty"), TextLine("header", 3), Length("length", 0), End>>,
  <<First("get", 3, "file"), Length("length", 3), End, TextLine("body", 2), TextLine("body", 1)>>,
  <<First("get", 2, "relative"), Length("length", NoNumber), End>>,
  <<First("post", 2, "file"), Length("length", 2), Length("length", 2), End, TextLine("body", 2)>>,
  <<First("post", 2, "file"), Length("tight", 2), End, TextLine("body", 2)>>,
  <<First("get", 2, "file"), Length("length", -1), End>>,
  <<First("get", 2, "file"), Length("length", ContentMax + 1), End>>,
  <<TextLine("bad", 2), End>> }

Descriptors == INSTANCE Net WITH Lost <- Unheld
Auth == INSTANCE PublicKeyAuth WITH cpc <- authcpc, throws <- auththrows, MaxThrow <- MaxAuthThrow
Http == INSTANCE HttpServer

MCInit ==
  /\ part \in {"rmi", "sockets", "auth", "serve", "response"}
  /\ Init /\ Descriptors!Init /\ Auth!AuthInit /\ Http!ServeInit /\ Http!ResponseInit
  /\ part # "auth" => goodkey

RMIStep == part = "rmi" /\ Next /\ UNCHANGED <<part, netvars, authvars, servevars, respvars>>
NetStep == part = "sockets" /\ Descriptors!Next /\ UNCHANGED <<part, vars, authvars, servevars, respvars>>
AuthStep == part = "auth" /\ Auth!AuthNext /\ UNCHANGED <<part, vars, netvars, servevars, respvars>>
ServeStep == part = "serve" /\ Http!ServeNext /\ UNCHANGED <<part, vars, netvars, authvars, respvars>>
ResponseStep ==
  part = "response" /\ Http!ResponseNext /\ UNCHANGED <<part, vars, netvars, authvars, servevars>>

MCNext == RMIStep \/ NetStep \/ AuthStep \/ ServeStep \/ ResponseStep

\* Fairness is RMIClient's, of which nothing is enabled while no call is under way.
MCSpec == MCInit /\ [][MCNext]_<<part, vars, netvars, authvars, servevars, respvars>> /\ Fairness

-----------------------------------------------------------------------------
(* As long as no exception left the two sides out of step, and again over a *)
(* new connection, a call's answer is that of the call: what it says was     *)
(* done was done, once, and a call it reports an error for had no effect     *)
(* (RMIClient.cpp:93-310, RMIServer.cpp:144-231).                            *)
Remote == INSTANCE RemoteSpec WITH objs <- known
IsRemote == Remote!RmSpec

(* Each object has its own descriptor or none, and each descriptor opened  *)
(* for an object has it, however a constructor, a connect(), an accept()   *)
(* or a close() ends; an SSL structure works on its socket's descriptor    *)
(* (Socket.cpp:229-388, ServerSocket.cpp:51-242, SSLSocket.cpp:84-234).    *)
DescriptorsOwned ==
  Descriptors!HandlesOwned /\ Descriptors!NoneLeaked /\ Descriptors!SSLOnHandle

(* A request for authentication returns only when the other end signed its *)
(* challenge, a confirmation only when that request has returned           *)
(* (SSLSocket.cpp:415-501).                                                *)
AuthAgrees == Auth!AuthAgrees

(* Requests are answered in their order, each with its own answer, and     *)
(* every response is as long as it announces                               *)
(* (HttpRequest.cpp:46-191, HttpResponse.cpp:124-234, HttpServer.cpp:60-99). *)
AnswersInOrder == Http!AnswersInOrder /\ Http!ResponseFramed
=============================================================================
