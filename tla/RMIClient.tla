----------------------------- MODULE RMIClient ------------------------------
(***************************************************************************)
(* rmi::RMIClient: createObject(), releaseObject() and invoke() each send  *)
(* one packet and read one, which they take for the answer.  rmiInvoke()   *)
(* throws what the server reports, and what it cannot read.                *)
(***************************************************************************)
EXTENDS RMIServer

CONSTANTS Values, MaxCalls

\* The values a method exchanges are numbers, and no mark.
ASSUME ValuesAssumption == 0 \in Values /\ Values \subseteq Int \ {RMIB, RMIE, VOID, TEXT}

VARIABLES
  cpc,          \* what is read next: "idle", "beg", "len" or "body"
  cneed,        \* length of the packet
  call,         \* the call under way
  calls,        \* how many there were
  stubs,        \* c_objects, by the ids
  result,       \* of the last call
  known,        \* the objects of the server, as far as the client can know
  doubt         \* the ids an exception made doubtful

clientVars == <<cpc, cneed, call, calls, stubs, result, known, doubt>>
vars == <<connVars, serverVars, clientVars>>

Call(op, id, flag, val) == [op |-> op, id |-> id, flag |-> flag, val |-> val]
NoCall == Call("none", 0, 0, 0)
Result(op, id, val) == result' = [op |-> op, id |-> id, val |-> val]

Init ==
  /\ req = <<>> /\ rep = <<>> /\ cut = FALSE /\ throws = 0
  /\ ServerInit
  /\ cpc = "idle" /\ cneed = 0 /\ call = NoCall /\ calls = 0
  /\ stubs = {} /\ result = [op |-> "none", id |-> 0, val |-> 0]
  /\ known = <<>> /\ doubt = {}

Return == cpc' = "idle" /\ cneed' = 0 /\ call' = NoCall

-----------------------------------------------------------------------------
(* Calls *)

\* The exception of a call leaves it open what the server did.
Doubtful(c) ==
  IF c.op = "release" THEN doubt \cup {c.id} ELSE doubt

\* sendPacket(), or a part of it and an exception.
Begin(c, cmd, id, args) ==
  LET packet == Packet(cmd, <<id, TEXT, Len(args) \div 2>> \o args) IN
  /\ cpc = "idle" /\ calls < MaxCalls
  /\ calls' = calls + 1
  /\ Result("none", 0, 0)
  /\ \/ /\ req' = req \o packet
        /\ cpc' = "beg" /\ call' = c
        /\ UNCHANGED <<cut, throws, doubt>>
     \/ /\ Broken(FALSE) /\ \E part \in PartOf(packet) : req' = req \o part
        /\ doubt' = Doubtful(c)
        /\ UNCHANGED <<cpc, call>>
  /\ UNCHANGED <<rep, serverVars, cneed, stubs, known>>

CallCreate == Begin(Call("create", 0, 0, 0), CREATEOBJECT, 0, <<InvokeArgFlag_IN, TEXT>>)

CallRelease(id) ==
  /\ id \in stubs
  /\ Begin(Call("release", id, 0, 0), RELEASEOBJECT, 0, <<InvokeArgFlag_IN, id>>)

\* Without an argument, or with one that goes in, out, or both ways.
CallInvoke(id, flag, val) ==
  /\ id \in stubs
  /\ flag = 0 => val = 0
  /\ Begin(Call("invoke", id, flag, val), INVOKE, id, IF flag = 0 THEN <<>> ELSE <<flag, val>>)

-----------------------------------------------------------------------------
(* Answers *)

ClientReads ==
  /\ rep # <<>>
  /\ \/ cpc = "beg" /\ Head(rep) = RMIB /\ cpc' = "len" /\ UNCHANGED cneed
     \/ cpc = "len" /\ LengthOk(Head(rep)) /\ cpc' = "body" /\ cneed' = Head(rep)
  /\ rep' = Tail(rep)
  /\ UNCHANGED <<req, cut, throws, serverVars, call, calls, stubs, result, known, doubt>>

\* The call ends with an exception that tells nothing of what the server did.
Lost == Return /\ Result("lost", 0, 0) /\ doubt' = Doubtful(call)

ClientRefuses ==
  /\ rep # <<>>
  /\ \/ cpc = "beg" /\ Head(rep) # RMIB
     \/ cpc = "len" /\ ~LengthOk(Head(rep))
  /\ rep' = Tail(rep) /\ Lost
  /\ UNCHANGED <<req, cut, throws, serverVars, calls, stubs, known>>

Answer == SubSeq(rep, 1, cneed)
Outs(body) == PairsAfter(Data(body), 2)

\* What unpack() finds in an answer, by its command.
Readable(body) ==
  /\ ~Torn(body)
  /\ \/ Cmd(body) = RETURN /\ Len(Data(body)) >= 2 /\ PairsFit(Data(body), 2)
     \/ Cmd(body) = ERROR /\ Len(Data(body)) >= 2
     \/ Cmd(body) = INVOKEEXCEPTION /\ Len(Data(body)) >= 4

Answered(cmds) ==
  /\ cpc = "body" /\ Len(rep) >= cneed
  /\ Readable(Answer) /\ Cmd(Answer) \in cmds
  /\ rep' = Rest(rep, cneed) /\ Return
  /\ UNCHANGED <<req, cut, throws, serverVars, calls>>

Put(f, id, val) == [j \in DOMAIN f \cup {id} |-> IF j = id THEN val ELSE f[j]]

\* createObject(): an id that is not 0 gets a stub, which replaces and deletes
\* one that has this id already.
Created ==
  /\ call.op = "create" /\ Answered({RETURN})
  /\ LET id == Data(Answer)[2] IN
       IF id \in Ids \ {0}
         THEN /\ stubs' = stubs \cup {id}
              /\ doubt' = IF cut THEN doubt \cup {id} ELSE doubt \ {id}
              /\ Result("create", id, 0)
              /\ known' = Put(known, id, 0)
         ELSE /\ UNCHANGED <<stubs, doubt>>
              /\ Result("failed", 0, 0)
              /\ known' = IF 0 \in DOMAIN objects THEN Put(known, 0, objects[0]) ELSE known

\* Mutant of Released: the stub is kept.
ReleasedKept ==
  /\ call.op = "release" /\ Answered({RETURN})
  /\ stubs' = stubs
  /\ known' = [j \in DOMAIN known \ {call.id} |-> known[j]]
  /\ Result("release", call.id, 0)
  /\ doubt' = doubt \ {call.id}

\* releaseObject()
Released ==
  /\ call.op = "release" /\ Answered({RETURN})
  /\ stubs' = stubs \ {call.id}
  /\ known' = [j \in DOMAIN known \ {call.id} |-> known[j]]
  /\ Result("release", call.id, 0)
  /\ doubt' = doubt \ {call.id}

\* The caller's argument, after the answer is read.
ArgAfter(body) ==
  IF \E k \in DOMAIN Outs(body) : Outs(body)[k][1] = 0 /\ call.flag # 0
    THEN Outs(body)[CHOOSE k \in DOMAIN Outs(body) : Outs(body)[k][1] = 0][2]
    ELSE call.val

Invoked ==
  /\ call.op = "invoke" /\ Answered({RETURN})
  /\ Result("invoke", call.id, IF call.flag = 0 THEN Data(Answer)[2] ELSE ArgAfter(Answer))
  /\ known' = IF call.flag = 0 \/ call.id \notin DOMAIN known THEN known
              ELSE Put(known, call.id, call.val)
  /\ UNCHANGED <<stubs, doubt>>

\* RMIException, RMIInvokeException: what the server reports.
Reported ==
  /\ Answered({ERROR, INVOKEEXCEPTION})
  /\ Result("failed", 0, 0)
  /\ doubt' = IF cut THEN Doubtful(call) ELSE doubt
  /\ UNCHANGED <<stubs, known>>

ClientThrows ==
  /\ cpc = "body" /\ Len(rep) >= cneed /\ ~Readable(Answer)
  /\ rep' = Rest(rep, cneed) /\ Lost
  /\ UNCHANGED <<req, cut, throws, serverVars, calls, stubs, known>>

\* Nothing comes any more for either side.
Stuck ==
  /\ Len(req) < (IF spc = "body" THEN sneed ELSE 1)
  /\ Len(rep) < (IF cpc = "body" THEN cneed ELSE 1)

\* A read() throws, for the end of the connection too.
ClientReadThrows ==
  /\ cpc # "idle"
  /\ LET want == IF cpc = "body" THEN cneed ELSE 1 IN
       \E k \in 0..(want - 1) : k <= Len(rep) /\ rep' = Rest(rep, k)
  /\ Broken(Stuck)
  /\ Lost
  /\ UNCHANGED <<req, serverVars, calls, stubs, known>>

\* setSocket() on both sides: a connection with nothing under way, over which
\* the client learns what the server has.
SetSocket ==
  /\ cut /\ cpc = "idle" /\ spc = "beg"
  /\ req' = <<>> /\ rep' = <<>> /\ cut' = FALSE
  /\ known' = objects /\ Result("reset", 0, 0)
  /\ UNCHANGED <<throws, serverVars, cpc, cneed, call, calls, stubs, doubt>>

ClientCalls ==
  \/ CallCreate
  \/ \E id \in Ids : CallRelease(id) \/ \E flag \in 0..3, val \in Values : CallInvoke(id, flag, val)

ClientAnswers ==
  \/ ClientReads \/ ClientRefuses \/ ClientThrows \/ ClientReadThrows
  \/ Created \/ Released \/ Invoked \/ Reported

Next ==
  \/ ClientCalls \/ ClientAnswers \/ SetSocket
  \/ (ServerNext /\ UNCHANGED clientVars)

\* The server's thread calls processNextRequest() again and again, and a call
\* of the client goes on to read.
Fairness ==
  /\ WF_vars(ServerAnswers /\ UNCHANGED clientVars)
  /\ WF_vars(ClientReads \/ ClientRefuses \/ ClientThrows)
  /\ WF_vars(Created \/ Released \/ Invoked \/ Reported)

Spec == Init /\ [][Next]_vars /\ Fairness

-----------------------------------------------------------------------------
(* Properties *)

\* Between two calls, an object the client holds a stub of is at the server,
\* unless a call that ended with an exception, or with the answer of another
\* call, has made it doubtful
\* (RMIClient.cpp:37-89, RMIObjectContainer.cpp:37-102).
StubsLive == ~cut /\ cpc = "idle" => stubs \subseteq DOMAIN objects \cup doubt

\* Every call returns, whatever the server had to say, unless an exception has
\* left the two sides out of step: the server throws away what it cannot parse
\* without an answer, and a client that waits for one has no timeout
\* (RMIServer.cpp:36-205, RMIClient.cpp:149-177).
CallsReturn == cpc # "idle" ~> (cpc = "idle" \/ cut)
=============================================================================
