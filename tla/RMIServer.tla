----------------------------- MODULE RMIServer ------------------------------
(***************************************************************************)
(* rmi::RMIBase and rmi::RMIServer: packets of words on the two directions *)
(* of one connection, and the server that reads and answers them.          *)
(* A packet is <<"RMIB", length, version, command, ..., "RMIE">>, the length*)
(* that of what follows it.  It carries no number of the request, and what *)
(* a reader that threw has left of a packet stays in the connection.       *)
(***************************************************************************)
EXTENDS Integers, Sequences

CONSTANTS MaxLength,      \* the largest length a packet may announce
          MaxThrow        \* bound: exceptions of the connection

VARIABLES
  req, rep,     \* what is under way to the server, and to the client
  cut,          \* an exception has left the two sides out of step
  throws        \* exceptions so far

connVars == <<req, rep, cut, throws>>

\* Words that are no numbers are numbers no length, id or value has.
RMIB == 101
RMIE == 102
VOID == 103
TEXT == 104
VERSION == 1

\* A magic word read as a length is too large (RMIServer.cpp:67), and ids are
\* numbers like those.
CONSTANT MaxId        \* ids are 0..MaxId, and wrap

Ids == 0..MaxId
ASSUME PacketAssumption == MaxLength \in 8..100 /\ MaxId \in 0..100

CREATEOBJECT == 0
RELEASEOBJECT == 1
INVOKE == 2
RETURN == 3
ERROR == 4
INVOKEEXCEPTION == 5

\* setupPacket()
Packet(cmd, data) ==
  LET body == <<VERSION, cmd>> \o data \o <<RMIE>> IN <<RMIB, Len(body)>> \o body

\* The length is at least that of version, command and end.
LengthOk(n) == n >= 3 /\ n <= MaxLength

\* "end magic not found"
Torn(body) == body[Len(body)] # RMIE

\* What follows the command, the end left out.
Cmd(body) == body[2]
Data(body) == SubSeq(body, 3, Len(body) - 1)


\* numargs or numoutargs, then that many pairs: unpack() throws at the end of
\* the data, and leaves unread what is behind them.
PairsFit(data, n) == data # <<>> /\ n + 2 * data[1] <= Len(data)
PairsAfter(data, n) == [k \in 1..data[1] |-> <<data[n + 2 * k - 1], data[n + 2 * k]>>]

Rest(s, n) == SubSeq(s, n + 1, Len(s))

\* An exception of the connection.  It is counted, except where no more words
\* come and only the end of the connection can end the read.
Broken(stuck) ==
  /\ IF stuck THEN UNCHANGED throws ELSE throws < MaxThrow /\ throws' = throws + 1
  /\ cut' = TRUE

\* What a write() that throws has put into the connection.
PartOf(packet) == {SubSeq(packet, 1, k) : k \in 0..(Len(packet) - 1)}

-----------------------------------------------------------------------------
(* rmi::RMIServer::processNextRequest() and rmi::RMIObjectContainer.  The  *)
(* program calls processNextRequest() again whether it returned or threw.  *)
(* A remote object, which the program derives, keeps one value here; its   *)
(* method exchanges it, or throws.                                         *)

VARIABLES
  spc,          \* what is read next: "beg", "len" or "body"
  sneed,        \* length of the packet
  objects       \* c_objects: ids to values

serverVars == <<spc, sneed, objects>>

ServerInit == spc = "beg" /\ sneed = 0 /\ objects = <<>>

Ready == spc' = "beg" /\ sneed' = 0

ServerReads ==
  /\ req # <<>>
  /\ \/ spc = "beg" /\ Head(req) = RMIB /\ spc' = "len" /\ UNCHANGED sneed
     \/ spc = "len" /\ LengthOk(Head(req)) /\ spc' = "body" /\ sneed' = Head(req)
  /\ req' = Tail(req)
  /\ UNCHANGED <<rep, cut, throws, objects>>

\* "begin magic not found", "invalid packet size"
ServerRefuses ==
  /\ req # <<>>
  /\ \/ spc = "beg" /\ Head(req) # RMIB
     \/ spc = "len" /\ ~LengthOk(Head(req))
  /\ req' = Tail(req) /\ Ready
  /\ UNCHANGED <<rep, cut, throws, objects>>

Whole == spc = "body" /\ Len(req) >= sneed
Body == SubSeq(req, 1, sneed)

\* The request as it is parsed: object, method, and the arguments with flags.
Id(body) == Data(body)[1]
Method(body) == Data(body)[2]
Args(body) == PairsAfter(Rest(Data(body), 2), 1)
InvokeArgFlag_IN == 1
InvokeArgFlag_OUT == 2
InvokeArgFlag_INOUT == 3

Parsed(body) ==
  /\ ~Torn(body)
  /\ Cmd(body) \in {CREATEOBJECT, RELEASEOBJECT, INVOKE}
  /\ Len(Data(body)) >= 3 /\ Method(body) = TEXT
  /\ PairsFit(Rest(Data(body), 2), 1)
  /\ Cmd(body) = CREATEOBJECT => Len(Args(body)) = 1 /\ Args(body)[1][2] = TEXT
  /\ Cmd(body) = RELEASEOBJECT => Len(Args(body)) = 1 /\ Args(body)[1][2] # TEXT

\* A request that cannot be parsed is thrown away, and not answered.
ServerThrows ==
  /\ Whole /\ ~Parsed(Body)
  /\ req' = Rest(req, sneed) /\ Ready
  /\ UNCHANGED <<rep, cut, throws, objects>>

\* sendPacket(), which may throw half way.
Reply(packet) ==
  \/ rep' = rep \o packet /\ UNCHANGED <<cut, throws>>
  \/ Broken(FALSE) /\ \E part \in PartOf(packet) : rep' = rep \o part

Serve(cmd) ==
  /\ Whole /\ Parsed(Body) /\ Cmd(Body) = cmd
  /\ req' = Rest(req, sneed) /\ Ready

ReturnValue(v, outs) == Reply(Packet(RETURN, <<Len(outs) \div 2, v>> \o outs))
ReturnError == Reply(Packet(ERROR, <<1, TEXT>>))

\* Mutant of FirstFree: the id is not looked up.
FirstFreeNot(first) == first

\* The first id from the object's address on that is free, round the end.
After(id, k) == (id + k) % (MaxId + 1)
FirstFree(first) ==
  LET free == {k \in Ids : After(first, k) \notin DOMAIN objects}
  IN  After(first, CHOOSE k \in free : \A j \in free : k <= j)

\* An object with the id 0, which the map may keep or, as tmb's HashMap does,
\* refuse, is nobody's any more: the client takes 0 for a failure.
ServeCreate ==
  /\ Serve(CREATEOBJECT)
  /\ DOMAIN objects # Ids
  /\ \E first \in Ids, kept \in BOOLEAN :
       LET id == FirstFree(first) IN
         /\ id # 0 => kept
         /\ objects' = IF kept THEN [j \in DOMAIN objects \cup {id} |->
                                       IF j = id THEN 0 ELSE objects[j]]
                       ELSE objects
         /\ ReturnValue(id, <<>>)

\* newObject() throws, or no id is left.
ServeNoObject ==
  /\ Serve(CREATEOBJECT)
  /\ UNCHANGED objects /\ ReturnError

ServeRelease ==
  /\ Serve(RELEASEOBJECT)
  /\ LET id == Args(Body)[1][2] IN
       IF id \in DOMAIN objects
         THEN /\ objects' = [j \in DOMAIN objects \ {id} |-> objects[j]]
              /\ ReturnValue(VOID, <<>>)
         ELSE UNCHANGED objects /\ ReturnError

\* The method gives back the value, and takes over that of its argument.
ServeInvoke ==
  /\ Serve(INVOKE)
  /\ Id(Body) \in DOMAIN objects
  /\ LET id == Id(Body)
         args == Args(Body)
         old == objects[id]
     IN  IF args = <<>> THEN UNCHANGED objects /\ ReturnValue(old, <<>>)
         ELSE /\ objects' = [objects EXCEPT ![id] = args[1][2]]
              /\ ReturnValue(VOID, IF args[1][1] \in {InvokeArgFlag_OUT, InvokeArgFlag_INOUT} THEN <<0, old>> ELSE <<>>)

ServeInvokeThrows ==
  /\ Serve(INVOKE)
  /\ IF Id(Body) \in DOMAIN objects THEN Reply(Packet(INVOKEEXCEPTION, <<1, TEXT, TEXT, TEXT>>))
                                    ELSE ReturnError
  /\ UNCHANGED objects

\* A read() throws, before or in the middle of a packet.
ServerReadThrows ==
  /\ LET want == IF spc = "body" THEN sneed ELSE 1 IN
       /\ \E k \in 0..(want - 1) : k <= Len(req) /\ req' = Rest(req, k)
       /\ Broken(spc # "beg" /\ Len(req) < want)
  /\ Ready
  /\ UNCHANGED <<rep, objects>>

ServerAnswers ==
  \/ ServerReads \/ ServerRefuses \/ ServerThrows
  \/ ServeCreate \/ ServeNoObject \/ ServeRelease \/ ServeInvoke \/ ServeInvokeThrows

ServerNext == ServerAnswers \/ ServerReadThrows
=============================================================================
