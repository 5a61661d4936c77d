----------------------------- MODULE RemoteSpec -----------------------------
(***************************************************************************)
(* What the calls of an RMI client promise: the objects of the server, and *)
(* each call done on them at once.  Nothing is promised after a call whose *)
(* answer was lost ("cut"), until the two sides have a new connection.     *)
(***************************************************************************)
EXTENDS Integers

CONSTANTS Ids, Values

VARIABLES objs, cut, result

rmVars == <<objs, cut, result>>

Says(op, id, val) == result' = [op |-> op, id |-> id, val |-> val]

RmBegin == Says("none", 0, 0) /\ UNCHANGED objs

\* An object the client has not got gets an id, and a value of 0.
RmNew(id) == /\ id \notin DOMAIN objs
             /\ objs' = [j \in DOMAIN objs \cup {id} |-> IF j = id THEN 0 ELSE objs[j]]
RmCreate(id) == id # 0 /\ RmNew(id) /\ Says("create", id, 0)

RmRelease(id) ==
  /\ id \in DOMAIN objs
  /\ objs' = [j \in DOMAIN objs \ {id} |-> objs[j]]
  /\ Says("release", id, 0)

\* invoke(): the value as it is, or exchanged for another; the caller sees the
\* old value, or only its own if the argument does not come back.
RmGet(id) == id \in DOMAIN objs /\ Says("invoke", id, objs[id]) /\ UNCHANGED objs
RmSet(id, val) ==
  /\ id \in DOMAIN objs
  /\ objs' = [objs EXCEPT ![id] = val]
  /\ Says("invoke", id, objs[id]) \/ Says("invoke", id, val)

\* A call fails without an effect.  Only an object that gets the id 0 is there
\* and cannot be used.
RmFail == Says("failed", 0, 0) /\ (UNCHANGED objs \/ RmNew(0))

RmCall ==
  \/ RmBegin \/ RmFail
  \/ \E id \in Ids : \/ RmCreate(id) \/ RmRelease(id) \/ RmGet(id)
                     \/ \E val \in Values : RmSet(id, val)

RmInit == objs = <<>> /\ cut = FALSE
RmNext == ~cut' => IF cut THEN result'.op = "reset" ELSE RmCall
RmSpec == RmInit /\ [][RmNext]_rmVars
=============================================================================
