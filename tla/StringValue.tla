------------------------------ MODULE StringValue ------------------------------
(***************************************************************************)
(* What tmb::String promises: each object has a value of its own, and a    *)
(* call changes the value of the one object it is made on.  Threads may    *)
(* use objects at the same time as long as no call is made on an object    *)
(* another call is using.                                                  *)
(***************************************************************************)
CONSTANTS Threads, Objects, Values, Empty, None,
          Changed(_)   \* what modifying a string of a value makes of it

VARIABLES value,   \* of each object, None where there is none
          doing    \* the call each thread is in

svVars == <<value, doing>>

Idle == [op |-> "none", obj |-> None, src |-> None, arg |-> None]
Busy(t) == doing[t] # Idle

\* No other thread is in a call on x; none uses x in its call.
Readable(t, x) == \A u \in Threads \ {t} : doing[u].obj # x
Writable(t, x) == Readable(t, x) /\ \A u \in Threads \ {t} : doing[u].src # x

SvInit == /\ value = [x \in Objects |-> None]
          /\ doing = [t \in Threads |-> Idle]

SvBegin(t, r) ==
  /\ ~Busy(t) /\ Writable(t, r.obj)
  /\ (value[r.obj] = None) <=> (r.op \in {"construct", "copy"})
  /\ r.op \in {"copy", "assign"} =>
       r.src # r.obj /\ value[r.src] # None /\ Readable(t, r.src)
  /\ doing' = [doing EXCEPT ![t] = r]
  /\ UNCHANGED value

Result(r) == CASE r.op = "construct"           -> r.arg
               [] r.op \in {"copy", "assign"}  -> value[r.src]
               [] r.op = "modify"              -> Changed(value[r.obj])
               [] r.op = "destroy"             -> None

SvEnd(t) ==
  /\ Busy(t)
  /\ value' = [value EXCEPT ![doing[t].obj] = Result(doing[t])]
  /\ doing' = [doing EXCEPT ![t] = Idle]

Calls == [op : {"construct"}, obj : Objects, src : {None}, arg : Values \cup {Empty}]
           \cup [op : {"copy", "assign"}, obj : Objects, src : Objects, arg : {None}]
           \cup [op : {"modify", "destroy"}, obj : Objects, src : {None}, arg : {None}]

SvNext == \E t \in Threads : SvEnd(t) \/ \E r \in Calls : SvBegin(t, r)

SvSpec == SvInit /\ [][SvNext]_svVars
=============================================================================
