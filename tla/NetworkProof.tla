---------------------------- MODULE NetworkProof ----------------------------
(***************************************************************************)
(* DescriptorsOwned, AuthAgrees, StubsLive, IsRemote and AnswersInOrder of *)
(* MCNetwork, for any numbers of the kernel, any sockets, ids, values and  *)
(* sizes, and any number of calls, requests and exceptions.                *)
(***************************************************************************)
EXTENDS MCNetwork, FiniteSetTheorems, SequenceTheorems, WellFoundedInduction, TLAPS

-----------------------------------------------------------------------------
(* The descriptors *)

\* A set of numbers has a least one.
LEMMA LeastOf ==
  ASSUME NEW S, S \subseteq Nat, IsFiniteSet(S), NEW F, F \subseteq S, F # {}
  PROVE  \E f \in F : \A g \in F : f <= g
<1> DEFINE Below(f) == {g \in F : g < f}
           T == {Below(f) : f \in F}
<1>1. T \subseteq FiniteSubsetsOf(S) /\ T # {}
  <2>1. ASSUME NEW f \in F PROVE Below(f) \subseteq S /\ IsFiniteSet(Below(f))
    BY FS_Subset
  <2> QED BY <2>1 DEF FiniteSubsetsOf
<1>2. PICK b \in T : \A c \in T : ~(<<c, b>> \in StrictSubsetOrdering(S))
  <2>1. IsWellFoundedOn(StrictSubsetOrdering(S), FiniteSubsetsOf(S))
    BY FS_StrictSubsetOrderingWellFounded
  <2> HIDE DEF T
  <2> QED BY <1>1, <2>1, WFMin, Zenon
<1>3. PICK f \in F : b = Below(f)
  BY <1>2
<1>4. ASSUME NEW g \in F, g < f PROVE FALSE
  <2>1. Below(g) \in T
    OBVIOUS
  <2>2. Below(g) \subseteq b /\ g \in b /\ g \notin Below(g)
    <3>1. \A h \in F : h \in Nat
      OBVIOUS
    <3>2. \A h \in F : h < g => h < f
      BY <1>4, <3>1
    <3>3. ~(g < g)
      BY <3>1
    <3> QED BY <1>3, <1>4, <3>2, <3>3
  <2>3. <<Below(g), b>> \in StrictSubsetOrdering(S)
    BY <1>3, <2>2 DEF StrictSubsetOrdering
  <2> QED BY <1>2, <2>1, <2>3
<1> QED BY <1>4

LEMMA LowestFree == ~Descriptors!Full => Descriptors!Lowest \in FDs /\ table[Descriptors!Lowest] = None
<1> DEFINE F == {f \in FDs : table[f] = None}
<1> SUFFICES ASSUME ~Descriptors!Full
             PROVE  Descriptors!Lowest \in FDs /\ table[Descriptors!Lowest] = None
  OBVIOUS
<1>1. F # {} /\ F \subseteq FDs
  BY DEF Descriptors!Full
<1>2. \E f \in FDs : table[f] = None /\ \A g \in FDs : table[g] = None => f <= g
  <2> HIDE DEF F
  <2>1. PICK f \in F : \A g \in F : f <= g
    BY <1>1, LeastOf, NetAssumption
  <2> QED BY <2>1 DEF F
<1> QED BY <1>2 DEF Descriptors!Lowest

\* Where a call is tells whether there is an object, and whether it has a number
\* and a structure.
SocketOk(o) ==
  /\ o \notin exists => pc[o] = "idle"
  /\ pc[o] \in {"connecting", "connecting first", "binding", "closing"} => handle[o] # -1
  /\ pc[o] = "constructor" => handle[o] = -1

SSLOk(o) ==
  /\ o \notin exists => c_ssl[o] = -1
  /\ pc[o] \in {"constructor", "connecting first", "binding", "closing"} => c_ssl[o] = -1
  /\ pc[o] = "connecting" => c_ssl[o] = -1 \/ o \in moved

Owned(o) == handle[o] # -1 => o \in exists /\ (table[handle[o]] = o \/ o \in stale)
Used(f) == \A o \in Descriptors!Objs : table[f] = o => o \in exists /\ handle[o] = f
OnHandle(o) == c_ssl[o] # -1 /\ o \notin moved => handle[o] = c_ssl[o]

NetInv ==
  /\ Descriptors!TypeOK
  /\ \A o \in Descriptors!Objs : Owned(o) /\ SocketOk(o)
  /\ \A f \in FDs : Used(f)
  /\ \A o \in SSLSockets : OnHandle(o) /\ SSLOk(o)

LEMMA NumberFacts ==
  /\ -1 \notin FDs /\ \A f \in FDs : f >= 0
  /\ \A o \in Descriptors!Objs : o # Other /\ o # None /\ o # Unheld
  /\ Other # None /\ Other # Unheld /\ None # Unheld
  /\ SSLSockets \subseteq Descriptors!Objs
BY NetAssumption DEF Descriptors!Objs

LEMMA ANumber == \A n : n >= 0 => n # -1
OBVIOUS

LEMMA NetInvOwns == NetInv => DescriptorsOwned
<1> SUFFICES ASSUME NetInv PROVE DescriptorsOwned
  OBVIOUS
<1>0. handle \in [Descriptors!Objs -> FDs \cup {-1}] /\ c_ssl \in [SSLSockets -> FDs \cup {-1}]
  BY DEF NetInv, Descriptors!TypeOK
<1>1. Descriptors!HandlesOwned
  BY <1>0, NumberFacts DEF NetInv, Owned, Descriptors!HandlesOwned
<1>2. Descriptors!NoneLeaked
  BY DEF NetInv, Used, Descriptors!NoneLeaked
<1>3. Descriptors!SSLOnHandle
  BY <1>0, NumberFacts DEF NetInv, OnHandle, Descriptors!SSLOnHandle
<1> QED BY <1>1, <1>2, <1>3 DEF DescriptorsOwned

LEMMA NetInit == MCInit => NetInv
<1> SUFFICES ASSUME MCInit PROVE NetInv
  OBVIOUS
<1> USE NumberFacts DEF MCInit, Descriptors!Init, Descriptors!DescriptorsInit,
      Descriptors!SocketInit, Descriptors!SSLSocketInit
<1>1. Descriptors!TypeOK
  BY DEF Descriptors!TypeOK
<1>2. \A o \in Descriptors!Objs : Owned(o) /\ SocketOk(o)
  BY DEF Owned, SocketOk
<1>3. \A f \in FDs : Used(f)
  BY DEF Used
<1>4. \A o \in SSLSockets : OnHandle(o) /\ SSLOk(o)
  BY DEF OnHandle, SSLOk
<1> QED BY <1>1, <1>2, <1>3, <1>4 DEF NetInv

\* What a step of an object does to the table and to its number: nothing, ...
Keeps(o) == UNCHANGED <<table, handle, stale>>
\* ... closes it, ...
Releases(o) ==
  /\ table' = Descriptors!Released(handle[o]) /\ handle' = [handle EXCEPT ![o] = -1]
  /\ stale' = (stale \cup Descriptors!Robbed(o, handle[o])) \ {o}
\* ... closes it and keeps it, ...
ReleasesStale(o) ==
  /\ table' = Descriptors!Released(handle[o]) /\ handle' = handle
  /\ stale' = stale \cup Descriptors!Robbed(o, handle[o]) \cup {o}
\* ... forgets it, when it is nobody's, ...
Forgets(o) ==
  /\ table' = table /\ handle' = [handle EXCEPT ![o] = -1] /\ stale' = stale \ {o}
  /\ o \in exists /\ handle[o] >= 0 => table[handle[o]] = None
\* ... gives up a connection for none, ...
Drops(o) ==
  /\ table' = Descriptors!Abandoned(o) /\ handle' = [handle EXCEPT ![o] = -1]
  /\ stale' = stale \ {o}
\* ... or for a new one, or has its first.
Replaces(o) ==
  /\ ~Descriptors!Full
  /\ table' = [Descriptors!Abandoned(o) EXCEPT ![Descriptors!Lowest] = o]
  /\ handle' = [handle EXCEPT ![o] = Descriptors!Lowest] /\ stale' = stale \ {o}
Takes(o) ==
  /\ ~Descriptors!Full /\ o \notin exists
  /\ table' = Descriptors!Opened(o)
  /\ handle' = [handle EXCEPT ![o] = Descriptors!Lowest] /\ stale' = stale \ {o}

Effect(o) ==
  Keeps(o) \/ Releases(o) \/ ReleasesStale(o) \/ Forgets(o) \/ Drops(o) \/ Replaces(o) \/ Takes(o)

LEMMA StepCases ==
  ASSUME NEW o, Descriptors!Step(o)
  PROVE  \/ \E on \in BOOLEAN : Descriptors!IgnoreInterrupts(o, on) /\ UNCHANGED Descriptors!secure
         \/ Descriptors!ConnectUnknownHost(o) /\ UNCHANGED Descriptors!secure
         \/ Descriptors!Connected(o) /\ UNCHANGED Descriptors!secure
         \/ Descriptors!ConnectFails(o) /\ UNCHANGED Descriptors!secure
         \/ Descriptors!Closed(o) /\ UNCHANGED Descriptors!secure
         \/ Descriptors!CloseInterrupted(o) /\ UNCHANGED Descriptors!secure
         \/ Descriptors!CloseFails(o) /\ UNCHANGED Descriptors!secure
         \/ Descriptors!CreateServer(o) /\ UNCHANGED Descriptors!secure
         \/ Descriptors!Bound(o) /\ UNCHANGED Descriptors!secure
         \/ Descriptors!BindFails(o) /\ UNCHANGED Descriptors!secure
         \/ \E s \in Servers : Descriptors!Accept(s, o) /\ UNCHANGED Descriptors!secure
         \/ Descriptors!NewSocket(o) /\ UNCHANGED Descriptors!secure
         \/ Descriptors!SSLinit(o) \/ Descriptors!SSLConnect(o) \/ Descriptors!SSLClose(o)
         \/ Descriptors!Destroyed(o) /\ Descriptors!FreeSSL(o)
BY DEF Descriptors!Step, Descriptors!SocketStep

LEMMA StepEffect ==
  ASSUME NEW o, Descriptors!Step(o)
  PROVE  Effect(o)
<1>1. CASE \E on \in BOOLEAN : Descriptors!IgnoreInterrupts(o, on)
  BY <1>1 DEF Descriptors!IgnoreInterrupts, Effect, Keeps
<1>2. CASE \/ Descriptors!ConnectUnknownHost(o) \/ Descriptors!Connected(o) \/ Descriptors!Bound(o)
           \/ Descriptors!SSLinit(o) \/ Descriptors!SSLClose(o)
  BY <1>2 DEF Descriptors!ConnectUnknownHost, Descriptors!Connected, Descriptors!Bound,
     Descriptors!SSLinit, Descriptors!base, Descriptors!SSLClose, Descriptors!Close, Effect, Keeps
<1>3. CASE Descriptors!ConnectFails(o) \/ Descriptors!BindFails(o) \/ Descriptors!Closed(o)
  BY <1>3 DEF Descriptors!ConnectFails, Descriptors!BindFails, Descriptors!Closed,
     Descriptors!Closes, Effect, Releases
<1>4. CASE Descriptors!CloseInterrupted(o) \/ Descriptors!CloseFails(o)
  BY <1>4 DEF Descriptors!CloseInterrupted, Descriptors!CloseFails,
     Descriptors!Closes, Effect, ReleasesStale, Keeps
<1>5. CASE Descriptors!CreateServer(o) \/ \E s \in Servers : Descriptors!Accept(s, o)
  BY <1>5 DEF Descriptors!CreateServer, Descriptors!Accept, Descriptors!Made, Effect, Takes
<1>6. CASE Descriptors!NewSocket(o)
  BY <1>6 DEF Descriptors!NewSocket, Descriptors!Made, Effect, Forgets
<1>7. CASE Descriptors!SSLConnect(o)
  BY <1>7 DEF Descriptors!SSLConnect, Descriptors!ConnectNoSocket, Descriptors!Connect, Effect,
     Drops, Replaces
<1>8. CASE Descriptors!Destroyed(o)
  <2>1. CASE handle[o] >= 0 /\ table[handle[o]] # None
    BY <1>8, <2>1 DEF Descriptors!Destroyed, Descriptors!Closes, Effect, Releases
  <2>2. CASE ~(handle[o] >= 0 /\ table[handle[o]] # None)
    BY <1>8, <2>2 DEF Descriptors!Destroyed, Effect, Forgets
  <2> QED BY <2>1, <2>2
<1> QED BY <1>1, <1>2, <1>3, <1>4, <1>5, <1>6, <1>7, <1>8, StepCases

Tables == [FDs -> Descriptors!Objs \cup {Other, Unheld, None}]
Handles == [Descriptors!Objs -> FDs \cup {-1}]

LEMMA NetTyped ==
  ASSUME NetInv
  PROVE  /\ table \in Tables /\ handle \in Handles
         /\ exists \subseteq Descriptors!Objs /\ stale \subseteq Descriptors!Objs
         /\ ignores \in [Descriptors!Objs -> BOOLEAN]
         /\ DOMAIN pc = Descriptors!Objs
         /\ c_ssl \in [SSLSockets -> FDs \cup {-1}] /\ moved \subseteq SSLSockets
BY DEF NetInv, Descriptors!TypeOK, Tables, Handles

LEMMA EffectTyped ==
  ASSUME NetInv, NEW o \in Descriptors!Objs, Effect(o)
  PROVE  table' \in Tables /\ handle' \in Handles /\ stale' \subseteq Descriptors!Objs
<1>0. table \in Tables /\ handle \in Handles /\ stale \subseteq Descriptors!Objs
  BY NetTyped
<1>1. CASE Keeps(o)
  BY <1>0, <1>1 DEF Keeps
<1>2. CASE Releases(o)
  BY <1>0, <1>2 DEF Releases, Tables, Handles, Descriptors!Released, Descriptors!Robbed
<1>3. CASE ReleasesStale(o)
  BY <1>0, <1>3 DEF ReleasesStale, Tables, Handles, Descriptors!Released, Descriptors!Robbed
<1>4. CASE Forgets(o)
  BY <1>0, <1>4 DEF Forgets, Tables, Handles
<1>5. CASE Drops(o)
  BY <1>0, <1>5 DEF Drops, Tables, Handles, Descriptors!Abandoned
<1>6. CASE Replaces(o)
  BY <1>0, <1>6, LowestFree DEF Replaces, Tables, Handles, Descriptors!Abandoned
<1>7. CASE Takes(o)
  BY <1>0, <1>7, LowestFree DEF Takes, Tables, Handles, Descriptors!Opened
<1> QED BY <1>1, <1>2, <1>3, <1>4, <1>5, <1>6, <1>7 DEF Effect

\* The other objects keep their numbers, and what is in the table of theirs
\* unless they become stale.
LEMMA EffectElsewhere ==
  ASSUME NetInv, NEW o \in Descriptors!Objs, Effect(o), NEW p \in Descriptors!Objs \ {o}
  PROVE  /\ handle'[p] = handle[p] /\ (p \in stale => p \in stale')
         /\ \A f \in FDs : table[f] = p => table'[f] = p \/ p \in stale'
         /\ \A f \in FDs : table'[f] = p => table[f] = p
<1>0. table \in Tables /\ handle \in Handles /\ p # o
  BY NetTyped
<1> USE <1>0, NumberFacts DEF Tables, Handles
<1>1. CASE Keeps(o)
  BY <1>1 DEF Keeps
<1>2. CASE Releases(o)
  BY <1>2 DEF Releases, Descriptors!Released, Descriptors!Robbed
<1>3. CASE ReleasesStale(o)
  BY <1>3 DEF ReleasesStale, Descriptors!Released, Descriptors!Robbed
<1>4. CASE Forgets(o)
  BY <1>4 DEF Forgets
<1>5. CASE Drops(o)
  BY <1>5 DEF Drops, Descriptors!Abandoned
<1>6. CASE Replaces(o)
  BY <1>6, LowestFree DEF Replaces, Descriptors!Abandoned
<1>7. CASE Takes(o)
  BY <1>7, LowestFree DEF Takes, Descriptors!Opened
<1> QED BY <1>1, <1>2, <1>3, <1>4, <1>5, <1>6, <1>7 DEF Effect

\* What is in the table for the object itself is its number, and the other way
\* round.
LEMMA EffectHere ==
  ASSUME NetInv, NEW o \in Descriptors!Objs, Effect(o)
  PROVE  /\ \A f \in FDs : table'[f] = o => handle'[o] = f
         /\ handle'[o] # -1 => table'[handle'[o]] = o \/ o \in stale'
<1>0. /\ table \in Tables /\ handle \in Handles /\ Owned(o)
      /\ \A f \in FDs : table[f] = o => o \in exists /\ handle[o] = f
  BY NetTyped DEF NetInv, Used
<1> USE <1>0, NumberFacts DEF Tables, Handles
<1>1. CASE Keeps(o)
  BY <1>1 DEF Keeps, Owned
<1>2. CASE Releases(o)
  BY <1>2 DEF Releases, Descriptors!Released
<1>3. CASE ReleasesStale(o)
  BY <1>3 DEF ReleasesStale, Descriptors!Released
<1>4. CASE Forgets(o)
  BY <1>4 DEF Forgets
<1>5. CASE Drops(o)
  BY <1>5 DEF Drops, Descriptors!Abandoned
<1>6. CASE Replaces(o)
  BY <1>6, LowestFree DEF Replaces, Descriptors!Abandoned
<1>7. CASE Takes(o)
  BY <1>7, LowestFree DEF Takes, Descriptors!Opened
<1> QED BY <1>1, <1>2, <1>3, <1>4, <1>5, <1>6, <1>7 DEF Effect

Calls == [Descriptors!Objs -> {"idle", "constructor", "connecting", "connecting first",
                               "binding", "closing"}]

\* Where the calls are, and which objects there are, after a step of one.
LEMMA StepPlaces ==
  ASSUME NetInv, NEW o \in Descriptors!Objs, Descriptors!Step(o)
  PROVE  /\ pc' \in Calls /\ ignores' \in [Descriptors!Objs -> BOOLEAN]
         /\ exists' \subseteq exists \cup {o} /\ exists \subseteq exists' \cup {o}
         /\ \A p \in Descriptors!Objs \ {o} : pc'[p] = pc[p]
         /\ handle'[o] # -1 => o \in exists'
         /\ SocketOk(o)'
<1>0. /\ pc \in Calls /\ handle \in Handles /\ SocketOk(o) /\ (handle[o] # -1 => o \in exists)
      /\ ignores \in [Descriptors!Objs -> BOOLEAN]
  BY NetTyped DEF NetInv, Descriptors!TypeOK, Calls, Owned
<1>1. ASSUME ~Descriptors!Full PROVE Descriptors!Lowest # -1
  BY <1>1, LowestFree, NumberFacts
<1> USE <1>0 DEF Calls, Handles, SocketOk, Descriptors!Idle
<1>2. CASE \E on \in BOOLEAN : Descriptors!IgnoreInterrupts(o, on)
  BY <1>2 DEF Descriptors!IgnoreInterrupts
<1>3. CASE Descriptors!ConnectUnknownHost(o)
  BY <1>3 DEF Descriptors!ConnectUnknownHost, Descriptors!Connects, Descriptors!Thrown
<1>4. CASE Descriptors!Connected(o) \/ Descriptors!Bound(o)
  BY <1>4 DEF Descriptors!Connected, Descriptors!Bound, Descriptors!Connecting
<1>5. CASE Descriptors!SSLinit(o)
  BY <1>5 DEF Descriptors!SSLinit, Descriptors!base
<1>6. CASE Descriptors!SSLClose(o)
  <2>1. handle[o] # -1
    <3>1. handle[o] >= 0
      BY <1>6 DEF Descriptors!SSLClose, Descriptors!Close
    <3> QED BY <3>1, ANumber, Zenon
  <2> QED BY <1>6, <2>1 DEF Descriptors!SSLClose, Descriptors!Close
<1>7. CASE Descriptors!ConnectFails(o)
  BY <1>7 DEF Descriptors!ConnectFails, Descriptors!Connecting, Descriptors!Thrown
<1>8. CASE Descriptors!BindFails(o)
  BY <1>8 DEF Descriptors!BindFails
<1>9. CASE Descriptors!Closed(o)
  BY <1>9 DEF Descriptors!Closed
<1>10. CASE Descriptors!CloseInterrupted(o) \/ Descriptors!CloseFails(o)
  BY <1>10 DEF Descriptors!CloseInterrupted, Descriptors!CloseFails
<1>11. CASE Descriptors!CreateServer(o) \/ \E s \in Servers : Descriptors!Accept(s, o)
  <2>1. CASE Descriptors!CreateServer(o)
    <3>1. PICK place \in {"idle", "binding"} : pc' = [pc EXCEPT ![o] = place]
      BY <2>1 DEF Descriptors!CreateServer
    <3> QED BY <1>1, <2>1, <3>1 DEF Descriptors!CreateServer, Descriptors!Made
  <2>2. CASE \E s \in Servers : Descriptors!Accept(s, o)
    BY <1>1, <2>2 DEF Descriptors!Accept, Descriptors!Made
  <2> QED BY <1>11, <2>1, <2>2
<1>12. CASE Descriptors!NewSocket(o)
  BY <1>12 DEF Descriptors!NewSocket, Descriptors!Made
<1>13. CASE Descriptors!SSLConnect(o) /\ Descriptors!ConnectNoSocket(o)
  BY <1>13 DEF Descriptors!ConnectNoSocket, Descriptors!Connects, Descriptors!Thrown
<1>14. CASE Descriptors!SSLConnect(o) /\ Descriptors!Connect(o)
  BY <1>1, <1>14 DEF Descriptors!Connect, Descriptors!Connects
<1>15. CASE Descriptors!Destroyed(o)
  BY <1>15 DEF Descriptors!Destroyed
<1> QED BY <1>2, <1>3, <1>4, <1>5, <1>6, <1>7, <1>8, <1>9, <1>10, <1>11, <1>12, <1>13, <1>14, <1>15,
           StepCases DEF Descriptors!SSLConnect

\* The structure of a socket, after a step of it.
LEMMA StepSecure ==
  ASSUME NetInv, NEW o \in Descriptors!Objs, Descriptors!Step(o)
  PROVE  /\ c_ssl' \in [SSLSockets -> FDs \cup {-1}] /\ moved' \subseteq SSLSockets
         /\ \A p \in SSLSockets \ {o} : c_ssl'[p] = c_ssl[p] /\ (p \in moved' <=> p \in moved)
         /\ o \in SSLSockets => OnHandle(o)' /\ SSLOk(o)'
<1>0. /\ pc \in Calls /\ handle \in Handles /\ SocketOk(o) /\ (handle[o] # -1 => o \in exists)
      /\ c_ssl \in [SSLSockets -> FDs \cup {-1}] /\ moved \subseteq SSLSockets
      /\ o \in SSLSockets => SSLOk(o) /\ OnHandle(o)
  BY NetTyped DEF NetInv, Descriptors!TypeOK, Calls, Owned
<1> USE <1>0 DEF Calls, Handles, SSLOk, OnHandle, Descriptors!Idle, Descriptors!secure
<1>2. CASE \E on \in BOOLEAN : Descriptors!IgnoreInterrupts(o, on) /\ UNCHANGED Descriptors!secure
  BY <1>2 DEF Descriptors!IgnoreInterrupts
<1>3. CASE Descriptors!ConnectUnknownHost(o) /\ UNCHANGED Descriptors!secure
  BY <1>3 DEF Descriptors!ConnectUnknownHost, Descriptors!Connects, Descriptors!Thrown
<1>4. CASE (Descriptors!Connected(o) \/ Descriptors!Bound(o)) /\ UNCHANGED Descriptors!secure
  BY <1>4 DEF Descriptors!Connected, Descriptors!Bound, Descriptors!Connecting
<1>5. CASE Descriptors!SSLinit(o)
  BY <1>5 DEF Descriptors!SSLinit, Descriptors!base
<1>6. CASE Descriptors!SSLClose(o)
  BY <1>6 DEF Descriptors!SSLClose, Descriptors!Close, Descriptors!FreeSSL
<1>7. CASE Descriptors!ConnectFails(o) /\ UNCHANGED Descriptors!secure
  BY <1>7 DEF Descriptors!ConnectFails, Descriptors!Connecting, Descriptors!Thrown
<1>8. CASE Descriptors!BindFails(o) /\ UNCHANGED Descriptors!secure
  BY <1>8 DEF Descriptors!BindFails
<1>9. CASE Descriptors!Closed(o) /\ UNCHANGED Descriptors!secure
  BY <1>9 DEF Descriptors!Closed
<1>10. CASE (Descriptors!CloseInterrupted(o) \/ Descriptors!CloseFails(o))
            /\ UNCHANGED Descriptors!secure
  BY <1>10 DEF Descriptors!CloseInterrupted, Descriptors!CloseFails
<1>11. CASE (Descriptors!CreateServer(o) \/ \E s \in Servers : Descriptors!Accept(s, o))
            /\ UNCHANGED Descriptors!secure
  BY <1>11 DEF Descriptors!CreateServer, Descriptors!Accept, Descriptors!Made, SocketOk
<1>12. CASE Descriptors!NewSocket(o) /\ UNCHANGED Descriptors!secure
  BY <1>12 DEF Descriptors!NewSocket, Descriptors!Made
<1>13. CASE Descriptors!SSLConnect(o) /\ Descriptors!ConnectNoSocket(o)
  BY <1>13, NumberFacts DEF Descriptors!ConnectNoSocket, Descriptors!Connects, Descriptors!Thrown,
     Descriptors!SSLConnect
<1>14. CASE Descriptors!SSLConnect(o) /\ Descriptors!Connect(o)
  BY <1>14, NumberFacts DEF Descriptors!Connect, Descriptors!Connects, Descriptors!SSLConnect
<1>15. CASE Descriptors!Destroyed(o) /\ Descriptors!FreeSSL(o)
  BY <1>15 DEF Descriptors!Destroyed, Descriptors!FreeSSL
<1> QED BY <1>2, <1>3, <1>4, <1>5, <1>6, <1>7, <1>8, <1>9, <1>10, <1>11, <1>12, <1>13, <1>14, <1>15,
           StepCases DEF Descriptors!SSLConnect

LEMMA NetStepKeeps == NetInv /\ Descriptors!Next => NetInv'
<1> SUFFICES ASSUME NetInv, Descriptors!Next PROVE NetInv'
  OBVIOUS
<1>1. ASSUME NEW o \in Descriptors!Objs, Descriptors!Step(o) PROVE NetInv'
  <2>0. Effect(o)
    BY <1>1, StepEffect
  <2>1. Descriptors!TypeOK'
    BY <1>1, <2>0, NetTyped, EffectTyped, StepPlaces, StepSecure
       DEF Descriptors!TypeOK, Tables, Handles, Calls
  <2>2. ASSUME NEW p \in Descriptors!Objs PROVE Owned(p)' /\ SocketOk(p)'
    <3>1. CASE p = o
      BY <1>1, <2>0, <3>1, EffectHere, StepPlaces DEF Owned
    <3>2. CASE p # o
      <4>1. handle'[p] \in FDs \cup {-1} /\ handle[p] \in FDs \cup {-1}
        BY <2>1, NetTyped DEF Descriptors!TypeOK, Handles
      <4>2. Owned(p)'
        <5>1. Owned(p) /\ p \in Descriptors!Objs \ {o}
          BY <3>2 DEF NetInv
        <5>2. handle'[p] = handle[p] /\ (p \in exists => p \in exists')
          BY <1>1, <2>0, <5>1, EffectElsewhere, StepPlaces
        <5>3. handle[p] # -1 /\ (table[handle[p]] = p \/ p \in stale)
                => table'[handle[p]] = p \/ p \in stale'
          BY <2>0, <4>1, <5>1, EffectElsewhere
        <5> QED BY <5>1, <5>2, <5>3 DEF Owned
      <4>3. SocketOk(p)'
        <5>1. SocketOk(p) /\ p \in Descriptors!Objs \ {o}
          BY <3>2 DEF NetInv
        <5>2. handle'[p] = handle[p] /\ pc'[p] = pc[p] /\ (p \in exists => p \in exists')
          BY <1>1, <2>0, <5>1, EffectElsewhere, StepPlaces
        <5> QED BY <5>1, <5>2 DEF SocketOk
      <4> QED BY <4>2, <4>3
    <3> QED BY <3>1, <3>2
  <2>3. ASSUME NEW f \in FDs, NEW p \in Descriptors!Objs, table'[f] = p
        PROVE  p \in exists' /\ handle'[p] = f
    <3>1. CASE p = o
      BY <1>1, <2>0, <2>3, <3>1, EffectHere, StepPlaces, NumberFacts
    <3>2. CASE p # o
      BY <1>1, <2>0, <2>3, <3>2, EffectElsewhere, StepPlaces DEF Used, NetInv
    <3> QED BY <3>1, <3>2
  <2>4. ASSUME NEW p \in SSLSockets PROVE OnHandle(p)' /\ SSLOk(p)'
    <3>1. CASE p = o
      BY <1>1, <3>1, StepSecure
    <3>2. CASE p # o
      <4>1. p \in Descriptors!Objs \ {o} /\ OnHandle(p) /\ SSLOk(p)
        BY <3>2, NumberFacts DEF NetInv
      <4>2. OnHandle(p)'
        BY <1>1, <2>0, <4>1, EffectElsewhere, StepSecure DEF OnHandle
      <4>3. SSLOk(p)'
        BY <1>1, <4>1, StepPlaces, StepSecure DEF SSLOk
      <4> QED BY <4>2, <4>3
    <3> QED BY <3>1, <3>2
  <2> QED BY <2>1, <2>2, <2>3, <2>4 DEF NetInv, Used
<1>2. CASE Descriptors!OtherStep
  <2>0. UNCHANGED <<exists, handle, ignores, pc, stale, c_ssl, moved>>
    BY <1>2 DEF Descriptors!OtherStep, Descriptors!base, Descriptors!secure
  <2>1. /\ table' \in Tables
        /\ \A f \in FDs, p \in Descriptors!Objs : table'[f] = p <=> table[f] = p
    BY <1>2, NetTyped, LowestFree, NumberFacts DEF Descriptors!OtherStep, Descriptors!OtherOpens,
       Descriptors!OtherCloses, Descriptors!Opened, Descriptors!Released, Tables
  <2>2. Descriptors!TypeOK'
    BY <2>0, <2>1 DEF NetInv, Descriptors!TypeOK, Tables
  <2>3. \A p \in Descriptors!Objs : Owned(p)' /\ SocketOk(p)'
    BY <2>0, <2>1, NetTyped DEF NetInv, Owned, SocketOk, Handles
  <2>4. \A f \in FDs : Used(f)'
    BY <2>0, <2>1 DEF NetInv, Used
  <2>5. \A p \in SSLSockets : OnHandle(p)' /\ SSLOk(p)'
    BY <2>0 DEF NetInv, OnHandle, SSLOk
  <2> QED BY <2>2, <2>3, <2>4, <2>5 DEF NetInv
<1> QED BY <1>1, <1>2 DEF Descriptors!Next

LEMMA NetStutter == NetInv /\ UNCHANGED netvars => NetInv'
<1> SUFFICES ASSUME NetInv, UNCHANGED netvars PROVE NetInv'
  OBVIOUS
<1>1. Descriptors!TypeOK'
  BY DEF NetInv, netvars, Descriptors!TypeOK
<1>2. \A o \in Descriptors!Objs : Owned(o)' /\ SocketOk(o)'
  BY DEF NetInv, netvars, Owned, SocketOk
<1>3. \A f \in FDs : Used(f)'
  BY DEF NetInv, netvars, Used
<1>4. \A o \in SSLSockets : OnHandle(o)' /\ SSLOk(o)'
  BY DEF NetInv, netvars, OnHandle, SSLOk
<1> QED BY <1>1, <1>2, <1>3, <1>4 DEF NetInv

\* Whatever opens and closes descriptors in the process, and however a
\* constructor, a connect(), an accept() or a close() ends: no number is another
\* object's but after a close() that reported an error, none is left open by an
\* object that is gone, and an SSL structure works on its socket's
\* (Socket.cpp:229-388, ServerSocket.cpp:51-242, SSLSocket.cpp:84-234).
THEOREM DescriptorsOwnedHolds == MCSpec => []DescriptorsOwned
<1> DEFINE all == <<part, vars, netvars, authvars, servevars, respvars>>
<1>1. NetInv /\ [MCNext]_all => NetInv'
  <2> SUFFICES ASSUME NetInv, [MCNext]_all PROVE NetInv'
    OBVIOUS
  <2>1. CASE NetStep
    BY <2>1, NetStepKeeps DEF NetStep
  <2>2. CASE ~NetStep
    <3>1. UNCHANGED netvars
      BY <2>2 DEF MCNext, RMIStep, AuthStep, ServeStep, ResponseStep
    <3> QED BY <3>1, NetStutter
  <2> QED BY <2>1, <2>2
<1>2. MCSpec => []NetInv
  BY NetInit, <1>1, PTL DEF MCSpec
<1> QED BY <1>2, NetInvOwns, PTL

-----------------------------------------------------------------------------
(* The authentication *)

Pieces == {"challenge", "cookie", "signature", "ok", "no"} \X {1, 2} \X Nat

Challenge(p) == p[1] = "challenge"
OkEnd(p) == p[1] = "ok" /\ p[2] = 2
Signature(p) == p[1] = "signature"
Later(p, q) == p[3] < q[3] \/ (p[3] = q[3] /\ p[2] = 1 /\ q[2] = 2)

\* What is under way to the confirming end: pieces of challenges up to n in their
\* order, and no end of an "ok" behind any of them.
ChannelOk(c, n) ==
  /\ \A i \in 1..Len(c) : Challenge(c[i]) => c[i][3] <= n
  /\ \A i, j \in 1..Len(c) :
       i < j /\ Challenge(c[i]) => ~OkEnd(c[j]) /\ (Challenge(c[j]) => Later(c[i], c[j]))
NoChallenge(c) == \A i \in 1..Len(c) : ~Challenge(c[i])
NoOk(c) == \A i \in 1..Len(c) : ~OkEnd(c[i])

AuthTyped ==
  /\ toC \in Seq(Pieces) /\ toR \in Seq(Pieces) /\ challenge \in Nat /\ signed \in Nat

\* A signature of the challenge that is waited for is that of the last one the
\* other end signed, and nothing it could sign is under way behind it.
SignatureOk(p) ==
  Signature(p) =>
    /\ p[3] \in signatures /\ p[3] <= challenge
    /\ rpc # "idle" /\ p[3] = challenge => signed = challenge

AuthInv ==
  /\ AuthTyped
  /\ ChannelOk(toC, challenge)
  /\ signed <= challenge
  /\ rpc # "idle" => challenge > 0 /\ (signed = challenge => NoChallenge(toC))
  /\ \A i \in 1..Len(toR) : SignatureOk(toR[i])
  /\ authcpc # "idle" => signed \in signatures
  /\ NoOk(toC) \/ signed \in accepted
  /\ AuthAgrees

LEMMA JoinFacts ==
  ASSUME NEW S, NEW c \in Seq(S), NEW m \in Seq(S)
  PROVE  /\ c \o m \in Seq(S) /\ Len(c \o m) = Len(c) + Len(m)
         /\ \A i \in 1..Len(c \o m) :
              \/ i \in 1..Len(c) /\ (c \o m)[i] = c[i]
              \/ i - Len(c) \in 1..Len(m) /\ (c \o m)[i] = m[i - Len(c)]
OBVIOUS

\* read() gives the first one or two pieces and leaves the others.
LEMMA ReadFacts ==
  ASSUME NEW c \in Seq(Pieces), NEW got \in Auth!Arrived(c)
  PROVE  \E k \in {1, 2} :
           /\ k <= Len(c) /\ Len(got) = k /\ got[1] = c[1] /\ (k = 2 => got[2] = c[2])
           /\ Auth!Rest(c, got) \in Seq(Pieces) /\ Len(Auth!Rest(c, got)) = Len(c) - k
           /\ \A i \in 1..(Len(c) - k) : Auth!Rest(c, got)[i] = c[k + i]
<1>1. PICK k \in 1 .. (IF Len(c) < 2 THEN Len(c) ELSE 2) : got = SubSeq(c, 1, k)
  BY DEF Auth!Arrived
<1>2. k \in {1, 2} /\ k <= Len(c) /\ Len(c) \in Nat
  BY <1>1
<1>3. Len(got) = k /\ got[1] = c[1] /\ (k = 2 => got[2] = c[2])
  BY <1>1, <1>2
<1>4. /\ SubSeq(c, k + 1, Len(c)) \in Seq(Pieces) /\ Len(SubSeq(c, k + 1, Len(c))) = Len(c) - k
      /\ \A i \in 1..(Len(c) - k) : SubSeq(c, k + 1, Len(c))[i] = c[k + i]
  BY <1>2
<1> QED BY <1>2, <1>3, <1>4 DEF Auth!Rest

LEMMA ChannelRead ==
  ASSUME NEW c \in Seq(Pieces), NEW n \in Nat, ChannelOk(c, n), NEW got \in Auth!Arrived(c)
  PROVE  /\ Auth!Rest(c, got) \in Seq(Pieces) /\ ChannelOk(Auth!Rest(c, got), n)
         /\ NoChallenge(c) => NoChallenge(Auth!Rest(c, got))
         /\ NoOk(c) => NoOk(Auth!Rest(c, got))
         /\ Challenge(got[1]) => NoOk(Auth!Rest(c, got)) /\ ~NoChallenge(c)
         /\ got = Auth!Message("challenge", n) => NoChallenge(Auth!Rest(c, got))
         /\ got = Auth!Message("ok", 0) => ~NoOk(c)
<1> DEFINE d == Auth!Rest(c, got)
<1>1. PICK k \in {1, 2} : /\ k <= Len(c) /\ Len(got) = k /\ got[1] = c[1] /\ (k = 2 => got[2] = c[2])
                          /\ d \in Seq(Pieces) /\ Len(d) = Len(c) - k
                          /\ \A i \in 1..(Len(c) - k) : d[i] = c[k + i]
  BY ReadFacts
<1> HIDE DEF d
<1>2. ASSUME NEW i \in 1..Len(d) PROVE k + i \in 1..Len(c) /\ k + i > k /\ d[i] = c[k + i] /\ i \in Nat
  BY <1>1
<1>3. ChannelOk(d, n)
  <2>1. ASSUME NEW i \in 1..Len(d), Challenge(d[i]) PROVE d[i][3] <= n
    BY <1>2, <2>1 DEF ChannelOk
  <2>2. ASSUME NEW i \in 1..Len(d), NEW j \in 1..Len(d), i < j, Challenge(d[i])
        PROVE  ~OkEnd(d[j]) /\ (Challenge(d[j]) => Later(d[i], d[j]))
    <3>1. k + i < k + j
      BY <1>2, <2>2
    <3> QED BY <1>2, <2>2, <3>1 DEF ChannelOk
  <2> QED BY <2>1, <2>2 DEF ChannelOk
<1>4. (NoChallenge(c) => NoChallenge(d)) /\ (NoOk(c) => NoOk(d))
  BY <1>2 DEF NoChallenge, NoOk
<1>5. 1 \in 1..Len(c) /\ \A i \in 1..Len(d) : 1 < k + i
  BY <1>1, <1>2
<1>6. Challenge(got[1]) => NoOk(d) /\ ~NoChallenge(c)
  BY <1>1, <1>2, <1>5 DEF ChannelOk, NoOk, NoChallenge
<1>7. ASSUME got = Auth!Message("challenge", n) PROVE NoChallenge(d)
  <2>1. k = 2 /\ got[2] = <<"challenge", 2, n>>
    BY <1>1, <1>7 DEF Auth!Message
  <2>2. 2 \in 1..Len(c) /\ c[2][1] = "challenge" /\ c[2][2] = 2 /\ c[2][3] = n
    BY <1>1, <2>1
  <2>3. ASSUME NEW i \in 1..Len(d), Challenge(d[i]) PROVE FALSE
    <3>1. k + i \in 1..Len(c) /\ 2 < k + i /\ Challenge(c[k + i])
      BY <1>2, <2>1, <2>3
    <3>2. Later(c[2], c[k + i]) /\ c[k + i][3] <= n
      BY <2>2, <3>1 DEF ChannelOk, Challenge
    <3>3. c[k + i][3] \in Nat
      BY <3>1 DEF Pieces
    <3> QED BY <2>2, <3>2, <3>3 DEF Later
  <2> QED BY <2>3 DEF NoChallenge
<1>8. ASSUME got = Auth!Message("ok", 0) PROVE ~NoOk(c)
  <2>1. k = 2 /\ got[2] = <<"ok", 2, 0>>
    BY <1>1, <1>8 DEF Auth!Message
  <2>2. 2 \in 1..Len(c) /\ OkEnd(c[2])
    BY <1>1, <2>1 DEF OkEnd
  <2> QED BY <2>2 DEF NoOk
<1> QED BY <1>1, <1>3, <1>4, <1>6, <1>7, <1>8 DEF d

LEMMA ChannelWrite ==
  ASSUME NEW c \in Seq(Pieces), NEW m \in Seq(Pieces), NEW n \in Nat, NEW n2 \in Nat, n <= n2,
         ChannelOk(c, n), ChannelOk(m, n2),
         \A i \in 1..Len(c), j \in 1..Len(m) :
           Challenge(c[i]) => ~OkEnd(m[j]) /\ (Challenge(m[j]) => Later(c[i], m[j]))
  PROVE  /\ c \o m \in Seq(Pieces) /\ ChannelOk(c \o m, n2)
         /\ NoChallenge(c) /\ NoChallenge(m) => NoChallenge(c \o m)
         /\ NoOk(c) /\ NoOk(m) => NoOk(c \o m)
<1> DEFINE d == c \o m
<1>1. /\ d \in Seq(Pieces) /\ Len(d) = Len(c) + Len(m) /\ Len(c) \in Nat /\ Len(m) \in Nat
      /\ \A i \in 1..Len(d) : \/ i \in 1..Len(c) /\ d[i] = c[i]
                              \/ i - Len(c) \in 1..Len(m) /\ d[i] = m[i - Len(c)]
  BY JoinFacts
<1> HIDE DEF d
<1>2. ASSUME NEW i \in 1..Len(d), Challenge(d[i]) PROVE d[i][3] <= n2
  <2>1. CASE i \in 1..Len(c) /\ d[i] = c[i]
    <3>1. c[i][3] \in Nat /\ c[i][3] <= n
      BY <1>2, <2>1 DEF Pieces, ChannelOk
    <3> QED BY <2>1, <3>1
  <2>2. CASE i - Len(c) \in 1..Len(m) /\ d[i] = m[i - Len(c)]
    BY <1>2, <2>2 DEF ChannelOk
  <2> QED BY <1>1, <2>1, <2>2
<1>3. ASSUME NEW i \in 1..Len(d), NEW j \in 1..Len(d), i < j, Challenge(d[i])
      PROVE  ~OkEnd(d[j]) /\ (Challenge(d[j]) => Later(d[i], d[j]))
  <2>1. CASE i \in 1..Len(c) /\ d[i] = c[i] /\ j \in 1..Len(c) /\ d[j] = c[j]
    BY <1>3, <2>1 DEF ChannelOk
  <2>2. CASE i \in 1..Len(c) /\ d[i] = c[i] /\ j - Len(c) \in 1..Len(m) /\ d[j] = m[j - Len(c)]
    BY <1>3, <2>2
  <2>3. CASE /\ i - Len(c) \in 1..Len(m) /\ d[i] = m[i - Len(c)]
             /\ j - Len(c) \in 1..Len(m) /\ d[j] = m[j - Len(c)]
    <3>1. i - Len(c) < j - Len(c)
      BY <1>1, <1>3
    <3> QED BY <1>3, <2>3, <3>1 DEF ChannelOk
  <2>4. ~(i - Len(c) \in 1..Len(m) /\ j \in 1..Len(c))
    BY <1>1, <1>3
  <2> QED BY <1>1, <2>1, <2>2, <2>3, <2>4
<1>4. ChannelOk(d, n2)
  BY <1>2, <1>3 DEF ChannelOk
<1>5. NoChallenge(c) /\ NoChallenge(m) => NoChallenge(d)
  BY <1>1 DEF NoChallenge
<1>6. NoOk(c) /\ NoOk(m) => NoOk(d)
  BY <1>1 DEF NoOk
<1> QED BY <1>1, <1>4, <1>5, <1>6 DEF d

\* What may be written of a message is at most two of its pieces.
LEMMA WrittenFacts ==
  ASSUME NEW name \in {"challenge", "cookie", "signature", "ok", "no"}, NEW n \in Nat,
         NEW m, m = Auth!Message(name, n) \/ m \in Auth!Part(Auth!Message(name, n))
  PROVE  /\ m \in Seq(Pieces) /\ Len(m) \in 0..2
         /\ \A i \in 1..Len(m) : m[i][1] = name /\ m[i][2] = i /\ m[i][3] = n
<1>1. <<name, 1, n>> \in Pieces /\ <<name, 2, n>> \in Pieces
  BY DEF Pieces
<1>2. m \in {<<<<name, 1, n>>, <<name, 2, n>>>>, <<<<name, 1, n>>>>, <<>>}
  BY DEF Auth!Message, Auth!Part
<1>3. CASE m = <<<<name, 1, n>>, <<name, 2, n>>>>
  BY <1>1, <1>3
<1>4. CASE m = <<<<name, 1, n>>>>
  BY <1>1, <1>4
<1>5. CASE m = <<>>
  BY <1>5
<1> QED BY <1>2, <1>3, <1>4, <1>5

LEMMA ChannelChallenge ==
  ASSUME NEW c \in Seq(Pieces), NEW n \in Nat, ChannelOk(c, n),
         NEW m, \/ m = Auth!Message("challenge", n + 1)
                \/ m \in Auth!Part(Auth!Message("challenge", n + 1))
  PROVE  c \o m \in Seq(Pieces) /\ ChannelOk(c \o m, n + 1) /\ (NoOk(c) => NoOk(c \o m))
<1>1. /\ m \in Seq(Pieces) /\ Len(m) \in 0..2 /\ n + 1 \in Nat
      /\ \A i \in 1..Len(m) : m[i][1] = "challenge" /\ m[i][2] = i /\ m[i][3] = n + 1
  BY WrittenFacts
<1>2. ChannelOk(m, n + 1)
  BY <1>1 DEF ChannelOk, OkEnd, Challenge, Later
<1>3. ASSUME NEW i \in 1..Len(c), NEW j \in 1..Len(m), Challenge(c[i])
      PROVE  ~OkEnd(m[j]) /\ Later(c[i], m[j])
  <2>1. c[i][3] \in Nat /\ c[i][3] <= n
    BY <1>3 DEF Pieces, ChannelOk
  <2>2. c[i][3] < n + 1
    BY <2>1
  <2> QED BY <1>1, <2>2 DEF OkEnd, Later
<1>4. NoOk(m)
  BY <1>1 DEF NoOk, OkEnd
<1> QED BY <1>1, <1>2, <1>3, <1>4, ChannelWrite

LEMMA ChannelAnswer ==
  ASSUME NEW c \in Seq(Pieces), NEW n \in Nat, ChannelOk(c, n), NEW name \in {"ok", "no"},
         NEW m, m = Auth!Message(name, 0) \/ m \in Auth!Part(Auth!Message(name, 0)),
         NoChallenge(c) \/ name = "no" \/ m \in Auth!Part(Auth!Message(name, 0))
  PROVE  /\ c \o m \in Seq(Pieces) /\ ChannelOk(c \o m, n)
         /\ NoChallenge(c) => NoChallenge(c \o m)
         /\ name = "no" \/ m \in Auth!Part(Auth!Message(name, 0)) => (NoOk(c) => NoOk(c \o m))
<1>1. /\ m \in Seq(Pieces) /\ Len(m) \in 0..2
      /\ \A i \in 1..Len(m) : m[i][1] = name /\ m[i][2] = i /\ m[i][3] = 0
  BY WrittenFacts
<1>2. ChannelOk(m, n) /\ NoChallenge(m)
  BY <1>1 DEF ChannelOk, NoChallenge, Challenge
<1>3. ASSUME name = "no" \/ m \in Auth!Part(Auth!Message(name, 0)) PROVE NoOk(m)
  <2>1. CASE name = "no"
    BY <1>1, <2>1 DEF NoOk, OkEnd
  <2>2. CASE m \in Auth!Part(Auth!Message(name, 0))
    <3>1. Len(m) < 2
      <4>1. m = <<>> \/ \E x : m = <<x>>
        BY <2>2 DEF Auth!Part
      <4>2. CASE m = <<>>
        BY <4>2
      <4>3. CASE \E x : m = <<x>>
        BY <4>3
      <4> QED BY <4>1, <4>2, <4>3
    <3> QED BY <1>1, <3>1 DEF NoOk, OkEnd
  <2> QED BY <1>3, <2>1, <2>2
<1>4. \A i \in 1..Len(c), j \in 1..Len(m) :
        Challenge(c[i]) => ~OkEnd(m[j]) /\ (Challenge(m[j]) => Later(c[i], m[j]))
  BY <1>2, <1>3 DEF NoChallenge, NoOk
<1> QED BY <1>1, <1>2, <1>3, <1>4, ChannelWrite

LEMMA AuthInit == MCInit => AuthInv
<1> SUFFICES ASSUME MCInit PROVE AuthInv
  OBVIOUS
<1>1. /\ toC = <<>> /\ toR = <<>> /\ rpc = "idle" /\ authcpc = "idle" /\ challenge = 0 /\ signed = 0
      /\ signatures = {} /\ accepted = {} /\ confirmed = {}
  BY DEF MCInit, Auth!AuthInit
<1>2. AuthAgrees
  BY <1>1 DEF AuthAgrees, Auth!AuthAgrees
<1>3. AuthTyped
  BY <1>1 DEF AuthTyped
<1> QED BY <1>1, <1>2, <1>3 DEF AuthInv, ChannelOk, NoOk, SignatureOk

\* The pieces of signatures that stay are those of challenges as before.
LEMMA SignaturesKept ==
  ASSUME AuthInv, toR' = toR \/ \E got \in Auth!Arrived(toR) : toR' = Auth!Rest(toR, got),
         UNCHANGED <<challenge, signed, signatures>>, rpc' # "idle" => rpc # "idle"
  PROVE  toR' \in Seq(Pieces) /\ \A i \in 1..Len(toR') : SignatureOk(toR[i])'
<1>1. \A p : SignatureOk(p) => SignatureOk(p)'
  BY DEF SignatureOk
<1>2. toR \in Seq(Pieces) /\ Len(toR) \in Nat
  BY DEF AuthInv, AuthTyped
<1>3. toR' \in Seq(Pieces) /\ \A i \in 1..Len(toR') : \E j \in 1..Len(toR) : toR'[i] = toR[j]
  <2>1. CASE toR' = toR
    BY <1>2, <2>1
  <2>2. ASSUME NEW got \in Auth!Arrived(toR), toR' = Auth!Rest(toR, got)
        PROVE  toR' \in Seq(Pieces) /\ \A i \in 1..Len(toR') : \E j \in 1..Len(toR) : toR'[i] = toR[j]
    <3>1. PICK k \in {1, 2} : /\ k <= Len(toR) /\ toR' \in Seq(Pieces) /\ Len(toR') = Len(toR) - k
                              /\ \A i \in 1..(Len(toR) - k) : toR'[i] = toR[k + i]
      BY <1>2, <2>2, ReadFacts
    <3>2. ASSUME NEW i \in 1..Len(toR') PROVE k + i \in 1..Len(toR) /\ toR'[i] = toR[k + i]
      BY <1>2, <3>1
    <3> QED BY <3>1, <3>2
  <2> QED BY <2>1, <2>2
<1>4. ASSUME NEW i \in 1..Len(toR'), NEW p, p = toR'[i] PROVE SignatureOk(p)'
  BY <1>1, <1>3, <1>4 DEF AuthInv
<1> QED BY <1>3, <1>4 DEF SignatureOk

\* An exception at the requesting end, or a piece of an answer read there.
LEMMA RReadsKeeps ==
  AuthInv /\ (Auth!RReadsCookie \/ Auth!RReadsShort \/ Auth!RInterrupted) => AuthInv'
<1> SUFFICES ASSUME AuthInv, Auth!RReadsCookie \/ Auth!RReadsShort \/ Auth!RInterrupted PROVE AuthInv'
  OBVIOUS
<1>1. /\ UNCHANGED <<toC, authcpc, goodkey, challenge, signed, signatures, accepted, confirmed>>
      /\ rpc' # "idle" => rpc # "idle"
      /\ toR' = toR \/ \E got \in Auth!Arrived(toR) : toR' = Auth!Rest(toR, got)
  BY DEF Auth!RReadsCookie, Auth!RReadsShort, Auth!RInterrupted, Auth!RThrows, Auth!history
<1>2. toR' \in Seq(Pieces) /\ \A i \in 1..Len(toR') : SignatureOk(toR[i])'
  BY <1>1, SignaturesKept
<1>3. AuthTyped' /\ AuthAgrees'
  BY <1>1, <1>2 DEF AuthInv, AuthTyped, AuthAgrees, Auth!AuthAgrees
<1> QED BY <1>1, <1>2, <1>3 DEF AuthInv, ChannelOk, NoChallenge, NoOk

LEMMA RSendKeeps == AuthInv /\ Auth!RSend => AuthInv'
<1> SUFFICES ASSUME AuthInv, Auth!RSend PROVE AuthInv'
  OBVIOUS
<1>0. AuthTyped /\ ChannelOk(toC, challenge) /\ signed <= challenge
  BY DEF AuthInv
<1>1. PICK m : /\ toC' = toC \o m
               /\ \/ m = Auth!Message("challenge", challenge + 1)
                  \/ m \in Auth!Part(Auth!Message("challenge", challenge + 1))
  BY DEF Auth!RSend
<1>2. /\ challenge' = challenge + 1
      /\ UNCHANGED <<toR, authcpc, goodkey, signed, signatures, accepted, confirmed>>
  BY DEF Auth!RSend, Auth!history
<1>3. toC' \in Seq(Pieces) /\ ChannelOk(toC', challenge') /\ (NoOk(toC) => NoOk(toC'))
  BY <1>0, <1>1, <1>2, ChannelChallenge DEF AuthTyped
<1>4. AuthTyped' /\ AuthAgrees'
  BY <1>0, <1>2, <1>3 DEF AuthInv, AuthTyped, AuthAgrees, Auth!AuthAgrees
<1>5. challenge' > 0 /\ signed < challenge'
  BY <1>0, <1>2 DEF AuthTyped
<1>6. ASSUME NEW i \in 1..Len(toR), NEW p, p = toR[i] PROVE SignatureOk(p)'
  <2>1. SignatureOk(p) /\ p[3] \in Nat
    BY <1>0, <1>6 DEF AuthInv, AuthTyped, Pieces
  <2>2. p[3] <= challenge => p[3] < challenge' /\ p[3] <= challenge'
    BY <1>0, <1>2, <2>1 DEF AuthTyped
  <2>3. p[3] < challenge' => p[3] # challenge'
    BY <1>0, <1>2, <2>1 DEF AuthTyped
  <2> QED BY <1>2, <2>1, <2>2, <2>3 DEF SignatureOk
<1>7. \A i \in 1..Len(toR') : SignatureOk(toR[i])'
  BY <1>2, <1>6 DEF SignatureOk
<1>8. signed' <= challenge' /\ signed' # challenge'
  BY <1>0, <1>2, <1>5 DEF AuthTyped
<1> QED BY <1>2, <1>3, <1>4, <1>5, <1>7, <1>8 DEF AuthInv, ChannelOk, NoOk

\* The answer is "ok" only for the last challenge the other end signed, which
\* then has nothing before the "ok" that it could sign instead.
LEMMA RAnswersKeeps == AuthInv /\ Auth!RAnswers => AuthInv'
<1> SUFFICES ASSUME AuthInv, Auth!RAnswers PROVE AuthInv'
  OBVIOUS
<1>0. AuthTyped /\ ChannelOk(toC, challenge)
  BY DEF AuthInv
<1>1. PICK got \in Auth!Arrived(toR) :
        /\ ~Auth!Short(got) /\ toR' = Auth!Rest(toR, got)
        /\ \/ /\ toC' = toC \o Auth!Message(IF Auth!Verifies(got) THEN "ok" ELSE "no", 0)
              /\ accepted' = IF Auth!Verifies(got) THEN accepted \cup {challenge} ELSE accepted
           \/ /\ \E m \in Auth!Part(Auth!Message(IF Auth!Verifies(got) THEN "ok" ELSE "no", 0)) :
                   toC' = toC \o m
              /\ UNCHANGED accepted
  BY DEF Auth!RAnswers
<1>2. /\ rpc = "signature" /\ rpc' = "idle"
      /\ UNCHANGED <<goodkey, authcpc, challenge, signed, signatures, confirmed>>
  BY DEF Auth!RAnswers
<1>3. Auth!Verifies(got) =>
        /\ goodkey /\ NoChallenge(toC) /\ signed = challenge /\ challenge \in signatures
  <2>1. SUFFICES ASSUME Auth!Verifies(got)
                 PROVE  /\ goodkey /\ NoChallenge(toC) /\ signed = challenge
                        /\ challenge \in signatures
    OBVIOUS
  <2>2. 1 \in 1..Len(toR) /\ toR[1] = got[1]
    <3>1. \E k \in {1, 2} : k <= Len(toR) /\ got[1] = toR[1]
      BY <1>0, ReadFacts DEF AuthTyped
    <3>2. Len(toR) \in Nat
      BY <1>0 DEF AuthTyped
    <3> QED BY <3>1, <3>2
  <2>3. toR[1] = <<"signature", 1, challenge>>
    BY <2>1, <2>2 DEF Auth!Verifies, Auth!Message
  <2>4. Signature(toR[1]) /\ toR[1][3] = challenge /\ SignatureOk(toR[1])
    BY <2>2, <2>3 DEF AuthInv, Signature
  <2>5. signed = challenge /\ challenge \in signatures
    BY <1>2, <2>4 DEF SignatureOk
  <2> QED BY <1>2, <2>1, <2>5 DEF AuthInv, Auth!Verifies
<1>4. toR' \in Seq(Pieces) /\ \A i \in 1..Len(toR') : SignatureOk(toR[i])'
  BY <1>1, <1>2, SignaturesKept
<1>5. ASSUME NEW m \in Auth!Part(Auth!Message(IF Auth!Verifies(got) THEN "ok" ELSE "no", 0)),
             toC' = toC \o m, accepted' = accepted
      PROVE  /\ toC' \in Seq(Pieces) /\ ChannelOk(toC', challenge)
             /\ (NoOk(toC') \/ signed \in accepted') /\ AuthAgrees'
  <2>1. PICK name \in {"ok", "no"} : m \in Auth!Part(Auth!Message(name, 0))
    BY <1>5
  <2>2. toC' \in Seq(Pieces) /\ ChannelOk(toC', challenge) /\ (NoOk(toC) => NoOk(toC'))
    BY <1>0, <1>5, <2>1, ChannelAnswer DEF AuthTyped
  <2>3. AuthAgrees'
    BY <1>2, <1>5 DEF AuthInv, AuthAgrees, Auth!AuthAgrees
  <2>4. NoOk(toC') \/ signed \in accepted'
    BY <1>5, <2>2 DEF AuthInv
  <2> QED BY <2>2, <2>3, <2>4
<1>6. ASSUME Auth!Verifies(got), toC' = toC \o Auth!Message("ok", 0),
             accepted' = accepted \cup {challenge}
      PROVE  /\ toC' \in Seq(Pieces) /\ ChannelOk(toC', challenge)
             /\ (NoOk(toC') \/ signed \in accepted') /\ AuthAgrees'
  <2>1. toC' \in Seq(Pieces) /\ ChannelOk(toC', challenge)
    BY <1>0, <1>3, <1>6, ChannelAnswer DEF AuthTyped
  <2>2. AuthAgrees'
    BY <1>2, <1>3, <1>6 DEF AuthInv, AuthAgrees, Auth!AuthAgrees
  <2>3. signed \in accepted'
    BY <1>3, <1>6
  <2> QED BY <2>1, <2>2, <2>3
<1>7. ASSUME toC' = toC \o Auth!Message("no", 0), accepted' = accepted
      PROVE  /\ toC' \in Seq(Pieces) /\ ChannelOk(toC', challenge)
             /\ (NoOk(toC') \/ signed \in accepted') /\ AuthAgrees'
  <2>1. toC' \in Seq(Pieces) /\ ChannelOk(toC', challenge) /\ (NoOk(toC) => NoOk(toC'))
    BY <1>0, <1>7, ChannelAnswer DEF AuthTyped
  <2>2. AuthAgrees'
    BY <1>2, <1>7 DEF AuthInv, AuthAgrees, Auth!AuthAgrees
  <2>3. NoOk(toC') \/ signed \in accepted'
    BY <1>7, <2>1 DEF AuthInv
  <2> QED BY <2>1, <2>2, <2>3
<1>8. /\ toC' \in Seq(Pieces) /\ ChannelOk(toC', challenge)
      /\ (NoOk(toC') \/ signed \in accepted') /\ AuthAgrees'
  <2>1. CASE \E m \in Auth!Part(Auth!Message(IF Auth!Verifies(got) THEN "ok" ELSE "no", 0)) :
               toC' = toC \o m /\ accepted' = accepted
    BY <1>5, <2>1
  <2>2. CASE /\ toC' = toC \o Auth!Message(IF Auth!Verifies(got) THEN "ok" ELSE "no", 0)
             /\ accepted' = IF Auth!Verifies(got) THEN accepted \cup {challenge} ELSE accepted
    <3>1. CASE Auth!Verifies(got)
      BY <1>6, <2>2, <3>1
    <3>2. CASE ~Auth!Verifies(got)
      BY <1>7, <2>2, <3>2
    <3> QED BY <3>1, <3>2
  <2> QED BY <1>1, <2>1, <2>2
<1> QED BY <1>0, <1>2, <1>4, <1>8 DEF AuthInv, AuthTyped, ChannelOk, NoOk

LEMMA CReadsKeeps == AuthInv /\ (Auth!CReadsAnswer \/ Auth!CInterrupted) => AuthInv'
<1> SUFFICES ASSUME AuthInv, Auth!CReadsAnswer \/ Auth!CInterrupted PROVE AuthInv'
  OBVIOUS
<1>0. AuthTyped /\ ChannelOk(toC, challenge)
  BY DEF AuthInv
<1>1. /\ UNCHANGED <<toR, rpc, goodkey, challenge, signed, signatures, accepted>>
      /\ authcpc' = "idle"
  BY DEF Auth!CReadsAnswer, Auth!CInterrupted, Auth!CThrows, Auth!history
<1>2. \/ toC' = toC /\ confirmed' = confirmed
      \/ \E got \in Auth!Arrived(toC) :
           /\ toC' = Auth!Rest(toC, got)
           /\ confirmed' = confirmed \/ (got = Auth!Message("ok", 0) /\ confirmed' = confirmed \cup {signed})
  BY DEF Auth!CReadsAnswer, Auth!CInterrupted, Auth!CThrows, Auth!history
<1>3. /\ toC' \in Seq(Pieces) /\ ChannelOk(toC', challenge)
      /\ (NoChallenge(toC) => NoChallenge(toC')) /\ (NoOk(toC) => NoOk(toC'))
      /\ confirmed' = confirmed \/ (~NoOk(toC) /\ confirmed' = confirmed \cup {signed})
  BY <1>0, <1>2, ChannelRead DEF AuthTyped
<1>4. AuthAgrees'
  BY <1>1, <1>3 DEF AuthInv, AuthAgrees, Auth!AuthAgrees
<1>5. \A i \in 1..Len(toR') : SignatureOk(toR[i])'
  BY <1>1 DEF AuthInv, SignatureOk
<1> QED BY <1>0, <1>1, <1>3, <1>4, <1>5 DEF AuthInv, AuthTyped, ChannelOk, NoChallenge, NoOk

LEMMA CSignsKeeps == AuthInv /\ Auth!CSigns => AuthInv'
<1> SUFFICES ASSUME AuthInv, Auth!CSigns PROVE AuthInv'
  OBVIOUS
<1>0. AuthTyped /\ ChannelOk(toC, challenge) /\ signed <= challenge
  BY DEF AuthInv
<1>1. UNCHANGED <<toR, rpc, goodkey, challenge, accepted, confirmed>> /\ authcpc = "idle"
  BY DEF Auth!CSigns, Auth!CThrows, Auth!history
<1>2. PICK got \in Auth!Arrived(toC) :
        /\ toC' = Auth!Rest(toC, got)
        /\ \/ UNCHANGED <<signed, signatures>> /\ authcpc' = "idle"
           \/ /\ Auth!Begins(got, "challenge")
              /\ signed' = IF got = Auth!Message("challenge", got[1][3]) THEN got[1][3] ELSE 0
              /\ signatures' = signatures \cup {signed'}
  BY DEF Auth!CSigns, Auth!CThrows, Auth!history
<1>3. /\ toC' \in Seq(Pieces) /\ ChannelOk(toC', challenge)
      /\ (NoChallenge(toC) => NoChallenge(toC')) /\ (NoOk(toC) => NoOk(toC'))
      /\ Challenge(got[1]) => NoOk(toC') /\ ~NoChallenge(toC)
      /\ got = Auth!Message("challenge", challenge) => NoChallenge(toC')
  BY <1>0, <1>2, ChannelRead DEF AuthTyped
<1>4. CASE UNCHANGED <<signed, signatures>> /\ authcpc' = "idle"
  <2>1. \A i \in 1..Len(toR') : SignatureOk(toR[i])'
    BY <1>1, <1>4 DEF AuthInv, SignatureOk
  <2>2. AuthAgrees'
    BY <1>1, <1>4 DEF AuthInv, AuthAgrees, Auth!AuthAgrees
  <2> QED BY <1>0, <1>1, <1>3, <1>4, <2>1, <2>2 DEF AuthInv, AuthTyped, ChannelOk, NoChallenge, NoOk
<1>5. CASE /\ Auth!Begins(got, "challenge")
           /\ signed' = IF got = Auth!Message("challenge", got[1][3]) THEN got[1][3] ELSE 0
           /\ signatures' = signatures \cup {signed'}
  <2>1. Challenge(got[1]) /\ NoOk(toC') /\ ~NoChallenge(toC)
    BY <1>3, <1>5 DEF Auth!Begins, Challenge
  <2>2. got[1][3] \in Nat /\ got[1][3] <= challenge
    <3>1. 1 \in 1..Len(toC) /\ got[1] = toC[1]
      <4>1. \E k \in {1, 2} : k <= Len(toC) /\ got[1] = toC[1]
        BY <1>0, ReadFacts DEF AuthTyped
      <4>2. Len(toC) \in Nat
        BY <1>0 DEF AuthTyped
      <4> QED BY <4>1, <4>2
    <3> QED BY <1>0, <2>1, <3>1 DEF ChannelOk, AuthTyped, Pieces
  <2>3. signed' \in Nat /\ signed' <= challenge
    BY <1>0, <1>5, <2>2 DEF AuthTyped
  <2>4. rpc # "idle" /\ signed' = challenge => NoChallenge(toC')
    <3>1. rpc # "idle" => challenge > 0 /\ challenge # 0
      BY <1>0 DEF AuthInv, AuthTyped
    <3>2. rpc # "idle" /\ signed' = challenge => got = Auth!Message("challenge", challenge)
      BY <1>5, <3>1
    <3> QED BY <1>3, <3>2
  \* Nothing of the challenge that is waited for is signed yet.
  <2>5. ASSUME NEW i \in 1..Len(toR), NEW p, p = toR[i] PROVE SignatureOk(p)'
    <3>1. SignatureOk(p)
      BY <2>5 DEF AuthInv
    <3>2. rpc # "idle" => signed # challenge
      BY <2>1 DEF AuthInv
    <3> QED BY <1>1, <1>5, <3>1, <3>2 DEF SignatureOk
  <2>6. \A i \in 1..Len(toR') : SignatureOk(toR[i])'
    BY <1>1, <2>5 DEF SignatureOk
  <2>7. AuthAgrees'
    BY <1>1, <1>5 DEF AuthInv, AuthAgrees, Auth!AuthAgrees
  <2> QED BY <1>0, <1>1, <1>3, <1>5, <2>1, <2>3, <2>4, <2>6, <2>7
          DEF AuthInv, AuthTyped, ChannelOk, NoChallenge, NoOk
<1> QED BY <1>2, <1>4, <1>5

LEMMA CWritesKeeps == AuthInv /\ (Auth!CWritesCookie \/ Auth!CWritesSignature) => AuthInv'
<1> SUFFICES ASSUME AuthInv, Auth!CWritesCookie \/ Auth!CWritesSignature PROVE AuthInv'
  OBVIOUS
<1>0. AuthTyped /\ signed <= challenge
  BY DEF AuthInv
<1>1. /\ UNCHANGED <<toC, rpc, goodkey, challenge, signed, signatures, accepted, confirmed>>
      /\ authcpc # "idle"
  BY DEF Auth!CWritesCookie, Auth!CWritesSignature, Auth!CWrites, Auth!history
<1>2. PICK name, n, m :
        /\ name \in {"cookie", "signature"} /\ n \in {0, signed}
        /\ toR' = toR \o m /\ (name = "signature" => n = signed)
        /\ m = Auth!Message(name, n) \/ m \in Auth!Part(Auth!Message(name, n))
  BY DEF Auth!CWritesCookie, Auth!CWritesSignature, Auth!CWrites
<1>3. /\ m \in Seq(Pieces) /\ \A i \in 1..Len(m) : m[i][1] = name /\ m[i][3] = n
  <2>1. n \in Nat
    BY <1>0, <1>2 DEF AuthTyped
  <2> QED BY <1>2, <2>1, WrittenFacts
<1>4. /\ toR' \in Seq(Pieces)
      /\ \A i \in 1..Len(toR') : \/ \E j \in 1..Len(toR) : toR'[i] = toR[j]
                                 \/ toR'[i][1] = name /\ toR'[i][3] = n
  <2>1. /\ toR \o m \in Seq(Pieces) /\ Len(toR \o m) = Len(toR) + Len(m)
        /\ \A i \in 1..Len(toR \o m) : \/ i \in 1..Len(toR) /\ (toR \o m)[i] = toR[i]
                                       \/ i - Len(toR) \in 1..Len(m) /\ (toR \o m)[i] = m[i - Len(toR)]
    BY <1>0, <1>3, JoinFacts DEF AuthTyped
  <2> QED BY <1>2, <1>3, <2>1
<1>5. signed \in signatures
  BY <1>1 DEF AuthInv
<1>6. ASSUME NEW i \in 1..Len(toR'), NEW p, p = toR'[i] PROVE SignatureOk(p)'
  <2>1. CASE \E j \in 1..Len(toR) : p = toR[j]
    BY <1>1, <2>1 DEF AuthInv, SignatureOk
  <2>2. CASE p[1] = name /\ p[3] = n
    BY <1>0, <1>1, <1>2, <1>5, <2>2 DEF SignatureOk, Signature
  <2> QED BY <1>4, <1>6, <2>1, <2>2
<1>7. \A i \in 1..Len(toR') : SignatureOk(toR[i])'
  BY <1>6 DEF SignatureOk
<1>8. AuthAgrees'
  BY <1>1 DEF AuthInv, AuthAgrees, Auth!AuthAgrees
<1> QED BY <1>0, <1>1, <1>4, <1>5, <1>7, <1>8 DEF AuthInv, AuthTyped, ChannelOk, NoChallenge, NoOk

\* However reads and writes split the messages, and whatever earlier calls that
\* threw have left in the connection: a request returns only when the other end,
\* with the right key, signed its challenge, and a confirmation only when the
\* request of the challenge it signed returned (SSLSocket.cpp:415-501).
THEOREM AuthAgreesHolds == MCSpec => []AuthAgrees
<1> DEFINE all == <<part, vars, netvars, authvars, servevars, respvars>>
<1>1. AuthInv /\ [MCNext]_all => AuthInv'
  <2> SUFFICES ASSUME AuthInv, [MCNext]_all PROVE AuthInv'
    OBVIOUS
  <2>1. CASE AuthStep
    <3>1. Auth!AuthNext
      BY <2>1 DEF AuthStep
    <3> QED BY <3>1, RReadsKeeps, RSendKeeps, RAnswersKeeps, CReadsKeeps, CSignsKeeps, CWritesKeeps
            DEF Auth!AuthNext
  <2>2. CASE ~AuthStep
    <3>1. UNCHANGED authvars
      BY <2>2 DEF MCNext, RMIStep, NetStep, ServeStep, ResponseStep
    <3>2. \A i \in 1..Len(toR') : SignatureOk(toR[i])'
      BY <3>1 DEF AuthInv, SignatureOk, authvars
    <3>3. AuthAgrees' /\ AuthTyped'
      BY <3>1 DEF AuthInv, AuthAgrees, AuthTyped, Auth!AuthAgrees, authvars
    <3> QED BY <3>1, <3>2, <3>3 DEF AuthInv, authvars, ChannelOk, NoChallenge, NoOk
  <2> QED BY <2>1, <2>2
<1>2. MCSpec => []AuthInv
  BY AuthInit, <1>1, PTL DEF MCSpec
<1>3. AuthInv => AuthAgrees
  BY DEF AuthInv
<1> QED BY <1>2, <1>3, PTL

-----------------------------------------------------------------------------
(* Remote calls: what is under way while the two sides are in step          *)

\* The packets, word by word.
Asking(c) ==
  IF c.op = "create" THEN <<RMIB, 8, VERSION, CREATEOBJECT, 0, TEXT, 1, InvokeArgFlag_IN, TEXT, RMIE>>
  ELSE IF c.op = "release"
    THEN <<RMIB, 8, VERSION, RELEASEOBJECT, 0, TEXT, 1, InvokeArgFlag_IN, c.id, RMIE>>
  ELSE IF c.flag = 0 THEN <<RMIB, 6, VERSION, INVOKE, c.id, TEXT, 0, RMIE>>
  ELSE <<RMIB, 8, VERSION, INVOKE, c.id, TEXT, 1, c.flag, c.val, RMIE>>
Returning(v) == <<RMIB, 5, VERSION, RETURN, 0, v, RMIE>>
Handing(v) == <<RMIB, 7, VERSION, RETURN, 1, VOID, 0, v, RMIE>>
Failing == <<RMIB, 5, VERSION, ERROR, 1, TEXT, RMIE>>
Throwing == <<RMIB, 7, VERSION, INVOKEEXCEPTION, 1, TEXT, TEXT, TEXT, RMIE>>

\* A reader at pos, which has to read n words as the body, and has s before it,
\* is on its way through the packet p.
Through(pos, n, s, p) ==
  LET k == IF pos = "beg" THEN 0 ELSE IF pos = "len" THEN 1 ELSE 2 IN
    /\ Len(s) = Len(p) - k /\ \A j \in 1..Len(s) : s[j] = p[j + k]
    /\ pos = "body" => n = Len(p) - 2

Idle == cpc = "idle" /\ req = <<>> /\ rep = <<>> /\ spc = "beg" /\ objects = known

Asked ==
  /\ cpc = "beg" /\ rep = <<>> /\ objects = known
  /\ Through(spc, sneed, req, Asking(call))
  /\ call.op = "release" => call.id \in DOMAIN objects \cup doubt

\* The answer p, and what the server has done.
CreateSays(p) ==
  \/ \E id \in Ids : /\ id \notin DOMAIN known /\ p = Returning(id)
                     /\ objects = Put(known, id, 0) \/ (id = 0 /\ objects = known)
  \/ p = Failing /\ objects = known
ReleaseSays(p) ==
  \/ /\ call.id \in DOMAIN known /\ p = Returning(VOID)
     /\ objects = [j \in DOMAIN known \ {call.id} |-> known[j]]
  \/ p = Failing /\ objects = known /\ call.id \in doubt
InvokeSays(p) ==
  \/ p \in {Failing, Throwing} /\ objects = known
  \/ /\ call.id \in DOMAIN known
     /\ IF call.flag = 0 THEN p = Returning(known[call.id]) /\ objects = known
        ELSE /\ p = IF call.flag = 1 THEN Returning(VOID) ELSE Handing(known[call.id])
             /\ objects = [known EXCEPT ![call.id] = call.val]
Says(p) ==
  \/ call.op = "create" /\ CreateSays(p)
  \/ call.op = "release" /\ ReleaseSays(p)
  \/ call.op = "invoke" /\ InvokeSays(p)
Answers == {Returning(v) : v \in Int} \cup {Handing(v) : v \in Int} \cup {Failing, Throwing}
Told ==
  /\ cpc # "idle" /\ req = <<>> /\ spc = "beg"
  /\ \E p \in Answers : Through(cpc, cneed, rep, p) /\ Says(p)

InStep == ~cut => Idle \/ Asked \/ Told

-----------------------------------------------------------------------------
(* Remote calls: what the server may take for a release of an object, also  *)
(* while the two sides are out of step                                      *)

\* The words from j on may be read as one.
ReleaseAt(s, j) ==
  /\ j + 6 <= Len(s)
  /\ s[j] = RELEASEOBJECT /\ s[j + 2] = TEXT /\ s[j + 3] = 1 /\ s[j + 6] = RMIE
Held(id) == id \in stubs /\ id \notin doubt /\ ~(call.op = "release" /\ call.id = id)
Asks(s, id) == \E j \in 1..Len(s) : ReleaseAt(s, j) /\ s[j + 5] = id
ReleasesAsked == \A id \in stubs : Held(id) => ~Asks(req, id)

\* A length is that of a request.
LengthsIn(s) == \A j \in 1..Len(s) - 1 : s[j] = RMIB => s[j + 1] \in {6, 8, RMIB}
LengthsSent ==
  /\ LengthsIn(req)
  /\ spc = "len" /\ req # <<>> => req[1] \in {6, 8, RMIB}
  /\ spc = "body" => sneed \in {6, 8}

CallsMade == [op : {"none", "create", "release", "invoke"}, id : Ids, flag : 0..3, val : Values]
RMITyped ==
  /\ req \in Seq(Int) /\ rep \in Seq(Int) /\ cut \in BOOLEAN
  /\ spc \in {"beg", "len", "body"} /\ cpc \in {"idle", "beg", "len", "body"}
  /\ sneed \in Nat /\ cneed \in Nat
  /\ DOMAIN objects \subseteq Ids /\ objects \in [DOMAIN objects -> Int]
  /\ DOMAIN known \subseteq Ids /\ known \in [DOMAIN known -> Int]
  /\ stubs \subseteq Ids
  /\ call \in CallsMade
  /\ call.op = "none" <=> cpc = "idle"

StubsHeld == \A id \in stubs : Held(id) => id \in DOMAIN objects

RMIInv == RMITyped /\ InStep /\ ReleasesAsked /\ LengthsSent /\ StubsHeld

-----------------------------------------------------------------------------
(* Words                                                                    *)

\* Sequences of words with the same words are the same.
LEMMA SameWords ==
  ASSUME NEW s \in Seq(Int), NEW t \in Seq(Int), Len(s) = Len(t),
         \A j \in 1..Len(s) : s[j] = t[j]
  PROVE  s = t
OBVIOUS

LEMMA JoinWords ==
  ASSUME NEW s \in Seq(Int), NEW t \in Seq(Int)
  PROVE  /\ s \o t \in Seq(Int) /\ Len(s \o t) = Len(s) + Len(t)
         /\ \A j \in 1..Len(s) : (s \o t)[j] = s[j]
         /\ \A j \in 1..Len(t) : (s \o t)[Len(s) + j] = t[j]
         /\ \A j \in Len(s) + 1..Len(s) + Len(t) : (s \o t)[j] = t[j - Len(s)]
<1> DEFINE u == s \o t
<1>1. Len(s) \in Nat /\ Len(t) \in Nat
  OBVIOUS
<1>2. /\ u \in Seq(Int) /\ Len(u) = Len(s) + Len(t)
      /\ \A j \in 1..Len(s) + Len(t) : u[j] = IF j <= Len(s) THEN s[j] ELSE t[j - Len(s)]
  BY ConcatProperties
<1> HIDE DEF u
<1>3. \A j \in 1..Len(s) : u[j] = s[j]
  BY ONLY <1>1, <1>2
<1>4. \A j \in 1..Len(t) : u[Len(s) + j] = t[j]
  <2> SUFFICES ASSUME NEW j \in 1..Len(t) PROVE u[Len(s) + j] = t[j]
    OBVIOUS
  <2>1. Len(s) + j \in 1..Len(s) + Len(t) /\ ~(Len(s) + j <= Len(s)) /\ Len(s) + j - Len(s) = j
    BY ONLY <1>1, j \in 1..Len(t)
  <2> QED BY ONLY <1>2, <2>1
<1>5. \A j \in Len(s) + 1..Len(s) + Len(t) : u[j] = t[j - Len(s)]
  BY ONLY <1>1, <1>2
<1> QED BY <1>2, <1>3, <1>4, <1>5 DEF u

LEMMA RestWords ==
  ASSUME NEW s \in Seq(Int), NEW k \in Nat, k <= Len(s)
  PROVE  /\ Rest(s, k) \in Seq(Int) /\ Len(Rest(s, k)) = Len(s) - k
         /\ \A j \in 1..Len(s) - k : Rest(s, k)[j] = s[j + k]
BY SubSeqProperties DEF Rest

LEMMA TailWords ==
  ASSUME NEW s \in Seq(Int), s # <<>>
  PROVE  /\ Tail(s) \in Seq(Int) /\ Len(Tail(s)) = Len(s) - 1 /\ Len(s) \in Nat \ {0}
         /\ Head(s) = s[1] /\ \A j \in 1..Len(s) - 1 : Tail(s)[j] = s[j + 1]
OBVIOUS

LEMMA FirstWords ==
  ASSUME NEW s \in Seq(Int), NEW k \in Nat, k <= Len(s)
  PROVE  /\ SubSeq(s, 1, k) \in Seq(Int) /\ Len(SubSeq(s, 1, k)) = k
         /\ \A j \in 1..k : SubSeq(s, 1, k)[j] = s[j]
BY SubSeqProperties

\* setupPacket()
LEMMA PacketWords ==
  ASSUME NEW cmd \in Int, NEW data \in Seq(Int)
  PROVE  LET p == Packet(cmd, data) IN
           /\ p \in Seq(Int) /\ Len(p) = Len(data) + 5
           /\ p[1] = RMIB /\ p[2] = Len(data) + 3 /\ p[3] = VERSION /\ p[4] = cmd
           /\ \A j \in 1..Len(data) : p[j + 4] = data[j]
           /\ p[Len(data) + 5] = RMIE
<1> DEFINE head == <<VERSION, cmd>>
           body == (head \o data) \o <<RMIE>>
<1>1. head \in Seq(Int) /\ <<RMIE>> \in Seq(Int) /\ Len(head) = 2 /\ Len(<<RMIE>>) = 1
      /\ head[1] = VERSION /\ head[2] = cmd /\ <<RMIE>>[1] = RMIE
  BY DEF VERSION, RMIE
<1> HIDE DEF head
<1>2. /\ head \o data \in Seq(Int) /\ Len(head \o data) = Len(data) + 2
      /\ (head \o data)[1] = VERSION /\ (head \o data)[2] = cmd
      /\ \A j \in 1..Len(data) : (head \o data)[j + 2] = data[j]
  <2>1. /\ head \o data \in Seq(Int) /\ Len(head \o data) = Len(head) + Len(data)
        /\ \A j \in 1..Len(head) : (head \o data)[j] = head[j]
        /\ \A j \in 1..Len(data) : (head \o data)[Len(head) + j] = data[j]
    BY <1>1, JoinWords
  <2>2. 1 \in 1..Len(head) /\ 2 \in 1..Len(head)
    BY <1>1
  <2> QED BY <1>1, <2>1, <2>2
<1>3. /\ body \in Seq(Int) /\ Len(body) = Len(data) + 3
      /\ body[1] = VERSION /\ body[2] = cmd
      /\ \A j \in 1..Len(data) : body[j + 2] = data[j]
      /\ body[Len(data) + 3] = RMIE
  <2> DEFINE h == head \o data
  <2> HIDE DEF h
  <2>1. /\ h \o <<RMIE>> \in Seq(Int) /\ Len(h \o <<RMIE>>) = Len(h) + 1
        /\ \A j \in 1..Len(h) : (h \o <<RMIE>>)[j] = h[j]
        /\ (h \o <<RMIE>>)[Len(h) + 1] = RMIE
    <3>1. 1 \in 1..Len(<<RMIE>>)
      BY <1>1
    <3>2. h \in Seq(Int)
      BY <1>2 DEF h
    <3> QED BY <1>1, <3>1, <3>2, JoinWords
  <2>2. /\ h \in Seq(Int) /\ Len(h) = Len(data) + 2 /\ h[1] = VERSION /\ h[2] = cmd
        /\ \A j \in 1..Len(data) : h[j + 2] = data[j]
    BY <1>2 DEF h
  <2> QED BY <2>1, <2>2 DEF h
<1> HIDE DEF body
<1>4. /\ <<RMIB, Len(body)>> \in Seq(Int) /\ Len(<<RMIB, Len(body)>>) = 2
      /\ <<RMIB, Len(body)>>[1] = RMIB /\ <<RMIB, Len(body)>>[2] = Len(body)
  BY <1>3 DEF RMIB
<1>5. Packet(cmd, data) = <<RMIB, Len(body)>> \o body
  BY DEF Packet, body, head
<1>6. /\ Packet(cmd, data) \in Seq(Int) /\ Len(Packet(cmd, data)) = Len(body) + 2
      /\ Packet(cmd, data)[1] = RMIB /\ Packet(cmd, data)[2] = Len(body)
      /\ \A j \in 1..Len(body) : Packet(cmd, data)[2 + j] = body[j]
  BY <1>3, <1>4, <1>5, JoinWords
<1> DEFINE p == Packet(cmd, data)
<1> HIDE DEF p
<1>7. /\ p \in Seq(Int) /\ Len(p) = Len(data) + 5 /\ p[1] = RMIB /\ p[2] = Len(data) + 3
      /\ \A j \in 3..Len(data) + 5 : p[j] = body[j - 2]
  <2>1. ASSUME NEW j \in 3..Len(data) + 5 PROVE p[j] = body[j - 2]
    <3>1. j - 2 \in 1..Len(body) /\ 2 + (j - 2) = j
      BY <1>3
    <3> QED BY <1>6, <3>1 DEF p
  <2> QED BY <1>3, <1>6, <2>1 DEF p
<1>8. p[3] = VERSION /\ p[4] = cmd /\ p[Len(data) + 5] = RMIE
  <2>1. /\ 3 \in 3..Len(data) + 5 /\ 4 \in 3..Len(data) + 5 /\ Len(data) + 5 \in 3..Len(data) + 5
        /\ 3 - 2 = 1 /\ 4 - 2 = 2 /\ (Len(data) + 5) - 2 = Len(data) + 3
    OBVIOUS
  <2> QED BY <1>3, <1>7, <2>1
<1>9. ASSUME NEW j \in 1..Len(data) PROVE p[j + 4] = data[j]
  <2>1. j + 4 \in 3..Len(data) + 5 /\ (j + 4) - 2 = j + 2
    OBVIOUS
  <2> QED BY <1>3, <1>7, <2>1
<1> QED BY <1>7, <1>8, <1>9 DEF p

LEMMA TwoAndTwo ==
  ASSUME NEW a \in Int, NEW b \in Int, NEW c \in Int, NEW d \in Int,
         NEW s, NEW t, NEW u, s = <<a, b>>, t = <<c, d>>, u = <<a, b, c, d>>
  PROVE  s \o t = u
<1>1. /\ s \in Seq(Int) /\ Len(s) = 2 /\ s[1] = a /\ s[2] = b
      /\ t \in Seq(Int) /\ Len(t) = 2 /\ t[1] = c /\ t[2] = d
      /\ u \in Seq(Int) /\ Len(u) = 4
  OBVIOUS
<1>2. u[1] = a /\ u[2] = b /\ u[3] = c /\ u[4] = d
  OBVIOUS
<1>3. /\ s \o t \in Seq(Int) /\ Len(s \o t) = 4 /\ \A j \in 1..2 : (s \o t)[j] = s[j]
      /\ \A j \in 3..4 : (s \o t)[j] = t[j - 2]
  <2>1. /\ s \o t \in Seq(Int) /\ Len(s \o t) = Len(s) + Len(t)
        /\ \A j \in 1..Len(s) : (s \o t)[j] = s[j]
        /\ \A j \in Len(s) + 1..Len(s) + Len(t) : (s \o t)[j] = t[j - Len(s)]
    BY <1>1, JoinWords
  <2> QED BY <1>1, <2>1
<1>4. ASSUME NEW j \in 1..4 PROVE (s \o t)[j] = u[j]
  <2>1. CASE j = 1
    BY <1>1, <1>2, <1>3, <2>1
  <2>2. CASE j = 2
    BY <1>1, <1>2, <1>3, <2>2
  <2>3. CASE j = 3
    BY <1>1, <1>2, <1>3, <2>3
  <2>4. CASE j = 4
    BY <1>1, <1>2, <1>3, <2>4
  <2> QED BY <2>1, <2>2, <2>3, <2>4
<1> QED BY <1>1, <1>3, <1>4, SameWords

LEMMA ThreeAndTwo ==
  ASSUME NEW a \in Int, NEW b \in Int, NEW c \in Int, NEW d \in Int, NEW e \in Int,
         NEW s, NEW t, NEW u, s = <<a, b, c>>, t = <<d, e>>, u = <<a, b, c, d, e>>
  PROVE  s \o t = u
<1>1. /\ s \in Seq(Int) /\ Len(s) = 3 /\ s[1] = a /\ s[2] = b /\ s[3] = c
      /\ t \in Seq(Int) /\ Len(t) = 2 /\ t[1] = d /\ t[2] = e
      /\ u \in Seq(Int) /\ Len(u) = 5
  OBVIOUS
<1>2. u[1] = a /\ u[2] = b /\ u[3] = c /\ u[4] = d /\ u[5] = e
  OBVIOUS
<1>3. /\ s \o t \in Seq(Int) /\ Len(s \o t) = 5 /\ \A j \in 1..3 : (s \o t)[j] = s[j]
      /\ \A j \in 4..5 : (s \o t)[j] = t[j - 3]
  <2>1. /\ s \o t \in Seq(Int) /\ Len(s \o t) = Len(s) + Len(t)
        /\ \A j \in 1..Len(s) : (s \o t)[j] = s[j]
        /\ \A j \in Len(s) + 1..Len(s) + Len(t) : (s \o t)[j] = t[j - Len(s)]
    BY <1>1, JoinWords
  <2> QED BY <1>1, <2>1
<1>4. ASSUME NEW j \in 1..5 PROVE (s \o t)[j] = u[j]
  <2>1. CASE j = 1
    BY <1>1, <1>2, <1>3, <2>1
  <2>2. CASE j = 2
    BY <1>1, <1>2, <1>3, <2>2
  <2>3. CASE j = 3
    BY <1>1, <1>2, <1>3, <2>3
  <2>4. CASE j = 4
    BY <1>1, <1>2, <1>3, <2>4
  <2>5. CASE j = 5
    BY <1>1, <1>2, <1>3, <2>5
  <2> QED BY <2>1, <2>2, <2>3, <2>4, <2>5
<1> QED BY <1>1, <1>3, <1>4, SameWords

LEMMA PacketIs ==
  ASSUME NEW cmd \in Int, NEW data \in Seq(Int), NEW t \in Seq(Int), Len(t) = Len(data) + 5,
         t[1] = RMIB, t[2] = Len(data) + 3, t[3] = VERSION, t[4] = cmd,
         \A j \in 1..Len(data) : t[j + 4] = data[j], t[Len(data) + 5] = RMIE
  PROVE  Packet(cmd, data) = t
<1> DEFINE p == Packet(cmd, data)
<1>1. /\ p \in Seq(Int) /\ Len(p) = Len(data) + 5
      /\ p[1] = RMIB /\ p[2] = Len(data) + 3 /\ p[3] = VERSION /\ p[4] = cmd
      /\ \A j \in 1..Len(data) : p[j + 4] = data[j]
      /\ p[Len(data) + 5] = RMIE
  BY PacketWords
<1> HIDE DEF p
<1>2. ASSUME NEW j \in 1..Len(p) PROVE p[j] = t[j]
  <2>1. CASE j \in 5..Len(data) + 4
    <3>1. j - 4 \in 1..Len(data) /\ (j - 4) + 4 = j
      BY <2>1
    <3> QED BY <1>1, <3>1
  <2>2. CASE j \notin 5..Len(data) + 4
    <3>1. j \in {1, 2, 3, 4, Len(data) + 5}
      BY <1>1, <2>2
    <3> QED BY <1>1, <3>1
  <2> QED BY <2>1, <2>2
<1>3. p = t
  BY <1>1, <1>2, SameWords
<1> QED BY <1>3 DEF p

\* The marks and commands are different numbers.
LEMMA Marks ==
  /\ RMIB = 101 /\ RMIE = 102 /\ VOID = 103 /\ TEXT = 104 /\ VERSION = 1
  /\ CREATEOBJECT = 0 /\ RELEASEOBJECT = 1 /\ INVOKE = 2 /\ RETURN = 3 /\ ERROR = 4
  /\ INVOKEEXCEPTION = 5 /\ InvokeArgFlag_IN = 1 /\ InvokeArgFlag_OUT = 2 /\ InvokeArgFlag_INOUT = 3
  /\ Ids \subseteq 0..100 /\ 0 \in Ids /\ Values \subseteq Int /\ 0 \in Values
  /\ \A v \in Values : v \in Int /\ v # 101 /\ v # 102 /\ v # 103 /\ v # 104
  /\ \A i \in Ids : i \in Nat /\ i # 101 /\ i # 102 /\ i # 103 /\ i # 104
BY PacketAssumption, ValuesAssumption
   DEF RMIB, RMIE, VOID, TEXT, VERSION, CREATEOBJECT, RELEASEOBJECT, INVOKE, RETURN, ERROR,
       INVOKEEXCEPTION, InvokeArgFlag_IN, InvokeArgFlag_OUT, InvokeArgFlag_INOUT, Ids

\* The four answers and the four requests.
LEMMA AnswerPackets ==
  ASSUME NEW v \in Int
  PROVE  /\ Packet(RETURN, <<Len(<<>>) \div 2, v>> \o <<>>) = Returning(v)
         /\ Packet(RETURN, <<Len(<<0, v>>) \div 2, VOID>> \o <<0, v>>) = Handing(v)
         /\ Packet(ERROR, <<1, TEXT>>) = Failing
         /\ Packet(INVOKEEXCEPTION, <<1, TEXT, TEXT, TEXT>>) = Throwing
<1>0. 0 \div 2 = 0 /\ 2 \div 2 = 1 /\ 0 \in Int /\ 1 \in Int
  OBVIOUS
<1>1. /\ <<Len(<<>>) \div 2, v>> \o <<>> = <<0, v>>
      /\ <<Len(<<0, v>>) \div 2, VOID>> \o <<0, v>> = <<1, VOID, 0, v>>
  <2>1. VOID \in Int
    BY Marks
  <2>2. <<0, v>> \in Seq(Int) /\ Len(<<>>) = 0 /\ Len(<<0, v>>) = 2
    OBVIOUS
  <2>3. <<0, v>> \o <<>> = <<0, v>>
    BY <2>2, ConcatEmptySeq
  <2>4. <<1, VOID>> \o <<0, v>> = <<1, VOID, 0, v>>
    BY <1>0, <2>1, TwoAndTwo
  <2> QED BY <1>0, <2>2, <2>3, <2>4
<1>2. Packet(RETURN, <<0, v>>) = Returning(v)
  <2>1. ASSUME NEW d, NEW t, d = <<0, v>>, t = Returning(v) PROVE Packet(RETURN, d) = t
    <3>1. /\ RETURN \in Int /\ d \in Seq(Int) /\ Len(d) = 2 /\ t \in Seq(Int) /\ Len(t) = 7
          /\ t[1] = RMIB /\ t[2] = 5 /\ t[3] = VERSION /\ t[4] = RETURN /\ t[7] = RMIE
          /\ t[5] = d[1] /\ t[6] = d[2]
      BY <2>1, Marks DEF Returning
    <3>2. /\ \A j \in 1..Len(d) : t[j + 4] = d[j]
          /\ Len(t) = Len(d) + 5 /\ t[2] = Len(d) + 3 /\ t[Len(d) + 5] = RMIE
      BY ONLY <3>1
    <3> QED BY <3>1, <3>2, PacketIs
  <2> QED BY <2>1
<1>3. Packet(RETURN, <<1, VOID, 0, v>>) = Handing(v)
  <2>1. ASSUME NEW d, NEW t, d = <<1, VOID, 0, v>>, t = Handing(v) PROVE Packet(RETURN, d) = t
    <3>1. /\ RETURN \in Int /\ d \in Seq(Int) /\ Len(d) = 4 /\ t \in Seq(Int) /\ Len(t) = 9
          /\ t[1] = RMIB /\ t[2] = 7 /\ t[3] = VERSION /\ t[4] = RETURN /\ t[9] = RMIE
          /\ t[5] = d[1] /\ t[6] = d[2] /\ t[7] = d[3] /\ t[8] = d[4]
      BY <2>1, Marks DEF Handing
    <3>2. /\ \A j \in 1..Len(d) : t[j + 4] = d[j]
          /\ Len(t) = Len(d) + 5 /\ t[2] = Len(d) + 3 /\ t[Len(d) + 5] = RMIE
      BY ONLY <3>1
    <3> QED BY <3>1, <3>2, PacketIs
  <2> QED BY <2>1
<1>4. Packet(ERROR, <<1, TEXT>>) = Failing
  <2>1. ASSUME NEW d, NEW t, d = <<1, TEXT>>, t = Failing PROVE Packet(ERROR, d) = t
    <3>1. /\ ERROR \in Int /\ d \in Seq(Int) /\ Len(d) = 2 /\ t \in Seq(Int) /\ Len(t) = 7
          /\ t[1] = RMIB /\ t[2] = 5 /\ t[3] = VERSION /\ t[4] = ERROR /\ t[7] = RMIE
          /\ t[5] = d[1] /\ t[6] = d[2]
      BY <2>1, Marks DEF Failing
    <3>2. /\ \A j \in 1..Len(d) : t[j + 4] = d[j]
          /\ Len(t) = Len(d) + 5 /\ t[2] = Len(d) + 3 /\ t[Len(d) + 5] = RMIE
      BY ONLY <3>1
    <3> QED BY <3>1, <3>2, PacketIs
  <2> QED BY <2>1
<1>5. Packet(INVOKEEXCEPTION, <<1, TEXT, TEXT, TEXT>>) = Throwing
  <2>1. ASSUME NEW d, NEW t, d = <<1, TEXT, TEXT, TEXT>>, t = Throwing PROVE Packet(INVOKEEXCEPTION, d) = t
    <3>1. /\ INVOKEEXCEPTION \in Int /\ d \in Seq(Int) /\ Len(d) = 4 /\ t \in Seq(Int) /\ Len(t) = 9
          /\ t[1] = RMIB /\ t[2] = 7 /\ t[3] = VERSION /\ t[4] = INVOKEEXCEPTION /\ t[9] = RMIE
          /\ t[5] = d[1] /\ t[6] = d[2] /\ t[7] = d[3] /\ t[8] = d[4]
      BY <2>1, Marks DEF Throwing
    <3>2. /\ \A j \in 1..Len(d) : t[j + 4] = d[j]
          /\ Len(t) = Len(d) + 5 /\ t[2] = Len(d) + 3 /\ t[Len(d) + 5] = RMIE
      BY ONLY <3>1
    <3> QED BY <3>1, <3>2, PacketIs
  <2> QED BY <2>1
<1> QED BY <1>1, <1>2, <1>3, <1>4, <1>5

LEMMA RequestPackets ==
  ASSUME NEW id \in Ids, NEW flag \in 0..3, NEW val \in Values
  PROVE  /\ Packet(CREATEOBJECT, <<0, TEXT, Len(<<InvokeArgFlag_IN, TEXT>>) \div 2>> \o <<InvokeArgFlag_IN, TEXT>>)
              = Asking(Call("create", 0, 0, 0))
         /\ Packet(RELEASEOBJECT, <<0, TEXT, Len(<<InvokeArgFlag_IN, id>>) \div 2>> \o <<InvokeArgFlag_IN, id>>)
              = Asking(Call("release", id, 0, 0))
         /\ flag = 0 => Packet(INVOKE, <<id, TEXT, Len(<<>>) \div 2>> \o <<>>) = Asking(Call("invoke", id, flag, val))
         /\ flag # 0 => Packet(INVOKE, <<id, TEXT, Len(<<flag, val>>) \div 2>> \o <<flag, val>>)
                          = Asking(Call("invoke", id, flag, val))
<1>0. /\ 0 \div 2 = 0 /\ 2 \div 2 = 1 /\ 0 \in Int /\ 1 \in Int /\ id \in Int /\ val \in Int /\ flag \in Int
      /\ TEXT \in Int /\ InvokeArgFlag_IN \in Int
  BY Marks
<1>1. Packet(CREATEOBJECT, <<0, TEXT, 1, InvokeArgFlag_IN, TEXT>>) = Asking(Call("create", 0, 0, 0))
  <2>1. ASSUME NEW d, NEW t, d = <<0, TEXT, 1, InvokeArgFlag_IN, TEXT>>, t = Asking(Call("create", 0, 0, 0)) PROVE Packet(CREATEOBJECT, d) = t
    <3>1. /\ CREATEOBJECT \in Int /\ d \in Seq(Int) /\ Len(d) = 5 /\ t \in Seq(Int) /\ Len(t) = 10
          /\ t[1] = RMIB /\ t[2] = 8 /\ t[3] = VERSION /\ t[4] = CREATEOBJECT /\ t[10] = RMIE
          /\ t[5] = d[1] /\ t[6] = d[2] /\ t[7] = d[3] /\ t[8] = d[4] /\ t[9] = d[5]
      BY <1>0, <2>1, Marks DEF Asking, Call
    <3>2. /\ \A j \in 1..Len(d) : t[j + 4] = d[j]
          /\ Len(t) = Len(d) + 5 /\ t[2] = Len(d) + 3 /\ t[Len(d) + 5] = RMIE
      BY ONLY <3>1
    <3> QED BY <3>1, <3>2, PacketIs
  <2> QED BY <2>1
<1>2. Packet(RELEASEOBJECT, <<0, TEXT, 1, InvokeArgFlag_IN, id>>) = Asking(Call("release", id, 0, 0))
  <2>1. ASSUME NEW d, NEW t, d = <<0, TEXT, 1, InvokeArgFlag_IN, id>>, t = Asking(Call("release", id, 0, 0)) PROVE Packet(RELEASEOBJECT, d) = t
    <3>1. /\ RELEASEOBJECT \in Int /\ d \in Seq(Int) /\ Len(d) = 5 /\ t \in Seq(Int) /\ Len(t) = 10
          /\ t[1] = RMIB /\ t[2] = 8 /\ t[3] = VERSION /\ t[4] = RELEASEOBJECT /\ t[10] = RMIE
          /\ t[5] = d[1] /\ t[6] = d[2] /\ t[7] = d[3] /\ t[8] = d[4] /\ t[9] = d[5]
      BY <1>0, <2>1, Marks DEF Asking, Call
    <3>2. /\ \A j \in 1..Len(d) : t[j + 4] = d[j]
          /\ Len(t) = Len(d) + 5 /\ t[2] = Len(d) + 3 /\ t[Len(d) + 5] = RMIE
      BY ONLY <3>1
    <3> QED BY <3>1, <3>2, PacketIs
  <2> QED BY <2>1
<1>3. flag = 0 => Packet(INVOKE, <<id, TEXT, 0>>) = Asking(Call("invoke", id, flag, val))
  <2> SUFFICES ASSUME flag = 0 PROVE Packet(INVOKE, <<id, TEXT, 0>>) = Asking(Call("invoke", id, flag, val))
    OBVIOUS
  <2>1. ASSUME NEW d, NEW t, d = <<id, TEXT, 0>>, t = Asking(Call("invoke", id, flag, val)) PROVE Packet(INVOKE, d) = t
    <3>1. /\ INVOKE \in Int /\ d \in Seq(Int) /\ Len(d) = 3 /\ t \in Seq(Int) /\ Len(t) = 8
          /\ t[1] = RMIB /\ t[2] = 6 /\ t[3] = VERSION /\ t[4] = INVOKE /\ t[8] = RMIE
          /\ t[5] = d[1] /\ t[6] = d[2] /\ t[7] = d[3]
      BY <1>0, <2>1, Marks DEF Asking, Call
    <3>2. /\ \A j \in 1..Len(d) : t[j + 4] = d[j]
          /\ Len(t) = Len(d) + 5 /\ t[2] = Len(d) + 3 /\ t[Len(d) + 5] = RMIE
      BY ONLY <3>1
    <3> QED BY <3>1, <3>2, PacketIs
  <2> QED BY <2>1
<1>4. flag # 0 => Packet(INVOKE, <<id, TEXT, 1, flag, val>>) = Asking(Call("invoke", id, flag, val))
  <2> SUFFICES ASSUME flag # 0 PROVE Packet(INVOKE, <<id, TEXT, 1, flag, val>>) = Asking(Call("invoke", id, flag, val))
    OBVIOUS
  <2>1. ASSUME NEW d, NEW t, d = <<id, TEXT, 1, flag, val>>, t = Asking(Call("invoke", id, flag, val)) PROVE Packet(INVOKE, d) = t
    <3>1. /\ INVOKE \in Int /\ d \in Seq(Int) /\ Len(d) = 5 /\ t \in Seq(Int) /\ Len(t) = 10
          /\ t[1] = RMIB /\ t[2] = 8 /\ t[3] = VERSION /\ t[4] = INVOKE /\ t[10] = RMIE
          /\ t[5] = d[1] /\ t[6] = d[2] /\ t[7] = d[3] /\ t[8] = d[4] /\ t[9] = d[5]
      BY <1>0, <2>1, Marks DEF Asking, Call
    <3>2. /\ \A j \in 1..Len(d) : t[j + 4] = d[j]
          /\ Len(t) = Len(d) + 5 /\ t[2] = Len(d) + 3 /\ t[Len(d) + 5] = RMIE
      BY ONLY <3>1
    <3> QED BY <3>1, <3>2, PacketIs
  <2> QED BY <2>1
<1>5. /\ <<0, TEXT, Len(<<InvokeArgFlag_IN, TEXT>>) \div 2>> \o <<InvokeArgFlag_IN, TEXT>>
           = <<0, TEXT, 1, InvokeArgFlag_IN, TEXT>>
      /\ <<0, TEXT, Len(<<InvokeArgFlag_IN, id>>) \div 2>> \o <<InvokeArgFlag_IN, id>>
           = <<0, TEXT, 1, InvokeArgFlag_IN, id>>
      /\ <<id, TEXT, Len(<<flag, val>>) \div 2>> \o <<flag, val>> = <<id, TEXT, 1, flag, val>>
  <2>1. ASSUME NEW a \in Int, NEW b \in Int, NEW e \in Int
        PROVE  <<e, TEXT, Len(<<a, b>>) \div 2>> \o <<a, b>> = <<e, TEXT, 1, a, b>>
    <3>1. Len(<<a, b>>) = 2
      OBVIOUS
    <3>2. <<e, TEXT, 1>> \o <<a, b>> = <<e, TEXT, 1, a, b>>
      BY <1>0, ThreeAndTwo
    <3> QED BY <1>0, <3>1, <3>2
  <2> QED BY <1>0, <2>1
<1>6. <<id, TEXT, Len(<<>>) \div 2>> \o <<>> = <<id, TEXT, 0>>
  <2>1. Len(<<>>) = 0 /\ <<id, TEXT, 0>> \in Seq(Int)
    BY <1>0
  <2> QED BY <1>0, <2>1, ConcatEmptySeq
<1> QED BY <1>1, <1>2, <1>3, <1>4, <1>5, <1>6

\* Where the marks of a request are.
LEMMA TenWords ==
  ASSUME NEW p \in Seq(Int), Len(p) = 10, p[1] = 101, p[2] = 8, p[3] = 1, p[6] = 104, p[7] = 1, p[10] = 102,
         p[4] # 101, p[4] # 102, p[5] # 101, p[5] # 102, p[8] # 101, p[8] # 102, p[9] # 101, p[9] # 102
  PROVE  /\ \A j \in 1..Len(p) : p[j] = 101 => j = 1
         /\ \A j \in 1..Len(p) : p[j] = 102 <=> j = Len(p)
<1> SUFFICES ASSUME NEW j \in 1..10 PROVE (p[j] = 101 => j = 1) /\ (p[j] = 102 <=> j = 10)
  OBVIOUS
<1> j \in {1, 2, 3, 4, 5, 6, 7, 8, 9, 10}
  OBVIOUS
<1> QED OBVIOUS

LEMMA EightWords ==
  ASSUME NEW p \in Seq(Int), Len(p) = 8, p[1] = 101, p[2] = 6, p[3] = 1, p[4] = 2, p[6] = 104, p[7] = 0,
         p[8] = 102, p[5] # 101, p[5] # 102
  PROVE  /\ \A j \in 1..Len(p) : p[j] = 101 => j = 1
         /\ \A j \in 1..Len(p) : p[j] = 102 <=> j = Len(p)
<1> SUFFICES ASSUME NEW j \in 1..8 PROVE (p[j] = 101 => j = 1) /\ (p[j] = 102 <=> j = 8)
  OBVIOUS
<1> j \in {1, 2, 3, 4, 5, 6, 7, 8}
  OBVIOUS
<1> QED OBVIOUS

\* The calls that are sent.
Sent == [op : {"create", "release", "invoke"}, id : Ids, flag : 0..3, val : Values]

LEMMA AskingWords ==
  ASSUME NEW c \in Sent
  PROVE  LET p == Asking(c) IN
           /\ p \in Seq(Int) /\ Len(p) \in {8, 10} /\ p[1] = RMIB /\ p[2] = Len(p) - 2
           /\ \A j \in 1..Len(p) : p[j] = RMIB => j = 1
           /\ \A j \in 1..Len(p) : p[j] = RMIE <=> j = Len(p)
           /\ Len(p) = 10 /\ p[4] = RELEASEOBJECT => c.op = "release" /\ p[9] = c.id
<1>1. c.op \in {"create", "release", "invoke"} /\ c.id \in Ids /\ c.flag \in 0..3 /\ c.val \in Values
  BY DEF Sent
<1>2. /\ c.id \in Int /\ c.id # 101 /\ c.id # 102 /\ c.val \in Int
      /\ c.val # 101 /\ c.val # 102
  <2>1. c.id \in 0..100
    <3>1. Ids \subseteq 0..100
      BY Marks
    <3> QED BY ONLY <1>1, <3>1
  <2>2. c.val \in Int /\ c.val # 101 /\ c.val # 102
    <3>1. \A v \in Values : v \in Int /\ v # 101 /\ v # 102
      BY Marks
    <3> QED BY ONLY <1>1, <3>1
  <2>3. c.id \in Int /\ c.id # 101 /\ c.id # 102
    BY ONLY <2>1
  <2> QED BY ONLY <2>2, <2>3, Zenon
<1> SUFFICES ASSUME NEW p, p = Asking(c)
    PROVE  /\ p \in Seq(Int) /\ Len(p) \in {8, 10} /\ p[1] = RMIB /\ p[2] = Len(p) - 2
           /\ \A j \in 1..Len(p) : p[j] = RMIB => j = 1
           /\ \A j \in 1..Len(p) : p[j] = RMIE <=> j = Len(p)
           /\ Len(p) = 10 /\ p[4] = RELEASEOBJECT => c.op = "release" /\ p[9] = c.id
  OBVIOUS
<1>3. CASE c.op = "create"
  <2>1. /\ p \in Seq(Int) /\ Len(p) = 10
        /\ p[1] = 101 /\ p[2] = 8 /\ p[3] = 1 /\ p[4] = 0 /\ p[5] = 0 /\ p[6] = 104 /\ p[7] = 1
        /\ p[8] = 1 /\ p[9] = 104 /\ p[10] = 102
    BY <1>1, <1>2, <1>3, Marks DEF Asking
  <2>2. /\ \A j \in 1..Len(p) : p[j] = 101 => j = 1
        /\ \A j \in 1..Len(p) : p[j] = 102 <=> j = Len(p)
    <3>1. /\ p[4] # 101 /\ p[4] # 102 /\ p[5] # 101 /\ p[5] # 102
          /\ p[8] # 101 /\ p[8] # 102 /\ p[9] # 101 /\ p[9] # 102
      BY ONLY <2>1
    <3> QED BY ONLY <2>1, <3>1, TenWords
  <2> QED BY <1>3, <2>1, <2>2, Marks
<1>4. CASE c.op = "release"
  <2>1. /\ p \in Seq(Int) /\ Len(p) = 10
        /\ p[1] = 101 /\ p[2] = 8 /\ p[3] = 1 /\ p[4] = 1 /\ p[5] = 0 /\ p[6] = 104 /\ p[7] = 1
        /\ p[8] = 1 /\ p[9] = c.id /\ p[10] = 102
    BY <1>1, <1>2, <1>4, Marks DEF Asking
  <2>2. /\ \A j \in 1..Len(p) : p[j] = 101 => j = 1
        /\ \A j \in 1..Len(p) : p[j] = 102 <=> j = Len(p)
    <3>1. /\ p[4] # 101 /\ p[4] # 102 /\ p[5] # 101 /\ p[5] # 102
          /\ p[8] # 101 /\ p[8] # 102 /\ p[9] # 101 /\ p[9] # 102
      BY ONLY <1>2, <2>1
    <3> QED BY ONLY <2>1, <3>1, TenWords
  <2> QED BY <1>4, <2>1, <2>2, Marks
<1>5. CASE c.op = "invoke" /\ c.flag = 0
  <2>1. /\ p \in Seq(Int) /\ Len(p) = 8
        /\ p[1] = 101 /\ p[2] = 6 /\ p[3] = 1 /\ p[4] = 2 /\ p[5] = c.id /\ p[6] = 104 /\ p[7] = 0
        /\ p[8] = 102
    BY <1>1, <1>2, <1>5, Marks DEF Asking
  <2>2. /\ \A j \in 1..Len(p) : p[j] = 101 => j = 1
        /\ \A j \in 1..Len(p) : p[j] = 102 <=> j = Len(p)
    BY <1>1, <1>2, <2>1, EightWords
  <2> QED BY <1>5, <2>1, <2>2, Marks
<1>6. CASE c.op = "invoke" /\ c.flag # 0
  <2>1. /\ p \in Seq(Int) /\ Len(p) = 10
        /\ p[1] = 101 /\ p[2] = 8 /\ p[3] = 1 /\ p[4] = 2 /\ p[5] = c.id /\ p[6] = 104 /\ p[7] = 1
        /\ p[8] = c.flag /\ p[9] = c.val /\ p[10] = 102
    BY <1>1, <1>2, <1>6, Marks DEF Asking
  <2>2. /\ \A j \in 1..Len(p) : p[j] = 101 => j = 1
        /\ \A j \in 1..Len(p) : p[j] = 102 <=> j = Len(p)
    <3>1. /\ p[4] # 101 /\ p[4] # 102 /\ p[5] # 101 /\ p[5] # 102
          /\ p[8] # 101 /\ p[8] # 102 /\ p[9] # 101 /\ p[9] # 102
      BY ONLY <1>1, <1>2, <2>1
    <3> QED BY ONLY <2>1, <3>1, TenWords
  <2> QED BY <1>6, <2>1, <2>2, Marks
<1> QED BY <1>1, <1>3, <1>4, <1>5, <1>6

\* The body of a packet, word by word.
Carries(b, p) == Len(b) = Len(p) - 2 /\ \A j \in 1..Len(b) : b[j] = p[j + 2]

LEMMA Carried ==
  ASSUME NEW b, NEW p, Carries(b, p), Len(p) \in {7, 8, 9, 10}
  PROVE  /\ b[1] = p[3] /\ b[2] = p[4] /\ b[3] = p[5] /\ b[4] = p[6] /\ b[5] = p[7]
         /\ Len(p) = 7 => Len(b) = 5
         /\ Len(p) = 8 => Len(b) = 6 /\ b[6] = p[8]
         /\ Len(p) = 9 => Len(b) = 7 /\ b[6] = p[8] /\ b[7] = p[9]
         /\ Len(p) = 10 => Len(b) = 8 /\ b[6] = p[8] /\ b[7] = p[9] /\ b[8] = p[10]
<1>1. Len(b) \in {5, 6, 7, 8} /\ Len(b) = Len(p) - 2
  BY DEF Carries
<1>2. ASSUME NEW j \in 1..8, j <= Len(b) PROVE b[j] = p[j + 2]
  BY <1>1, <1>2 DEF Carries
<1>3. /\ b[1] = p[1 + 2] /\ b[2] = p[2 + 2] /\ b[3] = p[3 + 2] /\ b[4] = p[4 + 2] /\ b[5] = p[5 + 2]
      /\ Len(b) >= 6 => b[6] = p[6 + 2]
      /\ Len(b) >= 7 => b[7] = p[7 + 2]
      /\ Len(b) >= 8 => b[8] = p[8 + 2]
  BY <1>1, <1>2
<1>4. /\ 1 + 2 = 3 /\ 2 + 2 = 4 /\ 3 + 2 = 5 /\ 4 + 2 = 6 /\ 5 + 2 = 7 /\ 6 + 2 = 8 /\ 7 + 2 = 9
      /\ 8 + 2 = 10
  OBVIOUS
<1>5. /\ Len(p) = 7 => Len(b) = 5
      /\ Len(p) = 8 => Len(b) = 6 /\ Len(b) >= 6
      /\ Len(p) = 9 => Len(b) = 7 /\ Len(b) >= 6 /\ Len(b) >= 7
      /\ Len(p) = 10 => Len(b) = 8 /\ Len(b) >= 6 /\ Len(b) >= 7 /\ Len(b) >= 8
  BY <1>1
<1> QED BY <1>1, <1>3, <1>4, <1>5

\* What a reader that is on its way through a packet finds.
LEMMA ThroughReads ==
  ASSUME NEW pos \in {"beg", "len", "body"}, NEW n, NEW s \in Seq(Int), NEW p \in Seq(Int),
         Len(p) \in 7..10, p[1] = RMIB, p[2] = Len(p) - 2, Through(pos, n, s, p)
  PROVE  /\ s # <<>>
         /\ pos = "beg" => Head(s) = RMIB /\ \A m : Through("len", m, Tail(s), p)
         /\ pos = "len" => LengthOk(Head(s)) /\ Through("body", Head(s), Tail(s), p)
         /\ pos = "body" => /\ Len(s) >= n /\ n = Len(p) - 2 /\ Len(Rest(s, n)) = 0
                            /\ SubSeq(s, 1, n) \in Seq(Int) /\ Len(SubSeq(s, 1, n)) = n
                            /\ Carries(SubSeq(s, 1, n), p)
<1>1. Len(s) \in Nat /\ Len(p) \in Nat
  OBVIOUS
<1>2. CASE pos = "beg"
  <2>1. Len(s) = Len(p) /\ \A j \in 1..Len(s) : s[j] = p[j]
    BY <1>1, <1>2 DEF Through
  <2>2. s # <<>> /\ s[1] = RMIB
    BY <1>1, <2>1
  <2>3. /\ Tail(s) \in Seq(Int) /\ Len(Tail(s)) = Len(s) - 1 /\ Head(s) = s[1]
        /\ \A j \in 1..Len(s) - 1 : Tail(s)[j] = s[j + 1]
    BY <2>2, TailWords
  <2>4. ASSUME NEW j \in 1..Len(Tail(s)) PROVE Tail(s)[j] = p[j + 1]
    <3>1. j \in 1..Len(s) - 1 /\ j + 1 \in 1..Len(s)
      BY <1>1, <2>3
    <3> QED BY <2>1, <2>3, <3>1
  <2> QED BY <1>2, <2>1, <2>2, <2>3, <2>4 DEF Through
<1>3. CASE pos = "len"
  <2>1. Len(s) = Len(p) - 1 /\ \A j \in 1..Len(s) : s[j] = p[j + 1]
    BY <1>1, <1>3 DEF Through
  <2>2. s # <<>> /\ 1 \in 1..Len(s)
    BY <1>1, <2>1
  <2>3. /\ Tail(s) \in Seq(Int) /\ Len(Tail(s)) = Len(s) - 1 /\ Head(s) = s[1]
        /\ \A j \in 1..Len(s) - 1 : Tail(s)[j] = s[j + 1]
    BY <2>2, TailWords
  <2>4. s[1] = Len(p) - 2
    BY <2>1, <2>2
  <2>5. ASSUME NEW j \in 1..Len(Tail(s)) PROVE Tail(s)[j] = p[j + 2]
    <3>1. j \in 1..Len(s) - 1 /\ j + 1 \in 1..Len(s)
      BY <1>1, <2>3
    <3>2. s[j + 1] = p[(j + 1) + 1] /\ Tail(s)[j] = s[j + 1]
      BY <2>1, <2>3, <3>1
    <3>3. (j + 1) + 1 = j + 2
      OBVIOUS
    <3> QED BY <3>2, <3>3
  <2>6. LengthOk(Head(s))
    <3>1. \A k \in 5..8 : LengthOk(k)
      BY PacketAssumption DEF LengthOk
    <3>2. Len(p) - 2 \in 5..8
      OBVIOUS
    <3> QED BY <2>3, <2>4, <3>1, <3>2
  <2> QED BY <1>1, <1>3, <2>1, <2>2, <2>3, <2>4, <2>5, <2>6 DEF Through
<1>4. CASE pos = "body"
  <2>1. Len(s) = Len(p) - 2 /\ n = Len(p) - 2 /\ \A j \in 1..Len(s) : s[j] = p[j + 2]
    BY <1>1, <1>4 DEF Through
  <2>2. n \in Nat /\ n <= Len(s) /\ s # <<>> /\ n = Len(s)
    BY <1>1, <2>1
  <2>3. Len(Rest(s, n)) = Len(s) - n
    BY <2>2, RestWords
  <2>4. /\ SubSeq(s, 1, n) \in Seq(Int) /\ Len(SubSeq(s, 1, n)) = n
        /\ \A j \in 1..n : SubSeq(s, 1, n)[j] = s[j]
    BY <2>2, FirstWords
  <2>5. Carries(SubSeq(s, 1, n), p)
    BY <2>1, <2>2, <2>4 DEF Carries
  <2> QED BY <1>1, <1>4, <2>1, <2>2, <2>3, <2>4, <2>5
<1> QED BY <1>2, <1>3, <1>4

\* The words of what a request or an answer carries.
LEMMA DataWords ==
  ASSUME NEW b \in Seq(Int), Len(b) >= 3
  PROVE  /\ Data(b) \in Seq(Int) /\ Len(Data(b)) = Len(b) - 3
         /\ \A j \in 1..Len(b) - 3 : Data(b)[j] = b[j + 2]
<1> DEFINE n == Len(b) - 1
<1>1. Len(b) \in Nat /\ 3 \in Int /\ n \in Int /\ \A j \in 3..n : b[j] \in Int
  OBVIOUS
<1>2. n = Len(b) - 1
  OBVIOUS
<1> HIDE DEF n
<1>3. /\ SubSeq(b, 3, n) \in Seq(Int) /\ Len(SubSeq(b, 3, n)) = IF 3 <= n THEN n - 3 + 1 ELSE 0
      /\ \A j \in 1..n - 3 + 1 : SubSeq(b, 3, n)[j] = b[3 + j - 1]
  BY <1>1, SubSeqProperties
<1>4. Data(b) = SubSeq(b, 3, n)
  BY DEF Data, n
<1>5. ASSUME NEW j \in 1..Len(b) - 3 PROVE Data(b)[j] = b[j + 2]
  <2>1. j \in 1..n - 3 + 1 /\ 3 + j - 1 = j + 2
    BY <1>1, <1>2
  <2> QED BY <1>3, <1>4, <2>1
<1>6. (IF 3 <= n THEN n - 3 + 1 ELSE 0) = Len(b) - 3
  BY <1>1, <1>2
<1> QED BY <1>3, <1>4, <1>5, <1>6

\* The arguments of a request, of which it tells the number.
LEMMA ArgsWords ==
  ASSUME NEW b \in Seq(Int), Len(b) >= 6
  PROVE  /\ Cmd(b) = b[2] /\ Id(b) = b[3] /\ Method(b) = b[4] /\ Len(Data(b)) >= 3
         /\ PairsFit(Rest(Data(b), 2), 1) <=> 6 + 2 * b[5] <= Len(b)
         /\ b[5] <= 0 => Args(b) = <<>>
         /\ b[5] >= 1 => Args(b) # <<>>
         /\ Len(Args(b)) = 1 => b[5] = 1
         /\ b[5] = 1 => Len(Args(b)) = 1
         /\ b[5] >= 1 /\ Len(b) >= 8 => Args(b)[1][1] = b[6] /\ Args(b)[1][2] = b[7]
<1>1. /\ Data(b) \in Seq(Int) /\ Len(Data(b)) = Len(b) - 3
      /\ \A j \in 1..Len(b) - 3 : Data(b)[j] = b[j + 2]
  <2>1. Len(b) >= 3
    OBVIOUS
  <2> QED BY <2>1, DataWords
<1>2. /\ Len(b) \in Nat /\ 1 \in 1..Len(b) - 3 /\ 2 \in 1..Len(b) - 3 /\ 1 + 2 = 3 /\ 2 + 2 = 4
      /\ b[5] \in Int
  OBVIOUS
<1>3. Id(b) = b[3] /\ Method(b) = b[4] /\ Cmd(b) = b[2] /\ Len(Data(b)) >= 3
  <2>1. Data(b)[1] = b[1 + 2] /\ Data(b)[2] = b[2 + 2]
    BY <1>1, <1>2
  <2>2. Len(b) - 3 >= 3
    BY <1>2
  <2> QED BY <1>1, <1>2, <2>1, <2>2 DEF Id, Method, Cmd
<1> DEFINE d == Rest(Data(b), 2)
<1>4. d \in Seq(Int) /\ Len(d) = Len(b) - 5 /\ \A j \in 1..Len(b) - 5 : d[j] = Data(b)[j + 2]
  <2>1. 2 \in Nat /\ 2 <= Len(Data(b))
    BY <1>1
  <2>2. d \in Seq(Int) /\ Len(d) = Len(Data(b)) - 2 /\ \A j \in 1..Len(Data(b)) - 2 : d[j] = Data(b)[j + 2]
    BY <1>1, <2>1, RestWords
  <2>3. Len(Data(b)) - 2 = Len(b) - 5
    BY <1>1, <1>2
  <2> QED BY <2>2, <2>3
<1>5. Args(b) = PairsAfter(d, 1)
  BY DEF Args
<1> HIDE DEF d
<1>6. ASSUME NEW j \in 1..Len(b) - 5 PROVE d[j] = b[j + 4]
  <2>1. j + 2 \in 1..Len(b) - 3
    BY <1>2
  <2>2. d[j] = b[(j + 2) + 2]
    BY <1>1, <1>4, <2>1
  <2>3. (j + 2) + 2 = j + 4
    OBVIOUS
  <2> QED BY <2>2, <2>3
<1>7. d[1] = b[5] /\ (Len(b) >= 8 => d[2] = b[6] /\ d[3] = b[7])
  <2>1. 1 \in 1..Len(b) - 5 /\ 1 + 4 = 5 /\ 2 + 4 = 6 /\ 3 + 4 = 7
    BY <1>2
  <2>2. Len(b) >= 8 => 2 \in 1..Len(b) - 5 /\ 3 \in 1..Len(b) - 5
    BY <1>2
  <2>3. d[1] = b[1 + 4]
    BY <1>6, <2>1
  <2>4. Len(b) >= 8 => d[2] = b[2 + 4] /\ d[3] = b[3 + 4]
    BY <1>6, <2>2
  <2> QED BY <2>1, <2>3, <2>4
<1>8. PairsFit(d, 1) <=> 6 + 2 * b[5] <= Len(b)
  <2>1. d # <<>>
    BY <1>2, <1>4
  <2>2. 1 + 2 * b[5] <= Len(b) - 5 <=> 6 + 2 * b[5] <= Len(b)
    BY <1>2
  <2> QED BY <1>4, <1>7, <2>1, <2>2 DEF PairsFit
<1> DEFINE f == [k \in 1..b[5] |-> <<d[1 + 2 * k - 1], d[1 + 2 * k]>>]
<1>9. Args(b) = f
  BY <1>5, <1>7 DEF PairsAfter
<1>10. b[5] <= 0 => f = <<>>
  <2>1. b[5] <= 0 => 1..b[5] = {}
    BY <1>2
  <2>2. b[5] <= 0 => DOMAIN f = {} /\ f = [x \in {} |-> <<d[1 + 2 * x - 1], d[1 + 2 * x]>>]
    BY <2>1
  <2> QED BY <2>2
<1>11. b[5] >= 1 => /\ DOMAIN f = 1..b[5] /\ 1 \in 1..b[5] /\ f # <<>> /\ Len(f) = b[5]
                    /\ f[1] = <<d[1 + 2 * 1 - 1], d[1 + 2 * 1]>>
  <2> SUFFICES ASSUME b[5] >= 1
               PROVE  /\ DOMAIN f = 1..b[5] /\ 1 \in 1..b[5] /\ f # <<>> /\ Len(f) = b[5]
                      /\ f[1] = <<d[1 + 2 * 1 - 1], d[1 + 2 * 1]>>
    OBVIOUS
  <2>1. DOMAIN f = 1..b[5] /\ 1 \in 1..b[5] /\ b[5] \in Nat
    BY <1>2
  <2>2. f[1] = <<d[1 + 2 * 1 - 1], d[1 + 2 * 1]>>
    BY <2>1
  <2> HIDE DEF f
  <2>3. Len(f) = b[5]
    BY <2>1
  <2>4. f # <<>>
    BY <2>1
  <2> QED BY <2>1, <2>2, <2>3, <2>4
<1>12. 1 + 2 * 1 - 1 = 2 /\ 1 + 2 * 1 = 3
  OBVIOUS
<1>13. b[5] >= 1 => f[1][1] = d[2] /\ f[1][2] = d[3]
  BY <1>11, <1>12
<1> HIDE DEF f
<1>14. b[5] = 1 => Len(f) = 1
  BY <1>11
<1>15. Len(f) = 1 => b[5] = 1
  <2>1. Len(<<>>) = 0
    OBVIOUS
  <2>2. b[5] <= 0 => Len(f) = 0
    BY <1>10, <2>1
  <2>3. b[5] >= 1 => Len(f) = b[5]
    BY <1>11
  <2> QED BY <1>2, <2>2, <2>3
<1> QED BY <1>3, <1>7, <1>8, <1>9, <1>10, <1>11, <1>13, <1>14, <1>15 DEF d

\* What a request that is parsed has at least, and what one of six or eight
\* words that is a release is.
LEMMA ParsedWords ==
  ASSUME NEW b \in Seq(Int), Parsed(b)
  PROVE  /\ Len(b) >= 6
         /\ Args(b) # <<>> => Args(b)[1][1] \in Int /\ Args(b)[1][2] \in Int
         /\ Cmd(b) = RELEASEOBJECT /\ Len(b) \in {6, 8} =>
              /\ Len(b) = 8 /\ b[2] = RELEASEOBJECT /\ b[4] = TEXT /\ b[5] = 1 /\ b[8] = RMIE
              /\ Args(b)[1][2] = b[7]
<1>1. Len(Data(b)) >= 3 /\ Method(b) = TEXT /\ PairsFit(Rest(Data(b), 2), 1) /\ b[Len(b)] = RMIE
  BY DEF Parsed, Torn
<1>2. Len(b) \in Nat /\ Len(b) >= 6
  <2>1. Len(b) \in Nat
    OBVIOUS
  <2>2. CASE Len(b) >= 3
    <3>1. Len(Data(b)) = Len(b) - 3
      BY <2>2, DataWords
    <3> QED BY <1>1, <2>1, <3>1
  <2>3. CASE Len(b) < 3
    <3>1. Len(b) - 1 \in Int /\ Len(b) - 1 < 3 /\ 3 \in Int
      BY <2>1, <2>3
    <3>2. Data(b) = <<>>
      BY <3>1, SubSeqEmpty DEF Data
    <3>3. Len(<<>>) = 0
      OBVIOUS
    <3> QED BY <1>1, <3>2, <3>3
  <2> QED BY <2>1, <2>2, <2>3
<1>3. /\ Cmd(b) = b[2] /\ Method(b) = b[4] /\ 6 + 2 * b[5] <= Len(b)
      /\ b[5] <= 0 => Args(b) = <<>>
      /\ Len(Args(b)) = 1 => b[5] = 1
      /\ b[5] >= 1 /\ Len(b) >= 8 => Args(b)[1][1] = b[6] /\ Args(b)[1][2] = b[7]
  BY <1>1, <1>2, ArgsWords
<1>4. \A j \in 1..Len(b) : b[j] \in Int
  OBVIOUS
<1>5. ASSUME Args(b) # <<>> PROVE Args(b)[1][1] \in Int /\ Args(b)[1][2] \in Int
  <2>1. b[5] >= 1 /\ Len(b) >= 8
    <3>1. 5 \in 1..Len(b)
      BY <1>2
    <3>2. b[5] \in Int /\ b[5] >= 1
      BY <1>3, <1>4, <1>5, <3>1
    <3> QED BY <1>2, <1>3, <3>2
  <2>2. 6 \in 1..Len(b) /\ 7 \in 1..Len(b)
    BY <1>2, <2>1
  <2> QED BY <1>3, <1>4, <2>1, <2>2
<1>6. ASSUME Cmd(b) = RELEASEOBJECT, Len(b) \in {6, 8}
      PROVE  /\ Len(b) = 8 /\ b[2] = RELEASEOBJECT /\ b[4] = TEXT /\ b[5] = 1 /\ b[8] = RMIE
             /\ Args(b)[1][2] = b[7]
  <2>1. Len(Args(b)) = 1
    BY <1>6 DEF Parsed
  <2>2. b[5] = 1
    BY <1>3, <2>1
  <2>3. Len(b) = 8
    <3>1. 6 + 2 * 1 <= Len(b)
      BY <1>3, <2>2
    <3>2. ~(6 + 2 * 1 <= 6)
      OBVIOUS
    <3> QED BY <1>6, <3>1, <3>2
  <2> QED BY <1>1, <1>3, <1>6, <2>2, <2>3
<1> QED BY <1>2, <1>5, <1>6

LEMMA EightParsed ==
  ASSUME NEW b \in Seq(Int), Len(b) = 8, b[2] \in {0, 1, 2}, b[4] = 104, b[5] = 1, b[8] = 102,
         b[2] = 0 => b[7] = 104, b[2] = 1 => b[7] # 104
  PROVE  /\ Parsed(b) /\ Cmd(b) = b[2] /\ Id(b) = b[3]
         /\ Args(b) # <<>> /\ Args(b)[1][1] = b[6] /\ Args(b)[1][2] = b[7]
<1>1. /\ Cmd(b) = b[2] /\ Id(b) = b[3] /\ Method(b) = b[4] /\ Len(Data(b)) >= 3
      /\ PairsFit(Rest(Data(b), 2), 1) <=> 6 + 2 * b[5] <= Len(b)
      /\ b[5] >= 1 => Args(b) # <<>>
      /\ b[5] = 1 => Len(Args(b)) = 1
      /\ b[5] >= 1 /\ Len(b) >= 8 => Args(b)[1][1] = b[6] /\ Args(b)[1][2] = b[7]
  <2>1. Len(b) >= 6
    OBVIOUS
  <2> QED BY <2>1, ArgsWords
<1>2. 6 + 2 * b[5] <= Len(b)
  <2>1. 6 + 2 * 1 <= 8
    OBVIOUS
  <2> QED BY <2>1
<1>3. ~Torn(b)
  BY Marks DEF Torn
<1>4. Cmd(b) \in {CREATEOBJECT, RELEASEOBJECT, INVOKE} /\ Method(b) = TEXT
  BY <1>1, Marks
<1>5. Args(b) # <<>> /\ Len(Args(b)) = 1 /\ Args(b)[1][1] = b[6] /\ Args(b)[1][2] = b[7]
  <2>1. b[5] = 1 /\ 1 >= 1 /\ Len(b) >= 8
    OBVIOUS
  <2> QED BY <1>1, <2>1
<1>6. Parsed(b)
  BY <1>1, <1>2, <1>3, <1>4, <1>5, Marks DEF Parsed
<1> QED BY <1>1, <1>5, <1>6

LEMMA SixParsed ==
  ASSUME NEW b \in Seq(Int), Len(b) = 6, b[2] = 2, b[4] = 104, b[5] = 0, b[6] = 102
  PROVE  Parsed(b) /\ Cmd(b) = b[2] /\ Id(b) = b[3] /\ Args(b) = <<>>
<1>1. /\ Cmd(b) = b[2] /\ Id(b) = b[3] /\ Method(b) = b[4] /\ Len(Data(b)) >= 3
      /\ PairsFit(Rest(Data(b), 2), 1) <=> 6 + 2 * b[5] <= Len(b)
      /\ b[5] <= 0 => Args(b) = <<>>
  <2>1. Len(b) >= 6
    OBVIOUS
  <2> QED BY <2>1, ArgsWords
<1>2. 6 + 2 * b[5] <= Len(b)
  <2>1. 6 + 2 * 0 <= 6
    OBVIOUS
  <2> QED BY <2>1
<1>3. ~Torn(b)
  BY Marks DEF Torn
<1>4. Cmd(b) \in {CREATEOBJECT, RELEASEOBJECT, INVOKE} /\ Method(b) = TEXT
  BY <1>1, Marks
<1>5. Args(b) = <<>>
  <2>1. b[5] = 0 /\ 0 <= 0
    OBVIOUS
  <2> QED BY <1>1, <2>1
<1>6. Parsed(b)
  BY <1>1, <1>2, <1>3, <1>4, <1>5, Marks DEF Parsed
<1> QED BY <1>1, <1>5, <1>6

\* Every request is parsed, as what it is.
LEMMA RequestParsed ==
  ASSUME NEW c \in Sent, NEW b \in Seq(Int), Carries(b, Asking(c))
  PROVE  /\ Parsed(b)
         /\ c.op = "create" => Cmd(b) = CREATEOBJECT
         /\ c.op = "release" => Cmd(b) = RELEASEOBJECT /\ Args(b)[1][2] = c.id
         /\ c.op = "invoke" => /\ Cmd(b) = INVOKE /\ Id(b) = c.id
                               /\ c.flag = 0 => Args(b) = <<>>
                               /\ c.flag # 0 => /\ Args(b) # <<>> /\ Args(b)[1][1] = c.flag
                                                /\ Args(b)[1][2] = c.val
<1>1. c.op \in {"create", "release", "invoke"} /\ c.id \in Ids /\ c.flag \in 0..3 /\ c.val \in Values
  BY DEF Sent
<1>2. c.id # 104
  BY <1>1, Marks
<1> SUFFICES ASSUME NEW p, p = Asking(c), Carries(b, p)
      PROVE  /\ Parsed(b)
             /\ c.op = "create" => Cmd(b) = CREATEOBJECT
             /\ c.op = "release" => Cmd(b) = RELEASEOBJECT /\ Args(b)[1][2] = c.id
             /\ c.op = "invoke" => /\ Cmd(b) = INVOKE /\ Id(b) = c.id
                                   /\ c.flag = 0 => Args(b) = <<>>
                                   /\ c.flag # 0 => /\ Args(b) # <<>> /\ Args(b)[1][1] = c.flag
                                                    /\ Args(b)[1][2] = c.val
  OBVIOUS
<1>5. CASE c.op # "invoke" \/ c.flag # 0
  <2>1. /\ Len(p) = 10 /\ p[6] = 104 /\ p[7] = 1 /\ p[10] = 102
        /\ c.op = "create" => p[4] = 0 /\ p[9] = 104
        /\ c.op = "release" => p[4] = 1 /\ p[9] = c.id
        /\ c.op = "invoke" => p[4] = 2 /\ p[5] = c.id /\ p[8] = c.flag /\ p[9] = c.val
    <3>1. CASE c.op = "create"
      BY <3>1, Marks DEF Asking
    <3>2. CASE c.op = "release"
      BY <3>2, Marks DEF Asking
    <3>3. CASE c.op = "invoke"
      BY <1>5, <3>3, Marks DEF Asking
    <3> QED BY <1>1, <3>1, <3>2, <3>3
  <2>2. /\ Len(b) = 8 /\ b[2] = p[4] /\ b[3] = p[5] /\ b[4] = 104 /\ b[5] = 1 /\ b[6] = p[8]
        /\ b[7] = p[9] /\ b[8] = 102
    <3>1. Len(p) \in {7, 8, 9, 10}
      BY <2>1
    <3> QED BY <2>1, <3>1, Carried
  <2>3. b[2] \in {0, 1, 2} /\ (b[2] = 0 => b[7] = 104) /\ (b[2] = 1 => b[7] # 104)
    BY <1>1, <1>2, <2>1, <2>2
  <2>4. /\ Parsed(b) /\ Cmd(b) = b[2] /\ Id(b) = b[3]
        /\ Args(b) # <<>> /\ Args(b)[1][1] = b[6] /\ Args(b)[1][2] = b[7]
    BY <2>2, <2>3, EightParsed
  <2> QED BY <1>1, <1>5, <2>1, <2>2, <2>4, Marks
<1>6. CASE c.op = "invoke" /\ c.flag = 0
  <2>1. Len(p) = 8 /\ p[4] = 2 /\ p[5] = c.id /\ p[6] = 104 /\ p[7] = 0 /\ p[8] = 102
    BY <1>6, Marks DEF Asking
  <2>2. Len(b) = 6 /\ b[2] = 2 /\ b[3] = c.id /\ b[4] = 104 /\ b[5] = 0 /\ b[6] = 102
    <3>1. Len(p) \in {7, 8, 9, 10}
      BY <2>1
    <3> QED BY <2>1, <3>1, Carried
  <2>3. Parsed(b) /\ Cmd(b) = b[2] /\ Id(b) = b[3] /\ Args(b) = <<>>
    BY <2>2, SixParsed
  <2> QED BY <1>6, <2>2, <2>3, Marks
<1> QED BY <1>5, <1>6

LEMMA FiveWords ==
  ASSUME NEW b \in Seq(Int), Len(b) = 5
  PROVE  Data(b) \in Seq(Int) /\ Len(Data(b)) = 2 /\ Data(b)[1] = b[3] /\ Data(b)[2] = b[4]
<1>1. /\ Data(b) \in Seq(Int) /\ Len(Data(b)) = Len(b) - 3
      /\ \A j \in 1..Len(b) - 3 : Data(b)[j] = b[j + 2]
  <2>1. Len(b) >= 3
    OBVIOUS
  <2> QED BY <2>1, DataWords
<1>2. Data(b)[1] = b[1 + 2] /\ Data(b)[2] = b[2 + 2]
  BY <1>1
<1> QED BY <1>1, <1>2

LEMMA SevenWords ==
  ASSUME NEW b \in Seq(Int), Len(b) = 7
  PROVE  /\ Data(b) \in Seq(Int) /\ Len(Data(b)) = 4
         /\ Data(b)[1] = b[3] /\ Data(b)[2] = b[4] /\ Data(b)[3] = b[5] /\ Data(b)[4] = b[6]
<1>1. /\ Data(b) \in Seq(Int) /\ Len(Data(b)) = Len(b) - 3
      /\ \A j \in 1..Len(b) - 3 : Data(b)[j] = b[j + 2]
  <2>1. Len(b) >= 3
    OBVIOUS
  <2> QED BY <2>1, DataWords
<1>2. Data(b)[1] = b[1 + 2] /\ Data(b)[2] = b[2 + 2] /\ Data(b)[3] = b[3 + 2] /\ Data(b)[4] = b[4 + 2]
  BY <1>1
<1> QED BY <1>1, <1>2

\* The answers, word by word.
LEMMA AnswerWords ==
  ASSUME NEW v \in Int, NEW p
  PROVE  /\ p \in {Returning(v), Failing} =>
              /\ p \in Seq(Int) /\ Len(p) = 7 /\ p[1] = RMIB /\ p[2] = 5 /\ p[7] = 102
              /\ p[4] = IF p = Failing THEN 4 ELSE 3
              /\ p = Returning(v) => p[5] = 0 /\ p[6] = v
         /\ p \in {Handing(v), Throwing} =>
              /\ p \in Seq(Int) /\ Len(p) = 9 /\ p[1] = RMIB /\ p[2] = 7 /\ p[9] = 102
              /\ p[4] = IF p = Throwing THEN 5 ELSE 3
              /\ p = Handing(v) => p[5] = 1 /\ p[6] = 103 /\ p[7] = 0 /\ p[8] = v
<1>1. ASSUME p = Returning(v)
      PROVE  /\ p \in Seq(Int) /\ Len(p) = 7 /\ p[1] = RMIB /\ p[2] = 5 /\ p[4] = 3 /\ p[7] = 102
             /\ p[5] = 0 /\ p[6] = v
  BY <1>1, Marks DEF Returning
<1>2. ASSUME p = Failing
      PROVE  p \in Seq(Int) /\ Len(p) = 7 /\ p[1] = RMIB /\ p[2] = 5 /\ p[4] = 4 /\ p[7] = 102
  BY <1>2, Marks DEF Failing
<1>3. ASSUME p = Handing(v)
      PROVE  /\ p \in Seq(Int) /\ Len(p) = 9 /\ p[1] = RMIB /\ p[2] = 7 /\ p[4] = 3 /\ p[9] = 102
             /\ p[5] = 1 /\ p[6] = 103 /\ p[7] = 0 /\ p[8] = v
  BY <1>3, Marks DEF Handing
<1>4. ASSUME p = Throwing
      PROVE  p \in Seq(Int) /\ Len(p) = 9 /\ p[1] = RMIB /\ p[2] = 7 /\ p[4] = 5 /\ p[9] = 102
  BY <1>4, Marks DEF Throwing
<1>5. 3 # 4 /\ 3 # 5
  OBVIOUS
<1> QED BY <1>1, <1>2, <1>3, <1>4, <1>5

LEMMA AnswerIs ==
  ASSUME NEW p \in Answers
  PROVE  /\ p \in Seq(Int) /\ Len(p) \in {7, 9} /\ p[1] = RMIB /\ p[2] = Len(p) - 2
         /\ p = Failing \/ p = Throwing \/ \E v \in Int : p = Returning(v) \/ p = Handing(v)
<1>1. PICK v \in Int : p \in {Returning(v), Failing} \/ p \in {Handing(v), Throwing}
  <2>1. CASE p \in {Failing, Throwing}
    <3>1. 0 \in Int
      OBVIOUS
    <3> QED BY <2>1, <3>1
  <2> QED BY <2>1 DEF Answers
<1>2. CASE p \in {Returning(v), Failing}
  <2>1. p \in Seq(Int) /\ Len(p) = 7 /\ p[1] = RMIB /\ p[2] = 5
    BY <1>2, AnswerWords
  <2> QED BY <1>2, <2>1
<1>3. CASE p \in {Handing(v), Throwing}
  <2>1. p \in Seq(Int) /\ Len(p) = 9 /\ p[1] = RMIB /\ p[2] = 7
    BY <1>3, AnswerWords
  <2> QED BY <1>3, <2>1
<1> QED BY <1>1, <1>2, <1>3

\* Every answer is read, as what it is.
LEMMA AnswerRead ==
  ASSUME NEW p \in Answers, NEW v \in Int, NEW b \in Seq(Int), Carries(b, p)
  PROVE  /\ Readable(b)
         /\ p = Returning(v) => Cmd(b) = RETURN /\ Data(b)[2] = v /\ ArgAfter(b) = call.val
         /\ p = Handing(v) => Cmd(b) = RETURN /\ (call.flag # 0 => ArgAfter(b) = v)
         /\ p = Failing => Cmd(b) = ERROR
         /\ p = Throwing => Cmd(b) = INVOKEEXCEPTION
<1>1. ASSUME NEW w \in Int, p = Returning(w)
      PROVE  Readable(b) /\ Cmd(b) = RETURN /\ Data(b)[2] = w /\ ArgAfter(b) = call.val
  <2>1. Len(p) = 7 /\ p[4] = 3 /\ p[5] = 0 /\ p[6] = w /\ p[7] = 102
    <3>1. p # Failing
      <4>1. p[4] = 3
        BY <1>1, Marks DEF Returning
      <4>2. p = Failing => p[4] = 4
        BY <1>1, AnswerWords
      <4> QED BY <4>1, <4>2
    <3> QED BY <1>1, <3>1, AnswerWords
  <2>2. Len(b) = 5 /\ b[2] = 3 /\ b[3] = 0 /\ b[4] = w /\ b[5] = 102
    <3>1. Len(p) \in {7, 8, 9, 10}
      BY <2>1
    <3> QED BY <2>1, <3>1, Carried
  <2>3. Len(Data(b)) = 2 /\ Data(b)[1] = 0 /\ Data(b)[2] = w
    BY <2>2, FiveWords
  <2>4. ~Torn(b) /\ Cmd(b) = RETURN
    BY <2>2, Marks DEF Torn, Cmd
  <2>5. PairsFit(Data(b), 2)
    BY <2>3 DEF PairsFit
  <2>6. DOMAIN Outs(b) = {}
    BY <2>3 DEF Outs, PairsAfter
  <2> QED BY <2>3, <2>4, <2>5, <2>6 DEF Readable, ArgAfter
<1>2. ASSUME NEW w \in Int, p = Handing(w)
      PROVE  Readable(b) /\ Cmd(b) = RETURN /\ (call.flag # 0 => ArgAfter(b) = w)
  <2>1. Len(p) = 9 /\ p[4] = 3 /\ p[5] = 1 /\ p[6] = 103 /\ p[7] = 0 /\ p[8] = w /\ p[9] = 102
    <3>1. p # Throwing
      <4>1. p[4] = 3
        BY <1>2, Marks DEF Handing
      <4>2. p = Throwing => p[4] = 5
        BY <1>2, AnswerWords
      <4> QED BY <4>1, <4>2
    <3> QED BY <1>2, <3>1, AnswerWords
  <2>2. Len(b) = 7 /\ b[2] = 3 /\ b[3] = 1 /\ b[4] = 103 /\ b[5] = 0 /\ b[6] = w /\ b[7] = 102
    <3>1. Len(p) \in {7, 8, 9, 10}
      BY <2>1
    <3> QED BY <2>1, <3>1, Carried
  <2>3. Len(Data(b)) = 4 /\ Data(b)[1] = 1 /\ Data(b)[3] = 0 /\ Data(b)[4] = w
    BY <2>2, SevenWords
  <2>4. ~Torn(b) /\ Cmd(b) = RETURN
    BY <2>2, Marks DEF Torn, Cmd
  <2>5. PairsFit(Data(b), 2)
    <3>1. 2 + 2 * 1 <= 4
      OBVIOUS
    <3>2. Data(b) # <<>>
      <4>1. Len(<<>>) # 4
        OBVIOUS
      <4>2. Len(Data(b)) = 4
        BY <2>3
      <4> QED BY ONLY <4>1, <4>2
    <3> QED BY <2>3, <3>1, <3>2 DEF PairsFit
  <2>6. DOMAIN Outs(b) = {1} /\ Outs(b)[1][1] = 0 /\ Outs(b)[1][2] = w
    <3>1. 1..1 = {1} /\ 2 + 2 * 1 - 1 = 3 /\ 2 + 2 * 1 = 4
      OBVIOUS
    <3>2. Outs(b) = [k \in {1} |-> <<Data(b)[2 + 2 * k - 1], Data(b)[2 + 2 * k]>>]
      BY <2>3, <3>1 DEF Outs, PairsAfter
    <3>3. Outs(b)[1] = <<Data(b)[2 + 2 * 1 - 1], Data(b)[2 + 2 * 1]>>
      BY <3>2
    <3> QED BY <2>3, <3>1, <3>2, <3>3
  <2>7. call.flag # 0 => ArgAfter(b) = w
    BY <2>6 DEF ArgAfter
  <2> QED BY <2>3, <2>4, <2>5, <2>7 DEF Readable
<1>3. ASSUME p = Failing PROVE Readable(b) /\ Cmd(b) = ERROR
  <2>1. Len(p) = 7 /\ p[4] = 4 /\ p[7] = 102
    BY <1>3, AnswerWords
  <2>2. Len(b) = 5 /\ b[2] = 4 /\ b[5] = 102
    <3>1. Len(p) \in {7, 8, 9, 10}
      BY <2>1
    <3> QED BY <2>1, <3>1, Carried
  <2>3. Len(Data(b)) = 2
    BY <2>2, FiveWords
  <2>4. ~Torn(b) /\ Cmd(b) = ERROR
    BY <2>2, Marks DEF Torn, Cmd
  <2> QED BY <2>3, <2>4 DEF Readable
<1>4. ASSUME p = Throwing PROVE Readable(b) /\ Cmd(b) = INVOKEEXCEPTION
  <2>1. Len(p) = 9 /\ p[4] = 5 /\ p[9] = 102
    BY <1>4, AnswerWords
  <2>2. Len(b) = 7 /\ b[2] = 5 /\ b[7] = 102
    <3>1. Len(p) \in {7, 8, 9, 10}
      BY <2>1
    <3> QED BY <2>1, <3>1, Carried
  <2>3. Len(Data(b)) = 4
    BY <2>2, SevenWords
  <2>4. ~Torn(b) /\ Cmd(b) = INVOKEEXCEPTION
    BY <2>2, Marks DEF Torn, Cmd
  <2> QED BY <2>3, <2>4 DEF Readable
<1> QED BY <1>1, <1>2, <1>3, <1>4, AnswerIs

\* Round the end, to an id again, and from one id to any other.
LEMMA Round ==
  ASSUME NEW first \in Ids, NEW k \in Ids
  PROVE  After(first, k) \in Ids /\ \E j \in Ids : After(first, j) = k
<1>1. MaxId + 1 \in Nat \ {0} /\ first \in 0..MaxId /\ k \in 0..MaxId /\ MaxId \in Nat
  BY PacketAssumption DEF Ids
<1>2. ASSUME NEW n \in Nat \ {0}, NEW x \in Int PROVE x % n \in 0..n - 1
  OBVIOUS
<1>3. ASSUME NEW n \in Nat \ {0}, NEW x \in 0..n - 1 PROVE x % n = x /\ (x + n) % n = x
  OBVIOUS
<1>4. After(first, k) \in Ids
  <2>1. first + k \in Int /\ (MaxId + 1) - 1 = MaxId
    BY <1>1
  <2> QED BY <1>1, <1>2, <2>1 DEF After, Ids
<1>5. \E j \in Ids : After(first, j) = k
  <2>1. k \in 0..(MaxId + 1) - 1
    BY <1>1
  <2>2. k % (MaxId + 1) = k /\ (k + (MaxId + 1)) % (MaxId + 1) = k
    BY <1>1, <1>3, <2>1
  <2>3. CASE first <= k
    <3>1. k - first \in 0..MaxId /\ first + (k - first) = k
      BY <1>1, <2>3
    <3>2. After(first, k - first) = k
      BY <2>2, <3>1 DEF After
    <3> QED BY <3>1, <3>2 DEF Ids
  <2>4. CASE k < first
    <3>1. k + (MaxId + 1) - first \in 0..MaxId /\ first + (k + (MaxId + 1) - first) = k + (MaxId + 1)
      BY <1>1, <2>4
    <3>2. After(first, k + (MaxId + 1) - first) = k
      BY <2>2, <3>1 DEF After
    <3> QED BY <3>1, <3>2 DEF Ids
  <2> QED BY <1>1, <2>3, <2>4
<1> QED BY <1>4, <1>5

\* A new object's id is free.
LEMMA FirstIsFree ==
  ASSUME NEW first \in Ids, DOMAIN objects \subseteq Ids, DOMAIN objects # Ids
  PROVE  FirstFree(first) \in Ids \ DOMAIN objects
<1> DEFINE free == {k \in Ids : After(first, k) \notin DOMAIN objects}
<1>1. PICK id \in Ids : id \notin DOMAIN objects
  OBVIOUS
<1>2. PICK j \in Ids : After(first, j) = id
  BY Round
<1>3. free \subseteq Ids /\ free # {}
  BY <1>1, <1>2
<1>4. Ids \subseteq Nat /\ IsFiniteSet(Ids)
  <2>1. 0 \in Int /\ MaxId \in Int
    BY PacketAssumption
  <2>2. IsFiniteSet(0..MaxId)
    BY <2>1, FS_Interval
  <2> QED BY <2>2 DEF Ids
<1>5. FirstFree(first) = After(first, CHOOSE k \in free : \A i \in free : k <= i)
  BY DEF FirstFree
<1> HIDE DEF free
<1>6. \E k \in free : \A i \in free : k <= i
  BY <1>3, <1>4, LeastOf
<1> DEFINE k == CHOOSE k \in free : \A i \in free : k <= i
<1>7. k \in free
  BY <1>6
<1> HIDE DEF k
<1>8. FirstFree(first) = After(first, k)
  BY <1>5 DEF k
<1>9. k \in Ids /\ After(first, k) \notin DOMAIN objects
  BY <1>7 DEF free
<1> QED BY <1>8, <1>9, Round

-----------------------------------------------------------------------------
(* Remote calls: the steps                                                  *)

\* What write() puts into the connection: a packet, or a part of it.
LEMMA PartWords ==
  ASSUME NEW p \in Seq(Int), NEW m, m = p \/ m \in PartOf(p)
  PROVE  /\ m \in Seq(Int) /\ Len(m) <= Len(p) /\ \A j \in 1..Len(m) : m[j] = p[j]
         /\ m \in PartOf(p) => Len(m) < Len(p)
<1>1. ASSUME NEW k \in 0..(Len(p) - 1), m = SubSeq(p, 1, k)
      PROVE  /\ m \in Seq(Int) /\ Len(m) < Len(p) /\ \A j \in 1..Len(m) : m[j] = p[j]
  <2>1. k \in Nat /\ k <= Len(p) /\ k < Len(p)
    OBVIOUS
  <2> QED BY <1>1, <2>1, FirstWords
<1>2. m \in PartOf(p) => m \in Seq(Int) /\ Len(m) < Len(p) /\ \A j \in 1..Len(m) : m[j] = p[j]
  BY <1>1 DEF PartOf
<1>3. m \in Seq(Int) => Len(m) \in Nat /\ Len(p) \in Nat
  OBVIOUS
<1>4. CASE m \in PartOf(p)
  BY <1>2, <1>3, <1>4
<1>5. CASE m = p /\ m \notin PartOf(p)
  BY <1>3, <1>5
<1> QED BY <1>4, <1>5

LEMMA ReplyEffect ==
  ASSUME RMITyped, NEW p \in Answers, Reply(p)
  PROVE  /\ rep' \in Seq(Int) /\ cut' \in BOOLEAN
         /\ (rep' = rep \o p /\ cut' = cut) \/ cut'
<1>1. p \in Seq(Int) /\ rep \in Seq(Int) /\ cut \in BOOLEAN
  BY AnswerIs DEF RMITyped
<1>2. \/ rep' = rep \o p /\ cut' = cut
      \/ cut' = TRUE /\ \E m \in PartOf(p) : rep' = rep \o m
  BY DEF Reply, Broken
<1>3. ASSUME NEW m, m = p \/ m \in PartOf(p) PROVE rep \o m \in Seq(Int)
  <2>1. m \in Seq(Int)
    BY <1>1, <1>3, PartWords
  <2> QED BY <1>1, <2>1, JoinWords
<1> QED BY <1>1, <1>2, <1>3

\* What a request did to the objects that is answered by p.
Did(p) ==
  \/ /\ Cmd(Body) = CREATEOBJECT
     /\ \/ p = Failing /\ objects' = objects
        \/ \E id \in Ids \ DOMAIN objects :
             /\ p = Returning(id)
             /\ objects' = Put(objects, id, 0) \/ (id = 0 /\ objects' = objects)
  \/ /\ Cmd(Body) = RELEASEOBJECT
     /\ IF Args(Body)[1][2] \in DOMAIN objects
          THEN /\ p = Returning(VOID)
               /\ objects' = [j \in DOMAIN objects \ {Args(Body)[1][2]} |-> objects[j]]
          ELSE p = Failing /\ objects' = objects
  \/ /\ Cmd(Body) = INVOKE
     /\ \/ p \in {Failing, Throwing} /\ objects' = objects
        \/ /\ Id(Body) \in DOMAIN objects
           /\ IF Args(Body) = <<>> THEN p = Returning(objects[Id(Body)]) /\ objects' = objects
              ELSE /\ p = IF Args(Body)[1][1] \in {2, 3} THEN Handing(objects[Id(Body)]) ELSE Returning(VOID)
                   /\ objects' = [objects EXCEPT ![Id(Body)] = Args(Body)[1][2]]

LEMMA Served ==
  ASSUME RMITyped, ServeCreate \/ ServeNoObject \/ ServeRelease \/ ServeInvoke \/ ServeInvokeThrows
  PROVE  /\ Whole /\ Parsed(Body) /\ req' = Rest(req, sneed) /\ Ready
         /\ \E p \in Answers : Reply(p) /\ Did(p)
<1>0. /\ DOMAIN objects \subseteq Ids /\ \A id \in DOMAIN objects : objects[id] \in Int
      /\ VOID \in Int /\ \A id \in Ids : id \in Int
  BY Marks DEF RMITyped
<1>1. /\ \A v \in Int : Returning(v) \in Answers /\ Handing(v) \in Answers
      /\ Failing \in Answers /\ Throwing \in Answers
  BY DEF Answers
<1>2. ReturnError => Reply(Failing)
  <2>1. 0 \in Int
    OBVIOUS
  <2> QED BY <2>1, AnswerPackets DEF ReturnError
<1>3. ASSUME NEW v \in Int, ReturnValue(v, <<>>) PROVE Reply(Returning(v))
  BY <1>3, AnswerPackets DEF ReturnValue
<1>4. ASSUME NEW v \in Int, ReturnValue(VOID, <<0, v>>) PROVE Reply(Handing(v))
  BY <1>4, AnswerPackets DEF ReturnValue
<1>5. CASE ServeCreate
  <2>1. Serve(CREATEOBJECT) /\ DOMAIN objects # Ids
    BY <1>5 DEF ServeCreate
  <2>2. PICK first \in Ids, kept \in BOOLEAN :
          /\ FirstFree(first) # 0 => kept
          /\ objects' = IF kept THEN [j \in DOMAIN objects \cup {FirstFree(first)} |->
                                        IF j = FirstFree(first) THEN 0 ELSE objects[j]]
                        ELSE objects
          /\ ReturnValue(FirstFree(first), <<>>)
    BY <1>5 DEF ServeCreate
  <2>3. FirstFree(first) \in Ids \ DOMAIN objects
    BY <1>0, <2>1, FirstIsFree
  <2>4. objects' = Put(objects, FirstFree(first), 0) \/ (FirstFree(first) = 0 /\ objects' = objects)
    BY <2>2 DEF Put
  <2>5. Reply(Returning(FirstFree(first))) /\ Returning(FirstFree(first)) \in Answers
    BY <1>0, <1>1, <1>3, <2>2, <2>3
  <2>6. Did(Returning(FirstFree(first)))
    BY <2>1, <2>3, <2>4 DEF Did, Serve
  <2> QED BY <2>1, <2>5, <2>6 DEF Serve
<1>6. CASE ServeNoObject
  <2>1. Serve(CREATEOBJECT) /\ objects' = objects /\ Reply(Failing)
    BY <1>2, <1>6 DEF ServeNoObject
  <2>2. Did(Failing)
    BY <2>1 DEF Did, Serve
  <2> QED BY <1>1, <2>1, <2>2 DEF Serve
<1>7. CASE ServeRelease
  <2>1. Serve(RELEASEOBJECT)
    BY <1>7 DEF ServeRelease
  <2>2. CASE Args(Body)[1][2] \in DOMAIN objects
    <3>1. Reply(Returning(VOID)) /\ Did(Returning(VOID))
      BY <1>0, <1>3, <1>7, <2>1, <2>2 DEF ServeRelease, Did, Serve
    <3> QED BY <1>0, <1>1, <2>1, <3>1 DEF Serve
  <2>3. CASE Args(Body)[1][2] \notin DOMAIN objects
    <3>1. Reply(Failing) /\ Did(Failing)
      BY <1>2, <1>7, <2>1, <2>3 DEF ServeRelease, Did, Serve
    <3> QED BY <1>1, <2>1, <3>1 DEF Serve
  <2> QED BY <2>2, <2>3
<1>8. CASE ServeInvoke
  <2> DEFINE old == objects[Id(Body)]
  <2>1. Serve(INVOKE) /\ Id(Body) \in DOMAIN objects /\ old \in Int
    BY <1>0, <1>8 DEF ServeInvoke
  <2>2. CASE Args(Body) = <<>>
    <3>1. objects' = objects /\ Reply(Returning(old))
      BY <1>3, <1>8, <2>1, <2>2 DEF ServeInvoke
    <3>2. Did(Returning(old))
      BY <2>1, <2>2, <3>1 DEF Did, Serve
    <3> QED BY <1>1, <2>1, <3>1, <3>2 DEF Serve
  <2>3. CASE Args(Body) # <<>>
    <3>1. /\ objects' = [objects EXCEPT ![Id(Body)] = Args(Body)[1][2]]
          /\ ReturnValue(VOID, IF Args(Body)[1][1] \in {2, 3} THEN <<0, old>> ELSE <<>>)
      BY <1>8, <2>3, Marks DEF ServeInvoke
    <3>2. CASE Args(Body)[1][1] \in {2, 3}
      <4>1. Reply(Handing(old))
        BY <1>4, <2>1, <3>1, <3>2
      <4>2. Did(Handing(old))
        BY <2>1, <2>3, <3>1, <3>2 DEF Did, Serve
      <4> QED BY <1>1, <2>1, <4>1, <4>2 DEF Serve
    <3>3. CASE Args(Body)[1][1] \notin {2, 3}
      <4>1. Reply(Returning(VOID))
        BY <1>0, <1>3, <3>1, <3>3
      <4>2. Did(Returning(VOID))
        BY <2>1, <2>3, <3>1, <3>3 DEF Did, Serve
      <4> QED BY <1>0, <1>1, <2>1, <4>1, <4>2 DEF Serve
    <3> QED BY <3>2, <3>3
  <2> QED BY <2>2, <2>3
<1>9. CASE ServeInvokeThrows
  <2>1. Serve(INVOKE) /\ objects' = objects
    BY <1>9 DEF ServeInvokeThrows
  <2>2. Reply(Throwing) \/ Reply(Failing)
    <3>1. 0 \in Int
      OBVIOUS
    <3> QED BY <1>2, <1>9, <3>1, AnswerPackets DEF ServeInvokeThrows
  <2>3. Did(Throwing) /\ Did(Failing)
    BY <2>1 DEF Did, Serve
  <2> QED BY <1>1, <2>1, <2>2, <2>3 DEF Serve
<1> QED BY <1>5, <1>6, <1>7, <1>8, <1>9

\* A release read after some words is one that was there before.
LEMMA RestReleases ==
  ASSUME NEW s \in Seq(Int), NEW k \in Nat, k <= Len(s), NEW j \in Nat \ {0}, ReleaseAt(Rest(s, k), j)
  PROVE  ReleaseAt(s, j + k) /\ j + k \in 1..Len(s) /\ s[(j + k) + 5] = Rest(s, k)[j + 5]
<1>1. Len(Rest(s, k)) = Len(s) - k /\ \A i \in 1..Len(s) - k : Rest(s, k)[i] = s[i + k]
  BY RestWords
<1>2. Len(s) \in Nat /\ j + 6 <= Len(s) - k
  BY <1>1 DEF ReleaseAt
<1>3. /\ j \in 1..Len(s) - k /\ j + 2 \in 1..Len(s) - k /\ j + 3 \in 1..Len(s) - k
      /\ j + 5 \in 1..Len(s) - k /\ j + 6 \in 1..Len(s) - k
      /\ (j + k) + 6 <= Len(s) /\ j + k \in 1..Len(s)
  BY <1>2
<1> DEFINE r == Rest(s, k)
<1> HIDE DEF r
<1>4. /\ r[j] = s[j + k] /\ r[j + 2] = s[(j + 2) + k] /\ r[j + 3] = s[(j + 3) + k]
      /\ r[j + 5] = s[(j + 5) + k] /\ r[j + 6] = s[(j + 6) + k]
  BY <1>1, <1>3 DEF r
<1>5. /\ (j + 2) + k = (j + k) + 2 /\ (j + 3) + k = (j + k) + 3 /\ (j + 5) + k = (j + k) + 5
      /\ (j + 6) + k = (j + k) + 6
  OBVIOUS
<1>6. r[j] = RELEASEOBJECT /\ r[j + 2] = TEXT /\ r[j + 3] = 1 /\ r[j + 6] = RMIE
  BY DEF r, ReleaseAt
<1>7. r[j + 5] = s[(j + k) + 5]
  BY <1>4, <1>5
<1>8. s[j + k] = RELEASEOBJECT /\ s[(j + k) + 2] = TEXT /\ s[(j + k) + 3] = 1 /\ s[(j + k) + 6] = RMIE
  BY <1>4, <1>5, <1>6
<1> QED BY <1>3, <1>7, <1>8 DEF r, ReleaseAt

\* A request, or a part of one, adds the release it is.
LEMMA JoinReleases ==
  ASSUME NEW s \in Seq(Int), NEW c \in Sent, NEW m, m = Asking(c) \/ m \in PartOf(Asking(c)),
         NEW j \in Nat \ {0}, ReleaseAt(s \o m, j)
  PROVE  \/ ReleaseAt(s, j) /\ (s \o m)[j + 5] = s[j + 5]
         \/ m = Asking(c) /\ c.op = "release" /\ (s \o m)[j + 5] = c.id
<1> DEFINE p == Asking(c)
           t == s \o m
<1>1. /\ p \in Seq(Int) /\ Len(p) \in {8, 10} /\ p[1] = RMIB /\ p[2] = Len(p) - 2
      /\ \A i \in 1..Len(p) : p[i] = RMIE <=> i = Len(p)
      /\ Len(p) = 10 /\ p[4] = RELEASEOBJECT => c.op = "release" /\ p[9] = c.id
  BY AskingWords
<1>2. /\ m \in Seq(Int) /\ Len(m) <= Len(p) /\ \A i \in 1..Len(m) : m[i] = p[i]
      /\ m \in PartOf(p) => Len(m) < Len(p)
  BY <1>1, PartWords
<1>3. /\ Len(t) = Len(s) + Len(m)
      /\ \A i \in 1..Len(s) : t[i] = s[i]
      /\ \A i \in Len(s) + 1..Len(s) + Len(m) : t[i] = m[i - Len(s)]
  BY <1>2, JoinWords
<1>4. m = p \/ m \in PartOf(p)
  OBVIOUS
<1>5. j + 6 <= Len(t) /\ t[j] = RELEASEOBJECT /\ t[j + 2] = TEXT /\ t[j + 3] = 1 /\ t[j + 6] = RMIE
  BY DEF ReleaseAt
<1>6. SUFFICES \/ ReleaseAt(s, j) /\ t[j + 5] = s[j + 5]
               \/ m = p /\ c.op = "release" /\ t[j + 5] = c.id
  OBVIOUS
<1> HIDE DEF p, t
<1>7. Len(s) \in Nat /\ Len(m) \in Nat /\ Len(p) \in Nat
  BY <1>1, <1>2
<1>8. CASE j + 6 <= Len(s)
  <2>1. /\ j \in 1..Len(s) /\ j + 2 \in 1..Len(s) /\ j + 3 \in 1..Len(s) /\ j + 5 \in 1..Len(s)
        /\ j + 6 \in 1..Len(s)
    BY <1>7, <1>8
  <2>2. /\ t[j] = s[j] /\ t[j + 2] = s[j + 2] /\ t[j + 3] = s[j + 3] /\ t[j + 5] = s[j + 5]
        /\ t[j + 6] = s[j + 6]
    BY <1>3, <2>1
  <2> QED BY <1>5, <1>8, <2>2 DEF ReleaseAt
<1>9. CASE j + 6 > Len(s)
  <2>1. j + 6 \in Len(s) + 1..Len(s) + Len(m) /\ (j + 6) - Len(s) \in 1..Len(m) /\ (j + 6) - Len(s) \in 1..Len(p)
    BY <1>2, <1>3, <1>5, <1>7, <1>9
  <2>2. p[(j + 6) - Len(s)] = RMIE
    BY <1>2, <1>3, <1>5, <2>1
  <2>3. (j + 6) - Len(s) = Len(p)
    BY <1>1, <2>1, <2>2
  <2>4. m = p
    BY <1>2, <1>4, <1>7, <2>1, <2>3
  <2>5. CASE Len(p) = 8
    <3>1. j = Len(s) + 2 /\ j \in Len(s) + 1..Len(s) + Len(m) /\ j - Len(s) = 2
      BY <1>7, <2>3, <2>4, <2>5
    <3>2. t[j] = p[2]
      BY <1>3, <2>4, <3>1
    <3>3. p[2] = 6 /\ RELEASEOBJECT = 1
      BY <1>1, <2>5, Marks
    <3>4. t[j] = 1
      BY <1>5, <3>3
    <3>5. t[j] = 6
      BY <3>2, <3>3
    <3> QED BY <3>4, <3>5
  <2>6. CASE Len(p) = 10
    <3>1. /\ j \in Len(s) + 1..Len(s) + Len(m) /\ j - Len(s) = 4
          /\ j + 5 \in Len(s) + 1..Len(s) + Len(m) /\ (j + 5) - Len(s) = 9
      BY <1>7, <2>3, <2>4, <2>6
    <3>2. t[j] = p[4] /\ t[j + 5] = p[9]
      BY <1>3, <2>4, <3>1
    <3> QED BY <1>1, <1>5, <2>4, <2>6, <3>2
  <2> QED BY <1>1, <2>5, <2>6
<1> QED BY <1>7, <1>8, <1>9

LEMMA RestAsks ==
  ASSUME NEW s \in Seq(Int), NEW k \in Nat, k <= Len(s), NEW id, Asks(Rest(s, k), id)
  PROVE  Asks(s, id)
<1>1. PICK j \in 1..Len(Rest(s, k)) : ReleaseAt(Rest(s, k), j) /\ Rest(s, k)[j + 5] = id
  BY DEF Asks
<1>2. j \in Nat \ {0}
  BY RestWords
<1>3. ReleaseAt(s, j + k) /\ j + k \in 1..Len(s) /\ s[(j + k) + 5] = Rest(s, k)[j + 5]
  BY <1>1, <1>2, RestReleases
<1> QED BY <1>1, <1>3 DEF Asks

LEMMA JoinAsks ==
  ASSUME NEW s \in Seq(Int), NEW c \in Sent, NEW m, m = Asking(c) \/ m \in PartOf(Asking(c)),
         NEW id, Asks(s \o m, id)
  PROVE  Asks(s, id) \/ (m = Asking(c) /\ c.op = "release" /\ c.id = id)
<1>1. PICK j \in 1..Len(s \o m) : ReleaseAt(s \o m, j) /\ (s \o m)[j + 5] = id
  BY DEF Asks
<1>2. m \in Seq(Int)
  BY AskingWords, PartWords
<1>3. s \o m \in Seq(Int)
  BY <1>2, JoinWords
<1>4. j \in Nat \ {0}
  BY <1>3
<1>5. \/ ReleaseAt(s, j) /\ (s \o m)[j + 5] = s[j + 5]
      \/ m = Asking(c) /\ c.op = "release" /\ (s \o m)[j + 5] = c.id
  BY <1>1, <1>4, JoinReleases
<1>6. ReleaseAt(s, j) => j \in 1..Len(s)
  <2>1. Len(s) \in Nat
    OBVIOUS
  <2> QED BY <1>4, <2>1 DEF ReleaseAt
<1> QED BY <1>1, <1>5, <1>6 DEF Asks

LEMMA RestLengths ==
  ASSUME NEW s \in Seq(Int), LengthsIn(s), NEW k \in Nat, k <= Len(s)
  PROVE  LengthsIn(Rest(s, k))
<1>1. Len(Rest(s, k)) = Len(s) - k /\ \A i \in 1..Len(s) - k : Rest(s, k)[i] = s[i + k]
  BY RestWords
<1> DEFINE r == Rest(s, k)
<1> SUFFICES ASSUME NEW j \in 1..Len(r) - 1, r[j] = RMIB PROVE r[j + 1] \in {6, 8, RMIB}
  BY DEF LengthsIn
<1> HIDE DEF r
<1>2. Len(s) \in Nat /\ Len(r) = Len(s) - k
  BY <1>1 DEF r
<1>3. j \in 1..Len(s) - k /\ j + 1 \in 1..Len(s) - k /\ j + k \in 1..Len(s) - 1
  BY <1>2
<1>4. r[j] = s[j + k] /\ r[j + 1] = s[(j + 1) + k]
  BY <1>1, <1>3 DEF r
<1>5. (j + 1) + k = (j + k) + 1
  OBVIOUS
<1>6. s[(j + k) + 1] \in {6, 8, RMIB}
  BY <1>3, <1>4 DEF LengthsIn
<1> QED BY <1>4, <1>5, <1>6

LEMMA JoinLengths ==
  ASSUME NEW s \in Seq(Int), LengthsIn(s), NEW c \in Sent, NEW m, m = Asking(c) \/ m \in PartOf(Asking(c))
  PROVE  /\ LengthsIn(s \o m)
         /\ s = <<>> /\ s \o m # <<>> => (s \o m)[1] = RMIB
         /\ s # <<>> => (s \o m)[1] = s[1]
<1> DEFINE p == Asking(c)
           t == s \o m
<1>1. /\ p \in Seq(Int) /\ Len(p) \in {8, 10} /\ p[1] = RMIB /\ p[2] = Len(p) - 2
      /\ \A i \in 1..Len(p) : p[i] = RMIB => i = 1
  BY AskingWords
<1>2. m \in Seq(Int) /\ Len(m) <= Len(p) /\ \A i \in 1..Len(m) : m[i] = p[i]
  BY <1>1, PartWords
<1>3. /\ t \in Seq(Int) /\ Len(t) = Len(s) + Len(m)
      /\ \A i \in 1..Len(s) : t[i] = s[i]
      /\ \A i \in Len(s) + 1..Len(s) + Len(m) : t[i] = m[i - Len(s)]
  BY <1>2, JoinWords
<1>4. SUFFICES LengthsIn(t) /\ (s = <<>> /\ t # <<>> => t[1] = RMIB) /\ (s # <<>> => t[1] = s[1])
  OBVIOUS
<1> HIDE DEF p, t
<1>5. Len(s) \in Nat /\ Len(m) \in Nat /\ Len(p) \in Nat
  BY <1>1, <1>2
<1>6. ASSUME NEW j \in 1..Len(t) - 1, t[j] = RMIB PROVE t[j + 1] \in {6, 8, RMIB}
  <2>1. CASE j <= Len(s) - 1
    <3>1. j \in 1..Len(s) - 1 /\ j \in 1..Len(s) /\ j + 1 \in 1..Len(s)
      BY <1>5, <2>1
    <3>2. t[j] = s[j] /\ t[j + 1] = s[j + 1]
      BY <1>3, <3>1
    <3> QED BY <1>6, <3>1, <3>2 DEF LengthsIn
  <2>2. CASE j = Len(s)
    <3>1. j + 1 \in Len(s) + 1..Len(s) + Len(m) /\ (j + 1) - Len(s) = 1 /\ 1 \in 1..Len(m)
      BY <1>3, <1>5, <1>6, <2>2
    <3>2. t[j + 1] = p[1]
      BY <1>2, <1>3, <3>1
    <3> QED BY <1>1, <3>2
  <2>3. CASE j > Len(s)
    <3>1. /\ j \in Len(s) + 1..Len(s) + Len(m) /\ j - Len(s) \in 1..Len(m) /\ j - Len(s) \in 1..Len(p)
          /\ j + 1 \in Len(s) + 1..Len(s) + Len(m) /\ (j + 1) - Len(s) \in 1..Len(m)
          /\ (j + 1) - Len(s) = (j - Len(s)) + 1
      BY <1>2, <1>3, <1>5, <1>6, <2>3
    <3>2. p[j - Len(s)] = RMIB /\ t[j + 1] = p[(j + 1) - Len(s)]
      BY <1>2, <1>3, <1>6, <3>1
    <3>3. j - Len(s) = 1
      BY <1>1, <3>1, <3>2
    <3>4. (j + 1) - Len(s) = 2
      BY <3>1, <3>3
    <3>5. t[j + 1] = Len(p) - 2
      BY <1>1, <3>2, <3>4
    <3>6. Len(p) - 2 \in {6, 8}
      BY <1>1
    <3> QED BY <3>5, <3>6
  <2> QED BY <1>5, <2>1, <2>2, <2>3
<1>7. ASSUME s = <<>>, t # <<>> PROVE t[1] = RMIB
  <2>1. Len(s) = 0 /\ Len(t) > 0
    BY <1>3, <1>7
  <2>2. 1 \in Len(s) + 1..Len(s) + Len(m) /\ 1 - Len(s) = 1 /\ 1 \in 1..Len(m)
    BY <1>3, <1>5, <2>1
  <2> QED BY <1>1, <1>2, <1>3, <2>2
<1>8. ASSUME s # <<>> PROVE t[1] = s[1]
  <2>1. 1 \in 1..Len(s)
    BY <1>8
  <2> QED BY <1>3, <2>1
<1> QED BY <1>6, <1>7, <1>8 DEF LengthsIn

LEMMA CallFacts ==
  /\ Sent \subseteq CallsMade /\ NoCall \in CallsMade /\ NoCall.op = "none"
  /\ \A c \in CallsMade : /\ c.op \in {"none", "create", "release", "invoke"}
                          /\ c.op # "none" => c \in Sent
                          /\ c.id \in Ids /\ c.flag \in 0..3 /\ c.val \in Values
  /\ \A c \in Sent : c.op \in {"create", "release", "invoke"}
  /\ Call("create", 0, 0, 0) \in Sent
  /\ \A id \in Ids : Call("release", id, 0, 0) \in Sent
  /\ \A id \in Ids, flag \in 0..3, val \in Values : Call("invoke", id, flag, val) \in Sent
<1>1. 0 \in Ids /\ 0 \in Values /\ 0 \in 0..3
  BY Marks
<1> QED BY <1>1 DEF Sent, CallsMade, NoCall, Call

\* A step of the client, which reads answers.
LEMMA ClientRequests ==
  ASSUME RMIInv, UNCHANGED <<req, spc, sneed>>,
         \/ \A id : Held(id)' => Held(id)
         \/ req = <<>>
  PROVE  ReleasesAsked' /\ LengthsSent'
<1>1. LengthsSent'
  BY DEF RMIInv, LengthsSent, LengthsIn
<1>2. CASE req = <<>>
  <2>1. 1..Len(req') = {}
    BY <1>2
  <2> QED BY <1>1, <2>1 DEF ReleasesAsked, Asks
<1>3. CASE \A id : Held(id)' => Held(id)
  <2>1. \A id \in stubs' : Held(id)' => id \in stubs /\ Held(id) 
    BY <1>3 DEF Held
  <2> QED BY <1>1, <2>1 DEF RMIInv, ReleasesAsked, Asks
<1> QED BY <1>2, <1>3

\* A step of the server, which reads requests.
LEMMA ServerRequests ==
  ASSUME RMIInv, UNCHANGED <<stubs, doubt, call>>, NEW k \in Nat, k <= Len(req), req' = Rest(req, k),
         spc' = "len" /\ req' # <<>> => req'[1] \in {6, 8, RMIB}, spc' = "body" => sneed' \in {6, 8}
  PROVE  ReleasesAsked' /\ LengthsSent' /\ req' \in Seq(Int)
<1>1. req \in Seq(Int) /\ LengthsIn(req) /\ ReleasesAsked
  BY DEF RMIInv, RMITyped, LengthsSent
<1>2. req' \in Seq(Int) /\ LengthsIn(Rest(req, k))
  BY <1>1, RestWords, RestLengths
<1>3. LengthsIn(req)'
  BY <1>2 DEF LengthsIn
<1>4. LengthsSent'
  BY <1>3 DEF LengthsSent
<1>5. ASSUME NEW id \in stubs, Held(id), Asks(Rest(req, k), id) PROVE FALSE
  <2>1. Asks(req, id)
    BY <1>1, <1>5, RestAsks
  <2> QED BY <1>1, <1>5, <2>1 DEF ReleasesAsked
<1>6. ReleasesAsked'
  BY <1>5 DEF ReleasesAsked, Asks, Held
<1> QED BY <1>2, <1>4, <1>6

\* The step of the abstract specification.
RemoteStep == [Remote!RmNext]_Remote!rmVars

LEMMA BeginKeeps ==
  ASSUME RMIInv, NEW c \in Sent, NEW cmd, NEW id, NEW args, Begin(c, cmd, id, args),
         Packet(cmd, <<id, TEXT, Len(args) \div 2>> \o args) = Asking(c),
         c.op = "release" => c.id \in stubs
  PROVE  RMIInv' /\ RemoteStep
<1>1. /\ cpc = "idle" /\ result' = [op |-> "none", id |-> 0, val |-> 0]
      /\ UNCHANGED <<rep, spc, sneed, objects, cneed, stubs, known>>
  BY DEF Begin, Result, serverVars
<1>2. \/ req' = req \o Asking(c) /\ cpc' = "beg" /\ call' = c /\ UNCHANGED <<cut, doubt>>
      \/ /\ cut' = TRUE /\ \E m \in PartOf(Asking(c)) : req' = req \o m
         /\ doubt' = Doubtful(c) /\ UNCHANGED <<cpc, call>>
  BY DEF Begin, Broken
<1>3. PICK m : req' = req \o m /\ (m = Asking(c) \/ m \in PartOf(Asking(c)))
               /\ (m = Asking(c) => call' = c \/ doubt' = Doubtful(c))
  BY <1>2
<1>4. RMITyped /\ req \in Seq(Int) /\ call.op = "none"
  BY <1>1 DEF RMIInv, RMITyped
<1>5. Asking(c) \in Seq(Int) /\ Len(Asking(c)) \in {8, 10}
  BY AskingWords
<1>6. req' \in Seq(Int)
  <2>1. m \in Seq(Int)
    BY <1>3, <1>5, PartWords
  <2> QED BY <1>3, <1>4, <2>1, JoinWords
<1>7. RMITyped'
  <2>1. /\ cut' \in BOOLEAN /\ cpc' \in {"idle", "beg", "len", "body"} /\ call' \in CallsMade
        /\ call'.op = "none" <=> cpc' = "idle"
    <3>1. c \in CallsMade /\ c.op # "none"
      BY CallFacts
    <3> QED BY <1>1, <1>2, <1>4, <3>1 DEF RMITyped
  <2> QED BY <1>1, <1>4, <1>6, <2>1 DEF RMITyped
<1>8. \A i : Held(i)' => Held(i)
  <2>1. doubt \subseteq doubt'
    BY <1>2 DEF Doubtful
  <2> QED BY <1>1, <1>4, <2>1 DEF Held
<1>9. ReleasesAsked'
  <2>1. ASSUME NEW i \in stubs, Held(i)', Asks(req \o m, i) PROVE FALSE
    <3>1. Asks(req, i) \/ (m = Asking(c) /\ c.op = "release" /\ c.id = i)
      BY <1>3, <1>4, <2>1, JoinAsks
    <3>2. ~Asks(req, i)
      BY <1>8, <2>1 DEF RMIInv, ReleasesAsked
    <3> QED BY <1>3, <2>1, <3>1, <3>2 DEF Held, Doubtful
  <2>2. \A i \in stubs' : Held(i)' => ~Asks(req \o m, i)
    BY <1>1, <2>1
  <2> QED BY <1>3, <2>2 DEF ReleasesAsked, Asks
<1>10. LengthsSent'
  <2>1. LengthsIn(req) /\ (spc = "len" /\ req # <<>> => req[1] \in {6, 8, RMIB})
    BY DEF RMIInv, LengthsSent
  <2>2. /\ LengthsIn(req \o m)
        /\ req = <<>> /\ req \o m # <<>> => (req \o m)[1] = RMIB
        /\ req # <<>> => (req \o m)[1] = req[1]
    BY <1>3, <1>4, <2>1, JoinLengths
  <2>3. LengthsIn(req)'
    BY <1>3, <2>2 DEF LengthsIn
  <2> QED BY <1>1, <1>3, <2>1, <2>2, <2>3 DEF RMIInv, LengthsSent
<1>11. StubsHeld'
  BY <1>1, <1>8 DEF RMIInv, StubsHeld
<1>12. InStep'
  <2> SUFFICES ASSUME ~cut' PROVE Asked'
    BY DEF InStep
  <2>1. req' = req \o Asking(c) /\ cpc' = "beg" /\ call' = c /\ UNCHANGED <<cut, doubt>>
    BY <1>2
  <2>2. Idle
    BY <1>1, <2>1 DEF RMIInv, InStep, Asked, Told
  <2>3. req' = Asking(c)
    BY <1>5, <2>1, <2>2, ConcatEmptySeq DEF Idle
  <2>4. Through("beg", sneed', req', Asking(c))
    BY <1>5, <2>3 DEF Through
  <2>5. c.op = "release" => c.id \in DOMAIN objects \cup doubt
    BY <1>4 DEF RMIInv, StubsHeld, Held
  <2>6. rep' = <<>> /\ spc' = "beg" /\ objects' = known'
    BY <1>1, <2>2 DEF Idle
  <2> QED BY <1>1, <2>1, <2>4, <2>5, <2>6 DEF Asked
<1>13. RemoteStep
  <2>1. CASE cut'
    BY <2>1 DEF RemoteStep, Remote!RmNext
  <2>2. CASE ~cut'
    <3>1. ~cut /\ Remote!RmBegin
      BY <1>1, <1>2, <2>2 DEF Remote!RmBegin, Remote!Says
    <3> QED BY <3>1 DEF RemoteStep, Remote!RmNext, Remote!RmCall
  <2> QED BY <2>1, <2>2
<1> QED BY <1>7, <1>9, <1>10, <1>11, <1>12, <1>13 DEF RMIInv

\* What a client in step has read, when it has read an answer.
LEMMA ToldReads ==
  ASSUME RMIInv, ~cut, cpc # "idle"
  PROVE  /\ rep # <<>> \/ cpc = "body" => Told
         /\ rep # <<>> => /\ cpc = "beg" => Head(rep) = RMIB
                          /\ cpc = "len" => LengthOk(Head(rep))
         /\ cpc = "body" => /\ Len(rep) >= cneed /\ Rest(rep, cneed) = <<>> /\ Answer \in Seq(Int)
                            /\ req = <<>> /\ spc = "beg"
                            /\ \E p \in Answers : Carries(Answer, p) /\ Says(p)
<1>1. rep \in Seq(Int) /\ cpc \in {"idle", "beg", "len", "body"} /\ cneed \in Nat
  BY DEF RMIInv, RMITyped
<1>2. rep # <<>> \/ cpc = "body" => Told
  BY DEF RMIInv, InStep, Idle, Asked
<1>3. ASSUME Told
      PROVE  /\ cpc = "beg" => Head(rep) = RMIB
             /\ cpc = "len" => LengthOk(Head(rep))
             /\ cpc = "body" => /\ Len(rep) >= cneed /\ Rest(rep, cneed) = <<>> /\ Answer \in Seq(Int)
                                /\ req = <<>> /\ spc = "beg"
                                /\ \E p \in Answers : Carries(Answer, p) /\ Says(p)
  <2>1. PICK p \in Answers : Through(cpc, cneed, rep, p) /\ Says(p)
    BY <1>3 DEF Told
  <2>2. p \in Seq(Int) /\ Len(p) \in 7..10 /\ p[1] = RMIB /\ p[2] = Len(p) - 2
    BY AnswerIs
  <2>3. cpc \in {"beg", "len", "body"}
    BY <1>1
  <2>4. /\ cpc = "beg" => Head(rep) = RMIB
        /\ cpc = "len" => LengthOk(Head(rep))
        /\ cpc = "body" => /\ Len(rep) >= cneed /\ Len(Rest(rep, cneed)) = 0
                           /\ SubSeq(rep, 1, cneed) \in Seq(Int) /\ Carries(SubSeq(rep, 1, cneed), p)
    <3>1. /\ rep # <<>>
          /\ cpc = "beg" => Head(rep) = RMIB /\ \A m : Through("len", m, Tail(rep), p)
          /\ cpc = "len" => LengthOk(Head(rep)) /\ Through("body", Head(rep), Tail(rep), p)
          /\ cpc = "body" => /\ Len(rep) >= cneed /\ cneed = Len(p) - 2 /\ Len(Rest(rep, cneed)) = 0
                             /\ SubSeq(rep, 1, cneed) \in Seq(Int) /\ Len(SubSeq(rep, 1, cneed)) = cneed
                             /\ Carries(SubSeq(rep, 1, cneed), p)
      BY <1>1, <2>1, <2>2, <2>3, ThroughReads, Zenon
    <3> QED BY <3>1
  <2>5. cpc = "body" => Rest(rep, cneed) = <<>>
    <3>1. cpc = "body" => cneed <= Len(rep)
      BY <1>1, <2>4
    <3>2. cpc = "body" => Rest(rep, cneed) \in Seq(Int)
      BY <1>1, <3>1, RestWords
    <3> QED BY <2>4, <3>2
  <2> QED BY <1>3, <2>1, <2>4, <2>5 DEF Answer, Told
<1> QED BY <1>2, <1>3

LEMMA ClientReadsKeeps == RMIInv /\ ClientReads => RMIInv' /\ RemoteStep
<1> SUFFICES ASSUME RMIInv, ClientReads PROVE RMIInv' /\ RemoteStep
  OBVIOUS
<1>1. /\ rep # <<>> /\ rep' = Tail(rep)
      /\ \/ cpc = "beg" /\ Head(rep) = RMIB /\ cpc' = "len" /\ cneed' = cneed
         \/ cpc = "len" /\ LengthOk(Head(rep)) /\ cpc' = "body" /\ cneed' = Head(rep)
      /\ UNCHANGED <<req, cut, spc, sneed, objects, call, stubs, result, known, doubt>>
  BY DEF ClientReads, serverVars
<1>2. /\ rep \in Seq(Int) /\ cneed \in Nat
      /\ Tail(rep) \in Seq(Int) /\ Head(rep) \in Int /\ Head(rep) = rep[1]
  <2>1. rep \in Seq(Int) /\ cneed \in Nat
    BY DEF RMIInv, RMITyped
  <2> QED BY <1>1, <2>1
<1>3. RMITyped'
  <2>1. cneed' \in Nat
    BY <1>1, <1>2 DEF LengthOk
  <2>2. cpc' \in {"idle", "beg", "len", "body"} /\ (cpc = "idle" <=> cpc' = "idle")
    BY <1>1
  <2> QED BY <1>1, <1>2, <2>1, <2>2 DEF RMIInv, RMITyped
<1>4. ReleasesAsked' /\ LengthsSent' /\ StubsHeld'
  <2>1. \A id : Held(id)' => Held(id)
    BY <1>1 DEF Held
  <2>2. ReleasesAsked' /\ LengthsSent'
    BY <1>1, <2>1, ClientRequests
  <2> QED BY <1>1, <2>1, <2>2 DEF RMIInv, StubsHeld
<1>5. InStep'
  <2> SUFFICES ASSUME ~cut PROVE Told'
    BY <1>1 DEF InStep
  <2>1. PICK p \in Answers : Through(cpc, cneed, rep, p) /\ Says(p)
    BY <1>1, ToldReads DEF Told
  <2>2. p \in Seq(Int) /\ Len(p) \in 7..10 /\ p[1] = RMIB /\ p[2] = Len(p) - 2
    BY AnswerIs
  <2>3. cpc \in {"beg", "len", "body"}
    BY <1>1
  <2>4. /\ cpc = "beg" => \A m : Through("len", m, Tail(rep), p)
        /\ cpc = "len" => Through("body", Head(rep), Tail(rep), p)
    BY <1>2, <2>1, <2>2, <2>3, ThroughReads
  <2>5. Through(cpc', cneed', rep', p)
    BY <1>1, <2>4
  <2>6. Says(p)'
    BY <1>1, <2>1 DEF Says, CreateSays, ReleaseSays, InvokeSays
  <2>7. cpc' # "idle" /\ req' = <<>> /\ spc' = "beg"
    BY <1>1, ToldReads DEF Told
  <2> QED BY <2>5, <2>6, <2>7 DEF Told
<1>6. RemoteStep
  BY <1>1 DEF RemoteStep, Remote!rmVars
<1> QED BY <1>3, <1>4, <1>5, <1>6 DEF RMIInv

\* A call that ends with an exception leaves the two sides out of step.
LEMMA LostKeeps ==
  ASSUME RMIInv, Lost, rep' \in Seq(Int), cut' = TRUE, UNCHANGED <<req, spc, sneed, objects, stubs, known>>
  PROVE  RMIInv' /\ RemoteStep
<1>1. /\ cpc' = "idle" /\ cneed' = 0 /\ call' = NoCall /\ doubt' = Doubtful(call)
  BY DEF Lost, Return
<1>2. RMITyped'
  <2>1. call' \in CallsMade /\ call'.op = "none"
    BY <1>1, CallFacts
  <2> QED BY <1>1, <2>1 DEF RMIInv, RMITyped
<1>3. \A id : Held(id)' => Held(id)
  BY <1>1 DEF Held, Doubtful
<1>4. ReleasesAsked' /\ LengthsSent'
  BY <1>3, ClientRequests
<1>5. StubsHeld'
  BY <1>3 DEF RMIInv, StubsHeld
<1>6. InStep'
  BY DEF InStep
<1>7. RemoteStep
  BY DEF RemoteStep, Remote!RmNext
<1> QED BY <1>2, <1>4, <1>5, <1>6, <1>7 DEF RMIInv

LEMMA ClientThrowsKeeps ==
  RMIInv /\ (ClientRefuses \/ ClientThrows \/ ClientReadThrows) => RMIInv' /\ RemoteStep
<1> SUFFICES ASSUME RMIInv, ClientRefuses \/ ClientThrows \/ ClientReadThrows PROVE RMIInv' /\ RemoteStep
  OBVIOUS
<1>1. Lost /\ UNCHANGED <<req, spc, sneed, objects, stubs, known>>
  BY DEF ClientRefuses, ClientThrows, ClientReadThrows, serverVars
<1>2. rep \in Seq(Int) /\ cneed \in Nat /\ Len(rep) \in Nat /\ cut \in BOOLEAN
  BY DEF RMIInv, RMITyped
<1>3. rep' \in Seq(Int)
  <2>1. CASE ClientRefuses
    BY <1>2, <2>1 DEF ClientRefuses
  <2>2. CASE ClientThrows
    BY <1>2, <2>2, RestWords DEF ClientThrows
  <2>3. CASE ClientReadThrows
    <3>1. PICK k \in 0..((IF cpc = "body" THEN cneed ELSE 1) - 1) : k <= Len(rep) /\ rep' = Rest(rep, k)
      BY <2>3 DEF ClientReadThrows
    <3>2. k \in Nat
      BY <1>2
    <3> QED BY <1>2, <3>1, <3>2, RestWords
  <2> QED BY <2>1, <2>2, <2>3
<1>4. cut' = TRUE
  <2>1. CASE ClientRefuses
    <3>1. cut
      BY <2>1, ToldReads DEF ClientRefuses
    <3> QED BY <1>2, <2>1, <3>1 DEF ClientRefuses
  <2>2. CASE ClientThrows
    <3>1. ASSUME ~cut PROVE FALSE
      <4>1. PICK p \in Answers : Carries(Answer, p) /\ Answer \in Seq(Int)
        BY <2>2, <3>1, ToldReads DEF ClientThrows
      <4>2. Readable(Answer)
        <5>1. 0 \in Int
          OBVIOUS
        <5> QED BY <4>1, <5>1, AnswerRead
      <4> QED BY <2>2, <4>2 DEF ClientThrows
    <3> QED BY <1>2, <2>2, <3>1 DEF ClientThrows
  <2>3. CASE ClientReadThrows
    BY <2>3 DEF ClientReadThrows, Broken
  <2> QED BY <2>1, <2>2, <2>3
<1> QED BY <1>1, <1>3, <1>4, LostKeeps

\* A call that ends with an answer.
LEMMA AnsweredKeeps ==
  ASSUME RMIInv, NEW cmds, Answered(cmds), stubs' \subseteq Ids,
         DOMAIN known' \subseteq Ids, known' \in [DOMAIN known' -> Int],
         cut => \A id : Held(id)' => Held(id), StubsHeld', ~cut => known' = objects
  PROVE  RMIInv'
<1>1. /\ cpc = "body" /\ Len(rep) >= cneed /\ rep' = Rest(rep, cneed)
      /\ cpc' = "idle" /\ cneed' = 0 /\ call' = NoCall
      /\ UNCHANGED <<req, cut, spc, sneed, objects>>
  BY DEF Answered, Return, serverVars
<1>2. rep \in Seq(Int) /\ cneed \in Nat /\ cut \in BOOLEAN
  BY DEF RMIInv, RMITyped
<1>3. RMITyped'
  <2>1. rep' \in Seq(Int)
    <3>1. cneed <= Len(rep)
      BY <1>1, <1>2
    <3> QED BY <1>1, <1>2, <3>1, RestWords
  <2>2. call' \in CallsMade /\ call'.op = "none"
    BY <1>1, CallFacts
  <2> QED BY <1>1, <2>1, <2>2 DEF RMIInv, RMITyped
<1>4. ~cut => req = <<>> /\ spc = "beg" /\ rep' = <<>>
  BY <1>1, ToldReads
<1>5. ReleasesAsked' /\ LengthsSent'
  BY <1>1, <1>4, ClientRequests
<1>6. InStep'
  BY <1>1, <1>4 DEF InStep, Idle
<1> QED BY <1>3, <1>5, <1>6 DEF RMIInv

\* The answer of a call in step.
LEMMA AnswerSays ==
  ASSUME RMIInv, NEW cmds, Answered(cmds), ~cut
  PROVE  \E p \in Answers :
           /\ Says(p)
           /\ \A v \in Int : p = Returning(v) => /\ Cmd(Answer) = RETURN /\ Data(Answer)[2] = v
                                                 /\ ArgAfter(Answer) = call.val
           /\ \A v \in Int : p = Handing(v) => /\ Cmd(Answer) = RETURN
                                               /\ call.flag # 0 => ArgAfter(Answer) = v
           /\ p = Failing => Cmd(Answer) = ERROR
           /\ p = Throwing => Cmd(Answer) = INVOKEEXCEPTION
<1>1. cpc = "body" /\ cpc # "idle"
  BY DEF Answered
<1>2. PICK p \in Answers : Carries(Answer, p) /\ Says(p) /\ Answer \in Seq(Int)
  BY <1>1, ToldReads
<1>3. \A v \in Int : /\ p = Returning(v) => /\ Cmd(Answer) = RETURN /\ Data(Answer)[2] = v
                                            /\ ArgAfter(Answer) = call.val
                     /\ p = Handing(v) => /\ Cmd(Answer) = RETURN
                                          /\ call.flag # 0 => ArgAfter(Answer) = v
                     /\ p = Failing => Cmd(Answer) = ERROR
                     /\ p = Throwing => Cmd(Answer) = INVOKEEXCEPTION
  BY <1>2, AnswerRead
<1>4. 0 \in Int
  OBVIOUS
<1> QED BY <1>2, <1>3, <1>4

LEMMA Commands ==
  /\ RETURN # ERROR /\ RETURN # INVOKEEXCEPTION
  /\ \A id \in Ids : id \in Int
  /\ VOID \in Int /\ VOID \notin Ids
BY Marks

LEMMA CreatedKeeps == RMIInv /\ Created => RMIInv' /\ RemoteStep
<1> SUFFICES ASSUME RMIInv, Created PROVE RMIInv' /\ RemoteStep
  OBVIOUS
<1> DEFINE id == Data(Answer)[2]
<1>1. call.op = "create" /\ Answered({RETURN}) /\ Cmd(Answer) = RETURN
  BY DEF Created, Answered
<1>2. /\ UNCHANGED <<req, cut, spc, sneed, objects>> /\ call' = NoCall
  BY <1>1 DEF Answered, Return, serverVars
<1>3. /\ id \in Ids \ {0} =>
           /\ stubs' = stubs \cup {id} /\ doubt' = (IF cut THEN doubt \cup {id} ELSE doubt \ {id})
           /\ result' = [op |-> "create", id |-> id, val |-> 0] /\ known' = Put(known, id, 0)
      /\ id \notin Ids \ {0} =>
           /\ UNCHANGED <<stubs, doubt>> /\ result' = [op |-> "failed", id |-> 0, val |-> 0]
           /\ known' = IF 0 \in DOMAIN objects THEN Put(known, 0, objects[0]) ELSE known
  BY DEF Created, Result
<1>4. /\ cut \in BOOLEAN /\ stubs \subseteq Ids /\ DOMAIN known \subseteq Ids
      /\ known \in [DOMAIN known -> Int] /\ 0 \in Ids /\ objects \in [DOMAIN objects -> Int]
  BY Marks DEF RMIInv, RMITyped
<1> HIDE DEF id
\* In step, the id is that of the new object.
<1>5. ASSUME ~cut
      PROVE  \E i \in Ids : /\ i = id /\ i \notin DOMAIN known
                            /\ objects = Put(known, i, 0) \/ (i = 0 /\ objects = known)
  <2>1. PICK p \in Answers :
          /\ Says(p)
          /\ \A v \in Int : p = Returning(v) => Data(Answer)[2] = v
          /\ p = Failing => Cmd(Answer) = ERROR
    BY <1>1, <1>5, AnswerSays
  <2>2. CreateSays(p) /\ p # Failing
    BY <1>1, <2>1, Commands DEF Says
  <2>3. PICK i \in Ids : /\ i \notin DOMAIN known /\ p = Returning(i)
                         /\ objects = Put(known, i, 0) \/ (i = 0 /\ objects = known)
    BY <2>2 DEF CreateSays
  <2> QED BY <2>1, <2>3, Commands DEF id
<1>7. stubs' \subseteq Ids /\ DOMAIN known' \subseteq Ids /\ known' \in [DOMAIN known' -> Int]
  <2>1. CASE id \in Ids \ {0}
    <3>1. known' = Put(known, id, 0) /\ id \in Ids /\ stubs' = stubs \cup {id}
      BY <1>3, <2>1
    <3> QED BY <1>4, <3>1 DEF Put
  <2>2. CASE id \notin Ids \ {0}
    <3>1. (known' = known \/ (known' = Put(known, 0, objects[0]) /\ objects[0] \in Int)) /\ stubs' = stubs
      BY <1>3, <1>4, <2>2
    <3> QED BY <1>4, <3>1 DEF Put
  <2> QED BY <2>1, <2>2
<1>8. ~cut => known' = objects
  <2> SUFFICES ASSUME ~cut PROVE known' = objects
    OBVIOUS
  <2>1. id \in Ids /\ id \notin DOMAIN known /\ (objects = Put(known, id, 0) \/ (id = 0 /\ objects = known))
    BY <1>5
  <2>2. CASE id # 0
    BY <1>3, <2>1, <2>2
  <2>3. CASE id = 0 /\ objects = Put(known, 0, 0)
    <3>1. 0 \in DOMAIN objects /\ objects[0] = 0
      BY <2>3 DEF Put
    <3> QED BY <1>3, <2>3, <3>1
  <2>4. CASE id = 0 /\ objects = known
    BY <1>3, <2>1, <2>4
  <2> QED BY <2>1, <2>2, <2>3, <2>4
<1>9. \A i : i # id \/ cut => (Held(i)' => Held(i))
  BY <1>1, <1>2, <1>3 DEF Held
<1>10. StubsHeld'
  <2>1. ASSUME NEW i \in stubs', Held(i)' PROVE i \in DOMAIN objects
    <3>1. CASE Held(i)
      BY <3>1 DEF RMIInv, StubsHeld, Held
    <3>2. CASE ~Held(i)
      <4>1. i = id /\ ~cut
        BY <1>9, <2>1, <3>2
      <4>2. CASE id \in Ids \ {0}
        <5>1. objects = Put(known, id, 0)
          BY <1>5, <4>1, <4>2
        <5> QED BY <4>1, <5>1 DEF Put
      <4>3. CASE id \notin Ids \ {0}
        BY <1>1, <1>2, <1>3, <2>1, <3>2, <4>3 DEF Held
      <4> QED BY <4>2, <4>3
    <3> QED BY <3>1, <3>2
  <2> QED BY <1>2, <2>1 DEF StubsHeld
<1>11. RMIInv'
  <2>1. cut => \A i : Held(i)' => Held(i)
    BY <1>9
  <2> QED BY <1>1, <1>7, <1>8, <1>10, <2>1, AnsweredKeeps
<1>12. RemoteStep
  <2>1. CASE cut
    BY <1>2, <2>1 DEF RemoteStep, Remote!RmNext
  <2>2. CASE ~cut
    <3>1. id \in Ids /\ id \notin DOMAIN known /\ (objects = Put(known, id, 0) \/ (id = 0 /\ objects = known))
      BY <1>5, <2>2
    <3>2. CASE id # 0
      <4>1. Remote!RmCreate(id)
        BY <1>3, <3>1, <3>2 DEF Remote!RmCreate, Remote!RmNew, Remote!Says, Put
      <4> QED BY <2>2, <3>1, <4>1 DEF RemoteStep, Remote!RmNext, Remote!RmCall
    <3>3. CASE id = 0
      <4>1. known' = known \/ known' = Put(known, 0, 0)
        BY <1>8, <2>2, <3>1, <3>3
      <4>2. Remote!RmFail
        BY <1>3, <3>1, <3>3, <4>1 DEF Remote!RmFail, Remote!RmNew, Remote!Says, Put
      <4> QED BY <2>2, <4>2 DEF RemoteStep, Remote!RmNext, Remote!RmCall
    <3> QED BY <3>2, <3>3
  <2> QED BY <2>1, <2>2
<1> QED BY <1>11, <1>12

LEMMA ReleasedKeeps == RMIInv /\ Released => RMIInv' /\ RemoteStep
<1> SUFFICES ASSUME RMIInv, Released PROVE RMIInv' /\ RemoteStep
  OBVIOUS
<1>1. /\ call.op = "release" /\ Answered({RETURN}) /\ Cmd(Answer) = RETURN
      /\ stubs' = stubs \ {call.id} /\ known' = [j \in DOMAIN known \ {call.id} |-> known[j]]
      /\ result' = [op |-> "release", id |-> call.id, val |-> 0] /\ doubt' = doubt \ {call.id}
  BY DEF Released, Answered, Result
<1>2. UNCHANGED <<req, cut, spc, sneed, objects>> /\ call' = NoCall
  BY <1>1 DEF Answered, Return, serverVars
<1>3. /\ cut \in BOOLEAN /\ stubs \subseteq Ids /\ DOMAIN known \subseteq Ids
      /\ known \in [DOMAIN known -> Int] /\ call.id \in Ids
  BY CallFacts DEF RMIInv, RMITyped
<1>4. ~cut => call.id \in DOMAIN known /\ known' = objects
  <2> SUFFICES ASSUME ~cut PROVE call.id \in DOMAIN known /\ known' = objects
    OBVIOUS
  <2>1. PICK p \in Answers : Says(p) /\ (p = Failing => Cmd(Answer) = ERROR)
    BY <1>1, AnswerSays
  <2>2. ReleaseSays(p) /\ p # Failing
    BY <1>1, <2>1, Commands DEF Says
  <2> QED BY <1>1, <2>2 DEF ReleaseSays
<1>5. \A i : Held(i)' => Held(i)
  BY <1>1, <1>2 DEF Held
<1>6. StubsHeld'
  BY <1>1, <1>2, <1>5 DEF RMIInv, StubsHeld
<1>7. stubs' \subseteq Ids /\ DOMAIN known' \subseteq Ids /\ known' \in [DOMAIN known' -> Int]
  BY <1>1, <1>3
<1>8. RMIInv'
  BY <1>1, <1>4, <1>5, <1>6, <1>7, AnsweredKeeps
<1>9. RemoteStep
  <2>1. CASE cut
    BY <1>2, <2>1 DEF RemoteStep, Remote!RmNext
  <2>2. CASE ~cut
    <3>1. Remote!RmRelease(call.id)
      BY <1>1, <1>4, <2>2 DEF Remote!RmRelease, Remote!Says
    <3> QED BY <1>3, <2>2, <3>1 DEF RemoteStep, Remote!RmNext, Remote!RmCall
  <2> QED BY <2>1, <2>2
<1> QED BY <1>8, <1>9

LEMMA InvokedKeeps == RMIInv /\ Invoked => RMIInv' /\ RemoteStep
<1> SUFFICES ASSUME RMIInv, Invoked PROVE RMIInv' /\ RemoteStep
  OBVIOUS
<1>1. /\ call.op = "invoke" /\ Answered({RETURN}) /\ Cmd(Answer) = RETURN
      /\ result' = [op |-> "invoke", id |-> call.id,
                    val |-> IF call.flag = 0 THEN Data(Answer)[2] ELSE ArgAfter(Answer)]
      /\ known' = IF call.flag = 0 \/ call.id \notin DOMAIN known THEN known
                  ELSE Put(known, call.id, call.val)
      /\ UNCHANGED <<stubs, doubt>>
  BY DEF Invoked, Answered, Result
<1>2. UNCHANGED <<req, cut, spc, sneed, objects>> /\ call' = NoCall
  BY <1>1 DEF Answered, Return, serverVars
<1>3. /\ cut \in BOOLEAN /\ stubs \subseteq Ids /\ DOMAIN known \subseteq Ids
      /\ known \in [DOMAIN known -> Int] /\ call.id \in Ids /\ call.val \in Values /\ call.val \in Int
  BY CallFacts, Marks DEF RMIInv, RMITyped
<1>4. ASSUME ~cut
      PROVE  /\ call.id \in DOMAIN known
             /\ \/ call.flag = 0 /\ objects = known /\ Data(Answer)[2] = known[call.id]
                \/ /\ call.flag # 0 /\ objects = [known EXCEPT ![call.id] = call.val]
                   /\ ArgAfter(Answer) \in {call.val, known[call.id]}
  <2>1. PICK p \in Answers :
          /\ Says(p)
          /\ \A v \in Int : p = Returning(v) => Data(Answer)[2] = v /\ ArgAfter(Answer) = call.val
          /\ \A v \in Int : p = Handing(v) => (call.flag # 0 => ArgAfter(Answer) = v)
          /\ p = Failing => Cmd(Answer) = ERROR
          /\ p = Throwing => Cmd(Answer) = INVOKEEXCEPTION
    BY <1>1, <1>4, AnswerSays
  <2>2. InvokeSays(p) /\ p \notin {Failing, Throwing}
    BY <1>1, <2>1, Commands DEF Says
  <2>3. /\ call.id \in DOMAIN known /\ known[call.id] \in Int
        /\ IF call.flag = 0 THEN p = Returning(known[call.id]) /\ objects = known
           ELSE /\ p = IF call.flag = 1 THEN Returning(VOID) ELSE Handing(known[call.id])
                /\ objects = [known EXCEPT ![call.id] = call.val]
    BY <1>3, <2>2 DEF InvokeSays
  <2>4. CASE call.flag = 0
    BY <2>1, <2>3, <2>4
  <2>5. CASE call.flag = 1
    <3>1. p = Returning(VOID) /\ VOID \in Int /\ 1 # 0
      BY <2>3, <2>5, Commands
    <3> QED BY <2>1, <2>3, <2>5, <3>1
  <2>6. CASE call.flag # 0 /\ call.flag # 1
    BY <2>1, <2>3, <2>6
  <2> QED BY <2>4, <2>5, <2>6
<1>5. known' = known \/ (known' = Put(known, call.id, call.val) /\ call.id \in DOMAIN known)
  BY <1>1
<1>6. stubs' \subseteq Ids /\ DOMAIN known' \subseteq Ids /\ known' \in [DOMAIN known' -> Int]
  BY <1>1, <1>3, <1>5 DEF Put
<1>7. \A i : Held(i)' => Held(i)
  BY <1>1, <1>2 DEF Held
<1>8. StubsHeld'
  BY <1>1, <1>2, <1>7 DEF RMIInv, StubsHeld
<1>9. ~cut => known' = objects
  <2> SUFFICES ASSUME ~cut PROVE known' = objects
    OBVIOUS
  <2>1. call.flag # 0 => Put(known, call.id, call.val) = [known EXCEPT ![call.id] = call.val]
    BY <1>3, <1>4 DEF Put
  <2> QED BY <1>1, <1>4, <2>1
<1>10. RMIInv'
  BY <1>1, <1>6, <1>7, <1>8, <1>9, AnsweredKeeps
<1>11. RemoteStep
  <2>1. CASE cut
    BY <1>2, <2>1 DEF RemoteStep, Remote!RmNext
  <2>2. CASE ~cut /\ call.flag = 0
    <3>1. Remote!RmGet(call.id)
      BY <1>1, <1>4, <2>2 DEF Remote!RmGet, Remote!Says
    <3> QED BY <1>3, <2>2, <3>1 DEF RemoteStep, Remote!RmNext, Remote!RmCall
  <2>3. CASE ~cut /\ call.flag # 0
    <3>1. Remote!RmSet(call.id, call.val)
      BY <1>1, <1>4, <1>9, <2>3 DEF Remote!RmSet, Remote!Says
    <3> QED BY <1>3, <2>3, <3>1 DEF RemoteStep, Remote!RmNext, Remote!RmCall
  <2> QED BY <1>3, <2>1, <2>2, <2>3
<1> QED BY <1>10, <1>11

LEMMA ReportedKeeps == RMIInv /\ Reported => RMIInv' /\ RemoteStep
<1> SUFFICES ASSUME RMIInv, Reported PROVE RMIInv' /\ RemoteStep
  OBVIOUS
<1>1. /\ Answered({ERROR, INVOKEEXCEPTION}) /\ Cmd(Answer) \in {ERROR, INVOKEEXCEPTION}
      /\ result' = [op |-> "failed", id |-> 0, val |-> 0]
      /\ doubt' = (IF cut THEN Doubtful(call) ELSE doubt) /\ UNCHANGED <<stubs, known>>
  BY DEF Reported, Answered, Result
<1>2. UNCHANGED <<req, cut, spc, sneed, objects>> /\ call' = NoCall
  BY <1>1 DEF Answered, Return, serverVars
<1>3. /\ cut \in BOOLEAN /\ stubs \subseteq Ids /\ DOMAIN known \subseteq Ids
      /\ known \in [DOMAIN known -> Int]
  BY DEF RMIInv, RMITyped
<1>4. ASSUME ~cut PROVE objects = known /\ (call.op = "release" => call.id \in doubt)
  <2>1. PICK p \in Answers :
          /\ Says(p)
          /\ \A v \in Int : p = Returning(v) => Cmd(Answer) = RETURN
          /\ \A v \in Int : p = Handing(v) => Cmd(Answer) = RETURN
    BY <1>1, <1>4, AnswerSays
  <2>2. \A v \in Int : p # Returning(v) /\ p # Handing(v)
    BY <1>1, <2>1, Commands
  <2>3. CASE call.op = "create"
    BY <2>1, <2>2, <2>3, Commands DEF Says, CreateSays
  <2>4. CASE call.op = "release"
    BY <2>1, <2>2, <2>4, Commands DEF Says, ReleaseSays
  <2>5. CASE call.op = "invoke"
    BY <1>3, <2>1, <2>2, <2>5, Commands DEF Says, InvokeSays
  <2> QED BY <2>1, <2>3, <2>4, <2>5 DEF Says
<1>5. \A i : Held(i)' => Held(i)
  BY <1>1, <1>2, <1>4 DEF Held, Doubtful
<1>6. StubsHeld'
  BY <1>1, <1>2, <1>5 DEF RMIInv, StubsHeld
<1>7. RMIInv'
  BY <1>1, <1>3, <1>4, <1>5, <1>6, AnsweredKeeps
<1>8. RemoteStep
  <2>1. CASE cut
    BY <1>2, <2>1 DEF RemoteStep, Remote!RmNext
  <2>2. CASE ~cut
    <3>1. Remote!RmFail
      BY <1>1 DEF Remote!RmFail, Remote!Says
    <3> QED BY <2>2, <3>1 DEF RemoteStep, Remote!RmNext, Remote!RmCall
  <2> QED BY <2>1, <2>2
<1> QED BY <1>7, <1>8

LEMMA NoWords == <<>> \in Seq(Int) /\ Len(<<>>) = 0
OBVIOUS

LEMMA SetSocketKeeps == RMIInv /\ SetSocket => RMIInv' /\ RemoteStep
<1> SUFFICES ASSUME RMIInv, SetSocket PROVE RMIInv' /\ RemoteStep
  OBVIOUS
<1>1. /\ cut /\ cpc = "idle" /\ spc = "beg"
      /\ req' = <<>> /\ rep' = <<>> /\ cut' = FALSE /\ known' = objects
      /\ result' = [op |-> "reset", id |-> 0, val |-> 0]
      /\ UNCHANGED <<spc, sneed, objects, cpc, cneed, call, stubs, doubt>>
  BY DEF SetSocket, Result, serverVars
<1>2. RMITyped'
  <2>1. <<>> \in Seq(Int)
    OBVIOUS
  <2>2. /\ req' \in Seq(Int) /\ rep' \in Seq(Int) /\ cut' \in BOOLEAN
        /\ DOMAIN known' \subseteq Ids /\ known' \in [DOMAIN known' -> Int]
    BY <1>1, <2>1 DEF RMIInv, RMITyped
  <2>3. RMITyped
    BY DEF RMIInv
  <2> QED BY <1>1, <2>2, <2>3 DEF RMITyped
<1>3. InStep'
  BY <1>1 DEF InStep, Idle
<1>4. 1..Len(req') = {} /\ 1..Len(req') - 1 = {} /\ req' = <<>>
  BY <1>1
<1>5. ReleasesAsked' /\ LengthsSent'
  BY <1>1, <1>4 DEF ReleasesAsked, Asks, LengthsSent, LengthsIn
<1>6. StubsHeld'
  BY <1>1 DEF RMIInv, StubsHeld, Held
<1>7. RemoteStep
  BY <1>1 DEF RemoteStep, Remote!RmNext
<1> QED BY <1>2, <1>3, <1>5, <1>6, <1>7 DEF RMIInv

\* A step of the server of which the client sees nothing.
LEMMA ServerUnseen ==
  ASSUME UNCHANGED <<known, result, call>>, cut' = cut \/ cut'
  PROVE  RemoteStep
<1>1. CASE cut'
  BY <1>1 DEF RemoteStep, Remote!RmNext
<1>2. CASE cut' = cut
  BY <1>2 DEF RemoteStep, Remote!rmVars
<1> QED BY <1>1, <1>2

\* A read that takes the first word.
LEMMA TailIsRest ==
  ASSUME NEW s \in Seq(Int), s # <<>>
  PROVE  Tail(s) = Rest(s, 1) /\ 1 <= Len(s)
<1>1. /\ Tail(s) \in Seq(Int) /\ Len(Tail(s)) = Len(s) - 1 /\ Len(s) \in Nat \ {0}
      /\ \A j \in 1..Len(s) - 1 : Tail(s)[j] = s[j + 1]
  BY TailWords
<1>2. /\ Rest(s, 1) \in Seq(Int) /\ Len(Rest(s, 1)) = Len(s) - 1
      /\ \A j \in 1..Len(s) - 1 : Rest(s, 1)[j] = s[j + 1]
  <2>1. 1 \in Nat /\ 1 <= Len(s)
    BY <1>1
  <2> QED BY <2>1, RestWords
<1>3. 1 <= Len(s)
  BY <1>1
<1>4. \A j \in 1..Len(Tail(s)) : Tail(s)[j] = Rest(s, 1)[j]
  BY <1>1, <1>2
<1> QED BY <1>1, <1>2, <1>3, <1>4, SameWords

\* What a server in step reads is a request.
LEMMA AskedReads ==
  ASSUME RMIInv, ~cut, req # <<>> \/ spc # "beg"
  PROVE  /\ Asked /\ call \in Sent /\ req # <<>>
         /\ spc = "beg" => Head(req) = RMIB /\ \A m : Through("len", m, Tail(req), Asking(call))
         /\ spc = "len" => LengthOk(Head(req)) /\ Through("body", Head(req), Tail(req), Asking(call))
         /\ spc = "body" => /\ Rest(req, sneed) = <<>> /\ sneed <= Len(req)
                            /\ Body \in Seq(Int) /\ Carries(Body, Asking(call))
<1>1. /\ req \in Seq(Int) /\ spc \in {"beg", "len", "body"} /\ sneed \in Nat
      /\ call \in CallsMade /\ (call.op = "none" <=> cpc = "idle")
  BY DEF RMIInv, RMITyped
<1>2. Asked
  BY DEF RMIInv, InStep, Idle, Told
<1>3. call \in Sent
  BY <1>1, <1>2, CallFacts DEF Asked
<1>4. /\ Asking(call) \in Seq(Int) /\ Len(Asking(call)) \in {8, 10} /\ Asking(call)[1] = RMIB
      /\ Asking(call)[2] = Len(Asking(call)) - 2
  BY <1>3, AskingWords
<1>5. Len(Asking(call)) \in 7..10 /\ Through(spc, sneed, req, Asking(call))
  BY <1>2, <1>4 DEF Asked
<1>6. /\ req # <<>>
      /\ spc = "beg" => Head(req) = RMIB /\ \A m : Through("len", m, Tail(req), Asking(call))
      /\ spc = "len" => LengthOk(Head(req)) /\ Through("body", Head(req), Tail(req), Asking(call))
      /\ spc = "body" => /\ Len(req) >= sneed /\ sneed = Len(Asking(call)) - 2 /\ Len(Rest(req, sneed)) = 0
                         /\ SubSeq(req, 1, sneed) \in Seq(Int) /\ Len(SubSeq(req, 1, sneed)) = sneed
                         /\ Carries(SubSeq(req, 1, sneed), Asking(call))
  BY <1>1, <1>4, <1>5, ThroughReads, Zenon
<1>7. spc = "body" => Rest(req, sneed) = <<>> /\ sneed <= Len(req)
  <2>1. spc = "body" => sneed <= Len(req)
    BY <1>1, <1>6
  <2>2. spc = "body" => Rest(req, sneed) \in Seq(Int)
    BY <1>1, <2>1, RestWords
  <2> QED BY <1>6, <2>1, <2>2
<1> QED BY <1>2, <1>3, <1>6, <1>7 DEF Body

LEMMA ServerReadsKeeps == RMIInv /\ ServerReads /\ UNCHANGED clientVars => RMIInv' /\ RemoteStep
<1> SUFFICES ASSUME RMIInv, ServerReads, UNCHANGED clientVars PROVE RMIInv' /\ RemoteStep
  OBVIOUS
<1>1. /\ req # <<>> /\ req' = Tail(req) /\ UNCHANGED <<rep, cut, objects>>
      /\ UNCHANGED <<cpc, cneed, call, stubs, result, known, doubt>>
      /\ \/ spc = "beg" /\ Head(req) = RMIB /\ spc' = "len" /\ UNCHANGED sneed
         \/ spc = "len" /\ LengthOk(Head(req)) /\ spc' = "body" /\ sneed' = Head(req)
  BY DEF ServerReads, clientVars
<1>2. req \in Seq(Int) /\ RMITyped /\ LengthsSent
  BY DEF RMIInv, RMITyped
<1>3. /\ Tail(req) \in Seq(Int) /\ Len(Tail(req)) = Len(req) - 1 /\ Len(req) \in Nat \ {0}
      /\ Head(req) = req[1] /\ \A j \in 1..Len(req) - 1 : Tail(req)[j] = req[j + 1]
  BY <1>1, <1>2, TailWords
<1>4. Tail(req) = Rest(req, 1) /\ 1 <= Len(req)
  BY <1>1, <1>2, TailIsRest
<1>5. spc' = "len" /\ req' # <<>> => req'[1] \in {6, 8, RMIB}
  <2> SUFFICES ASSUME spc' = "len", req' # <<>> PROVE req'[1] \in {6, 8, RMIB}
    OBVIOUS
  <2>1. req[1] = RMIB
    BY <1>1, <1>3
  <2>2. 1 \in 1..Len(req) - 1 /\ 1 + 1 = 2
    BY <1>1, <1>3
  <2>3. req'[1] = req[2]
    BY <1>1, <1>3, <2>2
  <2>4. req[1 + 1] \in {6, 8, RMIB}
    BY <1>2, <2>1, <2>2 DEF LengthsSent, LengthsIn
  <2> QED BY <2>2, <2>3, <2>4
<1>6. spc' = "body" => sneed' \in {6, 8}
  <2> SUFFICES ASSUME spc' = "body" PROVE sneed' \in {6, 8}
    OBVIOUS
  <2>1. sneed' = req[1] /\ LengthOk(req[1]) /\ req[1] \in {6, 8, RMIB}
    BY <1>1, <1>2, <1>3 DEF LengthsSent
  <2>2. ~LengthOk(RMIB)
    BY PacketAssumption, Marks DEF LengthOk
  <2> QED BY <2>1, <2>2
<1>7. ReleasesAsked' /\ LengthsSent' /\ req' \in Seq(Int)
  <2>1. 1 \in Nat /\ req' = Rest(req, 1) /\ UNCHANGED <<stubs, doubt, call>>
    BY <1>1, <1>4
  <2> QED BY <1>4, <1>5, <1>6, <2>1, ServerRequests
<1>8. RMITyped'
  <2>1. spc' \in {"beg", "len", "body"} /\ sneed' \in Nat
    BY <1>1, <1>2, <1>6 DEF RMITyped
  <2> QED BY <1>1, <1>2, <1>7, <2>1 DEF RMITyped
<1>9. InStep'
  <2> SUFFICES ASSUME ~cut' PROVE Asked'
    BY DEF InStep
  <2>1. ~cut
    BY <1>1
  <2>2. /\ Asked
        /\ spc = "beg" => Head(req) = RMIB /\ \A m : Through("len", m, Tail(req), Asking(call))
        /\ spc = "len" => LengthOk(Head(req)) /\ Through("body", Head(req), Tail(req), Asking(call))
    BY <1>1, <2>1, AskedReads, Zenon
  <2>3. Through(spc', sneed', Tail(req), Asking(call))
    BY <1>1, <2>2
  <2>4. Through(spc, sneed, req, Asking(call))'
    BY <1>1, <2>3 DEF Through, Asking
  <2> QED BY <1>1, <2>2, <2>4 DEF Asked
<1>10. StubsHeld'
  BY <1>1 DEF RMIInv, StubsHeld, Held
<1>11. RemoteStep
  BY <1>1, ServerUnseen
<1> QED BY <1>7, <1>8, <1>9, <1>10, <1>11 DEF RMIInv

\* What a server that is out of step drops, or leaves of a packet.
LEMMA DroppedKeeps ==
  ASSUME RMIInv, cut' = TRUE, Ready, UNCHANGED clientVars, UNCHANGED <<rep, objects>>,
         NEW k \in Nat, k <= Len(req), req' = Rest(req, k)
  PROVE  RMIInv' /\ RemoteStep
<1>1. /\ UNCHANGED <<cpc, cneed, call, stubs, result, known, doubt>> /\ spc' = "beg" /\ sneed' = 0
      /\ UNCHANGED <<rep, objects>>
  BY DEF clientVars, Ready
<1>2. ReleasesAsked' /\ LengthsSent' /\ req' \in Seq(Int)
  BY <1>1, ServerRequests
<1>3. RMITyped'
  BY <1>1, <1>2 DEF RMIInv, RMITyped
<1>4. InStep'
  BY DEF InStep
<1>5. StubsHeld'
  BY <1>1 DEF RMIInv, StubsHeld, Held
<1>6. RemoteStep
  BY <1>1, ServerUnseen
<1> QED BY <1>2, <1>3, <1>4, <1>5, <1>6 DEF RMIInv

LEMMA ServerDropsKeeps ==
  RMIInv /\ (ServerRefuses \/ ServerThrows \/ ServerReadThrows) /\ UNCHANGED clientVars
    => RMIInv' /\ RemoteStep
<1> SUFFICES ASSUME RMIInv, ServerRefuses \/ ServerThrows \/ ServerReadThrows, UNCHANGED clientVars
             PROVE  RMIInv' /\ RemoteStep
  OBVIOUS
<1>1. req \in Seq(Int) /\ sneed \in Nat /\ cut \in BOOLEAN /\ Len(req) \in Nat
  BY DEF RMIInv, RMITyped
<1>2. CASE ServerRefuses
  <2>1. /\ req # <<>> /\ Ready /\ UNCHANGED <<rep, cut, objects>> /\ req' = Tail(req)
        /\ \/ spc = "beg" /\ Head(req) # RMIB
           \/ spc = "len" /\ ~LengthOk(Head(req))
    BY <1>2 DEF ServerRefuses
  <2>2. cut = TRUE
    BY <1>1, <2>1, AskedReads, Zenon
  <2>3. req' = Rest(req, 1) /\ 1 <= Len(req)
    BY <1>1, <2>1, TailIsRest
  <2>4. cut' = TRUE /\ UNCHANGED <<rep, objects>> /\ 1 \in Nat
    BY <2>1, <2>2
  <2> QED BY <2>1, <2>3, <2>4, DroppedKeeps
<1>3. CASE ServerThrows
  <2>1. /\ Whole /\ ~Parsed(Body) /\ req' = Rest(req, sneed) /\ Ready
        /\ UNCHANGED <<rep, cut, objects>>
    BY <1>3 DEF ServerThrows
  <2>2. spc = "body" /\ sneed <= Len(req) /\ spc # "beg"
    BY <1>1, <2>1 DEF Whole
  <2>3. cut = TRUE
    <3> SUFFICES ASSUME ~cut PROVE FALSE
      BY <1>1
    <3>1. call \in Sent /\ Body \in Seq(Int) /\ Carries(Body, Asking(call))
      BY <2>2, AskedReads, Zenon
    <3> QED BY <2>1, <3>1, RequestParsed
  <2>4. cut' = TRUE /\ UNCHANGED <<rep, objects>>
    BY <2>1, <2>3
  <2> QED BY <1>1, <2>1, <2>2, <2>4, DroppedKeeps
<1>4. CASE ServerReadThrows
  <2>1. PICK k \in 0..((IF spc = "body" THEN sneed ELSE 1) - 1) : k <= Len(req) /\ req' = Rest(req, k)
    BY <1>4 DEF ServerReadThrows
  <2>2. cut' = TRUE /\ Ready /\ UNCHANGED <<rep, objects>>
    BY <1>4 DEF ServerReadThrows, Broken
  <2>3. k \in Nat
    BY <1>1
  <2> QED BY <2>1, <2>2, <2>3, DroppedKeeps
<1> QED BY <1>2, <1>3, <1>4

\* The objects after a request: only a release takes one away, and only one
\* that was asked for.
LEMMA DidObjects ==
  ASSUME RMIInv, Whole, Parsed(Body), NEW p, Did(p)
  PROVE  /\ DOMAIN objects' \subseteq Ids /\ objects' \in [DOMAIN objects' -> Int]
         /\ \A id \in DOMAIN objects : id \in DOMAIN objects' \/ Asks(req, id)
<1>1. /\ req \in Seq(Int) /\ sneed \in {6, 8} /\ sneed \in Nat /\ sneed <= Len(req) /\ Len(req) \in Nat
      /\ DOMAIN objects \subseteq Ids /\ objects \in [DOMAIN objects -> Int] /\ 0 \in Int
  BY DEF RMIInv, RMITyped, LengthsSent, Whole
<1>2. /\ Body \in Seq(Int) /\ Len(Body) = sneed /\ \A j \in 1..sneed : Body[j] = req[j]
  BY <1>1, FirstWords DEF Body
<1>3. /\ Args(Body) # <<>> => Args(Body)[1][1] \in Int /\ Args(Body)[1][2] \in Int
      /\ Cmd(Body) = RELEASEOBJECT /\ Len(Body) \in {6, 8} =>
           /\ Len(Body) = 8 /\ Body[2] = RELEASEOBJECT /\ Body[4] = TEXT /\ Body[5] = 1 /\ Body[8] = RMIE
           /\ Args(Body)[1][2] = Body[7]
  BY <1>2, ParsedWords
<1>4. CASE objects' = objects
  BY <1>1, <1>4
<1>5. ASSUME NEW id \in Ids, objects' = Put(objects, id, 0)
      PROVE  /\ DOMAIN objects' \subseteq Ids /\ objects' \in [DOMAIN objects' -> Int]
             /\ DOMAIN objects \subseteq DOMAIN objects'
  BY <1>1, <1>5 DEF Put
<1>6. CASE /\ Cmd(Body) = RELEASEOBJECT
           /\ objects' = [j \in DOMAIN objects \ {Args(Body)[1][2]} |-> objects[j]]
  <2>1. DOMAIN objects' \subseteq Ids /\ objects' \in [DOMAIN objects' -> Int]
    BY <1>1, <1>6
  <2>2. /\ sneed = 8 /\ Body[2] = RELEASEOBJECT /\ Body[4] = TEXT /\ Body[5] = 1 /\ Body[8] = RMIE
        /\ Args(Body)[1][2] = Body[7]
    BY <1>1, <1>2, <1>3, <1>6
  <2>3. 2 \in 1..sneed /\ 4 \in 1..sneed /\ 5 \in 1..sneed /\ 7 \in 1..sneed /\ 8 \in 1..sneed
    BY <2>2
  <2>4. req[2] = RELEASEOBJECT /\ req[4] = TEXT /\ req[5] = 1 /\ req[8] = RMIE /\ req[7] = Args(Body)[1][2]
    BY <1>2, <2>2, <2>3
  <2>5. 2 + 6 <= Len(req) /\ 2 \in 1..Len(req) /\ 2 + 2 = 4 /\ 2 + 3 = 5 /\ 2 + 5 = 7 /\ 2 + 6 = 8
    BY <1>1, <2>2
  <2>6. ReleaseAt(req, 2) /\ req[2 + 5] = Args(Body)[1][2]
    BY <2>4, <2>5 DEF ReleaseAt
  <2>7. Asks(req, Args(Body)[1][2])
    BY <2>5, <2>6 DEF Asks
  <2> QED BY <1>6, <2>1, <2>7
<1>7. CASE /\ Args(Body) # <<>>
           /\ objects' = [objects EXCEPT ![Id(Body)] = Args(Body)[1][2]]
  <2>1. Args(Body)[1][2] \in Int
    BY <1>3, <1>7
  <2> QED BY <1>1, <1>7, <2>1
<1>8. \/ objects' = objects
      \/ \E id \in Ids : objects' = Put(objects, id, 0)
      \/ /\ Cmd(Body) = RELEASEOBJECT
         /\ objects' = [j \in DOMAIN objects \ {Args(Body)[1][2]} |-> objects[j]]
      \/ /\ Args(Body) # <<>>
         /\ objects' = [objects EXCEPT ![Id(Body)] = Args(Body)[1][2]]
  BY DEF Did
<1> QED BY <1>4, <1>5, <1>6, <1>7, <1>8

\* In step, what a request did is what its answer says of it.
LEMMA DidSays ==
  ASSUME RMIInv, ~cut, Whole, NEW p, Did(p)
  PROVE  /\ UNCHANGED <<call, known, doubt>> => Says(p)'
<1> SUFFICES ASSUME UNCHANGED <<call, known, doubt>> PROVE Says(p)'
  OBVIOUS
<1>1. spc # "beg" /\ spc = "body"
  BY DEF Whole
<1>2. Asked /\ call \in Sent /\ Body \in Seq(Int) /\ Carries(Body, Asking(call))
  BY <1>1, AskedReads, Zenon
<1>3. /\ objects = known
      /\ call.op = "release" => call.id \in DOMAIN objects \cup doubt
      /\ call.op \in {"create", "release", "invoke"} /\ call.flag \in 0..3
      /\ DOMAIN objects \subseteq Ids
  BY <1>2, CallFacts DEF Asked, RMIInv, RMITyped
<1>4. /\ call.op = "create" => Cmd(Body) = CREATEOBJECT
      /\ call.op = "release" => Cmd(Body) = RELEASEOBJECT /\ Args(Body)[1][2] = call.id
      /\ call.op = "invoke" => /\ Cmd(Body) = INVOKE /\ Id(Body) = call.id
                               /\ call.flag = 0 => Args(Body) = <<>>
                               /\ call.flag # 0 => /\ Args(Body) # <<>> /\ Args(Body)[1][1] = call.flag
                                                   /\ Args(Body)[1][2] = call.val
  BY <1>2, RequestParsed
<1>5. CREATEOBJECT # RELEASEOBJECT /\ CREATEOBJECT # INVOKE /\ RELEASEOBJECT # INVOKE
  BY Marks
<1>6. CASE call.op = "create"
  <2>1. \/ p = Failing /\ objects' = objects
        \/ \E id \in Ids \ DOMAIN objects :
             /\ p = Returning(id)
             /\ objects' = Put(objects, id, 0) \/ (id = 0 /\ objects' = objects)
    BY <1>4, <1>5, <1>6 DEF Did
  <2>2. CASE p = Failing /\ objects' = objects
    BY <1>3, <1>6, <2>2 DEF Says, CreateSays
  <2>3. ASSUME NEW id \in Ids \ DOMAIN objects, p = Returning(id),
               objects' = Put(objects, id, 0) \/ (id = 0 /\ objects' = objects)
        PROVE  Says(p)'
    <3>1. /\ id \in Ids /\ id \notin DOMAIN known' /\ p = Returning(id)
          /\ objects' = Put(known', id, 0) \/ (id = 0 /\ objects' = known')
      BY <1>3, <2>3
    <3> QED BY <1>6, <3>1 DEF Says, CreateSays, Put
  <2> QED BY <2>1, <2>2, <2>3
<1>7. CASE call.op = "release"
  <2>1. IF call.id \in DOMAIN objects
          THEN /\ p = Returning(VOID)
               /\ objects' = [j \in DOMAIN objects \ {call.id} |-> objects[j]]
          ELSE p = Failing /\ objects' = objects
    BY <1>4, <1>5, <1>7 DEF Did
  <2> QED BY <1>3, <1>7, <2>1 DEF Says, ReleaseSays
<1>8. CASE call.op = "invoke"
  <2>1. \/ p \in {Failing, Throwing} /\ objects' = objects
        \/ /\ call.id \in DOMAIN objects
           /\ IF Args(Body) = <<>> THEN p = Returning(objects[call.id]) /\ objects' = objects
              ELSE /\ p = IF call.flag \in {2, 3} THEN Handing(objects[call.id]) ELSE Returning(VOID)
                   /\ objects' = [objects EXCEPT ![call.id] = call.val]
    BY <1>4, <1>5, <1>8 DEF Did
  <2>2. Args(Body) # <<>> => (call.flag \in {2, 3} <=> call.flag # 1)
    BY <1>3, <1>4, <1>8
  <2>3. (Args(Body) = <<>>) <=> call.flag = 0
    BY <1>4, <1>8
  <2>4. \/ p \in {Failing, Throwing} /\ objects' = known
        \/ /\ call.id \in DOMAIN known
           /\ IF call.flag = 0 THEN p = Returning(known[call.id]) /\ objects' = known
              ELSE /\ p = IF call.flag = 1 THEN Returning(VOID) ELSE Handing(known[call.id])
                   /\ objects' = [known EXCEPT ![call.id] = call.val]
    BY <1>3, <2>1, <2>2, <2>3
  <2> QED BY <1>8, <2>4 DEF Says, InvokeSays
<1> QED BY <1>3, <1>6, <1>7, <1>8

LEMMA ServedKeeps ==
  RMIInv /\ (ServeCreate \/ ServeNoObject \/ ServeRelease \/ ServeInvoke \/ ServeInvokeThrows)
    /\ UNCHANGED clientVars => RMIInv' /\ RemoteStep
<1> SUFFICES ASSUME RMIInv, UNCHANGED clientVars,
                    ServeCreate \/ ServeNoObject \/ ServeRelease \/ ServeInvoke \/ ServeInvokeThrows
             PROVE  RMIInv' /\ RemoteStep
  OBVIOUS
<1>1. RMITyped
  BY DEF RMIInv
<1>2. /\ Whole /\ Parsed(Body) /\ req' = Rest(req, sneed) /\ Ready
      /\ \E p \in Answers : Reply(p) /\ Did(p)
  BY <1>1, Served
<1>3. PICK p \in Answers : Reply(p) /\ Did(p)
  BY <1>2
<1>4. /\ rep' \in Seq(Int) /\ cut' \in BOOLEAN
      /\ (rep' = rep \o p /\ cut' = cut) \/ cut'
  BY <1>1, <1>3, ReplyEffect
<1>5. /\ DOMAIN objects' \subseteq Ids /\ objects' \in [DOMAIN objects' -> Int]
      /\ \A id \in DOMAIN objects : id \in DOMAIN objects' \/ Asks(req, id)
  BY <1>2, <1>3, DidObjects
<1>6. /\ UNCHANGED <<cpc, cneed, call, stubs, result, known, doubt>> /\ spc' = "beg" /\ sneed' = 0
  BY <1>2 DEF clientVars, Ready
<1>7. ReleasesAsked' /\ LengthsSent' /\ req' \in Seq(Int)
  <2>1. sneed \in Nat /\ sneed <= Len(req)
    BY <1>1, <1>2 DEF RMITyped, Whole
  <2> QED BY <1>2, <1>6, <2>1, ServerRequests
<1>8. RMITyped'
  BY <1>1, <1>4, <1>5, <1>6, <1>7 DEF RMITyped
<1>9. StubsHeld'
  <2>1. \A id \in stubs : Held(id) => id \in DOMAIN objects /\ ~Asks(req, id)
    BY DEF RMIInv, StubsHeld, ReleasesAsked
  <2> QED BY <1>5, <1>6, <2>1 DEF StubsHeld, Held
<1>10. InStep'
  <2> SUFFICES ASSUME ~cut' PROVE Told'
    BY DEF InStep
  <2>1. ~cut /\ rep' = rep \o p
    BY <1>4
  <2>2. spc = "body" /\ spc # "beg"
    BY <1>2 DEF Whole
  <2>3. Asked /\ Rest(req, sneed) = <<>>
    BY <2>1, <2>2, AskedReads, Zenon
  <2>4. p \in Seq(Int)
    BY AnswerIs
  <2>5. cpc = "beg" /\ rep = <<>>
    BY <2>3 DEF Asked
  <2>6. rep' = p
    BY <2>1, <2>4, <2>5, ConcatEmptySeq
  <2>7. Through("beg", cneed', rep', p)
    BY <2>4, <2>6 DEF Through
  <2>8. Says(p)'
    BY <1>2, <1>3, <1>6, <2>1, DidSays
  <2>9. cpc' = "beg" /\ req' = <<>> /\ spc' = "beg"
    BY <1>2, <1>6, <2>3, <2>5
  <2> QED BY <2>7, <2>8, <2>9 DEF Told
<1>11. RemoteStep
  BY <1>4, <1>6, ServerUnseen
<1> QED BY <1>7, <1>8, <1>9, <1>10, <1>11 DEF RMIInv

LEMMA ReleaseCallKeeps ==
  ASSUME RMIInv, NEW id \in Ids, CallRelease(id)
  PROVE  RMIInv' /\ RemoteStep
<1> DEFINE c == Call("release", id, 0, 0)
           args == <<InvokeArgFlag_IN, id>>
<1>1. id \in stubs /\ Begin(c, RELEASEOBJECT, 0, args)
  BY DEF CallRelease
<1>2. c \in Sent /\ c.op = "release" /\ c.id = id
  BY CallFacts DEF Call
<1>3. Packet(RELEASEOBJECT, <<0, TEXT, Len(args) \div 2>> \o args) = Asking(c)
  <2>1. 0 \in 0..3 /\ 0 \in Values
    BY Marks
  <2> QED BY <2>1, RequestPackets
<1> HIDE DEF c, args
<1> QED BY <1>1, <1>2, <1>3, BeginKeeps

LEMMA InvokeCallKeeps ==
  ASSUME RMIInv, NEW id \in Ids, NEW flag \in 0..3, NEW val \in Values, CallInvoke(id, flag, val)
  PROVE  RMIInv' /\ RemoteStep
<1> DEFINE c == Call("invoke", id, flag, val)
           args == IF flag = 0 THEN <<>> ELSE <<flag, val>>
<1>1. id \in stubs /\ (flag = 0 => val = 0) /\ Begin(c, INVOKE, id, args)
  BY DEF CallInvoke
<1>2. c \in Sent /\ c.op = "invoke"
  BY CallFacts DEF Call
<1>3. Packet(INVOKE, <<id, TEXT, Len(args) \div 2>> \o args) = Asking(c)
  <2>1. CASE flag = 0
    BY <2>1, RequestPackets
  <2>2. CASE flag # 0
    BY <2>2, RequestPackets
  <2> QED BY <2>1, <2>2
<1> HIDE DEF c, args
<1>4. c.op # "release"
  BY <1>2
<1> QED BY <1>1, <1>2, <1>3, <1>4, BeginKeeps

LEMMA CreateCallKeeps ==
  ASSUME RMIInv, CallCreate
  PROVE  RMIInv' /\ RemoteStep
<1> DEFINE c == Call("create", 0, 0, 0)
           args == <<InvokeArgFlag_IN, TEXT>>
<1>1. Begin(c, CREATEOBJECT, 0, args)
  BY DEF CallCreate
<1>2. c \in Sent /\ c.op # "release"
  BY CallFacts DEF Call
<1>3. Packet(CREATEOBJECT, <<0, TEXT, Len(args) \div 2>> \o args) = Asking(c)
  <2>1. 0 \in 0..3 /\ 0 \in Values /\ 0 \in Ids
    BY Marks
  <2> QED BY <2>1, RequestPackets
<1> HIDE DEF c, args
<1> QED BY <1>1, <1>2, <1>3, BeginKeeps

LEMMA RMIStarts == Init => RMIInv /\ Remote!RmInit
<1> SUFFICES ASSUME Init PROVE RMIInv /\ Remote!RmInit
  OBVIOUS
<1>1. /\ req = <<>> /\ rep = <<>> /\ cut = FALSE /\ spc = "beg" /\ sneed = 0 /\ objects = <<>>
      /\ cpc = "idle" /\ cneed = 0 /\ call = NoCall /\ stubs = {} /\ known = <<>>
  BY DEF Init, ServerInit
<1>2. DOMAIN <<>> = {} /\ <<>> \in [{} -> Int]
  OBVIOUS
<1>3. RMITyped
  <2>1. NoCall \in CallsMade /\ NoCall.op = "none"
    BY CallFacts
  <2> QED BY <1>1, <1>2, <2>1, NoWords DEF RMITyped
<1>4. InStep
  BY <1>1 DEF InStep, Idle
<1>5. 1..Len(req) = {} /\ 1..Len(req) - 1 = {}
  BY <1>1, NoWords
<1>6. ReleasesAsked /\ LengthsSent /\ StubsHeld
  BY <1>1, <1>5 DEF ReleasesAsked, LengthsSent, LengthsIn, StubsHeld
<1>7. Remote!RmInit
  BY <1>1 DEF Remote!RmInit
<1> QED BY <1>3, <1>4, <1>6, <1>7 DEF RMIInv

LEMMA RMIUnchanged == RMIInv /\ UNCHANGED vars => RMIInv' /\ RemoteStep
<1> SUFFICES ASSUME RMIInv, UNCHANGED vars PROVE RMIInv' /\ RemoteStep
  OBVIOUS
<1>1. UNCHANGED <<req, rep, cut, spc, sneed, objects, cpc, cneed, call, stubs, result, known, doubt>>
  BY DEF vars, connVars, serverVars, clientVars
<1>2. RMITyped'
  BY <1>1 DEF RMIInv, RMITyped
<1>3. Idle' = Idle /\ Asked' = Asked /\ Told' = Told
  <2>1. Idle' = Idle
    BY <1>1 DEF Idle
  <2>2. Asked' = Asked
    BY <1>1 DEF Asked, Through, Asking
  <2>3. Told' = Told
    BY <1>1 DEF Told, Through, Says, CreateSays, ReleaseSays, InvokeSays, Put
  <2> QED BY <2>1, <2>2, <2>3
<1>4. InStep'
  BY <1>1, <1>3 DEF RMIInv, InStep
<1>5. ReleasesAsked' /\ LengthsSent'
  BY <1>1, ClientRequests DEF Held
<1>6. StubsHeld'
  BY <1>1 DEF RMIInv, StubsHeld, Held
<1>7. RemoteStep
  BY <1>1, ServerUnseen
<1> QED BY <1>2, <1>4, <1>5, <1>6, <1>7 DEF RMIInv

LEMMA RMIKeeps == RMIInv /\ [Next]_vars => RMIInv' /\ RemoteStep
<1> SUFFICES ASSUME RMIInv, [Next]_vars PROVE RMIInv' /\ RemoteStep
  OBVIOUS
<1>1. CASE ClientCalls
  BY <1>1, CreateCallKeeps, ReleaseCallKeeps, InvokeCallKeeps DEF ClientCalls
<1>2. CASE ClientAnswers
  BY <1>2, ClientReadsKeeps, ClientThrowsKeeps, CreatedKeeps, ReleasedKeeps, InvokedKeeps, ReportedKeeps
     DEF ClientAnswers
<1>3. CASE SetSocket
  BY <1>3, SetSocketKeeps
<1>4. CASE ServerNext /\ UNCHANGED clientVars
  BY <1>4, ServerReadsKeeps, ServerDropsKeeps, ServedKeeps DEF ServerNext, ServerAnswers
<1>5. CASE UNCHANGED vars
  BY <1>5, RMIUnchanged
<1> QED BY <1>1, <1>2, <1>3, <1>4, <1>5 DEF Next

LEMMA RMIStepKeeps ==
  RMIInv /\ [MCNext]_<<part, vars, netvars, authvars, servevars, respvars>>
    => RMIInv' /\ [Remote!RmNext]_Remote!rmVars
<1> DEFINE all == <<part, vars, netvars, authvars, servevars, respvars>>
<1> SUFFICES ASSUME RMIInv, [MCNext]_all PROVE RMIInv' /\ RemoteStep
  BY DEF RemoteStep
<1>1. [Next]_vars
  BY DEF MCNext, RMIStep, NetStep, AuthStep, ServeStep, ResponseStep
<1> QED BY <1>1, RMIKeeps

LEMMA RMIBegins == MCInit => RMIInv /\ Remote!RmInit
BY RMIStarts DEF MCInit

\* However exceptions cut the two sides' packets, and whatever they then take
\* for a request or an answer: between two calls, an object the client holds a
\* stub of is at the server, or in doubt
\* (RMIClient.cpp:37-89, RMIObjectContainer.cpp:37-102).
THEOREM StubsLiveHolds == MCSpec => []StubsLive
<1>1. MCSpec => []RMIInv
  BY RMIBegins, RMIStepKeeps, PTL DEF MCSpec
<1>2. RMIInv => StubsLive
  <2> SUFFICES ASSUME RMIInv, ~cut, cpc = "idle" PROVE stubs \subseteq DOMAIN objects \cup doubt
    BY DEF StubsLive
  <2>1. call.op = "none"
    BY DEF RMIInv, RMITyped
  <2> QED BY <2>1 DEF RMIInv, StubsHeld, Held
<1> QED BY <1>1, <1>2, PTL

\* As long as no exception left the two sides out of step, and again over a new
\* connection, every call has the effect on the server's objects its result
\* tells of, and none if it failed
\* (RMIClient.cpp:93-310, RMIServer.cpp:144-231).
THEOREM IsRemoteHolds == MCSpec => IsRemote
BY RMIBegins, RMIStepKeeps, PTL DEF MCSpec, IsRemote, Remote!RmSpec


-----------------------------------------------------------------------------
(* The HTTP connection: requests                                            *)

Uris == {"none", "file", "missing", "dots", "long", "empty", "relative"}
Kinds == {"get", "post", "bad", "length", "tight", "header", "empty", "body"}
TextLines == [kind : Kinds, size : Nat \ {0}, n : Int, uri : Uris]
Lines == [kind : Kinds \cup {"rest"}, size : Nat \ {0}, n : Int, uri : Uris, of : Nat \ {0}]

\* The bytes of the body's lines from the j-th line on.
Due(r, j) ==
  IF j > Len(r) THEN 0 ELSE IF j = Len(r) THEN r[j].size ELSE r[j].size + r[j + 1].size

\* A request whose header ends with the e-th line.  Its body is as long as it
\* announces, unless it is one that cannot be read.
Headers(r, e) ==
  \A x \in 2..e - 1 : /\ r[x].kind \in {"header", "length", "tight"}
                      /\ r[x].kind = "length" => r[x].n # -2
Bodies(r, e) == \A x \in e + 1..Len(r) : r[x].kind = "body"
NoTight(r, u) == \A x \in 2..u - 1 : r[x].kind # "tight"
NoLength(r, u) == \A x \in 2..u - 1 : r[x].kind # "length"
Fits(r, e) ==
  NoTight(r, e) =>
    /\ NoLength(r, e) => e = Len(r)
    /\ \A x \in 2..e - 1 : r[x].kind = "length" =>
         (r[x].n = -3 => e = Len(r)) /\ (r[x].n \in 0..ContentMax => r[x].n = Due(r, e + 1))
WellFormed(r, e) ==
  /\ r \in Seq(TextLines) /\ e \in 2..Len(r) /\ Len(r) <= e + 2
  /\ r[1].kind \in {"get", "post", "bad"} /\ r[e].kind = "empty" /\ r[e].size = 1
  /\ Headers(r, e) /\ Bodies(r, e) /\ Fits(r, e)

LEMMA LineFields ==
  /\ \A kind \in Kinds, size \in Nat \ {0} :
       /\ TextLine(kind, size) \in TextLines
       /\ TextLine(kind, size).kind = kind /\ TextLine(kind, size).size = size
  /\ \A kind \in Kinds, size \in Nat \ {0}, u \in Uris :
       /\ First(kind, size, u) \in TextLines /\ First(kind, size, u).kind = kind
  /\ \A kind \in Kinds, v \in Int :
       /\ Length(kind, v) \in TextLines /\ Length(kind, v).kind = kind /\ Length(kind, v).n = v
  /\ End \in TextLines /\ End.kind = "empty" /\ End.size = 1
BY DEF TextLine, First, Length, End, TextLines, Kinds, Uris

\* The shapes of the requests.
LEMMA TwoLines ==
  ASSUME NEW a \in TextLines, a.kind \in {"get", "post", "bad"}
  PROVE  WellFormed(<<a, End>>, 2)
<1> SUFFICES ASSUME NEW r, r = <<a, End>> PROVE WellFormed(r, 2)
  OBVIOUS
<1>1. r \in Seq(TextLines) /\ Len(r) = 2 /\ r[1] = a /\ r[2] = End
  BY LineFields
<1>2. 2..2 - 1 = {} /\ 2 + 1..Len(r) = {}
  BY <1>1
<1> QED BY <1>1, <1>2, LineFields DEF WellFormed, Headers, Bodies, Fits

\* A line of the header that may stand in a request without a body.
Plain(b) == \/ b.kind = "header"
            \/ b.kind = "length" /\ b.n \in Int \ {-2} /\ b.n \notin 1..ContentMax

LEMMA ThreeLines ==
  ASSUME NEW a \in TextLines, NEW b \in TextLines, a.kind \in {"get", "post", "bad"}, Plain(b)
  PROVE  WellFormed(<<a, b, End>>, 3)
<1> SUFFICES ASSUME NEW r, r = <<a, b, End>> PROVE WellFormed(r, 3)
  OBVIOUS
<1>1. r \in Seq(TextLines) /\ Len(r) = 3 /\ r[1] = a /\ r[2] = b /\ r[3] = End
  BY LineFields
<1>2. 2..3 - 1 = {2} /\ 3 + 1..Len(r) = {}
  BY <1>1
<1>3. Due(r, 3 + 1) = 0
  BY <1>1 DEF Due
<1>4. b.n \in 0..ContentMax => b.n = 0 \/ b.kind = "header"
  BY DEF Plain
<1> QED BY <1>1, <1>2, <1>3, <1>4, LineFields DEF WellFormed, Headers, Bodies, Fits, Plain

LEMMA FourLines ==
  ASSUME NEW a \in TextLines, NEW b \in TextLines, NEW c \in TextLines,
         a.kind \in {"get", "post", "bad"}, Plain(b), Plain(c)
  PROVE  WellFormed(<<a, b, c, End>>, 4)
<1> SUFFICES ASSUME NEW r, r = <<a, b, c, End>> PROVE WellFormed(r, 4)
  OBVIOUS
<1>1. r \in Seq(TextLines) /\ Len(r) = 4 /\ r[1] = a /\ r[2] = b /\ r[3] = c /\ r[4] = End
  BY LineFields
<1>2. 2..4 - 1 = {2, 3} /\ 4 + 1..Len(r) = {}
  BY <1>1
<1>3. Due(r, 4 + 1) = 0
  BY <1>1 DEF Due
<1>4. /\ b.n \in 0..ContentMax => b.n = 0 \/ b.kind = "header"
      /\ c.n \in 0..ContentMax => c.n = 0 \/ c.kind = "header"
  BY DEF Plain
<1> QED BY <1>1, <1>2, <1>3, <1>4, LineFields DEF WellFormed, Headers, Bodies, Fits, Plain

LEMMA TightLines ==
  ASSUME NEW a \in TextLines, NEW b \in TextLines, NEW c \in TextLines,
         a.kind \in {"get", "post", "bad"}, b.kind = "tight", c.kind = "body"
  PROVE  WellFormed(<<a, b, End, c>>, 3)
<1> SUFFICES ASSUME NEW r, r = <<a, b, End, c>> PROVE WellFormed(r, 3)
  OBVIOUS
<1>1. r \in Seq(TextLines) /\ Len(r) = 4 /\ r[1] = a /\ r[2] = b /\ r[3] = End /\ r[4] = c
  BY LineFields
<1>2. 2..3 - 1 = {2} /\ 3 + 1..Len(r) = {4}
  BY <1>1
<1>3. ~NoTight(r, 3)
  BY <1>1, <1>2 DEF NoTight
<1> QED BY <1>1, <1>2, <1>3, LineFields DEF WellFormed, Headers, Bodies, Fits

LEMMA BodyLines ==
  ASSUME NEW a \in TextLines, NEW b \in TextLines, NEW c \in TextLines, NEW d \in TextLines,
         a.kind \in {"get", "post", "bad"}, b.kind = "length", b.n = c.size + d.size,
         c.kind = "body", d.kind = "body"
  PROVE  WellFormed(<<a, b, End, c, d>>, 3)
<1> SUFFICES ASSUME NEW r, r = <<a, b, End, c, d>> PROVE WellFormed(r, 3)
  OBVIOUS
<1>1. /\ r \in Seq(TextLines) /\ Len(r) = 5 /\ r[1] = a /\ r[2] = b /\ r[3] = End /\ r[4] = c
      /\ r[5] = d
  BY LineFields
<1>2. 2..3 - 1 = {2} /\ 3 + 1..Len(r) = {4, 5} /\ 3 + 1 = 4
  BY <1>1
<1>3. Due(r, 4) = c.size + d.size
  <2>1. Len(r) = 5 /\ ~(4 > 5) /\ 4 # 5 /\ 4 + 1 = 5
    BY <1>1
  <2> QED BY <1>1, <2>1 DEF Due
<1>4. c.size + d.size > 0
  BY DEF TextLines
<1>5. ~NoLength(r, 3)
  BY <1>1, <1>2 DEF NoLength
<1> QED BY <1>1, <1>2, <1>3, <1>4, <1>5, LineFields DEF WellFormed, Headers, Bodies, Fits

LEMMA TwiceLines ==
  ASSUME NEW a \in TextLines, NEW b \in TextLines, NEW c \in TextLines,
         a.kind \in {"get", "post", "bad"}, b.kind = "length", b.n = c.size, c.kind = "body"
  PROVE  WellFormed(<<a, b, b, End, c>>, 4)
<1> SUFFICES ASSUME NEW r, r = <<a, b, b, End, c>> PROVE WellFormed(r, 4)
  OBVIOUS
<1>1. /\ r \in Seq(TextLines) /\ Len(r) = 5 /\ r[1] = a /\ r[2] = b /\ r[3] = b /\ r[4] = End
      /\ r[5] = c
  BY LineFields
<1>2. 2..4 - 1 = {2, 3} /\ 4 + 1..Len(r) = {5} /\ 4 + 1 = 5
  BY <1>1
<1>3. Due(r, 5) = c.size
  <2>1. Len(r) = 5 /\ ~(5 > 5)
    BY <1>1
  <2> QED BY <1>1, <2>1 DEF Due
<1>4. c.size > 0
  BY DEF TextLines
<1>5. ~NoLength(r, 4)
  BY <1>1, <1>2 DEF NoLength
<1> QED BY <1>1, <1>2, <1>3, <1>4, <1>5, LineFields DEF WellFormed, Headers, Bodies, Fits

LEMMA RequestsFormed == \A r \in Requests : \E e \in Nat : WellFormed(r, e)
<1>1. /\ LineMax + 1 \in Nat \ {0} /\ LineMax + 2 \in Nat \ {0} /\ LineMax + 3 \in Nat \ {0}
      /\ 1 \in Nat \ {0} /\ 2 \in Nat \ {0} /\ 3 \in Nat \ {0}
      /\ LineMax + 2 = (LineMax + 1) + 1 /\ 3 = 2 + 1
      /\ 0 \in Int /\ 2 \in Int /\ 3 \in Int /\ LineMax + 2 \in Int
      /\ \A v \in {NoNumber, -1, 0, ContentMax + 1} : v \in Int \ {-2} /\ v \notin 1..ContentMax
  BY HttpAssumption DEF NoNumber
<1>2. /\ "get" \in Kinds /\ "post" \in Kinds /\ "bad" \in Kinds /\ "length" \in Kinds /\ "tight" \in Kinds
      /\ "header" \in Kinds /\ "body" \in Kinds
      /\ "file" \in Uris /\ "missing" \in Uris /\ "dots" \in Uris /\ "long" \in Uris /\ "empty" \in Uris
      /\ "relative" \in Uris
  BY DEF Kinds, Uris
<1>3. /\ First("get", 2, "file") \in TextLines /\ First("get", 2, "file").kind = "get"
      /\ First("get", 2, "missing") \in TextLines /\ First("get", 2, "missing").kind = "get"
      /\ First("get", LineMax + 2, "dots") \in TextLines /\ First("get", LineMax + 2, "dots").kind = "get"
      /\ First("post", 2, "long") \in TextLines /\ First("post", 2, "long").kind = "post"
      /\ First("post", 2, "empty") \in TextLines /\ First("post", 2, "empty").kind = "post"
      /\ First("get", 3, "file") \in TextLines /\ First("get", 3, "file").kind = "get"
      /\ First("get", 2, "relative") \in TextLines /\ First("get", 2, "relative").kind = "get"
      /\ First("post", 2, "file") \in TextLines /\ First("post", 2, "file").kind = "post"
  BY <1>1, <1>2, LineFields
<1>4. /\ TextLine("header", LineMax + 1) \in TextLines /\ TextLine("header", LineMax + 1).kind = "header"
      /\ TextLine("header", 2) \in TextLines /\ TextLine("header", 2).kind = "header"
      /\ TextLine("header", LineMax + 3) \in TextLines /\ TextLine("header", LineMax + 3).kind = "header"
      /\ TextLine("body", LineMax + 1) \in TextLines /\ TextLine("body", LineMax + 1).kind = "body" /\ TextLine("body", LineMax + 1).size = LineMax + 1
      /\ TextLine("body", 1) \in TextLines /\ TextLine("body", 1).kind = "body" /\ TextLine("body", 1).size = 1
      /\ TextLine("header", 3) \in TextLines /\ TextLine("header", 3).kind = "header"
      /\ TextLine("body", 2) \in TextLines /\ TextLine("body", 2).kind = "body" /\ TextLine("body", 2).size = 2
      /\ TextLine("bad", 2) \in TextLines /\ TextLine("bad", 2).kind = "bad"
  BY <1>1, <1>2, LineFields
<1>5. /\ Length("length", LineMax + 2) \in TextLines /\ Length("length", LineMax + 2).kind = "length" /\ Length("length", LineMax + 2).n = LineMax + 2
      /\ Length("length", 0) \in TextLines /\ Length("length", 0).kind = "length" /\ Length("length", 0).n = 0
      /\ Length("length", 3) \in TextLines /\ Length("length", 3).kind = "length" /\ Length("length", 3).n = 3
      /\ Length("length", NoNumber) \in TextLines /\ Length("length", NoNumber).kind = "length" /\ Length("length", NoNumber).n = NoNumber
      /\ Length("length", 2) \in TextLines /\ Length("length", 2).kind = "length" /\ Length("length", 2).n = 2
      /\ Length("tight", 2) \in TextLines /\ Length("tight", 2).kind = "tight" /\ Length("tight", 2).n = 2
      /\ Length("length", -1) \in TextLines /\ Length("length", -1).kind = "length" /\ Length("length", -1).n = -1
      /\ Length("length", ContentMax + 1) \in TextLines /\ Length("length", ContentMax + 1).kind = "length" /\ Length("length", ContentMax + 1).n = ContentMax + 1
  BY <1>1, <1>2, LineFields
<1>6. \A v \in {NoNumber, -1, 0, ContentMax + 1} : Plain(Length("length", v))
  BY <1>1, <1>5 DEF Plain
<1>7. \A n \in {2, 3, LineMax + 1, LineMax + 3} : Plain(TextLine("header", n))
  BY <1>4 DEF Plain
<1>8. \E e \in Nat : WellFormed(<<First("get", 2, "file"), End>>, e)
  <2>1. WellFormed(<<First("get", 2, "file"), End>>, 2)
    BY <1>3, TwoLines
  <2>2. 2 \in Nat
    OBVIOUS
  <2> QED BY <2>1, <2>2
<1>9. \E e \in Nat : WellFormed(<<First("get", 2, "missing"), TextLine("header", LineMax + 1), TextLine("header", 2), End>>, e)
  <2>1. WellFormed(<<First("get", 2, "missing"), TextLine("header", LineMax + 1), TextLine("header", 2), End>>, 4)
    BY <1>3, <1>4, <1>7, FourLines
  <2>2. 4 \in Nat
    OBVIOUS
  <2> QED BY <2>1, <2>2
<1>10. \E e \in Nat : WellFormed(<<First("get", LineMax + 2, "dots"), TextLine("header", LineMax + 3), End>>, e)
  <2>1. WellFormed(<<First("get", LineMax + 2, "dots"), TextLine("header", LineMax + 3), End>>, 3)
    BY <1>3, <1>4, <1>7, ThreeLines
  <2>2. 3 \in Nat
    OBVIOUS
  <2> QED BY <2>1, <2>2
<1>11. \E e \in Nat : WellFormed(<<First("post", 2, "long"), Length("length", LineMax + 2), End,
              TextLine("body", LineMax + 1), TextLine("body", 1)>>, e)
  <2>1. WellFormed(<<First("post", 2, "long"), Length("length", LineMax + 2), End,
              TextLine("body", LineMax + 1), TextLine("body", 1)>>, 3)
    BY <1>3, <1>1, <1>4, <1>5, BodyLines
  <2>2. 3 \in Nat
    OBVIOUS
  <2> QED BY <2>1, <2>2
<1>12. \E e \in Nat : WellFormed(<<First("post", 2, "empty"), TextLine("header", 3), Length("length", 0), End>>, e)
  <2>1. WellFormed(<<First("post", 2, "empty"), TextLine("header", 3), Length("length", 0), End>>, 4)
    BY <1>3, <1>4, <1>5, <1>6, <1>7, FourLines
  <2>2. 4 \in Nat
    OBVIOUS
  <2> QED BY <2>1, <2>2
<1>13. \E e \in Nat : WellFormed(<<First("get", 3, "file"), Length("length", 3), End, TextLine("body", 2), TextLine("body", 1)>>, e)
  <2>1. WellFormed(<<First("get", 3, "file"), Length("length", 3), End, TextLine("body", 2), TextLine("body", 1)>>, 3)
    BY <1>3, <1>1, <1>4, <1>5, BodyLines
  <2>2. 3 \in Nat
    OBVIOUS
  <2> QED BY <2>1, <2>2
<1>14. \E e \in Nat : WellFormed(<<First("get", 2, "relative"), Length("length", NoNumber), End>>, e)
  <2>1. WellFormed(<<First("get", 2, "relative"), Length("length", NoNumber), End>>, 3)
    BY <1>3, <1>5, <1>6, ThreeLines
  <2>2. 3 \in Nat
    OBVIOUS
  <2> QED BY <2>1, <2>2
<1>15. \E e \in Nat : WellFormed(<<First("post", 2, "file"), Length("length", 2), Length("length", 2), End, TextLine("body", 2)>>, e)
  <2>1. WellFormed(<<First("post", 2, "file"), Length("length", 2), Length("length", 2), End, TextLine("body", 2)>>, 4)
    BY <1>3, <1>4, <1>5, TwiceLines
  <2>2. 4 \in Nat
    OBVIOUS
  <2> QED BY <2>1, <2>2
<1>16. \E e \in Nat : WellFormed(<<First("post", 2, "file"), Length("tight", 2), End, TextLine("body", 2)>>, e)
  <2>1. WellFormed(<<First("post", 2, "file"), Length("tight", 2), End, TextLine("body", 2)>>, 3)
    BY <1>3, <1>4, <1>5, TightLines
  <2>2. 3 \in Nat
    OBVIOUS
  <2> QED BY <2>1, <2>2
<1>17. \E e \in Nat : WellFormed(<<First("get", 2, "file"), Length("length", -1), End>>, e)
  <2>1. WellFormed(<<First("get", 2, "file"), Length("length", -1), End>>, 3)
    BY <1>3, <1>5, <1>6, ThreeLines
  <2>2. 3 \in Nat
    OBVIOUS
  <2> QED BY <2>1, <2>2
<1>18. \E e \in Nat : WellFormed(<<First("get", 2, "file"), Length("length", ContentMax + 1), End>>, e)
  <2>1. WellFormed(<<First("get", 2, "file"), Length("length", ContentMax + 1), End>>, 3)
    BY <1>3, <1>5, <1>6, ThreeLines
  <2>2. 3 \in Nat
    OBVIOUS
  <2> QED BY <2>1, <2>2
<1>19. \E e \in Nat : WellFormed(<<TextLine("bad", 2), End>>, e)
  <2>1. WellFormed(<<TextLine("bad", 2), End>>, 2)
    BY <1>3, <1>4, TwoLines
  <2>2. 2 \in Nat
    OBVIOUS
  <2> QED BY <2>1, <2>2
<1> QED BY <1>8, <1>9, <1>10, <1>11, <1>12, <1>13, <1>14, <1>15, <1>16, <1>17, <1>18, <1>19 DEF Requests

-----------------------------------------------------------------------------
(* The HTTP connection: the lines under way                                 *)

LEMMA NumberedLines ==
  ASSUME NEW r \in Seq(TextLines), NEW n \in Nat \ {0}
  PROVE  LET t == Http!Numbered(r, n) IN
           /\ t \in Seq(Lines) /\ Len(t) = Len(r)
           /\ \A i \in 1..Len(r) : /\ t[i].kind = r[i].kind /\ t[i].size = r[i].size
                                   /\ t[i].n = r[i].n /\ t[i].uri = r[i].uri /\ t[i].of = n
<1> DEFINE line(i) == [kind |-> r[i].kind, size |-> r[i].size, n |-> r[i].n, uri |-> r[i].uri, of |-> n]
<1>1. ASSUME NEW i \in 1..Len(r)
      PROVE  /\ line(i) \in Lines
             /\ line(i).kind = r[i].kind /\ line(i).size = r[i].size
             /\ line(i).n = r[i].n /\ line(i).uri = r[i].uri /\ line(i).of = n
  <2>1. r[i] \in TextLines
    OBVIOUS
  <2>2. r[i].kind \in Kinds /\ r[i].size \in Nat \ {0} /\ r[i].n \in Int /\ r[i].uri \in Uris
    BY <2>1 DEF TextLines
  <2> QED BY <2>2 DEF Lines
<1>2. Http!Numbered(r, n) = [i \in 1..Len(r) |-> line(i)]
  BY DEF Http!Numbered
<1> HIDE DEF line
<1>3. Len(r) \in Nat
  OBVIOUS
<1>4. [i \in 1..Len(r) |-> line(i)] \in Seq(Lines)
  BY <1>1, <1>3
<1> QED BY <1>1, <1>2, <1>3, <1>4

LEMMA RestLine ==
  ASSUME NEW l \in Lines, NEW k \in Nat, k < l.size
  PROVE  Http!Rest(l, k) \in Lines /\ Http!Rest(l, k).kind = "rest"
<1>1. l.size - k \in Nat \ {0}
  BY DEF Lines
<1> QED BY <1>1 DEF Lines, Http!Rest

LEMMA SomeLines ==
  ASSUME NEW s \in Seq(Lines), s # <<>>
  PROVE  /\ Tail(s) \in Seq(Lines) /\ Len(Tail(s)) = Len(s) - 1 /\ Len(s) \in Nat \ {0}
         /\ Head(s) = s[1] /\ s[1] \in Lines /\ \A j \in 1..Len(s) - 1 : Tail(s)[j] = s[j + 1]
OBVIOUS

\* InputStream::readLine()
LEMMA LineRead ==
  ASSUME stream \in Seq(Lines), NEW max \in Nat \ {0}, Http!ReadLine(max)
  PROVE  /\ stream # <<>> /\ Http!Line = stream[1] /\ stream[1] \in Lines /\ stream' \in Seq(Lines)
         /\ stream[1].size <= max => stream' = Tail(stream)
         /\ stream[1].size > max =>
              /\ Len(stream') = Len(stream) /\ stream'[1].kind = "rest"
              /\ \A x \in 2..Len(stream) : stream'[x] = stream[x]
<1> DEFINE l == stream[1]
<1>1. stream # <<>> /\ stream' = Http!After(Http!Least(max, Http!Line.size))
  BY DEF Http!ReadLine
<1>2. /\ Tail(stream) \in Seq(Lines) /\ Len(Tail(stream)) = Len(stream) - 1 /\ Len(stream) \in Nat \ {0}
      /\ Http!Line = l /\ l \in Lines
      /\ \A j \in 1..Len(stream) - 1 : Tail(stream)[j] = stream[j + 1]
  BY <1>1, SomeLines DEF Http!Line
<1> HIDE DEF l
<1>3. l.size \in Nat \ {0}
  BY <1>2 DEF Lines
<1>4. ASSUME l.size <= max PROVE stream' = Tail(stream)
  <2>1. Http!Least(max, l.size) = l.size
    BY <1>3, <1>4 DEF Http!Least
  <2>2. ~(l.size < l.size)
    BY <1>3
  <2> QED BY <1>1, <1>2, <2>1, <2>2 DEF Http!After
<1>5. ASSUME l.size > max
      PROVE  /\ Len(stream') = Len(stream) /\ stream'[1].kind = "rest" /\ stream' \in Seq(Lines)
             /\ \A x \in 2..Len(stream) : stream'[x] = stream[x]
  <2>1. Http!Least(max, l.size) = max /\ max < l.size
    BY <1>3, <1>5 DEF Http!Least
  <2>2. stream' = <<Http!Rest(l, max)>> \o Tail(stream)
    BY <1>1, <1>2, <2>1 DEF Http!After
  <2>3. Http!Rest(l, max) \in Lines /\ Http!Rest(l, max).kind = "rest"
    BY <1>2, <2>1, RestLine
  <2> DEFINE h == <<Http!Rest(l, max)>>
             t == Tail(stream)
  <2>4. h \in Seq(Lines) /\ Len(h) = 1 /\ h[1] = Http!Rest(l, max)
    BY <2>3
  <2> HIDE DEF h, t
  <2>5. t \in Seq(Lines) /\ Len(t) = Len(stream) - 1 /\ \A j \in 1..Len(stream) - 1 : t[j] = stream[j + 1]
    BY <1>2 DEF t
  <2>6. /\ h \o t \in Seq(Lines) /\ Len(h \o t) = Len(h) + Len(t)
        /\ \A i \in 1..Len(h) + Len(t) : (h \o t)[i] = IF i <= Len(h) THEN h[i] ELSE t[i - Len(h)]
    BY <2>4, <2>5, ConcatProperties
  <2>7. stream' = h \o t
    BY <2>2 DEF h, t
  <2>8. Len(stream') = Len(stream) /\ stream'[1].kind = "rest" /\ stream' \in Seq(Lines)
    <3>1. 1 \in 1..Len(h) + Len(t) /\ 1 <= Len(h) /\ Len(h) + Len(t) = Len(stream)
      BY <1>2, <2>4, <2>5
    <3>2. (h \o t)[1] = h[1]
      BY <2>6, <3>1
    <3> QED BY <2>3, <2>4, <2>6, <2>7, <3>1, <3>2
  <2>9. ASSUME NEW x \in 2..Len(stream) PROVE stream'[x] = stream[x]
    <3>1. x \in 1..Len(h) + Len(t) /\ ~(x <= Len(h)) /\ x - Len(h) = x - 1 /\ x - 1 \in 1..Len(stream) - 1
          /\ (x - 1) + 1 = x
      BY <1>2, <2>4, <2>5
    <3> QED BY <2>5, <2>6, <2>7, <3>1
  <2> QED BY <2>8, <2>9
<1> QED BY <1>1, <1>2, <1>3, <1>4, <1>5 DEF l

\* What a line under way, or the one that is missing, is: the j-th one of the
\* request r, sent as the of-th, whose header ends with the e-th.
Tag(of, r, e, j) == [of |-> of, r |-> r, e |-> e, j |-> j]
IsTag(g) == /\ g.of \in Nat \ {0} /\ g.r \in Requests /\ g.e \in Nat /\ WellFormed(g.r, g.e)
            /\ g.j \in 1..Len(g.r)

\* The tag behind it.
Follows(g, h) ==
  IF g.j < Len(g.r) THEN h.of = g.of /\ h.r = g.r /\ h.e = g.e /\ h.j = g.j + 1
                    ELSE h.of = g.of + 1 /\ h.j = 1

\* The last line that came from a side that closed may lack its end.
IsLine(l, g) ==
  /\ l.kind = g.r[g.j].kind /\ l.n = g.r[g.j].n /\ l.uri = g.r[g.j].uri /\ l.of = g.of
  /\ \/ l.size = g.r[g.j].size
     \/ closed /\ g.of = Len(asked) + 1 /\ l.size = g.r[g.j].size - 1

\* What is left of a line of the header.
IsLeft(l, g) == at = "header" /\ l.kind = "rest" /\ g.j < g.e

WasAsked(g) == g.of <= Len(asked) + 1 /\ (g.of <= Len(asked) => asked[g.of] = g.r[1].uri)

\* G tags every line of the stream, and the one that is missing behind them.
Tagged(G) ==
  /\ \A x \in 1..Len(stream) + 1 : IsTag(G[x]) /\ WasAsked(G[x])
  /\ \A x \in 1..Len(stream) : Follows(G[x], G[x + 1])
  /\ \A x \in 1..Len(stream) : IsLine(stream[x], G[x]) \/ (x = 1 /\ IsLeft(stream[x], G[x]))
  /\ ~closed => /\ G[Len(stream) + 1].of = Len(asked) + 1 /\ G[Len(stream) + 1].j = 1
                /\ \A x \in 1..Len(stream) : G[x].of <= Len(asked)
Shifted(G) == [x \in 1..Len(stream) |-> G[x + 1]]

LEMMA TagFacts ==
  ASSUME NEW g, IsTag(g)
  PROVE  /\ g.of \in Nat \ {0} /\ g.e \in 2..Len(g.r) /\ Len(g.r) \in Nat /\ Len(g.r) <= g.e + 2
         /\ g.j \in 1..Len(g.r) /\ \A x \in 1..Len(g.r) : g.r[x] \in TextLines
         /\ \A x \in 1..Len(g.r) : /\ g.r[x].kind \in Kinds /\ g.r[x].kind # "rest"
                                   /\ g.r[x].size \in Nat \ {0} /\ g.r[x].n \in Int /\ g.r[x].uri \in Uris
         /\ g.r[1].kind \in {"get", "post", "bad"} /\ g.r[g.e].kind = "empty" /\ g.r[g.e].size = 1
         /\ Headers(g.r, g.e) /\ Bodies(g.r, g.e) /\ Fits(g.r, g.e)
<1>1. g.r \in Seq(TextLines)
  BY DEF IsTag, WellFormed
<1>2. \A x \in 1..Len(g.r) : g.r[x] \in TextLines
  BY <1>1
<1>3. \A l \in TextLines : l.kind \in Kinds /\ l.kind # "rest" /\ l.size \in Nat \ {0} /\ l.n \in Int /\ l.uri \in Uris
  BY DEF TextLines, Kinds
<1>4. Len(g.r) \in Nat
  BY <1>1
<1> QED BY <1>2, <1>3, <1>4 DEF IsTag, WellFormed

\* The line that is read next.
LEMMA HeadTag ==
  ASSUME stream \in Seq(Lines), stream # <<>>, NEW G, Tagged(G)
  PROVE  /\ IsTag(G[1]) /\ IsTag(G[2]) /\ WasAsked(G[1]) /\ WasAsked(G[2]) /\ Follows(G[1], G[2])
         /\ IsLine(stream[1], G[1]) \/ IsLeft(stream[1], G[1])
<1>1. 1 \in 1..Len(stream) /\ 1 \in 1..Len(stream) + 1 /\ 2 \in 1..Len(stream) + 1 /\ 1 + 1 = 2
  BY SomeLines
<1> QED BY <1>1 DEF Tagged

LEMMA FirstTag ==
  ASSUME stream \in Seq(Lines), NEW G, Tagged(G)
  PROVE  IsTag(G[1]) /\ WasAsked(G[1])
<1>1. 1 \in 1..Len(stream) + 1
  OBVIOUS
<1> QED BY <1>1 DEF Tagged

\* A line is read whole.
LEMMA NextTag ==
  ASSUME stream \in Seq(Lines), stream # <<>>, NEW G, Tagged(G), stream' = Tail(stream),
         UNCHANGED <<closed, asked>>
  PROVE  \E H : /\ Tagged(H)' /\ Follows(G[1], H[1]) /\ IsTag(H[1]) /\ WasAsked(H[1])
                /\ stream' # <<>> => stream'[1].kind # "rest"
<1>1. /\ Tail(stream) \in Seq(Lines) /\ Len(Tail(stream)) = Len(stream) - 1 /\ Len(stream) \in Nat \ {0}
      /\ \A j \in 1..Len(stream) - 1 : Tail(stream)[j] = stream[j + 1]
  BY SomeLines
<1> DEFINE m == Len(stream)
<1>0. PICK H : H = Shifted(G)
  OBVIOUS
<1>2. m \in Nat \ {0} /\ Len(stream') = m - 1
  BY <1>1
<1>3. \A x \in 1..m : H[x] = G[x + 1]
  BY <1>0 DEF Shifted
<1>4. ASSUME NEW x \in 1..Len(stream') + 1 PROVE IsTag(H[x]) /\ WasAsked(H[x])
  <2>1. x \in 1..m /\ x + 1 \in 1..Len(stream) + 1
    BY <1>2
  <2>2. IsTag(G[x + 1]) /\ WasAsked(G[x + 1])
    BY <2>1 DEF Tagged
  <2> QED BY <1>3, <2>1, <2>2
<1>5. ASSUME NEW x \in 1..Len(stream')
      PROVE  /\ Follows(H[x], H[x + 1]) /\ IsLine(stream'[x], H[x])
             /\ ~closed => H[x].of <= Len(asked)
  <2>1. /\ x \in 1..m /\ x + 1 \in 1..m /\ x \in 1..Len(stream) - 1 /\ x + 1 # 1
    BY <1>2
  <2>2. /\ Follows(G[x + 1], G[(x + 1) + 1]) /\ (~closed => G[x + 1].of <= Len(asked))
        /\ IsLine(stream[x + 1], G[x + 1])
    BY <2>1 DEF Tagged
  <2>3. H[x] = G[x + 1] /\ H[x + 1] = G[(x + 1) + 1] /\ stream'[x] = stream[x + 1]
    BY <1>1, <1>3, <2>1
  <2> QED BY <2>2, <2>3
<1>6. ~closed => H[Len(stream') + 1].of = Len(asked) + 1 /\ H[Len(stream') + 1].j = 1
  <2>1. Len(stream') + 1 = m /\ m \in 1..m
    BY <1>2
  <2>2. H[Len(stream') + 1] = G[m + 1]
    BY <1>3, <2>1
  <2> QED BY <2>2 DEF Tagged
<1>7. Tagged(H)'
  <2>1. \A x \in 1..Len(stream') + 1 : IsTag(H[x])' /\ WasAsked(H[x])'
    BY <1>4 DEF IsTag, WasAsked, WellFormed
  <2>2. \A x \in 1..Len(stream') : IsLine(stream[x], H[x])'
    BY <1>5 DEF IsLine
  <2> QED BY <1>5, <1>6, <2>1, <2>2 DEF Tagged
<1>8. Follows(G[1], H[1]) /\ IsTag(H[1]) /\ WasAsked(H[1])
  <2>1. 1 \in 1..m /\ 1 \in 1..Len(stream') + 1 /\ 1 + 1 = 2
    BY <1>2
  <2>2. H[1] = G[2]
    BY <1>3, <2>1
  <2> QED BY <1>4, <2>1, <2>2, HeadTag
<1>9. stream' # <<>> => stream'[1].kind # "rest"
  <2> SUFFICES ASSUME stream' # <<>> PROVE stream'[1].kind # "rest"
    OBVIOUS
  <2>1. 1 \in 1..Len(stream')
    <3>1. stream' \in Seq(Lines)
      BY <1>1
    <3> QED BY <3>1, SomeLines
  <2>2. IsLine(stream'[1], H[1])
    BY <1>5, <2>1
  <2>3. H[1].r[H[1].j].kind # "rest"
    BY <1>8, TagFacts
  <2> QED BY <2>2, <2>3 DEF IsLine
<1> QED BY <1>7, <1>8, <1>9

\* Only the first bytes of a line are read.
LEMMA CutTag ==
  ASSUME stream \in Seq(Lines), stream # <<>>, NEW G, Tagged(G), Len(stream') = Len(stream),
         stream'[1].kind = "rest", \A x \in 2..Len(stream) : stream'[x] = stream[x],
         UNCHANGED <<closed, asked>>, at' = "header", G[1].j < G[1].e
  PROVE  Tagged(G)'
<1>1. Len(stream) \in Nat
  OBVIOUS
<1>2. ASSUME NEW x \in 1..Len(stream') PROVE IsLine(stream[x], G[x])' \/ (x = 1 /\ IsLeft(stream[x], G[x])')
  <2>1. CASE x = 1
    BY <2>1 DEF IsLeft
  <2>2. CASE x # 1
    <3>1. x \in 2..Len(stream) /\ x \in 1..Len(stream)
      BY <1>1, <2>2
    <3>2. IsLine(stream[x], G[x]) /\ stream'[x] = stream[x]
      BY <2>2, <3>1 DEF Tagged
    <3> QED BY <3>2 DEF IsLine
  <2> QED BY <2>1, <2>2
<1>3. \A x \in 1..Len(stream') + 1 : IsTag(G[x])' /\ WasAsked(G[x])'
  BY DEF Tagged, IsTag, WasAsked, WellFormed
<1> QED BY <1>2, <1>3 DEF Tagged

-----------------------------------------------------------------------------
(* The HTTP connection: the reader                                          *)

\* The header up to the u-th line has been read.
LengthTold(r, u) ==
  /\ NoTight(r, u)
  /\ length = -2 => NoLength(r, u)
  /\ length # -2 => \E x \in 2..u - 1 : r[x].kind = "length" /\ length = r[x].n
HeaderRead(g, u) == u \in 2..g.e /\ LengthTold(g.r, u)

\* What is read next is the line of g; it is the next request's when all of one
\* is read.
Beginning(g) == at = "idle" /\ length = -2 /\ g.of = Len(answers) + 1 /\ g.j = 1
InHeader(g) ==
  /\ at = "header" /\ g.of = Len(answers) + 1 /\ uri = g.r[1].uri
  /\ HeaderRead(g, IF stream # <<>> /\ stream[1].kind = "rest" THEN g.j + 1 ELSE g.j)
InBody(g) ==
  /\ at = "content" /\ g.of = Len(answers) + 1 /\ uri = g.r[1].uri
  /\ g.j > g.e /\ left >= Due(g.r, g.j) /\ (g.of <= Len(asked) => left = Due(g.r, g.j))
Behind(g) == at = "content" /\ g.of = Len(answers) + 2 /\ g.j = 1 /\ left = 0 /\ uri = asked[Len(answers) + 1]
Reads(g) ==
  /\ Beginning(g) \/ InHeader(g) \/ InBody(g) \/ Behind(g)
  /\ at # "idle" => number = Len(answers) + 1

AnswersMade == [of : Nat, code : {200, 404, 414}, whole : {TRUE}]
AnswersOk ==
  /\ answers \in Seq(AnswersMade) /\ Len(answers) <= Len(asked)
  /\ \A k \in 1..Len(answers) :
       answers[k].of = k /\ answers[k].code = Http!Expected(asked[k]) /\ answers[k].whole = TRUE
InOrder ==
  /\ stream \in Seq(Lines) /\ asked \in Seq(Uris) /\ left \in Int /\ AnswersOk
  /\ \E G : Tagged(G) /\ Reads(G[1])
ServeInv == ~broken => InOrder

LEMMA AnswersStay ==
  ASSUME AnswersOk, UNCHANGED <<answers, asked>>
  PROVE  AnswersOk'
BY DEF AnswersOk, Http!Expected

\* A line of the header of g, or the rest of one, is read.
LEMMA HeaderGoesOn ==
  ASSUME InOrder, NEW G, Tagged(G), Http!ReadLine(LineMax), at' = "header",
         G[1].of = Len(answers) + 1, number' = Len(answers) + 1, uri' = G[1].r[1].uri,
         UNCHANGED <<closed, asked, answers, left>>, G[1].j < G[1].e,
         LengthTold(G[1].r, G[1].j + 1)'
  PROVE  InOrder'
<1>1. stream \in Seq(Lines) /\ LineMax \in Nat \ {0}
  BY HttpAssumption DEF InOrder
<1>2. /\ stream # <<>> /\ Http!Line = stream[1] /\ stream[1] \in Lines /\ stream' \in Seq(Lines)
      /\ stream[1].size <= LineMax => stream' = Tail(stream)
      /\ stream[1].size > LineMax =>
           /\ Len(stream') = Len(stream) /\ stream'[1].kind = "rest"
           /\ \A x \in 2..Len(stream) : stream'[x] = stream[x]
  BY <1>1, LineRead
<1>3. IsTag(G[1])
  BY <1>1, FirstTag
<1>4. G[1].e \in 2..Len(G[1].r) /\ G[1].j \in 1..Len(G[1].r) /\ Len(G[1].r) \in Nat
  BY <1>3, TagFacts
<1>5. G[1].j + 1 \in 2..G[1].e /\ G[1].j < Len(G[1].r)
  BY <1>4
<1>6. stream[1].size <= LineMax \/ stream[1].size > LineMax
  BY <1>1, <1>2 DEF Lines
<1>7. CASE stream[1].size <= LineMax
  <2>1. PICK H : /\ Tagged(H)' /\ Follows(G[1], H[1])
                 /\ stream' # <<>> => stream'[1].kind # "rest"
    BY <1>1, <1>2, <1>7, NextTag
  <2>2. H[1].of = G[1].of /\ H[1].r = G[1].r /\ H[1].e = G[1].e /\ H[1].j = G[1].j + 1
    BY <1>5, <2>1 DEF Follows
  <2>3. InHeader(H[1])'
    BY <1>5, <2>1, <2>2 DEF InHeader, HeaderRead, LengthTold
  <2>4. Reads(H[1])'
    BY <2>3 DEF Reads
  <2> QED BY <1>2, <2>1, <2>4, AnswersStay DEF InOrder
<1>8. CASE stream[1].size > LineMax
  <2>1. Tagged(G)'
    BY <1>1, <1>2, <1>8, CutTag
  <2>2. stream' # <<>>
    <3>1. Len(stream') > 0
      BY <1>1, <1>2, <1>8
    <3> QED BY <1>2, <3>1
  <2>3. InHeader(G[1])'
    BY <1>2, <1>5, <1>8, <2>2 DEF InHeader, HeaderRead, LengthTold
  <2>4. Reads(G[1])'
    BY <2>3 DEF Reads
  <2> QED BY <1>2, <2>1, <2>4, AnswersStay DEF InOrder
<1> QED BY <1>6, <1>7, <1>8

LEMMA ReadFirstKeeps == InOrder /\ Http!ReadFirst /\ UNCHANGED <<closed, asked, answers>> => InOrder'
<1> SUFFICES ASSUME InOrder, Http!ReadFirst, UNCHANGED <<closed, asked, answers>> PROVE InOrder'
  OBVIOUS
<1>1. /\ at = "idle" /\ Http!ReadLine(LineMax) /\ at' = "header" /\ uri' = Http!Line.uri
      /\ number' = Http!Line.of /\ UNCHANGED <<length, left>> /\ Http!Line = stream[1] /\ stream # <<>>
  BY HttpAssumption, LineRead DEF Http!ReadFirst, InOrder
<1>2. PICK G : Tagged(G) /\ Reads(G[1])
  BY DEF InOrder
<1>3. Beginning(G[1])
  BY <1>1, <1>2 DEF Reads, InHeader, InBody, Behind
<1>4. IsTag(G[1]) /\ IsLine(stream[1], G[1])
  BY <1>1, <1>2, HeadTag DEF IsLeft, InOrder
<1>5. G[1].e \in 2..Len(G[1].r)
  BY <1>4, TagFacts
<1>6. G[1].j = 1 /\ G[1].of = Len(answers) + 1 /\ length = -2
  BY <1>3 DEF Beginning
<1>7. G[1].j < G[1].e /\ 2..(G[1].j + 1) - 1 = {}
  BY <1>5, <1>6
<1>8. LengthTold(G[1].r, G[1].j + 1)'
  BY <1>1, <1>6, <1>7 DEF LengthTold, NoTight, NoLength
<1>9. uri' = G[1].r[1].uri /\ number' = Len(answers) + 1
  BY <1>1, <1>4, <1>6 DEF IsLine
<1> QED BY <1>1, <1>2, <1>6, <1>7, <1>8, <1>9, HeaderGoesOn

\* In the header, the next line is one of it, or the rest of one.
LEMMA AtHeader ==
  ASSUME InOrder, at = "header", stream # <<>>, NEW G, Tagged(G), Reads(G[1])
  PROVE  /\ IsTag(G[1]) /\ InHeader(G[1]) /\ number = Len(answers) + 1
         /\ \/ /\ IsLine(stream[1], G[1]) /\ stream[1].kind # "rest"
               /\ G[1].j \in 2..G[1].e /\ LengthTold(G[1].r, G[1].j)
            \/ /\ stream[1].kind = "rest" /\ G[1].j < G[1].e /\ LengthTold(G[1].r, G[1].j + 1)
<1>1. InHeader(G[1]) /\ number = Len(answers) + 1
  BY DEF Reads, Beginning, InBody, Behind
<1>2. IsTag(G[1]) /\ (IsLine(stream[1], G[1]) \/ IsLeft(stream[1], G[1]))
  BY HeadTag DEF InOrder
<1>3. IsLine(stream[1], G[1]) => stream[1].kind # "rest"
  BY <1>2, TagFacts DEF IsLine
<1> QED BY <1>1, <1>2, <1>3 DEF InHeader, HeaderRead, IsLeft

LEMMA ReadHeaderKeeps ==
  /\ InOrder /\ at = "header" /\ Http!ReadHeader /\ UNCHANGED <<closed, asked, answers>>
  /\ ~(Http!Line.kind = "tight" \/ (Http!Line.kind = "length" /\ length # Http!Absent))
  => InOrder'
<1> SUFFICES ASSUME InOrder, at = "header", Http!ReadHeader, UNCHANGED <<closed, asked, answers>>,
                    Http!Line.kind # "tight", Http!Line.kind = "length" => length = Http!Absent
             PROVE  InOrder'
  OBVIOUS
<1>1. /\ Http!ReadLine(LineMax) /\ ~Http!Empties /\ UNCHANGED <<at, uri, number, left>>
      /\ Http!Line = stream[1] /\ stream # <<>>
      /\ length' = IF stream[1].kind = "length" THEN stream[1].n ELSE length
      /\ stream[1].kind \notin {"tight", "empty"} /\ (stream[1].kind = "length" => length = -2)
  <2>1. Http!Line = stream[1] /\ stream # <<>>
    BY HttpAssumption, LineRead DEF Http!ReadHeader, InOrder
  <2> QED BY <2>1 DEF Http!ReadHeader, Http!Value, Http!Absent, Http!Empties
<1>2. PICK G : Tagged(G) /\ Reads(G[1])
  BY DEF InOrder
<1>3. /\ IsTag(G[1]) /\ InHeader(G[1]) /\ number = Len(answers) + 1
      /\ \/ /\ IsLine(stream[1], G[1]) /\ stream[1].kind # "rest"
            /\ G[1].j \in 2..G[1].e /\ LengthTold(G[1].r, G[1].j)
         \/ /\ stream[1].kind = "rest" /\ G[1].j < G[1].e /\ LengthTold(G[1].r, G[1].j + 1)
  BY <1>1, <1>2, AtHeader
<1>4. /\ G[1].e \in 2..Len(G[1].r) /\ Headers(G[1].r, G[1].e) /\ G[1].r[G[1].e].kind = "empty"
      /\ G[1].j \in 1..Len(G[1].r)
  BY <1>3, TagFacts
<1>5. G[1].j < G[1].e /\ LengthTold(G[1].r, G[1].j + 1)'
  <2>1. CASE stream[1].kind = "rest"
    BY <1>1, <1>3, <2>1 DEF LengthTold
  <2>2. CASE stream[1].kind # "rest"
    <3> DEFINE r == G[1].r
               j == G[1].j
    <3>1. /\ r[j].kind = stream[1].kind /\ r[j].n = stream[1].n
          /\ j \in 2..G[1].e /\ LengthTold(r, j)
      BY <1>3, <2>2 DEF IsLine
    <3>2. j < G[1].e
      BY <1>1, <1>4, <3>1
    <3> HIDE DEF r, j
    <3>3. j \in 2..G[1].e - 1
      BY <1>4, <3>1, <3>2
    <3>4. r[j].kind = "length" => r[j].n # -2
      BY <1>4, <3>3 DEF Headers, r
    <3>5. \A x \in 2..(j + 1) - 1 : x \in 2..j - 1 \/ x = j
      BY <3>3
    <3>6. j \in 2..(j + 1) - 1 /\ \A x \in 2..j - 1 : x \in 2..(j + 1) - 1
      BY <3>3
    <3>7. NoTight(r, j + 1)
      BY <1>1, <3>1, <3>5 DEF LengthTold, NoTight
    <3>8. ASSUME stream[1].kind = "length"
          PROVE  length' # -2 /\ \E x \in 2..(j + 1) - 1 : r[x].kind = "length" /\ length' = r[x].n
      BY <1>1, <3>1, <3>4, <3>6, <3>8
    <3>9. ASSUME stream[1].kind # "length"
          PROVE  /\ length' = -2 => NoLength(r, j + 1)
                 /\ length' # -2 => \E x \in 2..(j + 1) - 1 : r[x].kind = "length" /\ length' = r[x].n
      <4>1. length = -2 => NoLength(r, j + 1)
        BY <3>1, <3>5, <3>9 DEF LengthTold, NoLength
      <4>2. length # -2 => \E x \in 2..(j + 1) - 1 : r[x].kind = "length" /\ length = r[x].n
        BY <3>1, <3>6 DEF LengthTold
      <4> QED BY <1>1, <3>9, <4>1, <4>2
    <3>10. /\ length' = -2 => NoLength(r, j + 1)
           /\ length' # -2 => \E x \in 2..(j + 1) - 1 : r[x].kind = "length" /\ length' = r[x].n
      BY <3>8, <3>9
    <3> QED BY <3>2, <3>7, <3>10 DEF r, j, LengthTold
  <2> QED BY <2>1, <2>2
<1>6. at' = "header" /\ G[1].of = Len(answers) + 1 /\ number' = Len(answers) + 1 /\ uri' = G[1].r[1].uri
  BY <1>1, <1>3 DEF InHeader
<1> QED BY <1>1, <1>2, <1>5, <1>6, HeaderGoesOn

\* The header ends where it should, and announces the body there is.
LEMMA EndHeaderKeeps ==
  /\ InOrder /\ Http!EndHeader("content") /\ UNCHANGED <<closed, asked, answers>>
  /\ Http!Line.kind # "rest"
  => InOrder'
<1> SUFFICES ASSUME InOrder, Http!EndHeader("content"), UNCHANGED <<closed, asked, answers>>,
                    Http!Line.kind # "rest"
             PROVE  InOrder'
  OBVIOUS
<1>1. /\ at = "header" /\ Http!ReadLine(LineMax) /\ at' = "content" /\ UNCHANGED <<uri, number>>
      /\ (length = -3 \/ length = -2) \/ length \in 0..ContentMax
      /\ left' = IF length # -3 /\ length # -2 THEN length ELSE 0
  BY DEF Http!EndHeader, Http!Announced, Http!NaN, Http!Absent
<1>2. stream \in Seq(Lines) /\ LineMax \in Nat \ {0} /\ ContentMax \in Nat
  BY HttpAssumption DEF InOrder
<1>3. /\ stream # <<>> /\ Http!Line = stream[1] /\ stream[1] \in Lines /\ stream' \in Seq(Lines)
      /\ stream[1].size <= LineMax => stream' = Tail(stream)
  BY <1>1, <1>2, LineRead
<1>4. stream[1].kind = "empty"
  BY <1>3 DEF Http!EndHeader, Http!Empties
<1>5. PICK G : Tagged(G) /\ Reads(G[1])
  BY DEF InOrder
<1>6. /\ IsTag(G[1]) /\ InHeader(G[1]) /\ number = Len(answers) + 1
      /\ IsLine(stream[1], G[1]) /\ G[1].j \in 2..G[1].e /\ LengthTold(G[1].r, G[1].j)
  BY <1>1, <1>3, <1>4, <1>5, AtHeader
<1>7. /\ G[1].e \in 2..Len(G[1].r) /\ Headers(G[1].r, G[1].e) /\ G[1].r[G[1].e].size = 1
      /\ Fits(G[1].r, G[1].e) /\ Len(G[1].r) \in Nat
      /\ \A x \in 1..Len(G[1].r) : G[1].r[x].size \in Nat \ {0}
  BY <1>6, TagFacts
<1>8. G[1].j = G[1].e
  <2>1. G[1].r[G[1].j].kind = "empty"
    BY <1>4, <1>6 DEF IsLine
  <2>2. G[1].j \notin 2..G[1].e - 1
    BY <1>7, <2>1 DEF Headers
  <2> QED BY <1>6, <1>7, <2>2
<1>9. stream' = Tail(stream)
  <2>1. stream[1].size = 1 \/ stream[1].size = 1 - 1
    BY <1>6, <1>7, <1>8 DEF IsLine
  <2>2. stream[1].size \in Nat \ {0}
    BY <1>3 DEF Lines
  <2>3. stream[1].size <= LineMax
    BY <1>2, <2>1, <2>2
  <2> QED BY <1>3, <2>3
<1>10. PICK H : /\ Tagged(H)' /\ Follows(G[1], H[1]) /\ IsTag(H[1]) /\ WasAsked(H[1])
  BY <1>2, <1>3, <1>5, <1>9, NextTag
<1>11. /\ left' \in Int /\ left' = Due(G[1].r, G[1].e + 1)
       /\ G[1].e = Len(G[1].r) => left' = 0
  <2> DEFINE r == G[1].r
             e == G[1].e
  <2>1. /\ e \in 2..Len(r) /\ Len(r) \in Nat /\ LengthTold(r, e)
        /\ NoLength(r, e) => e = Len(r)
        /\ \A x \in 2..e - 1 : r[x].kind = "length" =>
             (r[x].n = -3 => e = Len(r)) /\ (r[x].n \in 0..ContentMax => r[x].n = Due(r, e + 1))
    BY <1>6, <1>7, <1>8 DEF Fits, LengthTold
  <2> HIDE DEF r, e
  <2>2. e = Len(r) => Due(r, e + 1) = 0
    <3>1. e = Len(r) => e + 1 > Len(r)
      BY <2>1
    <3> QED BY <3>1 DEF Due
  <2>3. ASSUME length = -2 PROVE left' \in Int /\ left' = Due(r, e + 1) /\ (e = Len(r) => left' = 0)
    <3>1. e = Len(r)
      BY <2>1, <2>3 DEF LengthTold
    <3> QED BY <1>1, <2>2, <2>3, <3>1
  <2>4. ASSUME length # -2 PROVE left' \in Int /\ left' = Due(r, e + 1) /\ (e = Len(r) => left' = 0)
    <3>1. PICK x \in 2..e - 1 : r[x].kind = "length" /\ length = r[x].n
      BY <2>1, <2>4 DEF LengthTold
    <3>2. length = -3 => e = Len(r) /\ left' = 0
      BY <1>1, <2>1, <3>1
    <3>3. length # -3 => length \in 0..ContentMax /\ left' = length
      BY <1>1, <2>4
    <3>4. length # -3 => left' = Due(r, e + 1)
      BY <2>1, <3>1, <3>3
    <3> QED BY <1>2, <2>2, <3>2, <3>3, <3>4
  <2> QED BY <2>3, <2>4 DEF r, e
<1>12. G[1].of = Len(answers) + 1 /\ uri = G[1].r[1].uri
  BY <1>6 DEF InHeader
<1>13. WasAsked(G[1]) /\ Len(asked) \in Nat /\ Len(answers) \in Nat
  BY <1>2, <1>5, FirstTag DEF InOrder, AnswersOk
<1>14. CASE G[1].e < Len(G[1].r)
  <2>1. H[1].of = G[1].of /\ H[1].r = G[1].r /\ H[1].e = G[1].e /\ H[1].j = G[1].e + 1
    BY <1>8, <1>10, <1>14 DEF Follows
  <2>2. H[1].j > H[1].e /\ left' = Due(H[1].r, H[1].j) /\ left' >= Due(H[1].r, H[1].j)
    BY <1>7, <1>11, <2>1
  <2>3. InBody(H[1])'
    BY <1>1, <1>12, <2>1, <2>2 DEF InBody, Due
  <2>4. Reads(H[1])'
    BY <1>6, <1>1, <2>3 DEF Reads
  <2> QED BY <1>3, <1>10, <1>11, <2>4, AnswersStay DEF InOrder
<1>15. CASE G[1].e = Len(G[1].r)
  <2>1. H[1].of = G[1].of + 1 /\ H[1].j = 1
    BY <1>7, <1>8, <1>10, <1>15 DEF Follows
  <2>2. H[1].of = Len(answers) + 2 /\ G[1].of <= Len(asked)
    BY <1>10, <1>12, <1>13, <2>1 DEF WasAsked
  <2>3. uri = asked[Len(answers) + 1]
    BY <1>12, <1>13, <2>2 DEF WasAsked
  <2>4. Behind(H[1])'
    BY <1>1, <1>11, <1>15, <2>1, <2>2, <2>3 DEF Behind
  <2>5. Reads(H[1])'
    BY <1>6, <1>1, <2>4 DEF Reads
  <2> QED BY <1>3, <1>10, <1>11, <2>5, AnswersStay DEF InOrder
<1> QED BY <1>7, <1>14, <1>15

\* What is due when a line of the body is read.
LEMMA DueBody ==
  ASSUME NEW g, IsTag(g), g.j > g.e
  PROVE  /\ Due(g.r, g.j + 1) \in Nat
         /\ g.j < Len(g.r) => Due(g.r, g.j) = g.r[g.j].size + Due(g.r, g.j + 1)
         /\ g.j = Len(g.r) => Due(g.r, g.j) = g.r[g.j].size
<1> DEFINE r == g.r
           j == g.j
<1>1. /\ Len(r) \in Nat /\ j \in 1..Len(r) /\ g.e \in Nat /\ Len(r) <= g.e + 2
      /\ \A x \in 1..Len(r) : r[x].size \in Nat \ {0}
  BY TagFacts
<1>2. j = Len(r) \/ j + 1 = Len(r)
  BY <1>1
<1> HIDE DEF r, j
<1>3. CASE j = Len(r)
  <2>1. Due(r, j) = r[j].size /\ Due(r, j + 1) = 0
    BY <1>1, <1>3 DEF Due
  <2> QED BY <1>1, <1>3, <2>1 DEF r, j
<1>4. CASE j + 1 = Len(r)
  <2>1. Due(r, j) = r[j].size + r[j + 1].size /\ Due(r, j + 1) = r[j + 1].size
    BY <1>1, <1>4 DEF Due
  <2>2. j + 1 \in 1..Len(r) /\ j # Len(r)
    BY <1>1, <1>4
  <2> QED BY <1>1, <2>1, <2>2 DEF r, j
<1> QED BY <1>2, <1>3, <1>4

\* A line of the body is read, never a part of one.
LEMMA ReadContentKeeps == InOrder /\ Http!ReadContent /\ UNCHANGED <<closed, asked, answers>> => InOrder'
<1> SUFFICES ASSUME InOrder, Http!ReadContent, UNCHANGED <<closed, asked, answers>> PROVE InOrder'
  OBVIOUS
<1>1. /\ at = "content" /\ left > 0 /\ Http!ReadLine(left) /\ left' = left - Http!Least(left, Http!Line.size)
      /\ UNCHANGED <<at, uri, number, length>>
  BY DEF Http!ReadContent
<1>2. stream \in Seq(Lines) /\ left \in Nat \ {0} /\ Len(asked) \in Nat /\ Len(answers) \in Nat
  BY <1>1 DEF InOrder, AnswersOk
<1>3. /\ stream # <<>> /\ Http!Line = stream[1] /\ stream[1] \in Lines /\ stream' \in Seq(Lines)
      /\ stream[1].size <= left => stream' = Tail(stream)
  BY <1>1, <1>2, LineRead
<1>4. PICK G : Tagged(G) /\ Reads(G[1])
  BY DEF InOrder
<1>5. InBody(G[1]) /\ number = Len(answers) + 1
  BY <1>1, <1>2, <1>4 DEF Reads, Beginning, InHeader, Behind
<1>6. IsTag(G[1]) /\ WasAsked(G[1]) /\ IsLine(stream[1], G[1])
  BY <1>1, <1>2, <1>3, <1>4, HeadTag DEF IsLeft
<1> DEFINE s == stream[1].size
           r == G[1].r
           j == G[1].j
           d == Due(r, j)
           d1 == Due(r, j + 1)
<1>7. /\ s \in Nat \ {0} /\ r[j].size \in Nat \ {0} /\ j \in 1..Len(r) /\ Len(r) \in Nat /\ G[1].of \in Nat
      /\ s = r[j].size \/ (G[1].of = Len(asked) + 1 /\ s = r[j].size - 1)
  BY <1>3, <1>6, TagFacts DEF IsLine, Lines
<1>8. d1 \in Nat /\ (j < Len(r) => d = r[j].size + d1) /\ (j = Len(r) => d = r[j].size)
  BY <1>5, <1>6, DueBody DEF InBody
<1>9. left >= d /\ (G[1].of <= Len(asked) => left = d)
  BY <1>5 DEF InBody
<1> HIDE DEF s, r, j, d, d1
<1>10. s <= left /\ Http!Least(left, s) = s
  <2>1. s <= r[j].size /\ r[j].size <= d
    BY <1>7, <1>8
  <2>2. s <= left
    BY <1>2, <1>7, <1>8, <1>9, <2>1
  <2>3. Http!Least(left, s) = s
    BY <1>2, <1>7, <2>2 DEF Http!Least
  <2> QED BY <2>2, <2>3
<1>11. left' = left - s /\ stream' = Tail(stream)
  BY <1>1, <1>3, <1>10 DEF s
<1>12. PICK H : Tagged(H)' /\ Follows(G[1], H[1]) /\ IsTag(H[1]) /\ WasAsked(H[1])
  BY <1>2, <1>3, <1>4, <1>11, NextTag
<1>13. left' \in Int
  BY <1>2, <1>7, <1>11
<1>14. CASE j < Len(r)
  <2>1. H[1].of = G[1].of /\ H[1].r = r /\ H[1].e = G[1].e /\ H[1].j = j + 1
    BY <1>12, <1>14 DEF Follows, r, j
  <2>2. left' >= d1 /\ (G[1].of <= Len(asked) => left' = d1)
    <3> DEFINE z == r[j].size
               o == G[1].of
               m == Len(asked)
    <3>1. /\ s \in Int /\ z \in Int /\ o \in Int
          /\ s = z \/ (o = m + 1 /\ s = z - 1)
      BY <1>7
    <3>2. d1 \in Int /\ d = z + d1
      BY <1>8, <1>14
    <3>3. left >= d /\ (o <= m => left = d)
      BY <1>9
    <3>4. left \in Int /\ m \in Int
      BY <1>2
    <3> HIDE DEF z, o, m
    <3>5. left >= z + d1 /\ (o <= m => left = z + d1)
      BY <3>2, <3>3
    <3>6. left - s >= d1 /\ (o <= m => left - s = d1)
      BY <3>1, <3>2, <3>4, <3>5
    <3>7. left' >= d1 /\ (o <= m => left' = d1)
      BY <1>11, <3>6
    <3> QED BY <3>7 DEF o, m
  <2>3. H[1].j > H[1].e
    <3>1. G[1].e \in Nat /\ j > G[1].e
      BY <1>5, <1>6 DEF InBody, IsTag, j
    <3> QED BY <1>7, <2>1, <3>1
  <2>4. /\ at' = "content" /\ H[1].of = Len(answers) + 1 /\ uri' = H[1].r[1].uri
        /\ left' >= Due(H[1].r, H[1].j) /\ (H[1].of <= Len(asked) => left' = Due(H[1].r, H[1].j))
    BY <1>1, <1>5, <2>1, <2>2 DEF InBody, r, d1
  <2>5. InBody(H[1])'
    BY <2>3, <2>4 DEF InBody, Due
  <2>6. Reads(H[1])'
    BY <1>1, <1>5, <2>5 DEF Reads
  <2> QED BY <1>3, <1>12, <1>13, <2>6, AnswersStay DEF InOrder
<1>15. CASE j = Len(r)
  <2>1. H[1].of = G[1].of + 1 /\ H[1].j = 1
    BY <1>7, <1>12, <1>15 DEF Follows, r, j
  <2>2. G[1].of <= Len(asked) /\ asked[G[1].of] = r[1].uri
    BY <1>2, <1>6, <1>7, <1>12, <2>1 DEF WasAsked, r
  <2>3. left' = 0
    <3> DEFINE z == r[j].size
               o == G[1].of
               m == Len(asked)
    <3>1. s \in Int /\ z \in Int /\ o \in Int /\ (s = z \/ (o = m + 1 /\ s = z - 1))
      BY <1>7
    <3>2. d = z /\ left = d /\ left' = left - s /\ o <= m /\ m \in Int
      BY <1>2, <1>8, <1>9, <1>11, <1>15, <2>2
    <3> HIDE DEF z, o, m
    <3> QED BY ONLY <3>1, <3>2
  <2>4. G[1].of = Len(answers) + 1 /\ uri = r[1].uri
    BY <1>5 DEF InBody, r
  <2>5. Behind(H[1])'
    <3>1. H[1].of = Len(answers) + 2
      BY <1>2, <2>1, <2>4
    <3> QED BY <1>1, <2>1, <2>2, <2>3, <2>4, <3>1 DEF Behind
  <2>6. Reads(H[1])'
    BY <1>1, <1>5, <2>5 DEF Reads
  <2> QED BY <1>3, <1>12, <1>13, <2>6, AnswersStay DEF InOrder
<1> QED BY <1>7, <1>14, <1>15

\* What the server answers, whole and as the URI calls for.
LEMMA Responses ==
  ASSUME NEW u \in Uris, NEW n \in Nat
  PROVE  LET a == Http!Answer(n, Http!Output(Http!Response(u)))
         IN a \in AnswersMade /\ a.of = n /\ a.code = Http!Expected(u) /\ a.whole = TRUE
<1> DEFINE made(c, text, binary, l, type) == [code |-> c, text |-> text, binary |-> binary, template |-> -1,
                                             length |-> l, type |-> type]
           out(c, size, by) == [code |-> c, announced |-> size, sent |-> size, by |-> by]
<1>1. FileSize # -1
  BY HttpAssumption
<1>2. Http!Output(Http!Headed(Http!Page([Http!Fresh EXCEPT !.binary = FileSize, !.type = "mime"]))) =
        out(200, FileSize, "binary")
  <2>1. [Http!Fresh EXCEPT !.binary = FileSize, !.type = "mime"] = made(200, 0, FileSize, -1, "mime")
    <3>1. [Http!Fresh EXCEPT !.binary = FileSize] = made(200, 0, FileSize, -1, "none")
      BY DEF Http!Fresh, Http!NoData
    <3>2. [made(200, 0, FileSize, -1, "none") EXCEPT !.type = "mime"] = made(200, 0, FileSize, -1, "mime")
      OBVIOUS
    <3> QED BY <3>1, <3>2
  <2>2. Http!Page(made(200, 0, FileSize, -1, "mime")) = made(200, 0, FileSize, -1, "mime")
    BY DEF Http!Page, Http!Failed
  <2>3. Http!Headed(made(200, 0, FileSize, -1, "mime")) = made(200, 0, FileSize, FileSize, "mime")
    BY <1>1 DEF Http!Headed, Http!Source, Http!Body, Http!NoData
  <2>4. Http!Output(made(200, 0, FileSize, FileSize, "mime")) = out(200, FileSize, "binary")
    BY <1>1 DEF Http!Output, Http!Source, Http!Body, Http!NoData
  <2> HIDE DEF made, out
  <2> QED BY <2>1, <2>2, <2>3, <2>4
<1>3. ASSUME NEW c \in {404, 414}
      PROVE  Http!Output(Http!Headed(Http!Page([Http!Fresh EXCEPT !.code = c]))) = out(c, ErrorSize, "text")
  <2>1. [Http!Fresh EXCEPT !.code = c] = made(c, 0, -1, -1, "none")
    BY DEF Http!Fresh, Http!NoData
  <2>2. Http!Page(made(c, 0, -1, -1, "none")) = made(c, ErrorSize, -1, -1, "text/html")
    <3> DEFINE r == made(c, 0, -1, -1, "none")
    <3>1. Http!Failed(r)
      BY DEF Http!Failed
    <3>2. Http!Page(r) = [r EXCEPT !.text = ErrorSize, !.binary = -1, !.template = -1, !.type = "text/html"]
      BY <3>1 DEF Http!Page, Http!NoData
    <3>3. [r EXCEPT !.text = ErrorSize] = made(c, ErrorSize, -1, -1, "none")
      OBVIOUS
    <3>4. [made(c, ErrorSize, -1, -1, "none") EXCEPT !.binary = -1] = made(c, ErrorSize, -1, -1, "none")
      OBVIOUS
    <3>5. [made(c, ErrorSize, -1, -1, "none") EXCEPT !.template = -1] = made(c, ErrorSize, -1, -1, "none")
      OBVIOUS
    <3>6. [made(c, ErrorSize, -1, -1, "none") EXCEPT !.type = "text/html"] = made(c, ErrorSize, -1, -1, "text/html")
      OBVIOUS
    <3> HIDE DEF made
    <3> QED BY <3>2, <3>3, <3>4, <3>5, <3>6
  <2>3. Http!Headed(made(c, ErrorSize, -1, -1, "text/html")) = made(c, ErrorSize, -1, ErrorSize, "text/html")
    BY DEF Http!Headed, Http!Source, Http!Body, Http!NoData
  <2>4. Http!Output(made(c, ErrorSize, -1, ErrorSize, "text/html")) = out(c, ErrorSize, "text")
    BY DEF Http!Output, Http!Source, Http!Body, Http!NoData
  <2> HIDE DEF made, out
  <2> QED BY <2>1, <2>2, <2>3, <2>4
<1> HIDE DEF made, out
<1>4. Http!Response(u) =
        LET code == IF u \in {"empty", "dots", "relative"} THEN 404 ELSE IF u = "long" THEN 414 ELSE 0
        IN Http!Headed(Http!Page(
             IF code # 0 THEN [Http!Fresh EXCEPT !.code = code]
             ELSE IF u = "file" THEN [Http!Fresh EXCEPT !.binary = FileSize, !.type = "mime"]
                                ELSE [Http!Fresh EXCEPT !.code = 404]))
  BY DEF Http!Response, Http!validateRequest, Http!execRequest
<1>5. \/ Http!Output(Http!Response(u)) = out(200, FileSize, "binary") /\ Http!Expected(u) = 200
      \/ Http!Output(Http!Response(u)) = out(404, ErrorSize, "text") /\ Http!Expected(u) = 404
      \/ Http!Output(Http!Response(u)) = out(414, ErrorSize, "text") /\ Http!Expected(u) = 414
  <2>1. CASE u = "file"
    BY <1>2, <1>4, <2>1 DEF Http!Expected
  <2>2. CASE u = "long"
    BY <1>3, <1>4, <2>2 DEF Http!Expected
  <2>3. CASE u \in {"empty", "dots", "relative"}
    BY <1>3, <1>4, <2>3 DEF Http!Expected
  <2>4. CASE u \in {"none", "missing"}
    BY <1>3, <1>4, <2>4 DEF Http!Expected
  <2> QED BY <2>1, <2>2, <2>3, <2>4 DEF Uris
<1>6. CASE Http!Output(Http!Response(u)) = out(200, FileSize, "binary") /\ Http!Expected(u) = 200
  <2> DEFINE a == Http!Answer(n, out(200, FileSize, "binary"))
  <2>1. a \in AnswersMade /\ a.of = n /\ a.code = 200 /\ a.whole = TRUE
    BY DEF out, AnswersMade, Http!Answer
  <2> HIDE DEF a
  <2>2. Http!Answer(n, Http!Output(Http!Response(u))) = a
    BY <1>6 DEF a
  <2> QED BY <1>6, <2>1, <2>2
<1>7. ASSUME NEW c \in {404, 414}, Http!Output(Http!Response(u)) = out(c, ErrorSize, "text"), Http!Expected(u) = c
      PROVE  LET a == Http!Answer(n, Http!Output(Http!Response(u)))
             IN a \in AnswersMade /\ a.of = n /\ a.code = Http!Expected(u) /\ a.whole = TRUE
  <2> DEFINE a == Http!Answer(n, out(c, ErrorSize, "text"))
  <2>1. a \in AnswersMade /\ a.of = n /\ a.code = c /\ a.whole = TRUE
    BY DEF out, AnswersMade, Http!Answer
  <2> HIDE DEF a
  <2>2. Http!Answer(n, Http!Output(Http!Response(u))) = a
    BY <1>7 DEF a
  <2> QED BY <1>7, <2>1, <2>2
<1> QED BY <1>5, <1>6, <1>7

LEMMA AppendOne ==
  ASSUME NEW S, NEW q \in Seq(S), NEW x \in S
  PROVE  /\ Append(q, x) \in Seq(S) /\ Len(Append(q, x)) = Len(q) + 1 /\ Len(q) \in Nat
         /\ Append(q, x)[Len(q) + 1] = x /\ \A k \in 1..Len(q) : Append(q, x)[k] = q[k]
OBVIOUS

\* The request that was read is answered, the next one is read from its beginning.
LEMMA ServeKeeps == InOrder /\ Http!Serve => InOrder'
<1> SUFFICES ASSUME InOrder, Http!Serve PROVE InOrder'
  OBVIOUS
<1> DEFINE n == Len(answers)
           a == Http!Answer(number, Http!Output(Http!Response(uri)))
<1>1. /\ at = "content" /\ left = 0 /\ at' = "idle" /\ length' = -2 /\ left' = 0 /\ answers' = Append(answers, a)
      /\ UNCHANGED <<stream, closed, asked>>
  BY DEF Http!Serve, Http!Stop, Http!Absent
<1>2. stream \in Seq(Lines) /\ asked \in Seq(Uris) /\ answers \in Seq(AnswersMade) /\ AnswersOk
  BY DEF InOrder, AnswersOk
<1>3. PICK G : Tagged(G) /\ Reads(G[1])
  BY DEF InOrder
<1>4. IsTag(G[1]) /\ WasAsked(G[1])
  BY <1>2, <1>3, FirstTag
<1>5. ~InBody(G[1])
  <2> SUFFICES ASSUME InBody(G[1]) PROVE FALSE
    OBVIOUS
  <2>1. G[1].j > G[1].e /\ 0 >= Due(G[1].r, G[1].j)
    BY <1>1 DEF InBody
  <2>2. /\ Due(G[1].r, G[1].j + 1) \in Nat /\ G[1].r[G[1].j].size \in Nat \ {0} /\ G[1].j \in 1..Len(G[1].r)
        /\ Len(G[1].r) \in Nat
        /\ G[1].j < Len(G[1].r) => Due(G[1].r, G[1].j) = G[1].r[G[1].j].size + Due(G[1].r, G[1].j + 1)
        /\ G[1].j = Len(G[1].r) => Due(G[1].r, G[1].j) = G[1].r[G[1].j].size
    BY <1>4, <2>1, DueBody, TagFacts
  <2>3. G[1].j < Len(G[1].r) \/ G[1].j = Len(G[1].r)
    BY <2>2
  <2> QED BY <2>1, <2>2, <2>3
<1>6. Behind(G[1]) /\ number = n + 1
  BY <1>1, <1>3, <1>5 DEF Reads, Beginning, InHeader
<1>7. n \in Nat /\ Len(asked) \in Nat /\ n + 1 \in 1..Len(asked) /\ uri = asked[n + 1] /\ G[1].of = n + 2 /\ G[1].j = 1
  BY <1>2, <1>4, <1>6 DEF Behind, WasAsked
<1>8. uri \in Uris
  BY <1>2, <1>7
<1>9. a \in AnswersMade /\ a.of = n + 1 /\ a.code = Http!Expected(asked[n + 1]) /\ a.whole = TRUE
  <2>1. n + 1 \in Nat
    BY <1>7
  <2> QED BY <1>6, <1>7, <1>8, <2>1, Responses
<1> HIDE DEF a, n
<1>10. /\ answers' \in Seq(AnswersMade) /\ Len(answers') = n + 1 /\ answers'[n + 1] = a
       /\ \A k \in 1..n : answers'[k] = answers[k]
  BY <1>1, <1>2, <1>9, AppendOne DEF n
<1>11. AnswersOk'
  <2>1. ASSUME NEW k \in 1..Len(answers')
        PROVE  answers'[k].of = k /\ answers'[k].code = Http!Expected(asked[k]) /\ answers'[k].whole = TRUE
    <3>1. CASE k = n + 1
      BY <1>9, <1>10, <3>1
    <3>2. CASE k # n + 1
      <4>1. k \in 1..n
        BY <1>7, <1>10, <3>2
      <4> QED BY <1>2, <1>10, <4>1 DEF AnswersOk, n
    <3> QED BY <3>1, <3>2
  <2>2. Len(answers') <= Len(asked)
    BY <1>7, <1>10
  <2>3. answers' \in Seq(AnswersMade) /\ asked' = asked
    BY <1>1, <1>10
  <2>4. \A k \in 1..Len(answers') :
          answers'[k].of = k /\ answers'[k].code = Http!Expected(asked'[k]) /\ answers'[k].whole = TRUE
    BY ONLY <2>1, <2>3
  <2> QED BY ONLY <2>2, <2>3, <2>4 DEF AnswersOk
<1>12. Tagged(G)'
  <2>1. \A x \in 1..Len(stream) : IsLine(stream[x], G[x])
    BY <1>1, <1>3 DEF Tagged, IsLeft
  <2>2. \A x \in 1..Len(stream) : IsLine(stream[x], G[x])'
    BY <1>1, <2>1 DEF IsLine
  <2>3. \A x \in 1..Len(stream) + 1 : IsTag(G[x])' /\ WasAsked(G[x])'
    BY <1>1, <1>3 DEF Tagged, IsTag, WasAsked, WellFormed
  <2> QED BY <1>1, <1>3, <2>2, <2>3 DEF Tagged
<1>13. Reads(G[1])'
  <2>1. Beginning(G[1])'
    BY <1>1, <1>7, <1>10 DEF Beginning
  <2> QED BY <1>1, <2>1 DEF Reads
<1> QED BY <1>1, <1>2, <1>11, <1>12, <1>13 DEF InOrder

\* A request that has not begun to be read is none that is broken.
LEMMA BreakKeeps == InOrder /\ at = "idle" /\ Http!Break(0) /\ UNCHANGED <<closed, asked, answers>> => InOrder'
<1> SUFFICES ASSUME InOrder, at = "idle", Http!Break(0), UNCHANGED <<closed, asked, answers>> PROVE InOrder'
  OBVIOUS
<1>1. UNCHANGED stream /\ at' = "idle" /\ length' = -2 /\ left' = 0
  BY DEF Http!Break, Http!Stop, Http!Absent
<1>2. PICK G : Tagged(G) /\ Reads(G[1])
  BY DEF InOrder
<1>3. Tagged(G)'
  <2>1. \A x \in 1..Len(stream) : IsLine(stream[x], G[x])
    BY <1>2 DEF Tagged, IsLeft
  <2>2. \A x \in 1..Len(stream) : IsLine(stream[x], G[x])'
    BY <1>1, <2>1 DEF IsLine
  <2>3. \A x \in 1..Len(stream) + 1 : IsTag(G[x])' /\ WasAsked(G[x])'
    BY <1>1, <1>2 DEF Tagged, IsTag, WasAsked, WellFormed
  <2> QED BY <1>1, <1>2, <2>2, <2>3 DEF Tagged
<1>4. Beginning(G[1])'
  BY <1>1, <1>2 DEF Reads, Beginning, InHeader, InBody, Behind
<1>5. Reads(G[1])'
  BY <1>1, <1>4 DEF Reads
<1> QED BY <1>1, <1>3, <1>5, AnswersStay DEF InOrder

\* The tags of a request that is sent, and of the line missing behind it.
Extends(G, H, r, e) ==
  /\ \A x \in 1..Len(stream) : H[x] = G[x]
  /\ \A i \in 1..Len(r) : H[Len(stream) + i] = Tag(Len(asked) + 1, r, e, i)
  /\ H[Len(stream) + Len(r) + 1] = Tag(Len(asked) + 2, r, e, 1)
  /\ \A x \in 1..Len(stream) + Len(r) + 1 : IsTag(H[x])
  /\ \A x \in 1..Len(stream) + Len(r) : Follows(H[x], H[x + 1])

LEMMA TagFields ==
  ASSUME NEW of, NEW r, NEW e, NEW j
  PROVE  Tag(of, r, e, j).of = of /\ Tag(of, r, e, j).r = r /\ Tag(of, r, e, j).e = e /\ Tag(of, r, e, j).j = j
BY DEF Tag

LEMMA MoreTags ==
  ASSUME stream \in Seq(Lines), asked \in Seq(Uris), ~closed, NEW G, Tagged(G),
         NEW r \in Requests, NEW e \in Nat, WellFormed(r, e)
  PROVE  \E H : Extends(G, H, r, e)
<1> DEFINE m == Len(stream)
           n == Len(asked)
           k == Len(r)
           tag(x) == IF x <= m THEN G[x] ELSE IF x <= m + k THEN Tag(n + 1, r, e, x - m) ELSE Tag(n + 2, r, e, 1)
<1>1. m \in Nat /\ n \in Nat /\ k \in Nat /\ k >= 2
  BY DEF WellFormed
<1>2. /\ \A x \in 1..m + 1 : IsTag(G[x])
      /\ \A x \in 1..m : Follows(G[x], G[x + 1]) /\ G[x].of <= n /\ G[x].of \in Nat /\ G[x].j \in 1..Len(G[x].r)
      /\ G[m + 1].of = n + 1 /\ G[m + 1].j = 1
  <2>1. \A x \in 1..m : x \in 1..m + 1
    BY <1>1
  <2> QED BY <2>1, TagFacts DEF Tagged
<1> HIDE DEF m, n, k
<1>3. ASSUME NEW i \in 1..k PROVE IsTag(Tag(n + 1, r, e, i)) /\ IsTag(Tag(n + 2, r, e, 1))
  <2>1. n + 1 \in Nat \ {0} /\ n + 2 \in Nat \ {0} /\ 1 \in 1..k
    BY <1>1
  <2> QED BY <2>1 DEF IsTag, Tag, k
<1>4. PICK H : H = [x \in 1..m + k + 1 |-> tag(x)]
  OBVIOUS
<1>5. \A x \in 1..m + k + 1 : H[x] = tag(x)
  BY <1>4
<1> HIDE DEF tag
<1>6. \A x \in 1..m : H[x] = G[x]
  <2> TAKE x \in 1..m
  <2>1. x \in 1..m + k + 1 /\ x <= m
    BY <1>1
  <2> QED BY <1>5, <2>1 DEF tag
<1>7. \A i \in 1..k : H[m + i] = Tag(n + 1, r, e, i)
  <2> TAKE i \in 1..k
  <2>1. m + i \in 1..m + k + 1 /\ ~(m + i <= m) /\ m + i <= m + k /\ (m + i) - m = i
    BY <1>1
  <2> QED BY <1>5, <2>1 DEF tag
<1>8. H[m + k + 1] = Tag(n + 2, r, e, 1)
  <2>1. m + k + 1 \in 1..m + k + 1 /\ ~(m + k + 1 <= m) /\ ~(m + k + 1 <= m + k)
    BY <1>1
  <2> QED BY <1>5, <2>1 DEF tag
<1>9. \A x \in 1..m + k + 1 : x \in 1..m \/ (x - m \in 1..k /\ x = m + (x - m)) \/ x = m + k + 1
  BY <1>1
<1>10. 1 \in 1..k
  BY <1>1
<1>11. \A x \in 1..m : x \in 1..m + 1
  BY <1>1
<1>12. ASSUME NEW x \in 1..m + k + 1 PROVE IsTag(H[x])
  <2>1. CASE x \in 1..m
    BY <1>2, <1>6, <1>11, <2>1
  <2>2. CASE x - m \in 1..k /\ x = m + (x - m)
    BY <1>3, <1>7, <2>2
  <2>3. CASE x = m + k + 1
    BY <1>3, <1>8, <1>10, <2>3
  <2> QED BY <1>9, <2>1, <2>2, <2>3
<1>13. ASSUME NEW x \in 1..m + k PROVE Follows(H[x], H[x + 1])
  <2>1. CASE x + 1 \in 1..m
    <3>1. x \in 1..m
      BY <1>1, <2>1
    <3> QED BY <1>2, <1>6, <2>1, <3>1
  <2>2. CASE x = m
    <3>1. x \in 1..m /\ x + 1 = m + 1
      BY <2>2
    <3>2. H[x] = G[x] /\ H[x + 1] = Tag(n + 1, r, e, 1)
      BY <1>6, <1>7, <1>10, <2>2, <3>1
    <3>3. Follows(G[x], G[x + 1]) /\ G[x + 1].of = n + 1 /\ G[x].of <= n /\ G[x].of \in Nat
      BY <1>2, <2>2, <3>1
    <3>4. ~(G[x].j < Len(G[x].r)) /\ n + 1 = G[x].of + 1
      BY <1>1, <3>3 DEF Follows
    <3>5. Follows(G[x], Tag(n + 1, r, e, 1))
      BY <3>4 DEF Follows, Tag
    <3> QED BY <3>2, <3>5
  <2>3. CASE x - m \in 1..k - 1
    <3>1. x - m \in 1..k /\ (x - m) + 1 \in 1..k /\ m + (x - m) = x /\ m + ((x - m) + 1) = x + 1
          /\ x - m < k
      BY <1>1, <2>3
    <3>2. H[x] = Tag(n + 1, r, e, x - m) /\ H[x + 1] = Tag(n + 1, r, e, (x - m) + 1)
      BY <1>7, <3>1
    <3> QED BY <3>1, <3>2 DEF Follows, Tag, k
  <2>4. CASE x = m + k
    <3>1. k \in 1..k /\ x + 1 = m + k + 1 /\ ~(k < k) /\ n + 2 = (n + 1) + 1
      BY <1>1, <2>4
    <3>2. H[x] = Tag(n + 1, r, e, k) /\ H[x + 1] = Tag(n + 2, r, e, 1)
      BY <1>7, <1>8, <2>4, <3>1
    <3> QED BY <3>1, <3>2 DEF Follows, Tag, k
  <2>5. x + 1 \in 1..m \/ x = m \/ x - m \in 1..k - 1 \/ x = m + k
    BY <1>1
  <2> QED BY <2>1, <2>2, <2>3, <2>4, <2>5
<1> QED BY <1>6, <1>7, <1>8, <1>12, <1>13 DEF m, n, k, Extends

\* What is sent does not move the reader.
LEMMA ReadsStay ==
  ASSUME stream \in Seq(Lines), asked \in Seq(Uris), AnswersOk, ~closed, NEW G, Tagged(G), Reads(G[1]),
         NEW t \in Seq(Lines), stream' = stream \o t, UNCHANGED <<at, uri, number, length, left, answers>>,
         NEW u \in Uris, asked' = asked \/ asked' = Append(asked, u),
         NEW h, stream # <<>> => h = G[1], stream = <<>> => h.of = Len(asked) + 1 /\ h.j = 1
  PROVE  Reads(h)'
<1>1. /\ Len(stream) \in Nat /\ Len(asked) \in Nat /\ Len(answers) \in Nat /\ (stream = <<>> <=> Len(stream) = 0)
      /\ Len(answers) <= Len(asked)
  BY DEF AnswersOk
<1>2. IsTag(G[1]) /\ WasAsked(G[1]) /\ G[1].e \in Nat /\ G[1].e >= 2 /\ G[1].of \in Nat
  BY FirstTag DEF IsTag, WellFormed
<1>3. Len(asked') \in {Len(asked), Len(asked) + 1} /\ \A k \in 1..Len(asked) : asked'[k] = asked[k]
  BY AppendOne
<1>4. CASE stream = <<>>
  <2>1. G[1].of = Len(asked) + 1 /\ G[1].j = 1
    <3>1. Len(stream) + 1 = 1
      BY <1>1, <1>4
    <3> QED BY <3>1 DEF Tagged
  <2>2. h.of = G[1].of /\ h.j = 1
    BY <1>4, <2>1
  <2>3. ~InHeader(G[1]) /\ ~InBody(G[1])
    BY <1>2, <1>4, <2>1 DEF InHeader, HeaderRead, InBody
  <2>4. CASE Beginning(G[1])
    BY <2>2, <2>4 DEF Beginning, Reads
  <2>5. CASE Behind(G[1])
    <3>1. Len(answers) + 1 \in 1..Len(asked)
      BY <1>1, <2>1, <2>5 DEF Behind
    <3>2. Behind(h)'
      BY <1>3, <2>2, <2>5, <3>1 DEF Behind
    <3>3. at # "idle" => number = Len(answers) + 1
      BY DEF Reads
    <3> QED BY <3>2, <3>3 DEF Reads
  <2> QED BY <2>3, <2>4, <2>5 DEF Reads
<1>5. CASE stream # <<>>
  <2>1. stream' # <<>> /\ stream'[1] = stream[1] /\ h = G[1]
    <3>1. Len(stream) \in Nat \ {0} /\ Len(t) \in Nat
      BY <1>1, <1>5
    <3>2. Len(stream') = Len(stream) + Len(t) /\ 1 \in 1..Len(stream) + Len(t) /\ 1 <= Len(stream)
      BY <3>1
    <3>3. stream'[1] = stream[1]
      BY <3>1, <3>2, ConcatProperties
    <3> QED BY <1>5, <3>2, <3>3
  <2>2. G[1].of <= Len(asked)
    <3>1. 1 \in 1..Len(stream)
      BY <1>1, <1>5
    <3> QED BY <3>1 DEF Tagged
  <2>3. CASE Beginning(G[1])
    BY <2>1, <2>3 DEF Beginning, Reads
  <2>4. at # "idle" => number = Len(answers) + 1
    BY DEF Reads
  <2>5. CASE InHeader(G[1])
    <3>1. InHeader(h)'
      BY <1>5, <2>1, <2>5 DEF InHeader, HeaderRead, LengthTold
    <3> QED BY <2>4, <3>1 DEF Reads
  <2>6. CASE InBody(G[1])
    <3>1. InBody(h)'
      BY <2>1, <2>2, <2>6 DEF InBody, Due
    <3> QED BY <2>4, <3>1 DEF Reads
  <2>7. CASE Behind(G[1])
    <3>1. Len(answers) + 1 \in 1..Len(asked)
      BY <1>1, <2>2, <2>7 DEF Behind
    <3>2. Behind(h)'
      BY <1>3, <2>1, <2>7, <3>1 DEF Behind
    <3> QED BY <2>4, <3>2 DEF Reads
  <2> QED BY <2>3, <2>5, <2>6, <2>7 DEF Reads
<1> QED BY <1>4, <1>5

LEMMA SendKeeps ==
  ASSUME InOrder, NEW r \in Requests, Http!Send(r)
  PROVE  InOrder'
<1> DEFINE m == Len(stream)
           n == Len(asked)
           k == Len(r)
           t == Http!Numbered(r, n + 1)
<1>1. /\ ~closed /\ closed' = closed /\ stream' = stream \o t /\ asked' = Append(asked, r[1].uri)
      /\ UNCHANGED <<at, uri, number, length, left, answers>>
  BY DEF Http!Send, Http!reader
<1>2. PICK e \in Nat : WellFormed(r, e)
  BY RequestsFormed
<1>3. r \in Seq(TextLines) /\ k \in Nat /\ 1 \in 1..k /\ r[1].uri \in Uris
  <2>1. r \in Seq(TextLines) /\ k \in Nat /\ 1 \in 1..k
    BY <1>2 DEF WellFormed
  <2>2. r[1] \in TextLines
    BY <2>1
  <2> QED BY <2>1, <2>2 DEF TextLines
<1>4. stream \in Seq(Lines) /\ asked \in Seq(Uris) /\ AnswersOk /\ left \in Int /\ m \in Nat /\ n \in Nat
  BY DEF InOrder
<1>5. PICK G : Tagged(G) /\ Reads(G[1])
  BY DEF InOrder
<1>6. /\ t \in Seq(Lines) /\ Len(t) = k
      /\ \A i \in 1..k : /\ t[i].kind = r[i].kind /\ t[i].size = r[i].size
                         /\ t[i].n = r[i].n /\ t[i].uri = r[i].uri /\ t[i].of = n + 1
  <2>1. n + 1 \in Nat \ {0}
    BY <1>4
  <2> QED BY <1>3, <2>1, NumberedLines
<1>7. PICK H : Extends(G, H, r, e)
  BY <1>1, <1>2, <1>4, <1>5, MoreTags
<1>8. /\ \A x \in 1..m : H[x] = G[x]
      /\ \A i \in 1..k : H[m + i].of = n + 1 /\ H[m + i].r = r /\ H[m + i].j = i
      /\ H[m + k + 1].of = n + 2 /\ H[m + k + 1].j = 1
      /\ \A x \in 1..m + k + 1 : IsTag(H[x])
      /\ \A x \in 1..m + k : Follows(H[x], H[x + 1])
  <2>1. /\ \A x \in 1..m : H[x] = G[x]
        /\ \A i \in 1..k : H[m + i] = Tag(n + 1, r, e, i)
        /\ H[m + k + 1] = Tag(n + 2, r, e, 1)
        /\ \A x \in 1..m + k + 1 : IsTag(H[x])
        /\ \A x \in 1..m + k : Follows(H[x], H[x + 1])
    BY ONLY <1>7 DEF Extends
  <2> HIDE DEF m, n, k, t
  <2>2. \A i \in 1..k : H[m + i].of = n + 1 /\ H[m + i].r = r /\ H[m + i].j = i
    BY ONLY <2>1, TagFields
  <2>3. H[m + k + 1].of = n + 2 /\ H[m + k + 1].j = 1
    BY ONLY <2>1, TagFields
  <2> QED BY ONLY <2>1, <2>2, <2>3
<1> HIDE DEF m, n, k, t
<1>9. /\ stream' \in Seq(Lines) /\ Len(stream') = m + k
      /\ \A x \in 1..m + k : stream'[x] = IF x <= m THEN stream[x] ELSE t[x - m]
  BY <1>1, <1>4, <1>6, ConcatProperties DEF m
<1>10. asked' \in Seq(Uris) /\ Len(asked') = n + 1 /\ asked'[n + 1] = r[1].uri /\ \A x \in 1..n : asked'[x] = asked[x]
  BY <1>1, <1>3, <1>4, AppendOne DEF n
<1>11. \A x \in 1..m : /\ IsTag(G[x]) /\ WasAsked(G[x]) /\ G[x].of \in 1..n /\ x \in 1..m + 1
                       /\ IsLine(stream[x], G[x]) \/ (x = 1 /\ IsLeft(stream[x], G[x]))
  <2> TAKE x \in 1..m
  <2>1. x \in 1..m + 1
    BY <1>4
  <2>2. IsTag(G[x]) /\ WasAsked(G[x]) /\ G[x].of <= n
    BY <1>1, <1>5, <2>1 DEF Tagged, m, n
  <2>3. G[x].of \in Nat \ {0}
    BY <2>2 DEF IsTag
  <2>4. G[x].of \in 1..n
    BY <1>4, <2>2, <2>3
  <2> QED BY <1>5, <2>1, <2>2, <2>4 DEF Tagged, m
<1>12. ASSUME NEW x \in 1..m + k + 1 PROVE WasAsked(H[x])' /\ (x <= m + k => H[x].of <= n + 1)
  <2>1. CASE x \in 1..m
    <3>1. H[x] = G[x] /\ G[x].of \in 1..n /\ WasAsked(G[x])
      BY <1>8, <1>11, <2>1
    <3>2. G[x].of <= n /\ G[x].of <= n + 1 /\ G[x].of <= (n + 1) + 1
      BY <1>4, <3>1
    <3>3. asked[G[x].of] = G[x].r[1].uri
      BY <3>1, <3>2 DEF WasAsked, n
    <3>4. asked'[G[x].of] = G[x].r[1].uri
      BY <1>10, <3>1, <3>3
    <3> QED BY <1>10, <3>1, <3>2, <3>4 DEF WasAsked
  <2>2. CASE x - m \in 1..k /\ x = m + (x - m)
    <3>1. H[x].of = n + 1 /\ H[x].r = r
      BY <1>8, <2>2
    <3> QED BY <1>4, <1>10, <3>1 DEF WasAsked
  <2>3. CASE x = m + k + 1
    <3>1. H[x].of = n + 2 /\ ~(x <= m + k)
      BY <1>3, <1>4, <1>8, <2>3
    <3> QED BY <1>4, <1>10, <3>1 DEF WasAsked
  <2>4. x \in 1..m \/ (x - m \in 1..k /\ x = m + (x - m)) \/ x = m + k + 1
    BY <1>3, <1>4
  <2> QED BY <2>1, <2>2, <2>3, <2>4
<1>13. ASSUME NEW x \in 1..m + k PROVE IsLine(stream[x], H[x])' \/ (x = 1 /\ IsLeft(stream[x], H[x])')
  <2>1. CASE x <= m
    <3>1. x \in 1..m
      BY <1>4, <2>1
    <3>2. stream'[x] = stream[x] /\ H[x] = G[x] /\ (IsLine(stream[x], G[x]) \/ (x = 1 /\ IsLeft(stream[x], G[x])))
      BY <1>8, <1>9, <1>11, <2>1, <3>1
    <3> QED BY <1>1, <3>2 DEF IsLine, IsLeft
  <2>2. CASE ~(x <= m)
    <3>1. x - m \in 1..k /\ m + (x - m) = x
      BY <1>3, <1>4, <2>2
    <3>2. stream'[x] = t[x - m]
      BY <1>9, <2>2
    <3>3. H[x].of = n + 1 /\ H[x].r = r /\ H[x].j = x - m
      BY <1>8, <3>1
    <3>4. IsLine(stream[x], H[x])'
      BY <1>6, <3>1, <3>2, <3>3 DEF IsLine
    <3> QED BY <3>4
  <2> QED BY <2>1, <2>2
<1>14. Tagged(H)'
  <2>1. Len(stream') = m + k /\ m + k + 1 = (m + k) + 1 /\ (m + k) + 1 \in 1..m + k + 1 /\ \A x \in 1..m + k : x \in 1..m + k + 1
    BY <1>3, <1>4, <1>9
  <2>2. \A x \in 1..Len(stream') + 1 : IsTag(H[x])' /\ WasAsked(H[x])'
    BY <1>8, <1>12, <2>1 DEF IsTag, WellFormed
  <2>3. \A x \in 1..Len(stream') : Follows(H[x], H[x + 1])
    BY <1>8, <2>1
  <2>4. \A x \in 1..Len(stream') : IsLine(stream[x], H[x])' \/ (x = 1 /\ IsLeft(stream[x], H[x])')
    BY <1>13, <2>1
  <2>5. H[Len(stream') + 1].of = Len(asked') + 1 /\ H[Len(stream') + 1].j = 1
    <3>1. H[Len(stream') + 1].of = n + 2 /\ H[Len(stream') + 1].j = 1 /\ n + 2 = (n + 1) + 1
      BY <1>4, <1>8, <2>1
    <3> QED BY <1>10, <3>1
  <2>6. \A x \in 1..Len(stream') : H[x].of <= Len(asked')
    <3> TAKE x \in 1..Len(stream')
    <3>1. x \in 1..m + k + 1 /\ x <= m + k
      BY <1>3, <1>4, <2>1
    <3> QED BY <1>10, <1>12, <3>1
  <2> QED BY <2>2, <2>3, <2>4, <2>5, <2>6 DEF Tagged
<1>15. Reads(H[1])'
  <2>1. stream # <<>> => H[1] = G[1]
    <3>1. stream # <<>> => 1 \in 1..m
      BY <1>4 DEF m
    <3> QED BY <1>8, <3>1
  <2>2. stream = <<>> => H[1].of = Len(asked) + 1 /\ H[1].j = 1
    <3>1. stream = <<>> => m + 1 = 1
      BY <1>4 DEF m
    <3> QED BY <1>3, <1>8, <3>1 DEF n
  <2> HIDE DEF Reads
  <2> QED BY <1>1, <1>3, <1>4, <1>5, <1>6, <2>1, <2>2, ReadsStay
<1>16. AnswersOk'
  <2>1. Len(answers) \in Nat /\ Len(answers) <= n + 1 /\ \A x \in 1..Len(answers) : x \in 1..n
    BY <1>4 DEF AnswersOk, n
  <2> QED BY <1>1, <1>4, <1>10, <2>1 DEF AnswersOk, Http!Expected
<1> QED BY <1>1, <1>4, <1>9, <1>10, <1>14, <1>15, <1>16 DEF InOrder

\* The lines that come from a side that closes in the middle of a request.
SentOf(t, k, end) == IF end = 0 THEN SubSeq(t, 1, k) ELSE [SubSeq(t, 1, k) EXCEPT ![k].size = @ - 1]
IsSentOf(p, t, k) ==
  /\ p \in Seq(Lines) /\ Len(p) = k
  /\ \A i \in 1..k : /\ p[i].kind = t[i].kind /\ p[i].n = t[i].n /\ p[i].uri = t[i].uri /\ p[i].of = t[i].of
                     /\ (p[i].size = t[i].size \/ p[i].size = t[i].size - 1)

LEMMA ShorterLine ==
  ASSUME NEW q, q \in Lines, q.size > 1
  PROVE  LET l == [q EXCEPT !.size = @ - 1]
         IN /\ l \in Lines /\ l.kind = q.kind /\ l.n = q.n /\ l.uri = q.uri /\ l.of = q.of
            /\ l.size = q.size - 1
<1>1. q.size \in Nat
  BY DEF Lines
<1> DEFINE z == q.size
<1> HIDE DEF z
<1>2. z \in Nat /\ z > 1
  BY <1>1 DEF z
<1>3. z - 1 \in Nat \ {0}
  BY <1>2
<1>4. [q EXCEPT !.size = @ - 1] = [q EXCEPT !.size = z - 1]
  BY DEF z
<1>5. q.size - 1 = z - 1
  BY DEF z
<1> QED BY <1>3, <1>4, <1>5 DEF Lines

LEMMA ReplacedLine ==
  ASSUME NEW q \in Seq(Lines), NEW k \in 1..Len(q), NEW l \in Lines
  PROVE  LET p == [q EXCEPT ![k] = l]
         IN p \in Seq(Lines) /\ Len(p) = Len(q) /\ \A i \in 1..Len(q) : p[i] = IF i = k THEN l ELSE q[i]
OBVIOUS

LEMMA LinesSent ==
  ASSUME NEW t \in Seq(Lines), NEW k \in 0..Len(t), NEW end \in {0, 1},
         end = 1 => k > 0 /\ SubSeq(t, 1, k)[k].size > 1
  PROVE  IsSentOf(SentOf(t, k, end), t, k)
<1> DEFINE q == SubSeq(t, 1, k)
<1>1. k \in Nat /\ Len(t) \in Nat /\ q \in Seq(Lines) /\ Len(q) = k /\ \A i \in 1..k : q[i] = t[i] /\ q[i] \in Lines
  <2>1. k \in Nat /\ Len(t) \in Nat
    OBVIOUS
  <2>2. /\ q \in Seq(Lines) /\ Len(q) = (IF 1 <= k THEN k - 1 + 1 ELSE 0)
        /\ \A i \in 1..k - 1 + 1 : q[i] = t[1 + i - 1]
    BY <2>1, SubSeqProperties
  <2>3. Len(q) = k
    BY <2>1, <2>2
  <2>4. ASSUME NEW i \in 1..k PROVE q[i] = t[i] /\ q[i] \in Lines
    <3>1. i \in 1..k - 1 + 1 /\ 1 + i - 1 = i /\ i \in 1..Len(q)
      BY <2>1, <2>3
    <3> QED BY <2>2, <3>1
  <2> QED BY <2>1, <2>2, <2>3, <2>4
<1>2. CASE end = 0
  BY <1>1, <1>2 DEF SentOf, IsSentOf
<1>3. CASE end = 1
  <2> DEFINE l == [q[k] EXCEPT !.size = @ - 1]
  <2>1. k \in 1..k /\ q[k] \in Lines /\ q[k].size > 1 /\ SentOf(t, k, end) = [q EXCEPT ![k] = l]
    BY <1>1, <1>3 DEF SentOf
  <2> HIDE DEF q
  <2>2. /\ l \in Lines /\ l.kind = q[k].kind /\ l.n = q[k].n /\ l.uri = q[k].uri /\ l.of = q[k].of
        /\ l.size = q[k].size - 1
    BY <2>1, ShorterLine
  <2> HIDE DEF l
  <2> DEFINE p == [q EXCEPT ![k] = l]
  <2>3. p \in Seq(Lines) /\ Len(p) = k /\ \A i \in 1..k : p[i] = IF i = k THEN l ELSE q[i]
    BY <1>1, <2>1, <2>2, ReplacedLine
  <2> HIDE DEF p
  <2>4. IsSentOf(p, t, k)
    BY <1>1, <2>2, <2>3 DEF IsSentOf
  <2> QED BY <2>1, <2>4 DEF p
<1> QED BY <1>2, <1>3

LEMMA SendPartKeeps ==
  ASSUME InOrder, NEW r \in Requests, Http!SendPart(r)
  PROVE  InOrder'
<1> DEFINE m == Len(stream)
           n == Len(asked)
           t == Http!Numbered(r, n + 1)
<1>1. ~closed /\ closed' = TRUE /\ UNCHANGED <<at, uri, number, length, left, asked, answers>>
  BY DEF Http!SendPart, Http!reader
<1>2. PICK k \in 0..Len(r) - 1, end \in {0, 1} :
        /\ end = 1 => k > 0 /\ SubSeq(t, 1, k)[k].size > 1
        /\ stream' = stream \o (IF end = 0 THEN SubSeq(t, 1, k) ELSE [SubSeq(t, 1, k) EXCEPT ![k].size = @ - 1])
  BY DEF Http!SendPart
<1>3. PICK p : p = SentOf(t, k, end) /\ stream' = stream \o p
  BY <1>2 DEF SentOf
<1>4. PICK e \in Nat : WellFormed(r, e)
  BY RequestsFormed
<1>5. r \in Seq(TextLines) /\ Len(r) \in Nat /\ k \in Nat /\ k < Len(r)
  BY <1>4 DEF WellFormed
<1>6. stream \in Seq(Lines) /\ asked \in Seq(Uris) /\ AnswersOk /\ left \in Int /\ m \in Nat /\ n \in Nat
  BY DEF InOrder
<1>7. PICK G : Tagged(G) /\ Reads(G[1])
  BY DEF InOrder
<1>8. /\ t \in Seq(Lines) /\ Len(t) = Len(r)
      /\ \A i \in 1..Len(r) : /\ t[i].kind = r[i].kind /\ t[i].size = r[i].size
                              /\ t[i].n = r[i].n /\ t[i].uri = r[i].uri /\ t[i].of = n + 1
  <2>1. n + 1 \in Nat \ {0}
    BY <1>6
  <2> QED BY <1>5, <2>1, NumberedLines
<1> HIDE DEF t
<1>9. /\ p \in Seq(Lines) /\ Len(p) = k
      /\ \A i \in 1..k : /\ p[i].kind = t[i].kind /\ p[i].n = t[i].n /\ p[i].uri = t[i].uri /\ p[i].of = t[i].of
                         /\ (p[i].size = t[i].size \/ p[i].size = t[i].size - 1)
  <2>1. k \in 0..Len(t)
    BY <1>5, <1>8
  <2> QED BY <1>2, <1>3, <1>8, <2>1, LinesSent DEF IsSentOf
<1>10. PICK H : Extends(G, H, r, e)
  BY <1>1, <1>4, <1>6, <1>7, MoreTags
<1>11. /\ \A x \in 1..m : H[x] = G[x]
       /\ \A i \in 1..Len(r) : H[m + i].of = n + 1 /\ H[m + i].r = r /\ H[m + i].j = i
       /\ \A x \in 1..m + Len(r) + 1 : IsTag(H[x])
       /\ \A x \in 1..m + Len(r) : Follows(H[x], H[x + 1])
  BY <1>10, TagFields DEF Extends
<1> HIDE DEF m, n
<1>12. /\ stream' \in Seq(Lines) /\ Len(stream') = m + k
       /\ \A x \in 1..m + k : stream'[x] = IF x <= m THEN stream[x] ELSE p[x - m]
  <2>1. p \in Seq(Lines) /\ Len(p) = k /\ stream \in Seq(Lines) /\ stream' = stream \o p /\ Len(stream) = m
    BY <1>3, <1>6, <1>9 DEF m
  <2> QED BY ONLY <2>1, ConcatProperties
<1>13. \A x \in 1..m + k + 1 : x \in 1..m + Len(r) + 1 /\ x \in 1..m + Len(r)
  BY <1>5, <1>6
<1>14. ASSUME NEW x \in 1..m + k + 1 PROVE WasAsked(H[x])'
  <2>1. CASE x \in 1..m
    <3>1. x \in 1..m + 1
      BY <1>6, <2>1
    <3>2. H[x] = G[x] /\ WasAsked(G[x])
      BY <1>7, <1>11, <2>1, <3>1 DEF Tagged, m
    <3> QED BY <1>1, <3>2 DEF WasAsked
  <2>2. CASE ~(x <= m)
    <3>1. x - m \in 1..Len(r) /\ x = m + (x - m)
      BY <1>5, <1>6, <2>2
    <3>2. H[x].of = n + 1
      BY <1>11, <3>1
    <3>3. n + 1 <= n + 1 /\ ~(n + 1 <= n)
      BY <1>6
    <3> QED BY <1>1, <3>2, <3>3 DEF WasAsked, n
  <2>3. x \in 1..m \/ ~(x <= m)
    BY <1>6
  <2> QED BY <2>1, <2>2, <2>3
<1>15. ASSUME NEW x \in 1..m + k PROVE IsLine(stream[x], H[x])' \/ (x = 1 /\ IsLeft(stream[x], H[x])')
  <2>1. CASE x <= m
    <3>1. x \in 1..m
      BY <1>6, <2>1
    <3>2. stream'[x] = stream[x] /\ H[x] = G[x] /\ (IsLine(stream[x], G[x]) \/ (x = 1 /\ IsLeft(stream[x], G[x])))
      BY <1>7, <1>11, <1>12, <2>1, <3>1 DEF Tagged, m
    <3> QED BY <1>1, <3>2 DEF IsLine, IsLeft
  <2>2. CASE ~(x <= m)
    <3>1. x - m \in 1..k /\ x - m \in 1..Len(r) /\ m + (x - m) = x
      BY <1>5, <1>6, <2>2
    <3>2. stream'[x] = p[x - m]
      BY <1>12, <2>2
    <3>3. H[x].of = n + 1 /\ H[x].r = r /\ H[x].j = x - m
      BY <1>11, <3>1
    <3>4. /\ p[x - m].kind = r[x - m].kind /\ p[x - m].n = r[x - m].n /\ p[x - m].uri = r[x - m].uri
          /\ p[x - m].of = n + 1 /\ (p[x - m].size = r[x - m].size \/ p[x - m].size = r[x - m].size - 1)
      BY <1>8, <1>9, <3>1
    <3>5. IsLine(stream[x], H[x])'
      BY <1>1, <3>2, <3>3, <3>4 DEF IsLine, n
    <3> QED BY <3>5
  <2> QED BY <2>1, <2>2
<1>16. Tagged(H)'
  <2>1. Len(stream') = m + k /\ \A x \in 1..m + k : x \in 1..m + k + 1
    BY <1>5, <1>6, <1>12
  <2>2. \A x \in 1..Len(stream') + 1 : IsTag(H[x])' /\ WasAsked(H[x])'
    BY <1>11, <1>13, <1>14, <2>1 DEF IsTag, WellFormed
  <2>3. \A x \in 1..Len(stream') : Follows(H[x], H[x + 1])
    BY <1>11, <1>13, <2>1
  <2>4. \A x \in 1..Len(stream') : IsLine(stream[x], H[x])' \/ (x = 1 /\ IsLeft(stream[x], H[x])')
    BY <1>15, <2>1
  <2> QED BY <1>1, <2>2, <2>3, <2>4 DEF Tagged
<1>17. Reads(H[1])'
  <2>1. stream # <<>> => H[1] = G[1]
    <3>1. stream # <<>> => 1 \in 1..m
      BY <1>6 DEF m
    <3> QED BY <1>11, <3>1
  <2>2. stream = <<>> => H[1].of = Len(asked) + 1 /\ H[1].j = 1
    <3>1. (stream = <<>> => m + 1 = 1) /\ 1 \in 1..Len(r)
      BY <1>5, <1>6 DEF m
    <3> QED BY <1>11, <3>1 DEF n
  <2>3. stream' = stream \o p /\ "none" \in Uris
    BY <1>3 DEF Uris
  <2> QED BY <1>1, <1>6, <1>7, <1>9, <2>1, <2>2, <2>3, ReadsStay
<1>18. AnswersOk'
  BY <1>1, <1>6, AnswersStay
<1> QED BY <1>1, <1>6, <1>12, <1>16, <1>17, <1>18 DEF InOrder

LEMMA ServeStarts == MCInit => ServeInv
<1> SUFFICES ASSUME MCInit PROVE InOrder
  BY DEF ServeInv
<1>1. stream = <<>> /\ ~closed /\ at = "idle" /\ length = -2 /\ left = 0 /\ asked = <<>> /\ answers = <<>>
  BY DEF MCInit, Http!ServeInit, Http!RequestInit, Http!Absent
<1>2. <<TextLine("bad", 2), End>> \in Requests
  BY DEF Requests
<1>3. PICK r \in Requests : TRUE
  BY <1>2
<1>4. PICK e \in Nat : WellFormed(r, e)
  BY RequestsFormed
<1>5. PICK G : G = [x \in 1..1 |-> Tag(1, r, e, 1)]
  OBVIOUS
<1>6. G[1] = Tag(1, r, e, 1) /\ G[1].of = 1 /\ G[1].r = r /\ G[1].e = e /\ G[1].j = 1
  <2>1. G[1] = Tag(1, r, e, 1)
    BY <1>5
  <2> QED BY <2>1, TagFields
<1>7. Len(stream) = 0 /\ Len(asked) = 0 /\ Len(answers) = 0 /\ 1..0 = {} /\ 1..0 + 1 = {1}
  BY <1>1
<1>8. IsTag(G[1])
  <2>1. 1 \in 1..Len(r)
    BY <1>4 DEF WellFormed
  <2> QED BY <1>4, <1>6, <2>1 DEF IsTag
<1>9. WasAsked(G[1])
  BY <1>6, <1>7 DEF WasAsked
<1>10. Tagged(G)
  BY <1>6, <1>7, <1>8, <1>9 DEF Tagged
<1>11. Reads(G[1])
  BY <1>1, <1>6, <1>7 DEF Reads, Beginning
<1>12. stream \in Seq(Lines) /\ asked \in Seq(Uris) /\ left \in Int /\ AnswersOk
  BY <1>1, <1>7 DEF AnswersOk
<1> QED BY <1>10, <1>11, <1>12 DEF InOrder

LEMMA ReadsKeep == InOrder /\ Http!ServeReads => ServeInv'
<1> SUFFICES ASSUME InOrder, Http!ServeReads, ~broken' PROVE InOrder'
  BY DEF ServeInv
<1>1. CASE Http!Read(Http!ReadFirst, FALSE)
  BY <1>1, ReadFirstKeeps DEF Http!Read
<1>2. CASE Http!Read(Http!RefuseFirst, TRUE)
  BY <1>2 DEF Http!Read
<1>3. CASE /\ at = "header"
           /\ Http!Read(Http!ReadHeader,
                        Http!Line.kind = "tight" \/ (Http!Line.kind = "length" /\ length # Http!Absent))
  BY <1>3, ReadHeaderKeeps DEF Http!Read
<1>4. CASE at = "header" /\ Http!Read(Http!EndHeader("content"), Http!Line.kind = "rest")
  BY <1>4, EndHeaderKeeps DEF Http!Read
<1>5. CASE Http!Read(Http!RefuseLength, TRUE)
  BY <1>5 DEF Http!Read
<1>6. CASE Http!Read(Http!ReadContent, FALSE)
  BY <1>6, ReadContentKeeps DEF Http!Read
<1>7. ASSUME NEW n \in 0..LineMax, Http!Read(Http!Break(n), at # "idle" \/ n > 0) PROVE InOrder'
  <2>1. at = "idle" /\ ~(n > 0) /\ Http!Break(n) /\ UNCHANGED <<closed, asked, answers>>
    BY <1>7 DEF Http!Read
  <2>2. n = 0
    BY <2>1, HttpAssumption
  <2> QED BY <2>1, <2>2, BreakKeeps
<1> QED BY <1>1, <1>2, <1>3, <1>4, <1>5, <1>6, <1>7 DEF Http!ServeReads

LEMMA ServeNextKeeps == ServeInv /\ [Http!ServeNext]_servevars => ServeInv'
<1> SUFFICES ASSUME ServeInv, [Http!ServeNext]_servevars PROVE ServeInv'
  OBVIOUS
<1>1. CASE UNCHANGED servevars
  <2> SUFFICES ASSUME InOrder PROVE InOrder'
    BY <1>1 DEF ServeInv, servevars
  <2>1. UNCHANGED <<stream, closed, at, uri, number, length, left, asked, answers, broken>>
    BY <1>1 DEF servevars
  <2>2. PICK G : Tagged(G) /\ Reads(G[1])
    BY DEF InOrder
  <2>3. Tagged(G)'
    BY <2>1, <2>2 DEF Tagged, IsTag, WasAsked, WellFormed, IsLine, IsLeft
  <2>4. Reads(G[1])'
    BY <2>1, <2>2 DEF Reads, Beginning, InHeader, HeaderRead, LengthTold, InBody, Behind, Due
  <2> QED BY <2>1, <2>3, <2>4, AnswersStay DEF InOrder
<1>2. CASE Http!ServeNext
  <2>1. InOrder
    BY <1>2 DEF ServeInv, Http!ServeNext
  <2>2. ASSUME NEW r \in Requests, Http!Send(r) \/ Http!SendPart(r) PROVE ServeInv'
    BY <2>1, <2>2, SendKeeps, SendPartKeeps DEF ServeInv
  <2>3. CASE Http!ServeReads
    BY <2>1, <2>3, ReadsKeep
  <2>4. CASE Http!Serve
    BY <2>1, <2>4, ServeKeeps DEF ServeInv
  <2>5. CASE Http!ServeThrows
    BY <2>5 DEF ServeInv, Http!ServeThrows
  <2> QED BY <1>2, <2>2, <2>3, <2>4, <2>5 DEF Http!ServeNext
<1> QED BY <1>1, <1>2

LEMMA ServedInOrder == ServeInv => Http!AnswersInOrder
<1> SUFFICES ASSUME InOrder
             PROVE  /\ Len(answers) <= Len(asked)
                    /\ \A k \in DOMAIN answers :
                         answers[k].of = k /\ answers[k].code = Http!Expected(asked[k]) /\ answers[k].whole
                    /\ at = "idle" /\ stream # <<>> =>
                         Http!Line.of = Len(answers) + 1 /\ Http!Line.kind \in {"get", "post", "bad"}
  BY DEF ServeInv, Http!AnswersInOrder
<1>1. AnswersOk /\ stream \in Seq(Lines) /\ DOMAIN answers = 1..Len(answers)
  BY DEF InOrder, AnswersOk
<1>2. PICK G : Tagged(G) /\ Reads(G[1])
  BY DEF InOrder
<1>3. ASSUME at = "idle", stream # <<>>
      PROVE  Http!Line.of = Len(answers) + 1 /\ Http!Line.kind \in {"get", "post", "bad"}
  <2>1. Beginning(G[1])
    BY <1>2, <1>3 DEF Reads, InHeader, InBody, Behind
  <2>2. IsTag(G[1]) /\ IsLine(stream[1], G[1])
    BY <1>1, <1>2, <1>3, HeadTag DEF IsLeft
  <2>3. G[1].r[1].kind \in {"get", "post", "bad"}
    BY <2>2, TagFacts
  <2>4. Http!Line = stream[1]
    BY <1>1, <1>3, SomeLines DEF Http!Line
  <2> QED BY <2>1, <2>2, <2>3, <2>4 DEF Beginning, IsLine
<1> QED BY <1>1, <1>3 DEF AnswersOk

-----------------------------------------------------------------------------
(* The HTTP connection: a response                                          *)

Filled == [code : Int, text : Int, binary : Int, template : Int, length : Int, type : {"none", "text/html"}]
ResponseInv == response \in Filled /\ Http!ResponseFramed

LEMMA FilledBy ==
  ASSUME NEW r \in Filled, NEW v \in Int
  PROVE  /\ [r EXCEPT !.text = v] \in Filled /\ [r EXCEPT !.binary = v] \in Filled
         /\ [r EXCEPT !.template = v] \in Filled /\ [r EXCEPT !.code = v] \in Filled
         /\ [r EXCEPT !.length = v] \in Filled /\ [r EXCEPT !.type = "text/html"] \in Filled
BY DEF Filled

LEMMA PageFilled ==
  ASSUME NEW r \in Filled
  PROVE  LET p == Http!Page(r)
         IN /\ p \in Filled /\ p.code = r.code
            /\ Http!Failed(r) => p.text = ErrorSize /\ p.binary = -1 /\ p.template = -1
<1>1. CASE ~Http!Failed(r)
  BY <1>1 DEF Http!Page
<1>2. CASE Http!Failed(r)
  <2>1. -1 \in Int /\ ErrorSize \in Int
    BY HttpAssumption
  <2>2. PICK a : a = [r EXCEPT !.text = ErrorSize]
    OBVIOUS
  <2>3. a \in Filled /\ a.code = r.code /\ a.text = ErrorSize
    BY <2>1, <2>2, FilledBy DEF Filled
  <2>4. PICK b : b = [a EXCEPT !.binary = -1]
    OBVIOUS
  <2>5. b \in Filled /\ b.code = r.code /\ b.text = ErrorSize /\ b.binary = -1
    BY <2>1, <2>3, <2>4, FilledBy DEF Filled
  <2>6. PICK c : c = [b EXCEPT !.template = -1]
    OBVIOUS
  <2>7. c \in Filled /\ c.code = r.code /\ c.text = ErrorSize /\ c.binary = -1 /\ c.template = -1
    BY <2>1, <2>5, <2>6, FilledBy DEF Filled
  <2>8. PICK d : d = [c EXCEPT !.type = "text/html"]
    OBVIOUS
  <2>9. d \in Filled /\ d.code = r.code /\ d.text = ErrorSize /\ d.binary = -1 /\ d.template = -1
    BY <2>7, <2>8, FilledBy DEF Filled
  <2>10. Http!Page(r) = d
    BY <1>2, <2>2, <2>4, <2>6, <2>8 DEF Http!Page, Http!NoData
  <2> QED BY <2>9, <2>10
<1> QED BY <1>1, <1>2

LEMMA HeadedFilled ==
  ASSUME NEW r \in Filled
  PROVE  LET h == Http!Headed(r)
         IN /\ h \in Filled /\ h.code = r.code /\ h.text = r.text /\ h.binary = r.binary /\ h.template = r.template
            /\ Http!Source(r) \in {"text", "binary"} => h.length = Http!Body(r)
<1>1. r.text \in Int /\ r.binary \in Int /\ r.template \in Int /\ r.length \in Int
  BY DEF Filled
<1>2. Http!Body(r) \in Int /\ (Http!Source(r) = "template" \/ Http!Source(r) \in {"binary", "text"})
  BY <1>1 DEF Http!Body, Http!Source
<1>3. PICK v \in Int : v = IF Http!Source(r) = "template" THEN r.length ELSE Http!Body(r)
  BY <1>1, <1>2
<1>4. Http!Headed(r) = [r EXCEPT !.length = v]
  BY <1>3 DEF Http!Headed
<1>5. [r EXCEPT !.length = v] \in Filled
  BY FilledBy
<1> QED BY <1>3, <1>4, <1>5 DEF Filled

LEMMA ResponseStarts == MCInit => ResponseInv
<1> SUFFICES ASSUME MCInit PROVE ResponseInv
  OBVIOUS
<1>1. response = [code |-> 200, text |-> 0, binary |-> -1, template |-> -1, length |-> -1, type |-> "none"]
      /\ written = [code |-> 0, announced |-> -1, sent |-> 0, by |-> "none"]
  BY DEF MCInit, Http!ResponseInit, Http!Fresh, Http!Nothing, Http!NoData
<1>2. response \in Filled
  BY <1>1 DEF Filled
<1>3. written.code = 0 /\ written.by = "none"
  BY <1>1
<1> QED BY <1>2, <1>3 DEF ResponseInv, Http!ResponseFramed, Http!Failed

LEMMA ResponseKeeps == ResponseInv /\ [Http!ResponseNext]_respvars => ResponseInv'
<1> SUFFICES ASSUME response \in Filled, Http!ResponseFramed, [Http!ResponseNext]_respvars PROVE ResponseInv'
  BY DEF ResponseInv
<1>1. ASSUME UNCHANGED written PROVE Http!ResponseFramed'
  BY <1>1 DEF Http!ResponseFramed, Http!Failed
<1>2. CASE UNCHANGED respvars
  BY <1>1, <1>2 DEF respvars, ResponseInv
<1>3. ASSUME NEW by \in {"text", "binary", "template"}, NEW size \in {1, 2}, Http!SetContent(by, size)
      PROVE  ResponseInv'
  <2>1. size \in Int /\ UNCHANGED written
    BY <1>3 DEF Http!SetContent
  <2>2. /\ [response EXCEPT !.text = size] \in Filled /\ [response EXCEPT !.binary = size] \in Filled
        /\ [response EXCEPT !.template = size] \in Filled
    BY <2>1, FilledBy
  <2>3. response' \in Filled
    BY <1>3, <2>2 DEF Http!SetContent
  <2> QED BY <1>1, <2>1, <2>3 DEF ResponseInv
<1>4. ASSUME NEW code \in {200, 404}, Http!SetRetcode(code) PROVE ResponseInv'
  <2>1. code \in Int /\ UNCHANGED written
    BY <1>4 DEF Http!SetRetcode
  <2>2. response' \in Filled
    BY <1>4, <2>1, FilledBy DEF Http!SetRetcode
  <2> QED BY <1>1, <2>1, <2>2 DEF ResponseInv
<1>5. PICK p : p = Http!Page(response)
  OBVIOUS
<1>6. p \in Filled /\ p.code = response.code /\ (Http!Failed(response) => p.text = ErrorSize /\ p.binary = -1 /\ p.template = -1)
  BY <1>5, PageFilled
<1>7. PICK h : h = Http!Headed(p)
  OBVIOUS
<1>8. /\ h \in Filled /\ h.code = p.code /\ h.text = p.text /\ h.binary = p.binary /\ h.template = p.template
      /\ Http!Source(p) \in {"text", "binary"} => h.length = Http!Body(p)
  BY <1>6, <1>7, HeadedFilled
<1>9. Http!Source(h) = Http!Source(p) /\ Http!Body(h) = Http!Body(p)
  BY <1>8 DEF Http!Source, Http!Body
<1>10. CASE Http!WriteThrows
  <2>1. response' = h /\ written' = [code |-> 0, announced |-> -1, sent |-> 0, by |-> "none"]
    BY <1>5, <1>7, <1>10 DEF Http!WriteThrows, Http!Nothing, Http!NoData
  <2>2. written'.code = 0 /\ written'.by = "none"
    BY <2>1
  <2>3. Http!ResponseFramed'
    BY <2>2 DEF Http!ResponseFramed, Http!Failed
  <2> QED BY <1>8, <2>1, <2>3 DEF ResponseInv
<1>11. CASE Http!WriteResponse
  <2>1. response' = Http!Sent(h) /\ written' = Http!Output(h)
    BY <1>5, <1>7, <1>11 DEF Http!WriteResponse
  <2>2. Http!Sent(h) \in Filled
    <3>1. PICK a : a = [h EXCEPT !.text = 0]
      OBVIOUS
    <3>2. PICK b : b = [a EXCEPT !.binary = -1]
      OBVIOUS
    <3>3. 0 \in Int /\ -1 \in Int
      OBVIOUS
    <3>4. a \in Filled
      BY <1>8, <3>1, <3>3, FilledBy
    <3>5. b \in Filled
      BY <3>2, <3>3, <3>4, FilledBy
    <3>6. [b EXCEPT !.template = -1] \in Filled
      BY <3>3, <3>5, FilledBy
    <3> QED BY <3>1, <3>2, <3>6 DEF Http!Sent, Http!NoData
  <2>3. /\ written'.code = h.code /\ written'.announced = h.length /\ written'.sent = Http!Body(h)
        /\ written'.by = Http!Source(h)
    BY <2>1 DEF Http!Output
  <2>4. Http!Failed(written)' => Http!Source(p) = "text" /\ Http!Body(p) = ErrorSize
    <3>1. Http!Failed(written)' => Http!Failed(response)
      BY <1>6, <1>8, <2>3 DEF Http!Failed
    <3> QED BY <1>6, <3>1 DEF Http!Source, Http!Body, Http!NoData
  <2>5. written'.by \in {"text", "binary"} => written'.announced = written'.sent
    BY <1>8, <1>9, <2>3
  <2>6. Http!ResponseFramed'
    BY <1>9, <2>3, <2>4, <2>5 DEF Http!ResponseFramed
  <2> QED BY <2>1, <2>2, <2>6 DEF ResponseInv
<1> QED BY <1>2, <1>3, <1>4, <1>10, <1>11 DEF Http!ResponseNext

LEMMA HttpStepKeeps ==
  ServeInv /\ ResponseInv /\ [MCNext]_<<part, vars, netvars, authvars, servevars, respvars>>
    => ServeInv' /\ ResponseInv'
<1> DEFINE all == <<part, vars, netvars, authvars, servevars, respvars>>
<1> SUFFICES ASSUME ServeInv, ResponseInv, [MCNext]_all PROVE ServeInv' /\ ResponseInv'
  OBVIOUS
<1>1. [Http!ServeNext]_servevars
  BY DEF MCNext, RMIStep, NetStep, AuthStep, ServeStep, ResponseStep
<1>2. [Http!ResponseNext]_respvars
  BY DEF MCNext, RMIStep, NetStep, AuthStep, ServeStep, ResponseStep
<1> QED BY <1>1, <1>2, ServeNextKeeps, ResponseKeeps

\* The requests that come one behind the other, each with its body, cut off or
\* not, are answered in their order, each with its own answer, until an
\* exception or a line longer than one may be breaks the connection; whenever
\* the server begins one, what it reads first is its first line.  A response
\* announces what follows it (HttpRequest.cpp:46-191, HttpResponse.cpp:124-234,
\* HttpServer.cpp:60-99).
THEOREM AnswersInOrderHolds == MCSpec => []AnswersInOrder
<1>1. MCSpec => [](ServeInv /\ ResponseInv)
  BY ServeStarts, ResponseStarts, HttpStepKeeps, PTL DEF MCSpec
<1>2. ServeInv /\ ResponseInv => AnswersInOrder
  BY ServedInOrder DEF AnswersInOrder, ResponseInv
<1> QED BY <1>1, <1>2, PTL
=============================================================================
