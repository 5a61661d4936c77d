------------------------------- MODULE Socket -------------------------------
(***************************************************************************)
(* The sockets of a process over its descriptors.  Every thread shares     *)
(* these: a number that is free again is the next thread's, and close()    *)
(* takes whatever number it is given.  net::SocketBase, net::Socket and    *)
(* net::ServerSocket are objects that have a number each; one thread uses  *)
(* an object, other threads others.                                        *)
(***************************************************************************)
EXTENDS Integers, FiniteSets

(* The descriptors, which the kernel gives and takes back (external). *)

CONSTANTS
  FDs,          \* the numbers the kernel has: 0..N
  Other,        \* all the rest of the process, which opens files
  None          \* nobody

VARIABLE table  \* who opened each descriptor

DescriptorsInit == table = [f \in FDs |-> None]

Full == \A f \in FDs : table[f] # None

(* The kernel gives the least free number. *)
Lowest == CHOOSE f \in FDs : table[f] = None /\ \A g \in FDs : table[g] = None => f <= g

Opened(who) == [table EXCEPT ![Lowest] = who]

Released(fd) == [table EXCEPT ![fd] = None]

OtherOpens == ~Full /\ table' = Opened(Other)
OtherCloses == \E f \in FDs : table[f] = Other /\ table' = Released(f)

-----------------------------------------------------------------------------
CONSTANTS
  Sockets, Servers,     \* the objects of class Socket, of class ServerSocket
  Lost                  \* in table: an object that wrote over its number

Objs == Sockets \cup Servers

VARIABLES
  exists,       \* the objects there are
  handle,       \* c_socket, -1 when closed
  ignores,      \* c_flags & Flag_IGNORE_EINTR
  pc,           \* the call each object is in
  stale         \* history: objects whose number was taken from under them

base == <<exists, handle, ignores, pc, stale>>

SocketInit ==
  /\ exists = {} /\ handle = [o \in Objs |-> -1] /\ ignores = [o \in Objs |-> FALSE]
  /\ pc = [o \in Objs |-> "idle"] /\ stale = {}

Idle(o) == o \in exists /\ pc[o] = "idle"

(* A new object. *)
Made(o, fd) ==
  /\ o \notin exists /\ exists' = exists \cup {o}
  /\ handle' = [handle EXCEPT ![o] = fd] /\ ignores' = [ignores EXCEPT ![o] = FALSE]
  /\ stale' = stale \ {o}

(* Socket(), and Socket(host, port), which goes on into connect(). *)
NewSocket(o) ==
  /\ o \in Sockets /\ Made(o, -1)
  /\ pc' \in {[pc EXCEPT ![o] = at] : at \in {"idle", "constructor"}}
  /\ UNCHANGED table

IgnoreInterrupts(o, on) ==
  /\ Idle(o) /\ ignores' = [ignores EXCEPT ![o] = on]
  /\ UNCHANGED <<table, exists, handle, pc, stale>>

-----------------------------------------------------------------------------
(* What connect() leaves when it throws: an object, or, from the           *)
(* constructor, none.                                                      *)
Thrown(o) ==
  /\ exists' = IF pc[o] \in {"constructor", "connecting first"} THEN exists \ {o} ELSE exists
  /\ pc' = [pc EXCEPT ![o] = "idle"]

Connects(o) == o \in Sockets /\ (Idle(o) \/ pc[o] = "constructor")

(* UnknownHostException: c_socket is as it was. *)
ConnectUnknownHost(o) ==
  /\ Connects(o) /\ Thrown(o)
  /\ UNCHANGED <<table, handle, ignores, stale>>

(* A descriptor the object still has is written over: it stays open, and   *)
(* no object has its number.                                               *)
Abandoned(o) == [f \in FDs |-> IF table[f] = o THEN Lost ELSE table[f]]

(* socket() has none: "can not create socket". *)
ConnectNoSocket(o) ==
  /\ Connects(o) /\ Full /\ Thrown(o)
  /\ table' = Abandoned(o) /\ handle' = [handle EXCEPT ![o] = -1]
  /\ stale' = stale \ {o}
  /\ UNCHANGED ignores

Connect(o) ==
  /\ Connects(o) /\ ~Full
  /\ table' = [Abandoned(o) EXCEPT ![Lowest] = o] /\ handle' = [handle EXCEPT ![o] = Lowest]
  /\ pc' = [pc EXCEPT ![o] = IF @ = "constructor" THEN "connecting first" ELSE "connecting"]
  /\ stale' = stale \ {o}
  /\ UNCHANGED <<exists, ignores>>

Connecting(o) == pc[o] \in {"connecting", "connecting first"}

Connected(o) ==
  /\ Connecting(o) /\ pc' = [pc EXCEPT ![o] = "idle"]
  /\ UNCHANGED <<table, exists, handle, ignores, stale>>

(* close() of a number, by object o.  If another had it, the other's       *)
(* number is nobody's now.                                                 *)
Closes(o, fd) == table' = Released(fd)
Robbed(o, fd) == {p \in Objs : p # o /\ table[fd] = p}

(* ConnectException: also when a signal interrupts the connect. *)
ConnectFails(o) ==
  /\ Connecting(o) /\ Thrown(o) /\ Closes(o, handle[o])
  /\ stale' = (stale \cup Robbed(o, handle[o])) \ {o}
  /\ handle' = [handle EXCEPT ![o] = -1]
  /\ UNCHANGED <<ignores>>

-----------------------------------------------------------------------------
(* Socket::close() and ServerSocket::close(). *)
Close(o) ==
  /\ Idle(o) /\ handle[o] >= 0
  /\ pc' = [pc EXCEPT ![o] = "closing"]
  /\ UNCHANGED <<table, exists, handle, ignores, stale>>

(* close() says 0. *)
Closed(o) ==
  /\ pc[o] = "closing" /\ table[handle[o]] # None
  /\ Closes(o, handle[o]) /\ stale' = (stale \cup Robbed(o, handle[o])) \ {o}
  /\ handle' = [handle EXCEPT ![o] = -1] /\ pc' = [pc EXCEPT ![o] = "idle"]
  /\ UNCHANGED <<exists, ignores>>

(* close() says EINTR: once more, or InterruptedException.  Linux has let  *)
(* the descriptor go by then.                                              *)
CloseInterrupted(o) ==
  /\ pc[o] = "closing" /\ table[handle[o]] # None
  /\ Closes(o, handle[o]) /\ stale' = stale \cup Robbed(o, handle[o]) \cup {o}
  /\ pc' = IF ignores[o] THEN pc ELSE [pc EXCEPT ![o] = "idle"]
  /\ UNCHANGED <<exists, handle, ignores>>

(* Any other error: IOException.  EBADF when the number is nobody's. *)
CloseFails(o) ==
  /\ pc[o] = "closing" /\ pc' = [pc EXCEPT ![o] = "idle"]
  /\ \/ table[handle[o]] # None /\ Closes(o, handle[o])
        /\ stale' = stale \cup Robbed(o, handle[o]) \cup {o}
     \/ table[handle[o]] = None /\ UNCHANGED <<table, stale>>
  /\ UNCHANGED <<exists, handle, ignores>>

(* ~Socket() asks the number, and nobody else.  Where the object is gone   *)
(* its number is, too.                                                     *)
Destroyed(o) ==
  /\ Idle(o) /\ exists' = exists \ {o} /\ handle' = [handle EXCEPT ![o] = -1]
  /\ ignores' = [ignores EXCEPT ![o] = FALSE]
  /\ IF handle[o] >= 0 /\ table[handle[o]] # None
     THEN Closes(o, handle[o]) /\ stale' = (stale \cup Robbed(o, handle[o])) \ {o}
     ELSE UNCHANGED table /\ stale' = stale \ {o}
  /\ UNCHANGED pc

-----------------------------------------------------------------------------
(* ServerSocket: its constructors, and the sockets it accepts.  close() is *)
(* that above.                                                             *)

(* icreateSocket(), of ServerSocket() or of the constructor that goes on   *)
(* to bind and listen.  Without a descriptor there is no object.           *)
CreateServer(s) ==
  /\ s \in Servers /\ ~Full /\ Made(s, Lowest) /\ table' = Opened(s)
  /\ pc' \in {[pc EXCEPT ![s] = at] : at \in {"idle", "binding"}}

(* setOption(), bind() and listen() of the constructor. *)
Bound(s) ==
  /\ pc[s] = "binding" /\ pc' = [pc EXCEPT ![s] = "idle"]
  /\ UNCHANGED <<table, exists, handle, ignores, stale>>

(* Mutant: the exception goes on without idestroySocket(). *)
BindFailsKeeps(s) ==
  /\ pc[s] = "binding" /\ pc' = [pc EXCEPT ![s] = "idle"]
  /\ exists' = exists \ {s} /\ handle' = [handle EXCEPT ![s] = -1]
  /\ UNCHANGED <<table, ignores, stale>>

(* One of them throws: idestroySocket(), and the exception goes on. *)
BindFails(s) ==
  /\ pc[s] = "binding" /\ pc' = [pc EXCEPT ![s] = "idle"]
  /\ exists' = exists \ {s} /\ handle' = [handle EXCEPT ![s] = -1]
  /\ Closes(s, handle[s]) /\ stale' = (stale \cup Robbed(s, handle[s])) \ {s}
  /\ UNCHANGED <<ignores>>

(* accept() of a connection, and newSocket().  The new object's flags are  *)
(* not the server's.                                                       *)
Accept(s, o) ==
  /\ s \in Servers /\ o \in Sockets /\ Idle(s) /\ handle[s] >= 0
  /\ table[handle[s]] \in Servers /\ ~Full
  /\ Made(o, Lowest) /\ table' = Opened(o)
  /\ UNCHANGED pc
=============================================================================
