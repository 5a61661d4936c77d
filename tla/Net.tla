-------------------------------- MODULE Net ---------------------------------
(***************************************************************************)
(* The sockets of one process, plain and SSL, its server sockets, and the  *)
(* rest of the process, which opens and closes files: one table of         *)
(* descriptors under them all.  ssl::SSLSocket is a Socket with an SSL     *)
(* structure, made when first needed, which reads and writes the number    *)
(* c_socket has then and never closes it (BIO_NOCLOSE); SSLServerSocket    *)
(* accepts such sockets.                                                   *)
(***************************************************************************)
EXTENDS Socket

CONSTANT SSLSockets            \* the Sockets that are SSLSockets

VARIABLES
  c_ssl,        \* the number in its BIO, -1: no structure
  moved         \* history: sockets that connected again with a structure

secure == <<c_ssl, moved>>

SSLSocketInit == c_ssl = [o \in SSLSockets |-> -1] /\ moved = {}

FreeSSL(o) ==
  /\ c_ssl' = [p \in SSLSockets |-> IF p = o THEN -1 ELSE c_ssl[p]]
  /\ moved' = moved \ {o}

(* SSLconnect() and SSLaccept(): SSLinit(), which icheckSocket() may end,  *)
(* and the handshake, after which the structure stays whatever it says.    *)
SSLinit(o) ==
  /\ o \in SSLSockets /\ Idle(o) /\ c_ssl[o] < 0 /\ handle[o] >= 0
  /\ c_ssl' = [c_ssl EXCEPT ![o] = handle[o]]
  /\ UNCHANGED <<table, base, moved>>

(* connect() knows nothing of the structure. *)
SSLConnect(o) ==
  /\ ConnectNoSocket(o) \/ Connect(o)
  /\ moved' = moved \cup {p \in SSLSockets : p = o /\ c_ssl[p] >= 0}
  /\ UNCHANGED c_ssl

(* The structure goes first, and even when Socket::close() then throws. *)
SSLClose(o) == Close(o) /\ FreeSSL(o)

-----------------------------------------------------------------------------
vars == <<table, base, secure>>

Init == DescriptorsInit /\ SocketInit /\ SSLSocketInit

(* The calls that leave the SSL structures alone. *)
SocketStep(o) ==
  \/ \E on \in BOOLEAN : IgnoreInterrupts(o, on)
  \/ ConnectUnknownHost(o) \/ Connected(o) \/ ConnectFails(o)
  \/ Closed(o) \/ CloseInterrupted(o) \/ CloseFails(o)
  \/ CreateServer(o) \/ Bound(o) \/ BindFails(o)
  \/ \E s \in Servers : Accept(s, o)

Step(o) ==
  \/ SocketStep(o) /\ UNCHANGED secure
  \/ NewSocket(o) /\ UNCHANGED secure
  \/ SSLinit(o) \/ SSLConnect(o) \/ SSLClose(o)
  \/ Destroyed(o) /\ FreeSSL(o)

OtherStep == (OtherOpens \/ OtherCloses) /\ UNCHANGED <<base, secure>>

Next == OtherStep \/ \E o \in Objs : Step(o)

Spec == Init /\ [][Next]_vars

-----------------------------------------------------------------------------
TypeOK ==
  /\ table \in [FDs -> Objs \cup {Other, Lost, None}]
  /\ exists \subseteq Objs /\ handle \in [Objs -> FDs \cup {-1}]
  /\ ignores \in [Objs -> BOOLEAN] /\ stale \subseteq Objs
  /\ pc \in [Objs -> {"idle", "constructor", "connecting", "connecting first",
                      "binding", "closing"}]
  /\ c_ssl \in [SSLSockets -> FDs \cup {-1}] /\ moved \subseteq SSLSockets

(* The number an object has is that of its own descriptor.  Only a close() *)
(* that reports an error takes that away, from the object itself, and,     *)
(* once it closes the number again, from whoever has it by then            *)
(* (Socket.cpp:229-388, ServerSocket.cpp:51-199).                          *)
HandlesOwned ==
  \A o \in Objs : handle[o] >= 0 => o \in exists /\ (table[handle[o]] = o \/ o \in stale)

(* No descriptor outlives the object it was opened for, however a          *)
(* constructor, a connect() or a close() ends; connect() on a connected    *)
(* Socket is the one exception (Socket.cpp:307).                           *)
NoneLeaked ==
  \A f \in FDs : table[f] \in Objs => table[f] \in exists /\ handle[table[f]] = f

(* The SSL structure works on the descriptor of its socket, unless a       *)
(* connect() without a close() has given that another (SSLSocket.cpp:86).   *)
SSLOnHandle ==
  \A o \in SSLSockets :
    c_ssl[o] >= 0 /\ o \notin moved => handle[o] = c_ssl[o]
=============================================================================
