--------------------------- MODULE PublicKeyAuth ----------------------------
(***************************************************************************)
(* SSLSocket::requestPublicKeyAuth() at one end of a connection, and       *)
(* confirmPublicKeyAuth() at the other.  Each message is two pieces, what  *)
(* a read or a write may split it into; neither end asks for the rest.     *)
(* Either may throw anywhere, and be called again on the same connection.  *)
(***************************************************************************)
EXTENDS Integers, Sequences

CONSTANTS
  MaxRounds,    \* bound: calls at the requesting end
  MaxThrow      \* bound: exceptions of the connection

VARIABLES
  goodkey,      \* the two keys are a pair
  toC, toR,     \* what is under way to the confirming, the requesting end
  rpc, cpc,     \* where each end is
  challenge,    \* the number of the requesting end's challenge
  signed,       \* the challenge the confirming end has signed, 0: no challenge
  throws,
  signatures,   \* history: every challenge signed
  accepted,     \* history: the challenges of the requests that returned
  confirmed     \* history: the challenges of the confirmations that returned

ends == <<rpc, cpc>>
history == <<signatures, accepted, confirmed>>
authvars == <<goodkey, toC, toR, ends, challenge, signed, throws, history>>

AuthInit ==
  /\ goodkey \in BOOLEAN
  /\ toC = <<>> /\ toR = <<>> /\ rpc = "idle" /\ cpc = "idle"
  /\ challenge = 0 /\ signed = 0 /\ throws = 0
  /\ signatures = {} /\ accepted = {} /\ confirmed = {}

Message(name, n) == <<<<name, 1, n>>, <<name, 2, n>>>>

\* The cookie at the beginning of a message is all that is compared.
Begins(pieces, name) == pieces[1][1] = name /\ pieces[1][2] = 1

(* read(size) gives what has arrived, at most size, and waits for some. *)
Arrived(channel) == {SubSeq(channel, 1, k) : k \in 1 .. (IF Len(channel) < 2 THEN Len(channel) ELSE 2)}
Rest(channel, pieces) == SubSeq(channel, Len(pieces) + 1, Len(channel))
Short(pieces) == Len(pieces) < 2

(* write() that took a part of the message only, or none. *)
Part(message) == {<<>>, <<message[1]>>}

-----------------------------------------------------------------------------
(* requestPublicKeyAuth() *)
RThrows == rpc' = "idle" /\ UNCHANGED <<cpc, goodkey, challenge, signed, history>>
Interrupt == throws < MaxThrow /\ throws' = throws + 1

RSend ==
  /\ rpc = "idle" /\ challenge < MaxRounds
  /\ challenge' = challenge + 1
  /\ \/ toC' = toC \o Message("challenge", challenge') /\ rpc' = "cookie" /\ UNCHANGED throws
     \/ /\ Interrupt /\ UNCHANGED rpc
        /\ \E part \in Part(Message("challenge", challenge')) : toC' = toC \o part
  /\ UNCHANGED <<goodkey, toR, cpc, signed, history>>

(* The length after the cookie may be that of another message's bytes: the *)
(* read of so many then comes short.                                       *)
RReadsCookie ==
  /\ rpc = "cookie"
  /\ \E got \in Arrived(toR) :
       /\ toR' = Rest(toR, got)
       /\ IF Short(got) \/ ~Begins(got, "cookie") THEN RThrows
          ELSE /\ rpc' = IF got = Message("cookie", 0) THEN "signature" ELSE "lost"
               /\ UNCHANGED <<cpc, goodkey, challenge, signed, history>>
  /\ UNCHANGED <<toC, throws>>

RReadsShort ==
  /\ \/ rpc = "lost" /\ \E got \in Arrived(toR) : toR' = Rest(toR, got)
     \/ rpc = "signature" /\ \E got \in Arrived(toR) : Short(got) /\ toR' = Rest(toR, got)
  /\ RThrows /\ UNCHANGED <<toC, throws>>

Verifies(pieces) == goodkey /\ pieces = Message("signature", challenge)

(* verify() and the answer. *)
RAnswers ==
  /\ rpc = "signature"
  /\ \E got \in Arrived(toR) :
       /\ ~Short(got) /\ toR' = Rest(toR, got)
       /\ \/ /\ toC' = toC \o Message(IF Verifies(got) THEN "ok" ELSE "no", 0)
             /\ accepted' = IF Verifies(got) THEN accepted \cup {challenge} ELSE accepted
             /\ UNCHANGED throws
          \/ /\ \E part \in Part(Message(IF Verifies(got) THEN "ok" ELSE "no", 0)) : toC' = toC \o part
             /\ Interrupt /\ UNCHANGED accepted
  /\ rpc' = "idle"
  /\ UNCHANGED <<goodkey, cpc, challenge, signed, signatures, confirmed>>

RInterrupted ==
  /\ rpc # "idle" /\ Interrupt /\ RThrows /\ UNCHANGED <<toC, toR>>

-----------------------------------------------------------------------------
(* confirmPublicKeyAuth() *)
CThrows == cpc' = "idle" /\ UNCHANGED <<rpc, goodkey, challenge, signed, history>>

(* Whatever is behind the cookie is signed with it. *)
CSigns ==
  /\ cpc = "idle"
  /\ \E got \in Arrived(toC) :
       /\ toC' = Rest(toC, got)
       /\ IF Short(got) \/ ~Begins(got, "challenge") THEN CThrows
          ELSE /\ signed' = IF got = Message("challenge", got[1][3]) THEN got[1][3] ELSE 0
               /\ signatures' = signatures \cup {signed'}
               /\ cpc' = "cookie"
               /\ UNCHANGED <<rpc, goodkey, challenge, accepted, confirmed>>
  /\ UNCHANGED <<toR, throws>>

CWrites(at, message, next) ==
  /\ cpc = at
  /\ \/ toR' = toR \o message /\ cpc' = next /\ UNCHANGED throws
     \/ /\ \E part \in Part(message) : toR' = toR \o part
        /\ cpc' = "idle" /\ Interrupt
  /\ UNCHANGED <<goodkey, toC, rpc, challenge, signed, history>>

CWritesCookie == CWrites("cookie", Message("cookie", 0), "signature")
CWritesSignature == CWrites("signature", Message("signature", signed), "answer")

(* Mutant: only the length of the answer is looked at. *)
CReadsAnyAnswer ==
  /\ cpc = "answer"
  /\ \E got \in Arrived(toC) :
       /\ toC' = Rest(toC, got)
       /\ IF ~Short(got)
          THEN /\ confirmed' = confirmed \cup {signed}
               /\ cpc' = "idle"
               /\ UNCHANGED <<rpc, goodkey, challenge, signed, signatures, accepted>>
          ELSE CThrows
  /\ UNCHANGED <<toR, throws>>

CReadsAnswer ==
  /\ cpc = "answer"
  /\ \E got \in Arrived(toC) :
       /\ toC' = Rest(toC, got)
       /\ IF got = Message("ok", 0)
          THEN /\ confirmed' = confirmed \cup {signed}
               /\ cpc' = "idle"
               /\ UNCHANGED <<rpc, goodkey, challenge, signed, signatures, accepted>>
          ELSE CThrows
  /\ UNCHANGED <<toR, throws>>

CInterrupted ==
  /\ cpc = "answer" /\ Interrupt /\ CThrows /\ UNCHANGED <<toC, toR>>

AuthNext ==
  \/ RSend \/ RReadsCookie \/ RReadsShort \/ RAnswers \/ RInterrupted
  \/ CSigns \/ CWritesCookie \/ CWritesSignature \/ CReadsAnswer \/ CInterrupted

AuthSpec == AuthInit /\ [][AuthNext]_authvars

-----------------------------------------------------------------------------
(* The two ends agree, whatever earlier calls that threw have left in the  *)
(* connection: a request returns only when the other end, having the right *)
(* key, signed this request's challenge, and a confirmation only when the  *)
(* request of the very challenge it signed returned (SSLSocket.cpp:415-501).*)
AuthAgrees ==
  /\ accepted # {} => goodkey
  /\ accepted \subseteq signatures
  /\ confirmed \subseteq accepted
=============================================================================
