-------------------------- MODULE BufferedLogProof --------------------------
(***************************************************************************)
(* InOrderOnce, ChunksWhole and FlushCovers of BufferedLog, for any        *)
(* threads, any lines and any size of the buffer.                          *)
(*                                                                         *)
(* The inductive invariant says of each thread who it may exclude: only    *)
(* the holder of _mutex has part of the buffer on its way to the file, and *)
(* only the holder of _file_mutex appends to the file.  What is collected, *)
(* or still on its way, is then the end of what was accepted, and the      *)
(* accepted lines in the file come from before that end.                   *)
(***************************************************************************)
EXTENDS BufferedLog, SequenceTheorems, TLAPS

\* The places between _mutex.lock() and _mutex.unlock(), and those between
\* _file_mutex's.
Holds(t) ==
  \/ pc[t] \in {"locked", "clear", "unlock"}
  \/ pc[t] \in {"filelock", "put", "fileunlock"} /\ call[t] # "direct"
HoldsFile(t) == pc[t] \in {"put", "fileunlock"}

Writing(t) == pc[t] \in {"filelock", "put", "fileunlock", "clear"}

LockInv ==
  \A t \in Threads : (mutex = t <=> Holds(t)) /\ (fileMutex = t <=> HoldsFile(t))

\* What a call hands to the file, and how much of it is there.
OutOk(t) ==
  /\ put[t] <= Len(out[t])
  /\ ~Writing(t) => out[t] = <<>> /\ put[t] = 0
  /\ Writing(t) =>
       /\ call[t] = "direct" => out[t] = <<line[t]>>
       /\ call[t] = "write" => out[t] = Append(buffer, line[t])
       /\ call[t] \in {"flush", "destroy"} => out[t] = buffer /\ buffer # <<>>
  /\ pc[t] = "filelock" => put[t] = 0
  /\ pc[t] = "put" => put[t] < Len(out[t])

\* Places, calls and arguments go together.
CallOk(t) ==
  /\ pc[t] = "idle" <=> call[t] = "none"
  /\ call[t] = "direct" => pc[t] \in {"filelock", "put", "fileunlock"}
  /\ call[t] \in {"write", "direct"} <=> line[t] # NoLine
  /\ line[t] <= calls
  /\ before[t] <= Len(accepted)
  /\ before[t] # 0 => call[t] \in {"flush", "destroy"}
  /\ pc[t] = "unlock" /\ call[t] # "write" => buffer = <<>>
  /\ call[t] = "destroy" => alive = "destroying" /\ \A u \in Threads \ {t} : pc[u] = "idle"

Taken(l) == \E k \in 1..Len(accepted) : accepted[k] = l
InFile(l) == \E i \in 1..Len(file) : file[i] = l

\* A line belongs to one call, and a new one is nowhere yet.
LineOk(t) ==
  /\ \A u \in Threads : u # t /\ line[u] # NoLine => line[u] # line[t]
  /\ call[t] = "direct" => ~Taken(line[t])
  /\ call[t] = "write" /\ pc[t] \in {"lock", "locked"} =>
       ~Taken(line[t]) /\ ~InFile(line[t]) /\ line[t] \notin lost

LinesKnown ==
  /\ \A l \in Lines : Taken(l) \/ InFile(l) \/ l \in lost => l <= calls
  /\ \A k, m \in 1..Len(accepted) : accepted[k] = accepted[m] => k = m

BufferOk ==
  /\ length = 0 <=> buffer = <<>>
  /\ length < BufSize
  /\ alive = "destroyed" => buffer = <<>> /\ \A t \in Threads : pc[t] = "idle"

\* What is in the file of the write() under way stands at its end.
ChunkOk(t) ==
  pc[t] = "put" => /\ put[t] <= Len(file)
                   /\ \A i \in 1..put[t] : file[Len(file) - put[t] + i] = out[t][i]

Done == Len(accepted) - Len(Pending)

Order ==
  /\ Len(Pending) <= Len(accepted)
  /\ \A i \in 1..Len(Pending) : Pending[i] = accepted[Done + i]
  /\ \A k \in 1..Len(accepted) :
       /\ k <= Done => (accepted[k] \in lost <=> ~InFile(accepted[k]))
       /\ k > Done => accepted[k] \notin lost /\ ~InFile(accepted[k])
  /\ \A i, j \in 1..Len(file), k, m \in 1..Len(accepted) :
       (i < j /\ file[i] = accepted[k] /\ file[j] = accepted[m]) => k < m

LogInv ==
  /\ TypeOK /\ LockInv /\ LinesKnown /\ BufferOk /\ Order
  /\ \A t \in Threads : OutOk(t) /\ CallOk(t) /\ LineOk(t) /\ ChunkOk(t)

-----------------------------------------------------------------------------
LEMMA LineFacts ==
  ASSUME NEW l \in Lines PROVE l \in Nat /\ l > 0 /\ LineLength[l] \in Nat \ {0}
BY LogAssumption DEF Lines

LEMMA RestFacts ==
  ASSUME NEW S, NEW s \in Seq(S), NEW k \in Nat, k <= Len(s)
  PROVE  LET rest == SubSeq(s, k + 1, Len(s))
         IN  /\ rest \in Seq(S) /\ DOMAIN rest = 1..Len(rest) /\ Len(rest) = Len(s) - k
             /\ \A i \in 1..Len(rest) : rest[i] = s[k + i]
<1> DEFINE rest == SubSeq(s, k + 1, Len(s))
<1>1. rest \in Seq(S) /\ Len(rest) = Len(s) - k
  OBVIOUS
<1>2. \A i \in 1..Len(rest) : rest[i] = s[k + i]
  OBVIOUS
<1>3. DOMAIN rest = 1..Len(rest)
  BY <1>1
<1> QED BY <1>1, <1>2, <1>3

LEMMA Shifted ==
  ASSUME NEW n \in Nat, NEW p \in Nat, p < n, NEW i \in 1..(n - (p + 1))
  PROVE  i + 1 \in 1..(n - p) /\ p + (i + 1) = (p + 1) + i
OBVIOUS

LEMMA InitOk == Init => LogInv
<1> SUFFICES ASSUME Init PROVE LogInv OBVIOUS
<1>1. TypeOK
  BY LogAssumption DEF Init, TypeOK, Lines, NoLine
<1>2. Pending = <<>>
  BY DEF Init, Pending
<1>3. LockInv /\ LinesKnown /\ BufferOk
  BY LogAssumption DEF Init, LockInv, LinesKnown, Taken, InFile, BufferOk, Holds, HoldsFile
<1>4. Order
  BY <1>2 DEF Init, Order, Done
<1>5. ASSUME NEW t \in Threads PROVE OutOk(t) /\ CallOk(t) /\ LineOk(t) /\ ChunkOk(t)
  BY DEF Init, OutOk, CallOk, LineOk, ChunkOk, Writing, NoLine
<1> QED BY <1>1, <1>3, <1>4, <1>5 DEF LogInv

\* TypeOK in three parts, of which a step disturbs one or two.
Places ==
  /\ mutex \in Threads \cup {None} /\ fileMutex \in Threads \cup {None}
  /\ alive \in {"alive", "destroying", "destroyed"}
  /\ pc \in [Threads -> {"idle", "lock", "locked", "filelock", "put", "fileunlock",
                         "clear", "unlock"}]
  /\ call \in [Threads -> {"none", "write", "flush", "direct", "destroy"}]
Numbers ==
  /\ length \in Nat /\ calls \in 0..Len(LineLength)
  /\ line \in [Threads -> Lines \cup {NoLine}]
  /\ put \in [Threads -> Nat] /\ before \in [Threads -> Nat]
Texts ==
  /\ buffer \in Seq(Lines) /\ file \in Seq(Lines)
  /\ accepted \in Seq(Lines) /\ lost \subseteq Lines
  /\ out \in [Threads -> Seq(Lines)]

LEMMA TypeParts == TypeOK <=> Places /\ Numbers /\ Texts
BY DEF TypeOK, Places, Numbers, Texts

LEMMA PlacesStep == Places /\ Next => Places'
<1> SUFFICES ASSUME Places, NEW t \in Threads, Call(t) \/ Locks(t) \/ Step(t)
             PROVE Places'
  BY DEF Next
<1> USE DEF Places, Goto
<1>1. CASE Call(t)
  BY <1>1 DEF Call, WriteCall, FlushCall, DirectCall, DestroyCall, Called
<1>2. CASE Locks(t)
  BY <1>2 DEF Locks, Lock, FileLock
<1>3. CASE WriteBuffer(t) \/ WriteOut(t) \/ FlushOut(t) \/ FlushNothing(t)
  BY <1>3 DEF WriteBuffer, WriteOut, FlushOut, FlushNothing
<1>4. CASE Clear(t) \/ Unlock(t)
  BY <1>4 DEF Clear, Unlock, Return
<1>5. CASE FileFail(t) \/ FilePut(t)
  BY <1>5 DEF FileFail, FilePut
<1>6. CASE FileUnlockBuffered(t) \/ FileUnlockDirect(t)
  BY <1>6 DEF FileUnlockBuffered, FileUnlockDirect, Return
<1> QED
  BY <1>1, <1>2, <1>3, <1>4, <1>5, <1>6 DEF Step

LEMMA NumbersStep == LogInv /\ Next => Numbers'
<1> SUFFICES ASSUME LogInv, NEW t \in Threads, Call(t) \/ Locks(t) \/ Step(t)
             PROVE Numbers'
  BY DEF Next
<1>1. Numbers /\ Len(accepted) \in Nat
  BY TypeParts DEF LogInv, Texts
<1>2. call[t] \in {"write", "direct"} => line[t] \in Lines /\ LineLength[line[t]] \in Nat
  BY <1>1, LineFacts DEF LogInv, CallOk, Numbers
<1>3. calls < Len(LineLength) => calls + 1 \in Lines /\ calls + 1 \in 0..Len(LineLength)
  BY <1>1, LogAssumption DEF Numbers, Lines
<1>4. CASE Call(t)
  BY <1>1, <1>3, <1>4 DEF Numbers, Call, WriteCall, FlushCall, DirectCall, DestroyCall, Called, NewLine
<1>5. CASE Locks(t)
  BY <1>1, <1>5 DEF Numbers, Locks, Lock, FileLock
<1>6. CASE WriteBuffer(t)
  BY <1>1, <1>2, <1>6 DEF Numbers, WriteBuffer
<1>7. CASE WriteOut(t) \/ FlushOut(t) \/ FlushNothing(t) \/ FileFail(t) \/ FileUnlockBuffered(t)
  BY <1>1, <1>7 DEF Numbers, WriteOut, FlushOut, FlushNothing, FileFail, FileUnlockBuffered
<1>8. CASE Clear(t)
  BY <1>1, <1>8 DEF Numbers, Clear
<1>11. CASE Unlock(t)
  BY <1>1, <1>11 DEF Numbers, Unlock, Return, NoLine
<1>9. CASE FilePut(t)
  BY <1>1, <1>9 DEF Numbers, FilePut
<1>10. CASE FileUnlockDirect(t)
  BY <1>1, <1>10 DEF Numbers, FileUnlockDirect, Return, NoLine
<1> QED
  BY <1>4, <1>5, <1>6, <1>7, <1>8, <1>9, <1>10, <1>11 DEF Step

LEMMA TextsStep == LogInv /\ Next => Texts'
<1> SUFFICES ASSUME LogInv, NEW t \in Threads, Call(t) \/ Locks(t) \/ Step(t)
             PROVE Texts'
  BY DEF Next
<1>1. Texts
  BY TypeParts DEF LogInv
<1>2. call[t] \in {"write", "direct"} => line[t] \in Lines
  BY TypeParts DEF LogInv, CallOk, Numbers
<1>3. DirectCall(t) => line'[t] \in Lines
  BY TypeParts, LogAssumption DEF LogInv, Numbers, DirectCall, NewLine, Lines
<1>4. CASE DirectCall(t)
  BY <1>1, <1>3, <1>4 DEF Texts, DirectCall
<1>5. CASE WriteCall(t) \/ FlushCall(t) \/ DestroyCall(t) \/ Locks(t)
  BY <1>1, <1>5 DEF Texts, WriteCall, FlushCall, DestroyCall, Called, NewLine, Locks, Lock, FileLock
<1>6. CASE WriteBuffer(t)
  BY <1>1, <1>2, <1>6 DEF Texts, WriteBuffer
<1>11. CASE WriteOut(t)
  <2>1. Append(buffer, line[t]) \in Seq(Lines)
    BY <1>1, <1>2, <1>11 DEF Texts, WriteOut
  <2> QED BY <1>1, <1>2, <1>11, <2>1 DEF Texts, WriteOut
<1>7. CASE FlushOut(t) \/ FlushNothing(t)
  BY <1>1, <1>7 DEF Texts, FlushOut, FlushNothing
<1>8. CASE Clear(t) \/ Unlock(t) \/ FileUnlockBuffered(t) \/ FileUnlockDirect(t)
  <2>1. <<>> \in Seq(Lines)
    OBVIOUS
  <2> QED BY <1>1, <1>8, <2>1 DEF Texts, Clear, Unlock, FileUnlockBuffered, FileUnlockDirect
<1>9. CASE FileFail(t)
  <2>1. ToSet(SubSeq(out[t], put[t] + 1, Len(out[t]))) \subseteq Lines
    BY <1>1, TypeParts DEF LogInv, Texts, Numbers, ToSet
  <2> QED BY <1>1, <1>9, <2>1 DEF FileFail, Texts
<1>10. CASE FilePut(t)
  <2>1. put[t] + 1 \in 1..Len(out[t])
    BY <1>1, <1>10, TypeParts DEF FilePut, LogInv, OutOk, Texts, Numbers
  <2>2. out[t][put[t] + 1] \in Lines
    BY <1>1, <2>1 DEF Texts
  <2> QED BY <1>1, <1>10, <2>2 DEF FilePut, Texts
<1> QED
  BY <1>4, <1>5, <1>6, <1>7, <1>8, <1>9, <1>10, <1>11 DEF Call, Step

LEMMA LockStep == LogInv /\ Next => LockInv'
<1> SUFFICES ASSUME LogInv, NEW t \in Threads, Call(t) \/ Locks(t) \/ Step(t)
             PROVE LockInv'
  BY DEF Next
<1>0. Places /\ LockInv /\ CallOk(t)
  BY TypeParts DEF LogInv
<1> USE <1>0, LogAssumption DEF Goto, Places, LockInv, Holds, HoldsFile
<1>1. CASE Call(t)
  BY <1>1 DEF Call, WriteCall, FlushCall, DirectCall, DestroyCall, Called
<1>2. CASE Locks(t)
  BY <1>2 DEF Locks, Lock, FileLock, CallOk
<1>3. CASE WriteBuffer(t) \/ WriteOut(t) \/ FlushOut(t) \/ FlushNothing(t)
  BY <1>3 DEF WriteBuffer, WriteOut, FlushOut, FlushNothing
<1>4. CASE Clear(t) \/ Unlock(t)
  BY <1>4 DEF Clear, Unlock, Return
<1>5. CASE FileFail(t) \/ FilePut(t)
  BY <1>5 DEF FileFail, FilePut
<1>6. CASE FileUnlockBuffered(t) \/ FileUnlockDirect(t)
  BY <1>6 DEF FileUnlockBuffered, FileUnlockDirect, Return
<1> QED
  BY <1>1, <1>2, <1>3, <1>4, <1>5, <1>6 DEF Step

LEMMA CallStep == LogInv /\ Next => \A u \in Threads : CallOk(u)'
<1> SUFFICES ASSUME LogInv, NEW t \in Threads, Call(t) \/ Locks(t) \/ Step(t),
                    NEW u \in Threads
             PROVE CallOk(u)'
  BY DEF Next
<1>0. /\ Places /\ LockInv /\ CallOk(t) /\ CallOk(u) /\ BufferOk /\ Len(accepted) \in Nat
      /\ Numbers
  BY TypeParts DEF LogInv, Texts
<1>1. calls \in Nat /\ line[u] \in Nat /\ before \in [Threads -> Nat] /\ line \in [Threads -> Nat]
  BY <1>0, LogAssumption DEF Numbers, Lines, NoLine
<1> USE <1>0, <1>1, LogAssumption DEF Goto, Places, CallOk
<1>2. CASE WriteCall(t) \/ DirectCall(t)
  BY <1>2 DEF WriteCall, DirectCall, Called, NewLine, NoLine
<1>3. CASE FlushCall(t)
  BY <1>3 DEF FlushCall, Called
<1>4. CASE DestroyCall(t)
  BY <1>4 DEF DestroyCall, Called
<1>5. CASE Locks(t)
  BY <1>5 DEF Locks, Lock, FileLock
<1>6. CASE WriteBuffer(t) \/ WriteOut(t)
  <2>1. line[t] \in Lines /\ Len(accepted') = Len(accepted) + 1
    BY <1>6, TypeParts DEF WriteBuffer, WriteOut, LogInv, Texts, Numbers
  <2>2. t # u => ~(pc[u] = "unlock")
    BY <1>6 DEF WriteBuffer, WriteOut, LockInv, Holds
  <2> QED BY <1>6, <2>1, <2>2 DEF WriteBuffer, WriteOut
<1>7. CASE FlushOut(t) \/ FlushNothing(t)
  BY <1>7 DEF FlushOut, FlushNothing, BufferOk
<1>8. CASE Clear(t)
  BY <1>8 DEF Clear
<1>9. CASE Unlock(t)
  BY <1>9 DEF Unlock, Return, NoLine
<1>10. CASE FileFail(t) \/ FilePut(t) \/ FileUnlockBuffered(t)
  BY <1>10 DEF FileFail, FilePut, FileUnlockBuffered
<1>11. CASE FileUnlockDirect(t)
  BY <1>11 DEF FileUnlockDirect, Return, NoLine
<1> QED
  BY <1>2, <1>3, <1>4, <1>5, <1>6, <1>7, <1>8, <1>9, <1>10, <1>11 DEF Call, Step

\* A step of one thread leaves another's variables alone, and changes what is
\* collected only with the mutex, and the file only with the file's.
LEMMA Frame ==
  ASSUME LogInv, NEW t \in Threads, NEW u \in Threads \ {t}, Call(t) \/ Locks(t) \/ Step(t)
  PROVE  /\ pc'[u] = pc[u] /\ call'[u] = call[u] /\ line'[u] = line[u]
         /\ out'[u] = out[u] /\ put'[u] = put[u] /\ before'[u] = before[u]
         /\ Holds(u) => buffer' = buffer
         /\ HoldsFile(u) => file' = file
<1>1. LockInv /\ Places
  BY TypeParts DEF LogInv
<1>2. /\ pc'[u] = pc[u] /\ call'[u] = call[u]
  BY <1>1 DEF Places, Goto, Call, Called, WriteCall, FlushCall, DirectCall, DestroyCall, Locks, Lock,
     FileLock, Step, WriteBuffer, WriteOut, FlushOut, FlushNothing, Clear, Unlock, Return, FileFail,
     FilePut, FileUnlockBuffered, FileUnlockDirect
<1>3. DOMAIN line = Threads /\ DOMAIN before = Threads /\ DOMAIN out = Threads /\ DOMAIN put = Threads
  BY TypeParts DEF LogInv, Numbers, Texts
<1>4. line'[u] = line[u] /\ before'[u] = before[u]
  BY <1>3 DEF Call, Called, NewLine, WriteCall, FlushCall, DirectCall, DestroyCall, Locks, Lock,
     FileLock, Step, WriteBuffer, WriteOut, FlushOut, FlushNothing, Clear, Unlock, Return, FileFail,
     FilePut, FileUnlockBuffered, FileUnlockDirect
<1>5. out'[u] = out[u] /\ put'[u] = put[u]
  BY <1>3 DEF Call, Called, NewLine, WriteCall, FlushCall, DirectCall, DestroyCall, Locks, Lock,
     FileLock, Step, WriteBuffer, WriteOut, FlushOut, FlushNothing, Clear, Unlock, Return, FileFail,
     FilePut, FileUnlockBuffered, FileUnlockDirect
<1>6. Holds(t) \/ buffer' = buffer
  BY DEF Call, Called, NewLine, WriteCall, FlushCall, DirectCall, DestroyCall, Locks, Lock,
     FileLock, Step, WriteBuffer, WriteOut, FlushOut, FlushNothing, Clear, Unlock, FileFail,
     FilePut, FileUnlockBuffered, FileUnlockDirect, Holds
<1>7. HoldsFile(t) \/ file' = file
  BY DEF Call, Called, NewLine, WriteCall, FlushCall, DirectCall, DestroyCall, Locks, Lock,
     FileLock, Step, WriteBuffer, WriteOut, FlushOut, FlushNothing, Clear, Unlock, FileFail,
     FilePut, FileUnlockBuffered, FileUnlockDirect, HoldsFile
<1> QED
  BY <1>1, <1>2, <1>4, <1>5, <1>6, <1>7 DEF LockInv

LEMMA OutNotEmpty ==
  ASSUME LogInv, NEW t \in Threads, pc[t] = "filelock"
  PROVE  Len(out[t]) > 0
<1>0. call[t] \in {"direct", "write", "flush", "destroy"} /\ OutOk(t)
  BY TypeParts DEF LogInv, CallOk, Places
<1>1. CASE call[t] = "direct"
  <2>1. out[t] = <<line[t]>>
    BY <1>0, <1>1 DEF OutOk, Writing
  <2> QED BY <2>1
<1>2. CASE call[t] = "write"
  <2>1. out[t] = Append(buffer, line[t]) /\ buffer \in Seq(Lines) /\ line[t] \in Lines
    BY <1>0, <1>2, TypeParts DEF OutOk, Writing, LogInv, CallOk, Numbers, Texts
  <2> QED BY <2>1
<1>3. CASE call[t] \in {"flush", "destroy"}
  <2>1. out[t] = buffer /\ buffer \in Seq(Lines) /\ buffer # <<>>
    BY <1>0, <1>3, TypeParts DEF OutOk, Writing, LogInv, Texts
  <2> QED BY <2>1
<1> QED BY <1>0, <1>1, <1>2, <1>3

LEMMA OutStep == LogInv /\ Next => \A u \in Threads : OutOk(u)'
<1> SUFFICES ASSUME LogInv, NEW t \in Threads, Call(t) \/ Locks(t) \/ Step(t),
                    NEW u \in Threads
             PROVE OutOk(u)'
  BY DEF Next
<1>0. Places /\ LockInv /\ BufferOk /\ OutOk(u) /\ CallOk(u)
  BY TypeParts DEF LogInv
<1>1. CASE u # t
  <2>1. /\ pc'[u] = pc[u] /\ call'[u] = call[u] /\ line'[u] = line[u]
        /\ out'[u] = out[u] /\ put'[u] = put[u]
        /\ Holds(u) => buffer' = buffer
    BY <1>1, Frame
  <2>2. Writing(u) /\ call[u] # "direct" => Holds(u)
    BY DEF Writing, Holds
  <2> QED BY <1>0, <2>1, <2>2 DEF OutOk, Writing, CallOk
<1>2. CASE u = t
  <2>1. /\ Len(out[t]) \in Nat /\ Len(buffer) \in Nat
        /\ DOMAIN out = Threads /\ put[t] \in Nat /\ DOMAIN put = Threads /\ DOMAIN line = Threads
        /\ Len(Append(buffer, line[t])) = Len(buffer) + 1 /\ (buffer # <<>> => Len(buffer) > 0)
    BY TypeParts DEF LogInv, Texts, Numbers
  <2> USE <1>0, <1>2, <2>1 DEF Goto, Places, OutOk, Writing, CallOk
  <2>2. CASE WriteCall(t) \/ FlushCall(t) \/ DestroyCall(t)
    BY <2>2 DEF WriteCall, FlushCall, DestroyCall, Called, NewLine
  <2>3. CASE DirectCall(t)
    BY <2>3 DEF DirectCall, Called, NewLine
  <2>4. CASE Lock(t)
    BY <2>4 DEF Lock
  <2>12. CASE FileLock(t)
    <3>1. Len(out[t]) > 0 /\ pc[t] = "filelock" /\ pc'[t] = "put" /\ UNCHANGED <<out, put, line, call, buffer>>
      BY <2>12, OutNotEmpty DEF FileLock
    <3> QED BY <2>12, <3>1
  <2>5. CASE WriteBuffer(t) \/ FlushNothing(t)
    BY <2>5 DEF WriteBuffer, FlushNothing
  <2>6. CASE WriteOut(t)
    BY <2>6 DEF WriteOut
  <2>7. CASE FlushOut(t)
    BY <2>7 DEF FlushOut, BufferOk
  <2>8. CASE Clear(t)
    BY <2>8 DEF Clear
  <2>9. CASE Unlock(t) \/ FileUnlockBuffered(t) \/ FileFail(t)
    BY <2>9 DEF Unlock, Return, FileUnlockBuffered, FileFail
  <2>10. CASE FilePut(t)
    BY <2>10 DEF FilePut
  <2>11. CASE FileUnlockDirect(t)
    BY <2>11 DEF FileUnlockDirect, Return
  <2> QED
    BY <2>2, <2>3, <2>4, <2>5, <2>6, <2>7, <2>8, <2>9, <2>10, <2>11, <2>12
    DEF Call, Locks, Step
<1> QED BY <1>1, <1>2
LEMMA BufferStep == LogInv /\ Next => BufferOk'
<1> SUFFICES ASSUME LogInv, NEW t \in Threads, Call(t) \/ Locks(t) \/ Step(t)
             PROVE BufferOk'
  BY DEF Next
<1>1. Places /\ BufferOk /\ CallOk(t) /\ length \in Nat /\ \A u \in Threads : CallOk(u)
  BY TypeParts DEF LogInv, Numbers
<1>2. alive = "destroyed" => UNCHANGED <<buffer, length>> /\ pc' = pc
  BY <1>1 DEF BufferOk, Call, Called, WriteCall, FlushCall, DirectCall, DestroyCall, Locks, Lock,
     FileLock, Step, WriteBuffer, WriteOut, FlushOut, FlushNothing, Clear, Unlock, FileFail,
     FilePut, FileUnlockBuffered, FileUnlockDirect
<1>3. CASE WriteBuffer(t)
  <2>1. line[t] \in Lines /\ buffer \in Seq(Lines) /\ BufSize \in Nat
    BY <1>1, <1>3, TypeParts, LogAssumption DEF WriteBuffer, LogInv, CallOk, Numbers, Texts
  <2>2. LineLength[line[t]] \in Nat \ {0} /\ Append(buffer, line[t]) # <<>>
    BY <2>1, LineFacts
  <2> QED BY <1>1, <1>2, <1>3, <2>1, <2>2 DEF WriteBuffer, Fits, BufferOk
<1>4. CASE Clear(t)
  BY <1>1, <1>2, <1>4, LogAssumption DEF Clear, BufferOk
<1>5. CASE Unlock(t)
  <2>1. call[t] = "destroy" => \A u \in Threads : pc'[u] = "idle"
    BY <1>1, <1>5 DEF Unlock, Return, Goto, CallOk, Places
  <2> QED BY <1>1, <1>2, <1>5, <2>1 DEF Unlock, BufferOk, CallOk
<1>6. CASE ~(WriteBuffer(t) \/ Clear(t) \/ Unlock(t))
  <2>1. UNCHANGED <<buffer, length>> /\ (alive' = "destroyed" => alive = "destroyed")
    BY <1>6 DEF Call, Called, WriteCall, FlushCall, DirectCall, DestroyCall, Locks, Lock,
       FileLock, Step, WriteOut, FlushOut, FlushNothing, FileFail,
       FilePut, FileUnlockBuffered, FileUnlockDirect
  <2> QED BY <1>1, <1>2, <2>1 DEF BufferOk
<1> QED BY <1>3, <1>4, <1>5, <1>6

LEMMA ChunkStep == LogInv /\ Next => \A u \in Threads : ChunkOk(u)'
<1> SUFFICES ASSUME LogInv, NEW t \in Threads, Call(t) \/ Locks(t) \/ Step(t),
                    NEW u \in Threads, pc'[u] = "put"
             PROVE /\ put'[u] <= Len(file')
                   /\ \A i \in 1..put'[u] : file'[Len(file') - put'[u] + i] = out'[u][i]
  BY DEF Next, ChunkOk
<1>0. Places /\ ChunkOk(u) /\ OutOk(u) /\ CallOk(u)
  BY TypeParts DEF LogInv
<1>1. CASE u # t
  BY <1>0, <1>1, Frame DEF ChunkOk, HoldsFile
<1>2. CASE u = t /\ FileLock(t)
  <2>1. put'[u] = 0 /\ Len(file') \in Nat
    BY <1>0, <1>2, TypeParts DEF FileLock, OutOk, LogInv, Texts
  <2> QED BY <2>1
<1>3. CASE u = t /\ FilePut(t)
  <2> DEFINE p == put[t]
             l == out[t][p + 1]
  <2>1. /\ p \in Nat /\ put' = [put EXCEPT ![t] = p + 1] /\ put'[t] = p + 1 /\ out' = out
        /\ Len(file) \in Nat /\ file' = Append(file, l)
        /\ Len(file') = Len(file) + 1 /\ pc[t] = "put"
    BY <1>3, TypeParts DEF FilePut, LogInv, Texts, Numbers
  <2>2. p <= Len(file) /\ \A i \in 1..p : file[Len(file) - p + i] = out[t][i]
    BY <1>0, <1>3, <2>1 DEF ChunkOk
  <2>3. file'[Len(file) + 1] = l /\ \A k \in 1..Len(file) : file'[k] = file[k]
    BY <2>1, TypeParts DEF LogInv, Texts
  <2>4. ASSUME NEW i \in 1..(p + 1) PROVE file'[Len(file') - (p + 1) + i] = out[t][i]
    <3>1. CASE i = p + 1
      BY <2>1, <2>3, <3>1
    <3>2. CASE i <= p
      <4>1. Len(file') - (p + 1) + i = Len(file) - p + i /\ Len(file) - p + i \in 1..Len(file)
        BY <2>1, <2>2, <3>2
      <4>2. i \in 1..p
        BY <2>1, <3>2
      <4> QED BY <2>2, <2>3, <4>1, <4>2
    <3>3. p \in Nat
      BY <2>1
    <3> QED BY <3>1, <3>2, <3>3
  <2> QED BY <1>3, <2>1, <2>2, <2>4
<1>4. u = t => FileLock(t) \/ FilePut(t)
  BY <1>0 DEF Places, Goto, Call, Called, WriteCall, FlushCall, DirectCall, DestroyCall, Locks, Lock,
     Step, WriteBuffer, WriteOut, FlushOut, FlushNothing, Clear, Unlock, Return, FileFail,
     FileUnlockBuffered, FileUnlockDirect
<1> QED BY <1>1, <1>2, <1>3, <1>4

LEMMA TakenStep ==
  ASSUME LogInv, NEW t \in Threads, Call(t) \/ Locks(t) \/ Step(t)
  PROVE  /\ \/ UNCHANGED accepted
            \/ WriteBuffer(t) \/ WriteOut(t)
         /\ WriteBuffer(t) \/ WriteOut(t) =>
              /\ accepted' = Append(accepted, line[t])
              /\ Len(accepted') = Len(accepted) + 1 /\ accepted'[Len(accepted) + 1] = line[t]
              /\ \A k \in 1..Len(accepted) : accepted'[k] = accepted[k]
         /\ \A l : Taken(l)' <=> Taken(l) \/ ((WriteBuffer(t) \/ WriteOut(t)) /\ l = line[t])
<1>1. \/ UNCHANGED accepted
      \/ WriteBuffer(t) \/ WriteOut(t)
  BY DEF Call, Called, WriteCall, FlushCall, DirectCall, DestroyCall, Locks, Lock, FileLock,
     Step, FlushOut, FlushNothing, Clear, Unlock, FileFail, FilePut, FileUnlockBuffered,
     FileUnlockDirect
<1>2. ASSUME WriteBuffer(t) \/ WriteOut(t)
      PROVE  /\ accepted' = Append(accepted, line[t])
             /\ Len(accepted') = Len(accepted) + 1 /\ accepted'[Len(accepted) + 1] = line[t]
             /\ \A k \in 1..Len(accepted) : accepted'[k] = accepted[k]
  <2>1. line[t] \in Lines /\ accepted \in Seq(Lines) /\ accepted' = Append(accepted, line[t])
    BY <1>2, TypeParts DEF WriteBuffer, WriteOut, LogInv, CallOk, Numbers, Texts
  <2> QED BY <2>1
<1>3. ASSUME NEW l PROVE Taken(l)' <=> Taken(l) \/ ((WriteBuffer(t) \/ WriteOut(t)) /\ l = line[t])
  <2>0. Len(accepted) \in Nat
    BY TypeParts DEF LogInv, Texts
  <2>1. CASE WriteBuffer(t) \/ WriteOut(t)
    BY <1>2, <2>0, <2>1 DEF Taken
  <2>2. CASE ~(WriteBuffer(t) \/ WriteOut(t))
    BY <1>1, <2>2 DEF Taken
  <2> QED BY <2>1, <2>2
<1> QED BY <1>1, <1>2, <1>3

LEMMA FileStep ==
  ASSUME LogInv, NEW t \in Threads, Call(t) \/ Locks(t) \/ Step(t)
  PROVE  /\ UNCHANGED file \/ FilePut(t)
         /\ FilePut(t) =>
              /\ file' = Append(file, out[t][put[t] + 1])
              /\ Len(file') = Len(file) + 1 /\ file'[Len(file) + 1] = out[t][put[t] + 1]
              /\ \A k \in 1..Len(file) : file'[k] = file[k]
         /\ \A l : InFile(l)' <=> InFile(l) \/ (FilePut(t) /\ l = out[t][put[t] + 1])
<1>1. UNCHANGED file \/ FilePut(t)
  BY DEF Call, Called, WriteCall, FlushCall, DirectCall, DestroyCall, Locks, Lock, FileLock,
     Step, WriteBuffer, WriteOut, FlushOut, FlushNothing, Clear, Unlock, FileFail,
     FileUnlockBuffered, FileUnlockDirect
<1>2. ASSUME FilePut(t)
      PROVE  /\ file' = Append(file, out[t][put[t] + 1])
             /\ Len(file') = Len(file) + 1 /\ file'[Len(file) + 1] = out[t][put[t] + 1]
             /\ \A k \in 1..Len(file) : file'[k] = file[k]
  <2>1. file \in Seq(Lines) /\ file' = Append(file, out[t][put[t] + 1])
        /\ out[t] \in Seq(Lines) /\ put[t] \in Nat /\ put[t] < Len(out[t])
    BY <1>2, TypeParts DEF FilePut, LogInv, OutOk, Numbers, Texts
  <2>2. out[t][put[t] + 1] \in Lines
    BY <2>1
  <2> QED BY <2>1, <2>2
<1>3. ASSUME NEW l PROVE InFile(l)' <=> InFile(l) \/ (FilePut(t) /\ l = out[t][put[t] + 1])
  <2>0. Len(file) \in Nat
    BY TypeParts DEF LogInv, Texts
  <2>1. CASE FilePut(t)
    BY <1>2, <2>0, <2>1 DEF InFile
  <2>2. CASE ~FilePut(t)
    BY <1>1, <2>2 DEF InFile
  <2> QED BY <2>1, <2>2
<1> QED BY <1>1, <1>2, <1>3

\* What Pending is, by the place of the holder of the mutex.
LEMMA PendingIs ==
  ASSUME LogInv
  PROVE  /\ mutex = None => Pending = buffer
         /\ \A t \in Threads : Holds(t) =>
              /\ ~Writing(t) => Pending = buffer
              /\ pc[t] = "filelock" => Pending = out[t]
              /\ pc[t] = "put" => Pending = SubSeq(out[t], put[t] + 1, Len(out[t]))
              /\ pc[t] \in {"fileunlock", "clear"} => Pending = <<>>
<1>1. mutex = None => Pending = buffer
  BY DEF Pending
<1>2. ASSUME NEW t \in Threads, Holds(t)
      PROVE  /\ ~Writing(t) => Pending = buffer
             /\ pc[t] = "filelock" => Pending = out[t]
             /\ pc[t] = "put" => Pending = SubSeq(out[t], put[t] + 1, Len(out[t]))
             /\ pc[t] \in {"fileunlock", "clear"} => Pending = <<>>
  <2>1. mutex = t /\ mutex # None /\ OutOk(t) /\ CallOk(t) /\ Places
        /\ out[t] \in Seq(Lines) /\ put[t] \in Nat /\ buffer \in Seq(Lines)
    BY <1>2, TypeParts, LogAssumption DEF LogInv, LockInv, Numbers, Texts
  <2>2. pc[t] = "filelock" => SubSeq(out[t], put[t] + 1, Len(out[t])) = out[t]
    BY <2>1 DEF OutOk
  <2>3. Writing(t) => out[t] # <<>>
    BY <1>2, <2>1 DEF OutOk, CallOk, Places, Writing, Holds
  <2> QED BY <1>2, <2>1, <2>2, <2>3 DEF Pending, Writing, OutOk
<1> QED BY <1>1, <1>2

LEMMA PendingTyped == LogInv => Pending \in Seq(Lines)
<1> SUFFICES ASSUME LogInv PROVE Pending \in Seq(Lines)
  OBVIOUS
<1>1. Places /\ buffer \in Seq(Lines) /\ <<>> \in Seq(Lines)
  BY TypeParts DEF LogInv, Texts
<1>2. ASSUME NEW t \in Threads PROVE SubSeq(out[t], put[t] + 1, Len(out[t])) \in Seq(Lines)
  <2>1. out[t] \in Seq(Lines) /\ put[t] \in Nat /\ put[t] <= Len(out[t])
    BY TypeParts DEF LogInv, Numbers, Texts, OutOk
  <2> QED BY <2>1, RestFacts
<1> QED BY <1>1, <1>2 DEF Pending, Places

LEMMA PendingPut ==
  ASSUME LogInv, NEW t \in Threads, Holds(t), pc[t] = "put"
  PROVE  /\ Len(Pending) = Len(out[t]) - put[t]
         /\ \A i \in 1..Len(Pending) : Pending[i] = out[t][put[t] + i]
<1>1. out[t] \in Seq(Lines) /\ put[t] \in Nat /\ put[t] <= Len(out[t])
  BY TypeParts DEF LogInv, Numbers, Texts, OutOk
<1>2. Pending = SubSeq(out[t], put[t] + 1, Len(out[t]))
  BY PendingIs
<1> QED BY <1>1, <1>2, RestFacts

\* What still has to be put into the file was accepted, or is a direct line.
LEMMA OutTaken ==
  ASSUME LogInv, NEW t \in Threads, pc[t] = "put", NEW i \in (put[t] + 1)..Len(out[t])
  PROVE  /\ call[t] = "direct" => i = 1 /\ put[t] = 0 /\ out[t][i] = line[t] /\ ~Taken(out[t][i])
         /\ call[t] # "direct" =>
              /\ Done \in Nat /\ Done + (i - put[t]) \in 1..Len(accepted)
              /\ out[t][i] = accepted[Done + (i - put[t])] /\ Taken(out[t][i])
<1>1. /\ out[t] \in Seq(Lines) /\ put[t] \in Nat /\ Len(accepted) \in Nat /\ OutOk(t) /\ LineOk(t)
      /\ Order
  BY TypeParts DEF LogInv, Numbers, Texts
<1>2. CASE call[t] = "direct"
  <2>1. out[t] = <<line[t]>> /\ put[t] < Len(out[t]) /\ ~Taken(line[t])
    BY <1>1, <1>2 DEF OutOk, LineOk, Writing
  <2>2. Len(out[t]) = 1 /\ out[t][1] = line[t]
    BY <2>1
  <2>3. put[t] = 0 /\ i = 1
    BY <1>1, <2>1, <2>2
  <2> QED BY <1>2, <2>1, <2>2, <2>3
<1>3. CASE call[t] # "direct"
  <2>1. Len(Pending) = Len(out[t]) - put[t] /\ \A j \in 1..Len(Pending) : Pending[j] = out[t][put[t] + j]
    BY <1>3, PendingPut DEF Holds
  <2>2. i - put[t] \in 1..Len(Pending) /\ put[t] + (i - put[t]) = i /\ Len(Pending) \in Nat
    BY <1>1, <2>1
  <2>3. Pending[i - put[t]] = out[t][i] /\ Pending[i - put[t]] = accepted[Done + (i - put[t])]
    BY <1>1, <2>1, <2>2 DEF Order
  <2>4. Done \in Nat /\ Done + (i - put[t]) \in 1..Len(accepted)
    BY <1>1, <2>2 DEF Order, Done
  <2> QED BY <1>3, <2>3, <2>4 DEF Taken
<1> QED BY <1>2, <1>3

LEMMA LostStep ==
  ASSUME LogInv, NEW t \in Threads, Call(t) \/ Locks(t) \/ Step(t)
  PROVE  /\ UNCHANGED lost \/ FileFail(t)
         /\ \A l : l \in lost' <=>
              l \in lost \/ (FileFail(t) /\ \E i \in (put[t] + 1)..Len(out[t]) : l = out[t][i])
<1>1. UNCHANGED lost \/ FileFail(t)
  BY DEF Call, Called, WriteCall, FlushCall, DirectCall, DestroyCall, Locks, Lock, FileLock,
     Step, WriteBuffer, WriteOut, FlushOut, FlushNothing, Clear, Unlock, FilePut,
     FileUnlockBuffered, FileUnlockDirect
<1>2. ASSUME FileFail(t), NEW l
      PROVE  l \in lost' <=> l \in lost \/ \E i \in (put[t] + 1)..Len(out[t]) : l = out[t][i]
  <2>1. /\ out[t] \in Seq(Lines) /\ put[t] \in Nat /\ put[t] < Len(out[t])
        /\ lost' = lost \cup ToSet(SubSeq(out[t], put[t] + 1, Len(out[t])))
    BY <1>2, TypeParts DEF FileFail, LogInv, OutOk, Numbers, Texts
  <2> DEFINE s == SubSeq(out[t], put[t] + 1, Len(out[t]))
  <2>5. put[t] <= Len(out[t])
    BY <2>1
  <2>2. Len(s) = Len(out[t]) - put[t] /\ DOMAIN s = 1..Len(s)
        /\ \A j \in 1..Len(s) : s[j] = out[t][put[t] + j]
    BY <2>1, <2>5, RestFacts
  <2> HIDE DEF s
  <2>3. l \in ToSet(s) <=> \E j \in 1..Len(s) : l = s[j]
    BY <2>2 DEF ToSet
  <2>4. (\E j \in 1..Len(s) : l = s[j]) <=> \E i \in (put[t] + 1)..Len(out[t]) : l = out[t][i]
    <3>1. ASSUME NEW j \in 1..Len(s), l = s[j]
          PROVE \E i \in (put[t] + 1)..Len(out[t]) : l = out[t][i]
      <4>1. put[t] + j \in (put[t] + 1)..Len(out[t]) /\ l = out[t][put[t] + j]
        BY <2>1, <2>2, <3>1
      <4> QED BY <4>1
    <3>2. ASSUME NEW i \in (put[t] + 1)..Len(out[t]), l = out[t][i]
          PROVE \E j \in 1..Len(s) : l = s[j]
      <4>1. i - put[t] \in 1..Len(s) /\ put[t] + (i - put[t]) = i
        BY <2>1, <2>2
      <4> QED BY <2>2, <3>2, <4>1
    <3> QED BY <3>1, <3>2
  <2> QED BY <2>1, <2>3, <2>4 DEF s
<1> QED BY <1>1, <1>2

LEMMA LineStep == LogInv /\ Next => LinesKnown' /\ \A u \in Threads : LineOk(u)'
<1> SUFFICES ASSUME LogInv, NEW t \in Threads, Call(t) \/ Locks(t) \/ Step(t)
             PROVE LinesKnown' /\ \A u \in Threads : LineOk(u)'
  BY DEF Next
<1>0. /\ Places /\ LinesKnown /\ \A u \in Threads : CallOk(u) /\ LineOk(u)
      /\ calls \in Nat /\ DOMAIN line = Threads /\ \A u \in Threads : line[u] \in Nat
      /\ Len(accepted) \in Nat
  BY TypeParts, LogAssumption DEF LogInv, Numbers, Texts, Lines, NoLine
\* What the step adds to what is known: lines of t itself, or known ones.
<1>1. ASSUME NEW l, ~Taken(l), Taken(l)'
      PROVE l = line[t] /\ call[t] = "write" /\ pc[t] = "locked" /\ pc'[t] \in {"unlock", "filelock"}
  BY <1>0, <1>1, TakenStep DEF WriteBuffer, WriteOut, Goto, Places
<1>2. ASSUME NEW l, ~InFile(l), InFile(l)'
      PROVE pc[t] = "put" /\ ((l = line[t] /\ call[t] = "direct") \/ Taken(l))
  <2>1. FilePut(t) /\ l = out[t][put[t] + 1]
    BY <1>2, FileStep
  <2>2. pc[t] = "put" /\ put[t] + 1 \in (put[t] + 1)..Len(out[t]) /\ put[t] + 1 - put[t] = 1
    BY <2>1, TypeParts DEF FilePut, LogInv, OutOk, Numbers, Texts
  <2> QED BY <2>1, <2>2, OutTaken
<1>3. ASSUME NEW l, l \notin lost, l \in lost'
      PROVE pc[t] = "put" /\ ((l = line[t] /\ call[t] = "direct") \/ Taken(l))
  <2>1. FileFail(t) /\ pc[t] = "put"
    BY <1>3, LostStep DEF FileFail
  <2>2. PICK i \in (put[t] + 1)..Len(out[t]) : l = out[t][i]
    BY <1>3, LostStep
  <2> QED BY <2>1, <2>2, OutTaken
<1> HIDE DEF Taken, InFile
<1>4. LinesKnown'
  <2>1. calls' \in Nat /\ calls' >= calls
    BY <1>0 DEF Call, Called, NewLine, WriteCall, FlushCall, DirectCall, DestroyCall, Locks, Lock,
       FileLock, Step, WriteBuffer, WriteOut, FlushOut, FlushNothing, Clear, Unlock, FilePut, FileFail,
       FileUnlockBuffered, FileUnlockDirect
  <2>2. ASSUME NEW l \in Lines, Taken(l)' \/ InFile(l)' \/ l \in lost' PROVE l <= calls'
    <3>1. l = line[t] \/ Taken(l) \/ InFile(l) \/ l \in lost
      BY <1>1, <1>2, <1>3, <2>2
    <3>2. l <= calls /\ l \in Nat
      BY <1>0, <3>1 DEF LinesKnown, CallOk, Lines
    <3> QED BY <1>0, <2>1, <3>2
  <2>3. ASSUME NEW k \in 1..Len(accepted'), NEW m \in 1..Len(accepted'), accepted'[k] = accepted'[m]
        PROVE k = m
    <3>1. CASE UNCHANGED accepted
      BY <1>0, <2>3, <3>1 DEF LinesKnown
    <3>2. CASE WriteBuffer(t) \/ WriteOut(t)
      <4>1. ~Taken(line[t])
        BY <1>0, <3>2 DEF LineOk, WriteBuffer, WriteOut
      <4>2. \A j \in 1..Len(accepted) : accepted[j] # line[t]
        BY <4>1 DEF Taken
      <4> QED BY <1>0, <2>3, <3>2, <4>2, TakenStep DEF LinesKnown
    <3> QED BY <3>1, <3>2, TakenStep
  <2> QED BY <2>2, <2>3 DEF LinesKnown
<1>5. \A v \in Threads \ {t} : pc'[v] = pc[v] /\ call'[v] = call[v] /\ line'[v] = line[v]
  BY Frame
<1> DEFINE New == WriteCall(t) \/ DirectCall(t)
<1>6. New => /\ line'[t] = calls + 1 /\ calls + 1 \in Lines /\ UNCHANGED <<accepted, file, lost>>
  BY <1>0, TypeParts, LogAssumption DEF WriteCall, DirectCall, Called, NewLine, LogInv, Numbers, Lines
<1>7. ~New =>
        /\ line'[t] \in {line[t], NoLine}
        /\ call'[t] \in {"write", "direct"} => call'[t] = call[t] /\ line'[t] = line[t]
        /\ pc'[t] \in {"lock", "locked"} /\ call'[t] = "write" => pc[t] \in {"lock", "locked"}
  BY <1>0 DEF Places, Goto, Call, Called, FlushCall, DestroyCall, Locks, Lock,
     FileLock, Step, WriteBuffer, WriteOut, FlushOut, FlushNothing, Clear, Unlock, Return, FileFail,
     FilePut, FileUnlockBuffered, FileUnlockDirect
<1> HIDE DEF New
<1>8. ASSUME NEW u \in Threads, NEW v \in Threads \ {u}, line'[v] # NoLine
      PROVE line'[v] # line'[u]
  <2>1. \A w \in Threads : line[w] <= calls /\ line[w] \in Nat
    BY <1>0 DEF CallOk
  <2>2. CASE New
    BY <1>0, <1>5, <1>6, <1>8, <2>1, <2>2 DEF LineOk
  <2>3. CASE ~New
    BY <1>0, <1>5, <1>7, <1>8, <2>3 DEF LineOk
  <2> QED BY <2>2, <2>3
<1>9. ASSUME NEW u \in Threads, NEW n, n = line'[u], call'[u] \in {"write", "direct"}
      PROVE  /\ call'[u] = "direct" => ~Taken(n)'
             /\ call'[u] = "write" /\ pc'[u] \in {"lock", "locked"} =>
                  ~Taken(n)' /\ ~InFile(n)' /\ n \notin lost'
  <2>1. CASE u = t /\ New
    <3>1. ~Taken(n) /\ ~InFile(n) /\ n \notin lost
      BY <1>0, <1>6, <1>9, <2>1 DEF LinesKnown
    <3> QED BY <1>6, <2>1, <3>1 DEF Taken, InFile
  <2>2. CASE ~(u = t /\ New)
    <3>1. /\ call'[u] = call[u] /\ n = line[u] /\ n # NoLine
          /\ pc'[u] \in {"lock", "locked"} /\ call[u] = "write" => pc[u] \in {"lock", "locked"}
      BY <1>0, <1>5, <1>7, <1>9, <2>2 DEF CallOk
    <3>2. u # t /\ n = line[t] => FALSE
      BY <1>0, <3>1 DEF LineOk
    <3>3. ~Taken(n) /\ Taken(n)' => ~(call'[u] = "write" /\ pc'[u] \in {"lock", "locked"})
                                 /\ call[u] # "direct"
      BY <1>1, <3>1, <3>2
    <3>4. /\ call[u] = "direct" => ~Taken(n)
          /\ call[u] = "write" /\ pc[u] \in {"lock", "locked"} =>
               ~Taken(n) /\ ~InFile(n) /\ n \notin lost
      BY <1>0, <3>1 DEF LineOk
    <3>5. ~InFile(n) /\ InFile(n)' => Taken(n) \/ ~(call[u] = "write" /\ pc[u] \in {"lock", "locked"})
      BY <1>2, <3>1, <3>2
    <3>6. n \notin lost /\ n \in lost' =>
            Taken(n) \/ ~(call[u] = "write" /\ pc[u] \in {"lock", "locked"})
      BY <1>3, <3>1, <3>2
    <3> QED BY <3>1, <3>3, <3>4, <3>5, <3>6
  <2> QED BY <2>1, <2>2
<1>10. ASSUME NEW u \in Threads PROVE LineOk(u)'
  <2>1. PICK n : n = line'[u]
    OBVIOUS
  <2>2. call'[u] = "direct" => ~Taken(n)'
    BY <1>9, <2>1
  <2>3. call'[u] = "write" /\ pc'[u] \in {"lock", "locked"} =>
          ~Taken(n)' /\ ~InFile(n)' /\ n \notin lost'
    BY <1>9, <2>1
  <2> QED BY <1>8, <2>1, <2>2, <2>3 DEF LineOk, Taken, InFile
<1> QED BY <1>4, <1>10

\* How a step changes what is still to be put into the file.
LEMMA PendingSame ==
  ASSUME LogInv, NEW t \in Threads, Call(t) \/ Locks(t) \/ Step(t),
         ~WriteBuffer(t), ~WriteOut(t), (FilePut(t) \/ FileFail(t)) => ~Holds(t)
  PROVE  Pending' = Pending
<1>0. /\ Places /\ LockInv /\ OutOk(t) /\ CallOk(t) /\ None \notin Threads
      /\ DOMAIN out = Threads /\ DOMAIN put = Threads /\ buffer \in Seq(Lines)
  BY TypeParts, LogAssumption DEF LogInv, Numbers, Texts
<1>1. CASE ~Holds(t) /\ ~Lock(t)
  <2>1. mutex' = mutex /\ mutex # t /\ buffer' = buffer
    BY <1>0, <1>1 DEF LockInv, Holds, Call, Called, WriteCall, FlushCall, DirectCall, DestroyCall, Locks,
       FileLock, Step, WriteBuffer, WriteOut, FlushOut, FlushNothing, Clear, Unlock, FilePut, FileFail,
       FileUnlockBuffered, FileUnlockDirect
  <2>2. CASE mutex = None
    BY <2>1, <2>2 DEF Pending
  <2>3. CASE mutex # None
    <3>1. mutex \in Threads \ {t}
      BY <1>0, <2>1, <2>3 DEF Places
    <3>2. pc'[mutex] = pc[mutex] /\ out'[mutex] = out[mutex] /\ put'[mutex] = put[mutex]
      BY <3>1, Frame
    <3> QED BY <2>1, <3>2 DEF Pending
  <2> QED BY <2>2, <2>3
<1>2. CASE Lock(t)
  BY <1>0, <1>2 DEF Lock, Pending, OutOk, Writing
<1>3. CASE Holds(t)
  <2>0. mutex = t /\ mutex # None
    BY <1>0, <1>3 DEF LockInv
  <2>1. CASE Unlock(t)
    BY <1>0, <2>0, <2>1 DEF Unlock, Pending, OutOk, Writing
  <2>2. CASE FlushOut(t)
    <3>1. Pending = buffer
      BY <1>0, <2>0, <2>2 DEF FlushOut, Pending, OutOk, Writing
    <3>2. /\ mutex' = t /\ out'[t] = buffer /\ pc'[t] = "filelock" /\ put'[t] = 0 /\ buffer' = buffer
      BY <1>0, <2>0, <2>2 DEF FlushOut, Goto, Places, OutOk, Writing
    <3>3. SubSeq(buffer, 0 + 1, Len(buffer)) = buffer
      BY <1>0
    <3> QED BY <2>0, <3>1, <3>2, <3>3 DEF Pending
  <2>3. CASE FlushNothing(t)
    BY <1>0, <2>0, <2>3 DEF FlushNothing, Pending, OutOk, Writing
  <2>4. CASE Clear(t)
    <3>1. Pending = <<>>
      BY <1>0, <2>0, <2>4, PendingIs, <1>3 DEF Clear
    <3> QED BY <1>0, <2>0, <2>4, <3>1 DEF Clear, Pending
  <2>5. CASE FileLock(t)
    BY <1>0, <2>0, <2>5 DEF FileLock, Pending, Goto, Places
  <2>6. CASE FileUnlockBuffered(t)
    BY <1>0, <2>0, <2>6 DEF FileUnlockBuffered, Pending, Goto, Places
  <2>7. ~Call(t) /\ ~Lock(t) /\ ~FileUnlockDirect(t)
    BY <1>3 DEF Holds, Call, Called, WriteCall, FlushCall, DirectCall, DestroyCall, Lock, FileUnlockDirect
  <2> QED BY <1>3, <2>1, <2>2, <2>3, <2>4, <2>5, <2>6, <2>7 DEF Step, Locks
<1> QED BY <1>1, <1>2, <1>3

LEMMA PendingGrows ==
  ASSUME LogInv, NEW t \in Threads, WriteBuffer(t) \/ WriteOut(t)
  PROVE  Pending' = Append(Pending, line[t])
<1>0. /\ Places /\ LockInv /\ OutOk(t) /\ CallOk(t) /\ None \notin Threads /\ line[t] \in Lines
      /\ DOMAIN out = Threads /\ DOMAIN put = Threads /\ buffer \in Seq(Lines) /\ pc[t] = "locked"
  BY TypeParts, LogAssumption DEF LogInv, Numbers, Texts, CallOk, WriteBuffer, WriteOut
<1>1. mutex = t /\ mutex # None /\ out[t] = <<>> /\ put[t] = 0
  BY <1>0 DEF LockInv, Holds, OutOk, Writing
<1>2. Pending = buffer
  BY <1>1 DEF Pending
<1>3. CASE WriteBuffer(t)
  BY <1>1, <1>2, <1>3 DEF WriteBuffer, Pending
<1>4. CASE WriteOut(t)
  <2> DEFINE s == Append(buffer, line[t])
  <2>1. mutex' = t /\ out'[t] = s /\ pc'[t] = "filelock" /\ put'[t] = 0
    BY <1>0, <1>1, <1>4 DEF WriteOut, Goto, Places
  <2>2. s # <<>> /\ SubSeq(s, 0 + 1, Len(s)) = s
    BY <1>0
  <2> HIDE DEF s
  <2>3. Pending' = SubSeq(s, 0 + 1, Len(s))
    BY <1>1, <2>1, <2>2 DEF Pending
  <2> QED BY <1>2, <2>2, <2>3 DEF s
<1> QED BY <1>3, <1>4

LEMMA PendingShrinks ==
  ASSUME LogInv, NEW t \in Threads, FilePut(t), Holds(t)
  PROVE  /\ Len(Pending) \in Nat /\ Len(Pending) > 0 /\ Len(Pending') = Len(Pending) - 1
         /\ Pending[1] = out[t][put[t] + 1]
         /\ \A i \in 1..Len(Pending') : Pending'[i] = Pending[i + 1]
<1>0. /\ Places /\ LockInv /\ OutOk(t) /\ None \notin Threads /\ pc[t] = "put"
      /\ out[t] \in Seq(Lines) /\ put[t] \in Nat /\ DOMAIN put = Threads
  BY TypeParts, LogAssumption DEF LogInv, Numbers, Texts, FilePut
<1>1. /\ Len(Pending) = Len(out[t]) - put[t]
      /\ \A i \in 1..Len(Pending) : Pending[i] = out[t][put[t] + i]
  BY <1>0, PendingPut
<1>2. put[t] < Len(out[t]) /\ Len(out[t]) \in Nat
  BY <1>0 DEF OutOk
<1>3. Len(Pending) \in Nat /\ Len(Pending) > 0 /\ Pending[1] = out[t][put[t] + 1]
  BY <1>0, <1>1, <1>2
<1>4. mutex' = t /\ t # None /\ out'[t] = out[t] /\ put'[t] = put[t] + 1 /\ out[t] # <<>>
      /\ pc'[t] = IF put[t] + 1 = Len(out[t]) THEN "fileunlock" ELSE "put"
  BY <1>0, <1>2 DEF FilePut, Goto, Places, LockInv
<1>5. CASE put[t] + 1 = Len(out[t])
  <2>1. Pending' = <<>>
    BY <1>4, <1>5 DEF Pending
  <2> QED BY <1>0, <1>1, <1>3, <1>5, <2>1
<1>6. CASE put[t] + 1 # Len(out[t])
  <2>1. Pending' = SubSeq(out[t], (put[t] + 1) + 1, Len(out[t]))
    BY <1>4, <1>6 DEF Pending
  <2>2. put[t] + 1 \in Nat /\ put[t] + 1 <= Len(out[t])
    BY <1>0, <1>2
  <2>3. /\ Len(Pending') = Len(out[t]) - (put[t] + 1)
        /\ \A i \in 1..Len(Pending') : Pending'[i] = out[t][(put[t] + 1) + i]
    BY <1>0, <2>1, <2>2, RestFacts
  <2>4. ASSUME NEW i \in 1..Len(Pending') PROVE Pending'[i] = Pending[i + 1]
    <3>1. i + 1 \in 1..Len(Pending) /\ put[t] + (i + 1) = (put[t] + 1) + i
      <4>1. i \in 1..(Len(out[t]) - (put[t] + 1)) /\ Len(Pending) = Len(out[t]) - put[t]
        BY <1>1, <2>3
      <4>2. put[t] \in Nat /\ Len(out[t]) \in Nat /\ put[t] < Len(out[t])
        BY <1>0, <1>2
      <4> QED BY <4>1, <4>2, Shifted
    <3> QED BY <1>1, <2>3, <3>1
  <2> QED BY <1>0, <1>1, <1>2, <1>3, <2>3, <2>4
<1> QED BY <1>5, <1>6

LEMMA PendingLost ==
  ASSUME LogInv, NEW t \in Threads, FileFail(t), Holds(t)
  PROVE  Pending' = <<>>
<1>0. /\ Places /\ LockInv /\ OutOk(t) /\ None \notin Threads /\ pc[t] = "put"
      /\ out[t] \in Seq(Lines) /\ put[t] \in Nat
  BY TypeParts, LogAssumption DEF LogInv, Numbers, Texts, FileFail
<1>1. mutex' = t /\ t # None /\ out'[t] # <<>> /\ pc'[t] = "fileunlock"
  BY <1>0 DEF FileFail, Goto, Places, LockInv, OutOk
<1> QED BY <1>1 DEF Pending

LEMMA OrderTyped ==
  ASSUME LogInv
  PROVE  /\ Len(accepted) \in Nat /\ Len(file) \in Nat /\ Len(Pending) \in Nat
         /\ Done \in Nat /\ Done + Len(Pending) = Len(accepted)
<1>1. Len(accepted) \in Nat /\ Len(file) \in Nat
  BY TypeParts DEF LogInv, Texts
<1>2. Len(Pending) \in Nat
  <2>1. Pending \in Seq(Lines)
    BY PendingTyped
  <2> QED BY <2>1
<1>3. Len(Pending) <= Len(accepted)
  BY DEF LogInv, Order
<1> QED BY <1>1, <1>2, <1>3 DEF Done

LEMMA OrderGrows ==
  ASSUME LogInv, NEW t \in Threads, WriteBuffer(t) \/ WriteOut(t)
  PROVE  Order'
<1>0. Order /\ LineOk(t)
  BY DEF LogInv
<1>1. /\ Len(Pending') = Len(Pending) + 1 /\ Pending'[Len(Pending) + 1] = line[t]
      /\ \A i \in 1..Len(Pending) : Pending'[i] = Pending[i]
  <2>1. line[t] \in Lines
    BY TypeParts DEF LogInv, CallOk, WriteBuffer, WriteOut, Numbers
  <2>2. Pending \in Seq(Lines) /\ Pending' = Append(Pending, line[t])
    BY PendingTyped, PendingGrows
  <2> QED BY <2>1, <2>2
<1>2. /\ Len(accepted') = Len(accepted) + 1 /\ accepted'[Len(accepted) + 1] = line[t]
      /\ \A k \in 1..Len(accepted) : accepted'[k] = accepted[k]
  BY TakenStep DEF Step
<1>3. file' = file /\ lost' = lost /\ ~InFile(line[t]) /\ line[t] \notin lost
  BY <1>0 DEF WriteBuffer, WriteOut, LineOk
<1>4. Done' = Done /\ Len(Pending') <= Len(accepted')
  BY <1>1, <1>2, OrderTyped DEF Done
<1>5. ASSUME NEW i \in 1..Len(Pending') PROVE Pending'[i] = accepted'[Done + i]
  <2>1. CASE i \in 1..Len(Pending)
    <3>1. Done + i \in 1..Len(accepted)
      BY <2>1, OrderTyped
    <3> QED BY <1>0, <1>1, <1>2, <2>1, <3>1 DEF Order
  <2>2. CASE i = Len(Pending) + 1
    <3>1. Done + i = Len(accepted) + 1
      BY <2>2, OrderTyped
    <3> QED BY <1>1, <1>2, <2>2, <3>1
  <2>3. i \in 1..(Len(Pending) + 1)
    BY <1>1
  <2> QED BY <2>1, <2>2, <2>3, OrderTyped
<1>6. ASSUME NEW k \in 1..Len(accepted')
      PROVE  (k \in 1..Len(accepted) /\ accepted'[k] = accepted[k])
              \/ (k = Len(accepted) + 1 /\ accepted'[k] = line[t])
  <2>1. k \in 1..(Len(accepted) + 1)
    BY <1>2
  <2>2. k \in 1..Len(accepted) \/ k = Len(accepted) + 1
    BY <2>1, OrderTyped
  <2> QED BY <1>2, <2>2
<1>7. ASSUME NEW k \in 1..Len(accepted'), NEW l, l = accepted'[k]
      PROVE  /\ k <= Done => (l \in lost <=> ~InFile(l))
             /\ k > Done => l \notin lost /\ ~InFile(l)
  <2>1. CASE k \in 1..Len(accepted) /\ l = accepted[k]
    BY <1>0, <2>1 DEF Order
  <2>2. CASE k = Len(accepted) + 1 /\ l = line[t]
    BY <1>3, <2>2, OrderTyped
  <2> QED BY <1>6, <1>7, <2>1, <2>2
<1>8. \A k \in 1..Len(accepted') :
        /\ k <= Done => (accepted'[k] \in lost <=> ~InFile(accepted[k])')
        /\ k > Done => accepted'[k] \notin lost /\ ~InFile(accepted[k])'
  BY <1>3, <1>7 DEF InFile
<1>9. ASSUME NEW i \in 1..Len(file), NEW j \in 1..Len(file),
             NEW k \in 1..Len(accepted'), NEW m \in 1..Len(accepted'),
             i < j, file[i] = accepted'[k], file[j] = accepted'[m]
      PROVE  k < m
  <2>1. file[i] # line[t] /\ file[j] # line[t]
    BY <1>3 DEF InFile
  <2>2. /\ k \in 1..Len(accepted) /\ accepted'[k] = accepted[k]
        /\ m \in 1..Len(accepted) /\ accepted'[m] = accepted[m]
    BY <1>6, <1>9, <2>1
  <2> QED BY <1>0, <1>9, <2>2 DEF Order
<1> QED BY <1>3, <1>4, <1>5, <1>8, <1>9 DEF Order

LEMMA OrderShrinks ==
  ASSUME LogInv, NEW t \in Threads, FilePut(t), Holds(t)
  PROVE  Order'
<1>0. Order /\ LinesKnown
  BY DEF LogInv
<1> DEFINE l == out[t][put[t] + 1]
<1>1. /\ Len(Pending) > 0 /\ Len(Pending') = Len(Pending) - 1 /\ Pending[1] = l
      /\ \A i \in 1..Len(Pending') : Pending'[i] = Pending[i + 1]
  BY PendingShrinks
<1>2. /\ Len(file') = Len(file) + 1 /\ file'[Len(file) + 1] = l
      /\ \A k \in 1..Len(file) : file'[k] = file[k]
      /\ \A x : InFile(x)' <=> InFile(x) \/ x = l
  BY FileStep DEF Step
<1>3. accepted' = accepted /\ lost' = lost
  BY DEF FilePut
<1> HIDE DEF l
<1>4. Done' = Done + 1 /\ Len(Pending') <= Len(accepted) /\ Done + 1 \in 1..Len(accepted)
  BY <1>1, <1>3, OrderTyped DEF Done
<1>5. accepted[Done + 1] = l
  <2>1. 1 \in 1..Len(Pending)
    BY <1>1, OrderTyped
  <2> QED BY <1>0, <1>1, <2>1 DEF Order
<1>6. ASSUME NEW i \in 1..Len(Pending') PROVE Pending'[i] = accepted[(Done + 1) + i]
  <2>1. i \in Nat /\ i + 1 \in 1..Len(Pending)
    BY <1>1, OrderTyped
  <2>2. Pending[i + 1] = accepted[Done + (i + 1)] /\ Done + (i + 1) = (Done + 1) + i
    BY <1>0, <2>1, OrderTyped DEF Order
  <2> QED BY <1>1, <2>2
<1>7. ASSUME NEW k \in 1..Len(accepted) PROVE accepted[k] = l <=> k = Done + 1
  BY <1>0, <1>4, <1>5 DEF LinesKnown
<1>8. ASSUME NEW k \in 1..Len(accepted), NEW x, x = accepted[k]
      PROVE  /\ k <= Done + 1 => (x \in lost <=> ~InFile(x)')
             /\ k > Done + 1 => x \notin lost /\ ~InFile(x)'
  <2>1. InFile(x)' <=> InFile(x) \/ k = Done + 1
    BY <1>2, <1>7, <1>8
  <2>2. /\ k <= Done => (x \in lost <=> ~InFile(x))
        /\ k > Done => x \notin lost /\ ~InFile(x)
    BY <1>0, <1>8 DEF Order
  <2>3. k <= Done \/ k = Done + 1 \/ k > Done + 1
    BY OrderTyped
  <2>4. CASE k <= Done
    <3>1. k # Done + 1 /\ ~(k > Done + 1)
      BY <2>4, OrderTyped
    <3> QED BY <2>1, <2>2, <2>4, <3>1
  <2>5. CASE k = Done + 1
    <3>1. k > Done /\ ~(k > Done + 1)
      BY <2>5, OrderTyped
    <3>2. InFile(x)' /\ x \notin lost
      BY <2>1, <2>2, <2>5, <3>1
    <3> QED BY <3>1, <3>2
  <2>6. CASE k > Done + 1
    <3>1. k > Done /\ k # Done + 1 /\ ~(k <= Done + 1)
      BY <2>6, OrderTyped
    <3> QED BY <2>1, <2>2, <3>1
  <2> QED BY <2>3, <2>4, <2>5, <2>6
<1>9. \A k \in 1..Len(accepted') :
        /\ k <= Done' => (accepted'[k] \in lost' <=> ~InFile(accepted[k])')
        /\ k > Done' => accepted'[k] \notin lost' /\ ~InFile(accepted[k])'
  BY <1>3, <1>4, <1>8 DEF InFile
<1>11. \A i, j \in 1..Len(file), k, m \in 1..Len(accepted) :
         (i < j /\ file[i] = accepted[k] /\ file[j] = accepted[m]) => k < m
  BY <1>0 DEF Order
<1>10. ASSUME NEW i \in 1..Len(file'), NEW j \in 1..Len(file'),
              NEW k \in 1..Len(accepted), NEW m \in 1..Len(accepted),
              i < j, file'[i] = accepted[k], file'[j] = accepted[m]
       PROVE  k < m
  <2>0. i \in Nat /\ j \in Nat /\ j <= Len(file) + 1
    BY <1>2
  <2>1. i \in 1..Len(file) /\ file'[i] = file[i] /\ (j \in 1..Len(file) \/ j = Len(file) + 1)
    <3>1. i \in 1..Len(file) /\ (j \in 1..Len(file) \/ j = Len(file) + 1)
      BY <1>10, <2>0, OrderTyped
    <3> QED BY <1>2, <3>1
  <2>2. CASE j \in 1..Len(file)
    <3>1. file[i] = accepted[k] /\ file[j] = accepted[m]
      BY <1>2, <1>10, <2>1, <2>2
    <3> QED BY <1>10, <1>11, <2>1, <2>2, <3>1
  <2>3. CASE j = Len(file) + 1
    <3>1. m = Done + 1
      BY <1>2, <1>7, <1>10, <2>3
    <3>2. InFile(accepted[k])
      BY <1>10, <2>1 DEF InFile
    <3>3. ~(k > Done)
      BY <1>0, <3>2 DEF Order
    <3> QED BY <3>1, <3>3, OrderTyped
  <2> QED BY <2>1, <2>2, <2>3
<1> QED BY <1>3, <1>4, <1>6, <1>9, <1>10 DEF Order

LEMMA OrderLost ==
  ASSUME LogInv, NEW t \in Threads, FileFail(t), Holds(t)
  PROVE  Order'
<1>0. Order
  BY DEF LogInv
<1>1. Pending' = <<>> /\ Len(Pending') = 0
  BY PendingLost
<1>2. accepted' = accepted /\ file' = file /\ call[t] # "direct" /\ pc[t] = "put"
  BY DEF FileFail, Holds
<1>3. Done' = Len(accepted)
  BY <1>1, <1>2, OrderTyped DEF Done
<1>4. ASSUME NEW x PROVE x \in lost' <=> x \in lost \/ \E i \in 1..Len(Pending) : x = Pending[i]
  <2>1. /\ Len(Pending) = Len(out[t]) - put[t] /\ \A i \in 1..Len(Pending) : Pending[i] = out[t][put[t] + i]
    BY <1>2, PendingPut
  <2>2. put[t] \in Nat /\ Len(out[t]) \in Nat
    BY TypeParts DEF LogInv, Numbers, Texts
  <2>3. x \in lost' <=> x \in lost \/ \E i \in (put[t] + 1)..Len(out[t]) : x = out[t][i]
    BY LostStep DEF Step
  <2>4. ASSUME NEW i \in (put[t] + 1)..Len(out[t]), x = out[t][i]
        PROVE  \E j \in 1..Len(Pending) : x = Pending[j]
    <3>1. i - put[t] \in 1..Len(Pending) /\ put[t] + (i - put[t]) = i
      BY <2>1, <2>2
    <3> QED BY <2>1, <2>4, <3>1
  <2>5. ASSUME NEW j \in 1..Len(Pending), x = Pending[j]
        PROVE  \E i \in (put[t] + 1)..Len(out[t]) : x = out[t][i]
    <3>1. put[t] + j \in (put[t] + 1)..Len(out[t])
      BY <2>1, <2>2
    <3> QED BY <2>1, <2>5, <3>1
  <2> QED BY <2>3, <2>4, <2>5
<1>5. ASSUME NEW k \in 1..Len(accepted), NEW x, x = accepted[k]
      PROVE  x \in lost' <=> ~InFile(x)
  <2>1. CASE k <= Done
    <3>1. ASSUME NEW i \in 1..Len(Pending), x = Pending[i] PROVE FALSE
      <4>1. Done + i \in 1..Len(accepted) /\ Done + i # k
        BY <2>1, OrderTyped
      <4>2. accepted[Done + i] = x
        BY <1>0, <3>1 DEF Order
      <4> QED BY <1>5, <4>1, <4>2 DEF LogInv, LinesKnown
    <3> QED BY <1>0, <1>4, <1>5, <2>1, <3>1 DEF Order
  <2>2. CASE k > Done
    <3>1. k - Done \in 1..Len(Pending) /\ Done + (k - Done) = k
      BY <2>2, OrderTyped
    <3>2. Pending[k - Done] = x
      BY <1>0, <1>5, <3>1 DEF Order
    <3>3. ~InFile(x)
      BY <1>0, <1>5, <2>2 DEF Order
    <3> QED BY <1>4, <3>1, <3>2, <3>3
  <2> QED BY <2>1, <2>2, OrderTyped
<1>6. \A k \in 1..Len(accepted') :
        /\ k <= Done' => (accepted'[k] \in lost' <=> ~InFile(accepted[k])')
        /\ k > Done' => accepted'[k] \notin lost' /\ ~InFile(accepted[k])'
  <2>1. \A k \in 1..Len(accepted) : ~(k > Len(accepted))
    BY OrderTyped
  <2> QED BY <1>2, <1>3, <1>5, <2>1 DEF InFile
<1>7. \A i \in 1..Len(Pending') : Pending'[i] = accepted'[Done' + i]
  BY <1>1
<1>8. Len(Pending') <= Len(accepted')
  BY <1>1, <1>2, OrderTyped
<1> QED BY <1>0, <1>2, <1>6, <1>7, <1>8 DEF Order

\* A line written past the buffer is not an accepted one.
LEMMA OrderSame ==
  ASSUME LogInv, NEW t \in Threads, Call(t) \/ Locks(t) \/ Step(t),
         ~WriteBuffer(t), ~WriteOut(t), (FilePut(t) \/ FileFail(t)) => ~Holds(t)
  PROVE  Order'
<1>0. Order
  BY DEF LogInv
<1>1. accepted' = accepted /\ Pending' = Pending /\ Done' = Done
  BY TakenStep, PendingSame DEF Done
<1>2. (FilePut(t) \/ FileFail(t)) => pc[t] = "put" /\ call[t] = "direct"
  BY DEF FilePut, FileFail, Holds
<1>3. put[t] \in Nat /\ Len(out[t]) \in Nat /\ (FilePut(t) => put[t] + 1 \in (put[t] + 1)..Len(out[t]))
  BY TypeParts DEF LogInv, FilePut, OutOk, Numbers, Texts
<1>4. FilePut(t) => ~Taken(out[t][put[t] + 1])
  BY <1>2, <1>3, OutTaken
<1>5. FileFail(t) => \A i \in (put[t] + 1)..Len(out[t]) : ~Taken(out[t][i])
  BY <1>2, <1>3, OutTaken
<1>6. ASSUME NEW k \in 1..Len(accepted), NEW x, x = accepted[k]
      PROVE  (x \in lost' <=> x \in lost) /\ (InFile(x)' <=> InFile(x))
  <2>1. Taken(x)
    BY <1>6 DEF Taken
  <2>2. x \in lost' <=> x \in lost
    BY <1>5, <2>1, LostStep
  <2>3. InFile(x)' <=> InFile(x)
    BY <1>4, <2>1, FileStep
  <2> QED BY <2>2, <2>3
<1>7. ASSUME NEW k \in 1..Len(accepted), NEW x, x = accepted[k]
      PROVE  /\ k <= Done => (x \in lost' <=> ~InFile(x)')
             /\ k > Done => x \notin lost' /\ ~InFile(x)'
  <2>1. /\ k <= Done => (x \in lost <=> ~InFile(x))
        /\ k > Done => x \notin lost /\ ~InFile(x)
    BY <1>0, <1>7 DEF Order
  <2> QED BY <1>6, <1>7, <2>1
<1>8. \A k \in 1..Len(accepted') :
        /\ k <= Done' => (accepted'[k] \in lost' <=> ~InFile(accepted[k])')
        /\ k > Done' => accepted'[k] \notin lost' /\ ~InFile(accepted[k])'
  BY <1>1, <1>7 DEF InFile
<1>9. \A i, j \in 1..Len(file), k, m \in 1..Len(accepted) :
        (i < j /\ file[i] = accepted[k] /\ file[j] = accepted[m]) => k < m
  BY <1>0 DEF Order
<1>10. ASSUME NEW i \in 1..Len(file'), NEW j \in 1..Len(file'),
              NEW k \in 1..Len(accepted), NEW m \in 1..Len(accepted),
              i < j, file'[i] = accepted[k], file'[j] = accepted[m]
       PROVE  k < m
  <2>1. CASE UNCHANGED file
    BY <1>9, <1>10, <2>1
  <2>2. CASE FilePut(t)
    <3>1. i \in 1..Len(file) /\ j \in 1..Len(file)
      <4>1. file'[i] # file'[Len(file) + 1] /\ file'[j] # file'[Len(file) + 1]
        BY <1>4, <1>10, <2>2, FileStep DEF Taken
      <4>2. i \in 1..(Len(file) + 1) /\ j \in 1..(Len(file) + 1)
        BY <2>2, FileStep
      <4> QED BY <4>1, <4>2, OrderTyped
    <3>2. file[i] = accepted[k] /\ file[j] = accepted[m]
      BY <1>10, <2>2, <3>1, FileStep
    <3> QED BY <1>9, <1>10, <3>1, <3>2
  <2> QED BY <2>1, <2>2, FileStep
<1>11. /\ Len(Pending') <= Len(accepted')
       /\ \A i \in 1..Len(Pending') : Pending'[i] = accepted'[Done' + i]
  BY <1>0, <1>1 DEF Order
<1> QED BY <1>1, <1>8, <1>10, <1>11 DEF Order

LEMMA OrderStep == LogInv /\ Next => Order'
<1> SUFFICES ASSUME LogInv, NEW t \in Threads, Call(t) \/ Locks(t) \/ Step(t)
             PROVE Order'
  BY DEF Next
<1>1. CASE WriteBuffer(t) \/ WriteOut(t)
  BY <1>1, OrderGrows
<1>2. CASE FilePut(t) /\ Holds(t)
  BY <1>2, OrderShrinks
<1>3. CASE FileFail(t) /\ Holds(t)
  BY <1>3, OrderLost
<1> QED BY <1>1, <1>2, <1>3, OrderSame

LEMMA LogStutter == LogInv /\ UNCHANGED vars => LogInv'
<1> SUFFICES ASSUME LogInv, UNCHANGED vars PROVE LogInv'
  OBVIOUS
<1> USE DEF vars
<1>1. TypeOK' /\ LockInv' /\ BufferOk'
  BY DEF LogInv, TypeOK, LockInv, Holds, HoldsFile, BufferOk
<1>2. LinesKnown'
  BY DEF LogInv, LinesKnown, Taken, InFile
<1>3. Pending' = Pending /\ Done' = Done
  BY DEF Pending, Done
<1>4. Order'
  BY <1>3 DEF LogInv, Order, InFile
<1>5. ASSUME NEW u \in Threads PROVE OutOk(u)' /\ CallOk(u)' /\ ChunkOk(u)'
  BY DEF LogInv, OutOk, Writing, CallOk, ChunkOk
<1>6. ASSUME NEW u \in Threads PROVE LineOk(u)'
  BY DEF LogInv, LineOk, Taken, InFile
<1> QED BY <1>1, <1>2, <1>4, <1>5, <1>6 DEF LogInv

\* Every reachable state of the two devices satisfies the inductive invariant: who
\* holds which mutex, what each call still hands to the file, and what of the
\* accepted lines is in the file (BufferedLogDevice.cpp, FileLogDevice.cpp).
THEOREM LogInvHolds == Spec => []LogInv
<1>1. LogInv /\ [Next]_vars => LogInv'
  <2> SUFFICES ASSUME LogInv, Next PROVE LogInv'
    BY LogStutter
  <2>1. TypeOK'
    <3>1. Places' /\ Numbers' /\ Texts'
      BY PlacesStep, NumbersStep, TextsStep, TypeParts DEF LogInv
    <3> QED BY <3>1 DEF TypeOK, Places, Numbers, Texts
  <2>2. LockInv' /\ LinesKnown' /\ BufferOk' /\ Order'
    BY LockStep, LineStep, BufferStep, OrderStep
  <2>3. \A u \in Threads : OutOk(u)' /\ CallOk(u)' /\ LineOk(u)' /\ ChunkOk(u)'
    BY OutStep, CallStep, LineStep, ChunkStep
  <2> QED BY <2>1, <2>2, <2>3 DEF LogInv
<1> QED BY InitOk, <1>1, PTL DEF Spec

-----------------------------------------------------------------------------
(* The properties *)

LEMMA InFileSet == LogInv => \A l : InFile(l) <=> l \in ToSet(file)
<1> SUFFICES ASSUME LogInv, NEW l PROVE InFile(l) <=> l \in ToSet(file)
  OBVIOUS
<1>1. file \in Seq(Lines)
  BY TypeParts DEF LogInv, Texts
<1>2. DOMAIN file = 1..Len(file)
  BY <1>1
<1> QED BY <1>2 DEF InFile, ToSet

LEMMA Covered ==
  ASSUME LogInv, Pending = <<>>, NEW n \in Nat, n <= Len(accepted)
  PROVE  ToSet(SubSeq(accepted, 1, n)) \subseteq ToSet(file) \cup lost
<1> DEFINE s == SubSeq(accepted, 1, n)
<1>1. accepted \in Seq(Lines) /\ Len(accepted) \in Nat
  BY TypeParts DEF LogInv, Texts
<1>2. Len(s) = n /\ DOMAIN s = 1..n /\ \A i \in 1..n : s[i] = accepted[i]
  BY <1>1
<1>3. Done = Len(accepted)
  BY <1>1 DEF Done
<1>4. ASSUME NEW i \in 1..n PROVE s[i] \in ToSet(file) \cup lost
  <2>1. i \in 1..Len(accepted) /\ i <= Done
    BY <1>1, <1>3
  <2>2. accepted[i] \in lost \/ InFile(accepted[i])
    BY <2>1 DEF LogInv, Order
  <2> QED BY <1>2, <2>2, InFileSet
<1> HIDE DEF s
<1>5. ToSet(s) \subseteq ToSet(file) \cup lost
  BY <1>2, <1>4 DEF ToSet
<1> QED BY <1>5 DEF s

\* A flush() about to return, and the destructor, leave nothing that was accepted
\* before behind: it is in the file, or the file failed
\* (BufferedLogDevice.cpp:40-43, 71-82).
THEOREM FlushCoversHolds == Spec => []FlushCovers
<1>1. LogInv => FlushCovers
  <2> SUFFICES ASSUME LogInv PROVE FlushCovers
    OBVIOUS
  <2>0. Places /\ Len(accepted) \in Nat /\ before \in [Threads -> Nat]
    BY TypeParts DEF LogInv, Numbers, Texts
  <2>1. ASSUME NEW t \in Threads, pc[t] = "unlock"
        PROVE  ToSet(SubSeq(accepted, 1, before[t])) \subseteq ToSet(file) \cup lost
    <3>0. CallOk(t) /\ Holds(t) /\ ~Writing(t) /\ before[t] \in Nat /\ before[t] <= Len(accepted)
      BY <2>0, <2>1 DEF LogInv, CallOk, Holds, Writing
    <3>1. CASE call[t] = "write"
      <4>1. before[t] = 0
        BY <3>0, <3>1 DEF CallOk
      <4>2. SubSeq(accepted, 1, 0) = <<>> /\ ToSet(<<>>) = {}
        BY <2>0, TypeParts DEF LogInv, Texts, ToSet
      <4> QED BY <4>1, <4>2
    <3>2. CASE call[t] # "write"
      <4>1. Pending = <<>>
        BY <2>1, <3>0, <3>2, PendingIs DEF CallOk
      <4> QED BY <3>0, <4>1, Covered
    <3> QED BY <3>1, <3>2
  <2>2. ASSUME alive = "destroyed"
        PROVE  ToSet(SubSeq(accepted, 1, Len(accepted))) \subseteq ToSet(file) \cup lost
    <3>1. buffer = <<>> /\ \A t \in Threads : ~Holds(t)
      BY <2>2 DEF LogInv, BufferOk, Holds
    <3>2. mutex = None
      BY <2>0, <3>1 DEF LogInv, LockInv, Places
    <3>3. Pending = <<>>
      BY <3>1, <3>2 DEF Pending
    <3> QED BY <2>0, <3>3, Covered
  <2> QED BY <2>1, <2>2 DEF FlushCovers
<1> QED BY <1>1, LogInvHolds, PTL

\* What is collected never fills the buffer, and what one write() put into the
\* file stands there in one piece (BufferedLogDevice.cpp:56,
\* FileLogDevice.cpp:76-87).
THEOREM ChunksWholeHolds == Spec => []ChunksWhole
<1>1. LogInv => ChunksWhole
  <2> SUFFICES ASSUME LogInv PROVE ChunksWhole
    OBVIOUS
  <2>1. BufferNeverGrows
    BY DEF LogInv, BufferOk, BufferNeverGrows
  <2>2. ASSUME NEW t \in Threads, pc[t] = "put"
        PROVE  SubSeq(file, Len(file) - put[t] + 1, Len(file)) = SubSeq(out[t], 1, put[t])
    <3>1. /\ file \in Seq(Lines) /\ out[t] \in Seq(Lines) /\ put[t] \in Nat
          /\ put[t] <= Len(out[t]) /\ put[t] <= Len(file) /\ Len(file) \in Nat
          /\ \A i \in 1..put[t] : file[Len(file) - put[t] + i] = out[t][i]
      BY <2>2, TypeParts DEF LogInv, Texts, Numbers, OutOk, ChunkOk
    <3> DEFINE n == Len(file) - put[t]
               a == SubSeq(file, n + 1, Len(file))
               b == SubSeq(out[t], 1, put[t])
    <3>2. n \in Nat /\ n <= Len(file) /\ Len(file) - n = put[t]
      BY <3>1
    <3>3. a \in Seq(Lines) /\ Len(a) = put[t] /\ \A i \in 1..Len(a) : a[i] = file[n + i]
      BY <3>1, <3>2, RestFacts
    <3>4. b \in Seq(Lines) /\ Len(b) = put[t] /\ \A i \in 1..Len(b) : b[i] = out[t][i]
      BY <3>1
    <3>5. a = b
      <4>1. \A i \in 1..Len(a) : a[i] = b[i]
        BY <3>1, <3>3, <3>4
      <4> HIDE DEF a, b
      <4> QED BY <3>3, <3>4, <4>1, SeqEqual
    <3> QED BY <3>5
  <2> QED BY <2>1, <2>2 DEF ChunksWhole
<1> QED BY <1>1, LogInvHolds, PTL

\* The lines that went through the buffer are in the file once each and in order,
\* or lost to it, and what the device still holds is the end of what it took:
\* for any number of threads that write, flush and go past the buffer
\* (BufferedLogDevice.cpp:49-82).
THEOREM InOrderOnceHolds == Spec => []InOrderOnce
<1>1. LogInv => InOrderOnce
  <2> SUFFICES ASSUME LogInv PROVE InOrderOnce
    OBVIOUS
  <2> DEFINE done == Len(accepted) - Len(Pending)
             rest == SubSeq(accepted, done + 1, Len(accepted))
  <2>1. accepted \in Seq(Lines) /\ Pending \in Seq(Lines) /\ done = Done /\ Order /\ TypeOK
    BY TypeParts, PendingTyped DEF LogInv, Texts, Done
  <2>2. done \in Nat /\ done <= Len(accepted) /\ Len(accepted) - done = Len(Pending)
    BY <2>1, OrderTyped
  <2>3. rest \in Seq(Lines) /\ Len(rest) = Len(Pending) /\ \A i \in 1..Len(rest) : rest[i] = accepted[done + i]
    BY <2>1, <2>2, RestFacts
  <2>4. Pending = rest
    <3>1. \A i \in 1..Len(rest) : Pending[i] = rest[i]
      BY <2>1, <2>3 DEF Order
    <3> HIDE DEF rest
    <3> QED BY <2>1, <2>3, <3>1, SeqEqual
  <2>5. ASSUME NEW k \in 1..Len(accepted)
        PROVE IF k <= done THEN (accepted[k] \in lost) # (accepted[k] \in ToSet(file))
              ELSE accepted[k] \notin lost \cup ToSet(file)
    <3>1. /\ k <= done => (accepted[k] \in lost <=> ~InFile(accepted[k]))
          /\ ~(k <= done) => accepted[k] \notin lost /\ ~InFile(accepted[k])
      BY <2>1, <2>2 DEF Order
    <3>2. InFile(accepted[k]) <=> accepted[k] \in ToSet(file)
      BY InFileSet
    <3>3. CASE k <= done
      <4>1. accepted[k] \in lost <=> ~(accepted[k] \in ToSet(file))
        BY <3>1, <3>2, <3>3
      <4>2. (accepted[k] \in lost) # (accepted[k] \in ToSet(file))
        BY <4>1, Zenon
      <4> QED BY <3>3, <4>2
    <3>4. CASE ~(k <= done)
      BY <3>1, <3>2, <3>4
    <3> QED BY <3>3, <3>4
  <2>6. \A i, j \in 1..Len(file), k, m \in 1..Len(accepted) :
          (i < j /\ file[i] = accepted[k] /\ file[j] = accepted[m]) => k < m
    BY <2>1 DEF Order
  <2> QED BY <2>1, <2>4, <2>5, <2>6 DEF InOrderOnce
<1> QED BY <1>1, LogInvHolds, PTL
=============================================================================
