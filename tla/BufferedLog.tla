------------------------------ MODULE BufferedLog ------------------------------
(***************************************************************************)
(* A BufferedLogDevice in front of a FileLogDevice (src/tmb/log/), used by *)
(* several threads at once.  BufferedLogDevice collects lines in a String  *)
(* of fixed buffer size under its mutex and hands what it collected, with  *)
(* the line that no longer fits, to the output device.  FileLogDevice      *)
(* opens its file for appending, writes and closes it under a mutex of its *)
(* own; it is also reachable without the buffer, as getOutputDevice().     *)
(*                                                                         *)
(* A line is its number, in the order of the calls, and has a length.  A   *)
(* file that cannot be opened and a write that fails part of the way lose  *)
(* text without an error: nothing in either device tells the caller.       *)
(***************************************************************************)
EXTENDS Naturals, Sequences, SequencesExt

CONSTANTS Threads,     \* the threads that log
          LineLength,  \* the length of each line; as many lines are logged
          BufSize,     \* _buffer.bufsize(): a_bufsize + 16
          None         \* no thread: a mutex that is free

ASSUME LogAssumption == /\ LineLength \in Seq(Nat \ {0})
                        /\ BufSize \in Nat /\ BufSize >= 2
                        /\ None \notin Threads

VARIABLES mutex,      \* the holder of BufferedLogDevice::_mutex
          buffer,     \* the lines in BufferedLogDevice::_buffer
          length,     \* _buffer.length()
          fileMutex,  \* the holder of FileLogDevice::_file_mutex
          file,       \* the lines in the file
          alive,      \* "alive", "destroying" or "destroyed"
          pc, call,   \* where each thread is, and in which call
          line,       \* the line it logs
          out, put,   \* what it hands to the file, and how much of it is there
          (* history *)
          calls,      \* lines logged so far, into the buffer or past it
          accepted,   \* the lines the buffered device took, in order
          lost,       \* the lines a failing file swallowed
          before      \* how many lines had been accepted when a flush was called

vars == <<mutex, buffer, length, fileMutex, file, alive, pc, call, line, out, put,
          calls, accepted, lost, before>>

NoLine == 0  \* the argument of a call that logs nothing
Lines == 1..Len(LineLength)  \* LineLength bounds a behaviour

Init ==
  /\ mutex = None /\ fileMutex = None
  /\ buffer = <<>> /\ length = 0 /\ file = <<>> /\ alive = "alive"
  /\ pc = [t \in Threads |-> "idle"]
  /\ call = [t \in Threads |-> "none"]
  /\ line = [t \in Threads |-> NoLine]
  /\ out = [t \in Threads |-> <<>>]
  /\ put = [t \in Threads |-> 0]
  /\ calls = 0 /\ accepted = <<>> /\ lost = {}
  /\ before = [t \in Threads |-> 0]

Goto(t, place) == pc' = [pc EXCEPT ![t] = place]

-----------------------------------------------------------------------------
(* The calls *)

Called(t, what) == /\ pc[t] = "idle" /\ alive = "alive"
                   /\ call' = [call EXCEPT ![t] = what]

NewLine(t) == /\ calls < Len(LineLength)
              /\ calls' = calls + 1
              /\ line' = [line EXCEPT ![t] = calls']

WriteCall(t) ==
  /\ Called(t, "write") /\ NewLine(t) /\ Goto(t, "lock")
  /\ UNCHANGED <<mutex, buffer, length, fileMutex, file, alive, out, put, accepted, lost, before>>

FlushCall(t) ==
  /\ Called(t, "flush") /\ Goto(t, "lock")
  /\ before' = [before EXCEPT ![t] = Len(accepted)]
  /\ UNCHANGED <<mutex, buffer, length, fileMutex, file, alive, line, out, put, calls, accepted, lost>>

\* getOutputDevice()->write(...): the file without the buffer.
DirectCall(t) ==
  /\ Called(t, "direct") /\ NewLine(t) /\ Goto(t, "filelock")
  /\ out' = [out EXCEPT ![t] = <<line'[t]>>]
  /\ UNCHANGED <<mutex, buffer, length, fileMutex, file, alive, put, accepted, lost, before>>

\* ~BufferedLogDevice(): its owner lets no other call run or begin.
DestroyCall(t) ==
  /\ \A u \in Threads : pc[u] = "idle"
  /\ Called(t, "destroy") /\ Goto(t, "lock")
  /\ alive' = "destroying"
  /\ before' = [before EXCEPT ![t] = Len(accepted)]
  /\ UNCHANGED <<mutex, buffer, length, fileMutex, file, line, out, put, calls, accepted, lost>>

-----------------------------------------------------------------------------
(* BufferedLogDevice::write and flush, under _mutex *)

Lock(t) ==
  /\ pc[t] = "lock" /\ mutex = None
  /\ mutex' = t /\ Goto(t, "locked")
  /\ UNCHANGED <<buffer, length, fileMutex, file, alive, call, line, out, put, calls, accepted, lost, before>>

\* Mutant of Fits: the room for the terminating zero is not kept.
FitsToTheEnd(t) == length + LineLength[line[t]] <= BufSize

Fits(t) == length + LineLength[line[t]] <= BufSize - 2

WriteBuffer(t) ==
  /\ pc[t] = "locked" /\ call[t] = "write" /\ Fits(t)
  /\ buffer' = Append(buffer, line[t])
  /\ length' = length + LineLength[line[t]]
  /\ accepted' = Append(accepted, line[t])
  /\ Goto(t, "unlock")
  /\ UNCHANGED <<mutex, fileMutex, file, alive, call, line, out, put, calls, lost, before>>

WriteOut(t) ==
  /\ pc[t] = "locked" /\ call[t] = "write" /\ ~Fits(t)
  /\ out' = [out EXCEPT ![t] = Append(buffer, line[t])]
  /\ accepted' = Append(accepted, line[t])
  /\ Goto(t, "filelock")
  /\ UNCHANGED <<mutex, buffer, length, fileMutex, file, alive, call, line, put, calls, lost, before>>

FlushOut(t) ==
  /\ pc[t] = "locked" /\ call[t] \in {"flush", "destroy"} /\ length > 0
  /\ out' = [out EXCEPT ![t] = buffer]
  /\ Goto(t, "filelock")
  /\ UNCHANGED <<mutex, buffer, length, fileMutex, file, alive, call, line, put, calls, accepted, lost, before>>

\* Mutant of FlushNothing: flush() may find nothing to do with lines collected.
FlushSkips(t) ==
  /\ pc[t] = "locked" /\ call[t] \in {"flush", "destroy"}
  /\ Goto(t, "unlock")
  /\ UNCHANGED <<mutex, buffer, length, fileMutex, file, alive, call, line, out, put, calls, accepted, lost, before>>

FlushNothing(t) ==
  /\ pc[t] = "locked" /\ call[t] \in {"flush", "destroy"} /\ length = 0
  /\ Goto(t, "unlock")
  /\ UNCHANGED <<mutex, buffer, length, fileMutex, file, alive, call, line, out, put, calls, accepted, lost, before>>

Clear(t) ==
  /\ pc[t] = "clear"
  /\ buffer' = <<>> /\ length' = 0
  /\ out' = [out EXCEPT ![t] = <<>>]
  /\ put' = [put EXCEPT ![t] = 0]
  /\ Goto(t, "unlock")
  /\ UNCHANGED <<mutex, fileMutex, file, alive, call, line, calls, accepted, lost, before>>

Return(t) == /\ Goto(t, "idle")
             /\ call' = [call EXCEPT ![t] = "none"]
             /\ line' = [line EXCEPT ![t] = NoLine]
             /\ before' = [before EXCEPT ![t] = 0]

\* unlock() and return; the destructor goes on to delete the output device.
Unlock(t) ==
  /\ pc[t] = "unlock"
  /\ mutex' = None
  /\ alive' = IF call[t] = "destroy" THEN "destroyed" ELSE alive
  /\ Return(t)
  /\ UNCHANGED <<buffer, length, fileMutex, file, out, put, calls, accepted, lost>>

-----------------------------------------------------------------------------
(* FileLogDevice::write, under _file_mutex *)

FileLock(t) ==
  /\ pc[t] = "filelock" /\ fileMutex = None
  /\ fileMutex' = t /\ Goto(t, "put")
  /\ UNCHANGED <<mutex, buffer, length, file, alive, call, line, out, put, calls, accepted, lost, before>>

\* The file is not good(), so nothing is written, or f << a_output stops part of
\* the way.
FileFail(t) ==
  /\ pc[t] = "put"
  /\ lost' = lost \cup ToSet(SubSeq(out[t], put[t] + 1, Len(out[t])))
  /\ Goto(t, "fileunlock")
  /\ UNCHANGED <<mutex, buffer, length, fileMutex, file, alive, call, line, out, put, calls, accepted, before>>

\* What ofstream hands to write(2) in one go: a line.
FilePut(t) ==
  /\ pc[t] = "put"
  /\ file' = Append(file, out[t][put[t] + 1])
  /\ put' = [put EXCEPT ![t] = @ + 1]
  /\ IF put'[t] = Len(out[t]) THEN Goto(t, "fileunlock") ELSE UNCHANGED pc
  /\ UNCHANGED <<mutex, buffer, length, fileMutex, alive, call, line, out, calls, accepted, lost, before>>

\* Mutant of FileUnlockBuffered: the call returns without clearing the buffer.
FileUnlockKeep(t) ==
  /\ pc[t] = "fileunlock" /\ call[t] # "direct"
  /\ fileMutex' = None
  /\ out' = [out EXCEPT ![t] = <<>>]
  /\ put' = [put EXCEPT ![t] = 0]
  /\ Goto(t, "unlock")
  /\ UNCHANGED <<mutex, buffer, length, file, alive, call, line, calls, accepted, lost, before>>

\* Mutant of FileUnlockBuffered: a device that failed leaves both locked.
FileUnlockIfGood(t) ==
  /\ pc[t] = "fileunlock" /\ call[t] # "direct" /\ put[t] = Len(out[t])
  /\ fileMutex' = None
  /\ Goto(t, "clear")
  /\ UNCHANGED <<mutex, buffer, length, file, alive, call, line, out, put, calls, accepted, lost, before>>

FileUnlockBuffered(t) ==
  /\ pc[t] = "fileunlock" /\ call[t] # "direct"
  /\ fileMutex' = None
  /\ Goto(t, "clear")
  /\ UNCHANGED <<mutex, buffer, length, file, alive, call, line, out, put, calls, accepted, lost, before>>

FileUnlockDirect(t) ==
  /\ pc[t] = "fileunlock" /\ call[t] = "direct"
  /\ fileMutex' = None
  /\ out' = [out EXCEPT ![t] = <<>>]
  /\ put' = [put EXCEPT ![t] = 0]
  /\ Return(t)
  /\ UNCHANGED <<mutex, buffer, length, file, alive, calls, accepted, lost>>

-----------------------------------------------------------------------------
Call(t) == WriteCall(t) \/ FlushCall(t) \/ DirectCall(t) \/ DestroyCall(t)

Locks(t) == Lock(t) \/ FileLock(t)

Step(t) ==
  \/ WriteBuffer(t) \/ WriteOut(t) \/ FlushOut(t) \/ FlushNothing(t)
  \/ Clear(t) \/ Unlock(t)
  \/ FileFail(t) \/ FilePut(t)
  \/ FileUnlockBuffered(t) \/ FileUnlockDirect(t)

Next == \E t \in Threads : Call(t) \/ Locks(t) \/ Step(t)

\* A thread inside a call runs on; a mutex that is free again and again is got.
Fairness == \A t \in Threads : WF_vars(Step(t)) /\ SF_vars(Lock(t)) /\ SF_vars(FileLock(t))

Spec == Init /\ [][Next]_vars /\ Fairness

-----------------------------------------------------------------------------
(* Properties *)

\* Threads are in known places of known calls, mutexes are held by threads, and
\* what is buffered, written or lost are lines that were logged.
TypeOK ==
  /\ mutex \in Threads \cup {None} /\ fileMutex \in Threads \cup {None}
  /\ buffer \in Seq(Lines) /\ file \in Seq(Lines)
  /\ accepted \in Seq(Lines) /\ lost \subseteq Lines
  /\ length \in Nat /\ alive \in {"alive", "destroying", "destroyed"}
  /\ pc \in [Threads -> {"idle", "lock", "locked", "filelock", "put", "fileunlock",
                         "clear", "unlock"}]
  /\ call \in [Threads -> {"none", "write", "flush", "direct", "destroy"}]
  /\ line \in [Threads -> Lines \cup {NoLine}]
  /\ out \in [Threads -> Seq(Lines)]
  /\ put \in [Threads -> Nat] /\ before \in [Threads -> Nat]
  /\ calls \in 0..Len(LineLength)

\* What the buffered device still has to get into the file: what the holder of
\* its mutex is writing, or else what is collected.
Pending ==
  IF mutex = None \/ out[mutex] = <<>> THEN buffer
  ELSE IF pc[mutex] \in {"fileunlock", "clear"} THEN <<>>
  ELSE SubSeq(out[mutex], put[mutex] + 1, Len(out[mutex]))

\* The lines that went through the buffer are in the file once each, in the
\* order the device took them, up to those it holds, which are the last it took,
\* and those a failing file swallowed: however write, flush and direct writes
\* interleave (BufferedLogDevice.cpp:49-82).
\* Every variable has its type.
InOrderOnce ==
  LET done == Len(accepted) - Len(Pending)
  IN  /\ TypeOK
      /\ Pending = SubSeq(accepted, done + 1, Len(accepted))
      /\ \A k \in 1..Len(accepted) :
           IF k <= done THEN (accepted[k] \in lost) # (accepted[k] \in ToSet(file))
           ELSE accepted[k] \notin lost \cup ToSet(file)
      /\ \A i, j \in 1..Len(file), k, m \in 1..Len(accepted) :
           (i < j /\ file[i] = accepted[k] /\ file[j] = accepted[m]) => k < m

\* The String behind the buffer never needs to grow, so collecting a line never
\* allocates: String::iinsert() writes in place while the new length is below
\* the buffer size (BufferedLogDevice.cpp:56, String.cpp:184).
BufferNeverGrows == length < BufSize

\* What is collected stays within the buffer, and what is handed to the file in
\* one write() stands there in one piece: a line written by another thread never
\* gets in between (BufferedLogDevice.cpp:56, FileLogDevice.cpp:76-87).
ChunksWhole ==
  /\ BufferNeverGrows
  /\ \A t \in Threads : pc[t] = "put" =>
       SubSeq(file, Len(file) - put[t] + 1, Len(file)) = SubSeq(out[t], 1, put[t])

\* When flush() is about to return, every line the device had taken before it was
\* called is in the file or was lost to it; when the device is destroyed, every
\* line it ever took is (BufferedLogDevice.cpp:40-43, 71-82).
FlushCovers ==
  LET Out(n) == ToSet(SubSeq(accepted, 1, n)) \subseteq ToSet(file) \cup lost
  IN  /\ \A t \in Threads : pc[t] = "unlock" => Out(before[t])
      /\ alive = "destroyed" => Out(Len(accepted))

\* Every call returns, also when the file fails: no path leaves write() or
\* flush() with a mutex held (BufferedLogDevice.cpp:53-68, 75-81).
CallsReturn == \A t \in Threads : pc[t] # "idle" ~> pc[t] = "idle"

=============================================================================
