# Verification of libtmb++

libtmb++ (`src/tmb`, with the remote calls of `src/rmi` beside it) is a C++ base library:
threads, buffered streams, sockets, strings and containers, logging, a small HTTP server.
It has no `main()`; "the system" is every program that uses it, so each model has the
library's operations as actions and lets the application call them in any order, from as
many threads as the class is meant for. All paths below are relative to `src/`.

The modules are checked with TLC on small instances (the `.cfg` files) and, in the
`*Proof.tla` modules, proved with TLAPS for every value of the constants. `PROJECT.json`
lists the runs, the code lines each definition stands for, the hazards and the theorems.

## 1. The library

| part | state | operations | who calls whom | what is hard |
|---|---|---|---|---|
| `thread/Thread` | `c_thread_state`, `c_thread_retval`, `c_thread_id`, the event | start, stop, kill, waitForTermination, exec in the new thread, terminated | callers and the run share the object without a lock; uses WaitEvent | test-then-act on the state, lost wakeups, deletion by terminated() |
| `thread/WaitEvent` | pthread mutex and condition, nothing else | wait, fire | used by Thread | keeps no memory of a fire; timeouts are relative values used as absolute times |
| `thread/Mutex`, `AtomicInt` | a pthread mutex; an atomic word | lock, trylock, unlock; ++, -- | logging; the link count of String | lock(timeout) has WaitEvent's mistake |
| `io/OutputStream`, `BufferedOutputStream` | `c_buffer`, `c_pwrite`, `c_plow` | write (with FORCECS), flush, close | over a File, Socket, RS232Device | short writes and exceptions in the middle of a flush; retries |
| `io/InputStream`, `BufferedInputStream` | `c_buffer`, `c_pread`, `c_pwrite` | read (with FORCECS), readLine | same | short reads, end of stream, exceptions after part of a read |
| `io/Select` | three fd_sets and their maxima | add, del, select, is... | sockets, devices | the maximum over three sets; results against requests |
| `io/GpioSer` | a serial port, the protocol's mode | open, commands to a microcontroller | over RS232Device | late answers, a line that hangs up, flow control, block sizes |
| `io/File`, `RS232Device`, `UsbDevice` | a descriptor or handle; a name and its path | open, read, write, mkdir, ... | the operating system | error paths; mkdir(true) calls itself, and other processes make and remove directories meanwhile |
| `net/Socket`, `ServerSocket` | `c_socket`, flags | connect, read, write, close; accept | used by HTTP, RMI | EINTR, a number closed twice, a number overwritten |
| `ssl/*` | OpenSSL contexts and sessions | handshake, read, write, close, authentication by public key | over Socket | a structure that outlives its descriptor; messages of the authentication that come in pieces |
| `lang/List`, `ListP` | `_root`, `_size`, the cursor `_curp`/`_curindex`, `_autodelete` | get, put, insert, remove, indexOf, ... | everywhere (LogController's devices) | the cursor is changed by reads; it must survive every removal |
| `lang/LinkedList`, `Array`, `ArrayP` | links; a growing block | add, insert, remove | everywhere | index and capacity arithmetic |
| `lang/HashMap`, `HashMapP` | `_hasharray`, `_size`, `_autodelete` | put, get, containsKey, remove, clear, nextKey | Properties, XmlTemplate, HTTP headers, RMI objects | keys that share a bucket or a hash code; walks with changes in between |
| `lang/Map`, `MapP` | two lists | - | nobody: does not compile | - |
| `lang/String` | shared data with an atomic link count | construct, copy, assign, modify | everywhere, also across threads | copy on write between threads |
| `lang/StringTokenizer`, `StringList`, `FixedString`, `RegEx`, `System`, `Exception` | little | text functions | everywhere | quotes, escapes, comments |
| `log/LogController` | a ListP of devices, a type mask | debug ... fatal, add, setType... | calls the devices | shared by threads without a lock, over the cursor of List |
| `log/BufferedLogDevice`, `FileLogDevice` | a String and a mutex; a file name and a mutex | write, flush, destructor | the one writes to the other | several threads, a file that fails, order |
| `log/StdOut-, StdErr-, SysLogDevice` | none | write | LogController | - |
| `http/*` | request and response | serve: readRequest, validate, exec, writeResponse | over streams | malformed, cut and pipelined requests; a response used again |
| `util/Properties` | a HashMap | load, save, get, set | streams, HashMap | what save writes, load must read |
| `xml/*` | a template and a map of values | writeTo | HashMap, streams | - |
| `rmi/*` (not in the Makefile) | client and server object tables, one socket | createObject, releaseObject, invoke; processNextRequest | client and server exchange packets | a late or missing reply is taken for the next one; object ids come from pointers |

What makes each part correct, in one line:

- Thread: one run at a time, results visible with the state that announces them, stop ends
  a run, a waiter returns, and only after the end.
- Streams: what is written comes out once, in order, up to a known point, whatever the
  stream below refuses or throws.
- List, ListP: a sequence; no pointer to a freed element, no object deleted and kept.
- HashMap, HashMapP: a map; a walk meets what stays.
- String: every object a value of its own, while the data is shared and counted; the block
  holds the text its calls ask for, with its end, within its size.
- Array, LinkedList: a sequence within its buffer; links that meet from both ends.
- Logging: lines once, in order, in one piece; a flush covers what came before it.
- RMI: the answer a call gets is the answer to that call; ids name one living object.
- LogController: each message once to each device that takes its type.
- Sockets, SSL: each object its own descriptor or none, none left behind; both ends of an
  authentication agree about it.
- Select: what is reported is what was asked for and is ready.
- HTTP: each request its own answer, as long as it announces; Properties: what is saved is
  what is loaded; File: mkdir makes what it was asked for.

## 2. The modules

| module | models | composed by |
|---|---|---|
| `WaitEvent` | WaitEvent.cpp over an external mutex and condition variable | INSTANCE in `Thread` |
| `Thread` | Thread.cpp and the callers | |
| `BufferedOutputStream` | OutputStream::write, BufferedOutputStream | EXTENDed by `StreamPipe` |
| `BufferedInputStream` | InputStream::read, BufferedInputStream | INSTANCE in `StreamPipe` |
| `StreamPipe` | a writer and a reader at the ends of one stream | EXTENDed by `MCStreams` |
| `Text` | what String's searches, substring and nextToken give | EXTENDed by the next three |
| `TextBlock` | the block behind one String, cell by cell | INSTANCE in `MCStreams` |
| `Properties` | Properties.cpp, StringTokenizer.cpp, and the file | INSTANCE in `MCStreams` |
| `Directories` | File's names and mkdir() | INSTANCE in `MCStreams` |
| `ListSpec` | the abstract list: a sequence | INSTANCE in `MCCursorList`, `MCContainers` |
| `CursorList` | List.h, ListP.h | EXTENDed by `MCCursorList` |
| `LogController` | LogController.cpp, LogDevice.cpp, over List's cursor | INSTANCE in `MCCursorList` |
| `Array` | Array.h, ArrayP.h | INSTANCE in `MCContainers` |
| `LinkedList` | LinkedList.h | INSTANCE in `MCContainers` |
| `MapSpec` | the abstract map | INSTANCE in `MCContainers` |
| `HashMap` | HashMap.h, HashMapP.h | INSTANCE in `MCContainers` |
| `StringValue` | abstract strings: each object its own value | INSTANCE in `MCSharedString` |
| `SharedString`, `MCSharedString` | String.h/.cpp: shared data, AtomicInt | |
| `BufferedLog`, `MCBufferedLog` | BufferedLogDevice, FileLogDevice, Mutex | |
| `GpioBoard` | RS232Device, the line, and the board at its other end (external) | EXTENDed by `GpioSer` |
| `GpioSer` | GpioSer.cpp over GpioBoard | EXTENDed by `MCGpioSer` |
| `RegisterSpec` | abstract registers: pins and memory | INSTANCE in `MCGpioSer` |
| `Select` | Select.cpp over a kernel that makes descriptors ready | INSTANCE in `MCGpioSer` |
| `RMIServer` | RMIBase.cpp's packets, RMIServer.cpp, RMIObjectContainer.cpp | EXTENDed by `RMIClient` |
| `RMIClient` | RMIClient.cpp over RMIServer | EXTENDed by `MCNetwork` |
| `RemoteSpec` | abstract remote objects | INSTANCE in `MCNetwork` |
| `Socket` | the process' descriptors, Socket.cpp, ServerSocket.cpp | EXTENDed by `Net` |
| `Net` | all sockets of a process, SSLSocket's structure among them | INSTANCE in `MCNetwork` |
| `PublicKeyAuth` | the two ends of SSLSocket's public key authentication | INSTANCE in `MCNetwork` |
| `HttpRequest` | InputStream::readLine, HttpRequest.cpp | EXTENDed by `HttpServer` |
| `HttpServer` | HttpResponse.cpp, and HttpServer.cpp, one connection | INSTANCE in `MCNetwork` |
| `MCStreams`, `MCCursorList`, `MCContainers`, `MCGpioSer`, `MCNetwork` | components side by side | |
| `ThreadProof`, `StreamPipeProof`, `CursorListProof`, `SharedStringProof`, `BufferedLogProof`, `NetworkProof`, `ContainersProof`, `GpioProof` | the proofs | |

The five modules of the last row but one put components that do not touch each other into one
run: `part` is chosen at the start and a behaviour is that of one component, while the others
stay as they began. Nothing is learnt from such a run about two of them together. What does
interact is composed for real: the streams in `StreamPipe`, the line and the board under
`GpioSer`, client and server under `RMIClient`, request, response and server in `HttpServer`,
sockets of all kinds over one table in `Net`, threads over the cursor in `LogController`.

How state and actions correspond to the code, where it is not one to one:

- **Thread.** Every read and every write of `c_thread_state` is a step: `StartRead`/
  `StartCreate`, `StopRead`/`StopWrite`, `KillRead`/`KillSignal`, the test and the wait of
  `waitForTermination()`. `rpc[r]` is the place of run r in `exec()`: created, running,
  `stored` (result stored), `ended` (state stored), `fired`, `last` (callback), gone. The
  object may be deleted by `terminated()` (`DeletesItself`). `ret`, `hasty` are history.
- **WaitEvent.** `wpc` is a waiter's place in `wait()`. A timeout may strike at any moment
  (the code passes a relative time where an absolute one is meant, so it is in the past);
  `Spurious` allows spurious wakeups.
- **Streams.** A byte of the application is its number. `copied` lists what was put into
  the buffer or the stream, `sent` which of the copies the stream below took. `Throw` is
  an exception of the stream below in any call, with `again` for a TryAgainException that
  FORCECS answers with a retry. `torn`: an exception cut a flush after part of the buffer
  had gone down, which leaves `c_plow` > 0; `overrun`: one left `c_plow` beyond `c_pwrite`
  (see Findings and limits).
- **CursorList.** Each turn of a loop in `igetDataElementAt()`, `remove(start, end)` and
  `indexOf()` is a step. `order` is a history of the elements in list order, which the
  linked structure is compared with. `freed` are the objects ListP deleted.
- **HashMap.** A chain is the sequence of its elements, newest first. A call is one step
  (the class is not made for threads); the calls of a walk interleave with all others.
- **SharedString.** The steps are the atomic operations on `links` and the accesses to
  `_data`; a modification of the characters takes two steps, so that a reader of half of
  it would show. Contents are numbers, odd ones for half modified text. An object is not
  used while another thread's call changes it (`Readable`, `Writable`): the discipline
  any value type asks of its users. Objects that share data are used freely.
- **BufferedLog.** Lines are numbered in the order of the calls and have lengths in some
  unit, against a buffer of 6. A line is put into the file in one step, a chunk of several
  lines in several; the file may fail before each of them.
- **GpioSer.** A command is three steps and more: its bytes go into the line in turns of
  RS232Device::write() (`WriteSome`), the answer comes out in turns of read() (`ReadSome`), and
  the call goes on with it. The board takes byte after byte at any time in between. The line may
  hang up at any time while it is open (`HangUp`): then write() throws, and a turn of read() gets
  nothing and is taken again. The device ignores the carrier (`CLOCAL`), so what hangs it up is
  that it goes away. In `call`, `asked` is the address the application gave, `at` that of the
  first cell, which for a page the code computes from it. The many
  commands of one form stand as one: `CmdGetOut` for all that read pins or a register,
  `CmdReadMem` and `CmdWriteByte` for those answered with a return code, `CmdWritePage`
  for both pages (`unit` is the size of a cell: 1 in EEPROM, 2 in program memory). A set of
  pins is the number whose bits it holds. `kpins` and `kmemory` are what the application
  knows from its calls, `lost` that a late answer may be in the line or the board in the
  middle of a command. After that the application opens anew; commands it would still send
  are left out. Addresses and sizes have two bytes in the code and one here, so that a size
  of 0x10000 becoming 0 on the wire does not show.
- **LogController.** A call by one thread is the loop over the devices; each turn reads the
  cursor, reads its index, follows the links and stores both again, step by step as
  igetDataElementAt() does. The masks are sets of types; the link that follows the null
  pointer is device 0.
- **Array, LinkedList.** A call is one step. Array's `cells` are the whole buffer, so a write
  outside of it shows; what the code does with a negative start sets `broken`.
- **Text, TextBlock.** A character is a one-character string, and the alphabet is the one
  the calls tell apart: letters of both cases, blank, quote, escape, separators, zero. The cells
  of a block are a function on 0..bufsize-1. The C library's functions are operators that may
  extend the domain, so a write past the end shows. `want` is the text that the calls should
  give, computed from sequences and never from cells. Where the code makes the C library
  do what it does not define, both outcomes are taken and `torn` is set.
- **Properties.** `file` is the sequence of the file's characters. save() writes the lines in
  any order, since nextKey()'s order is that of hash codes; `SaveCut` leaves any prefix.
- **Directories.** `stack` holds the calls of mkdir() one inside the other; access(2) and
  mkdir(2) are steps, between which `OtherMakes` and `OtherRemoves` may come.
- **Select.** `sets`, `maxfd` and the Result with its `outcome`; `ready` is the kernel's.
- **Socket, Net.** `table` says who opened each descriptor, a number is given out again as
  soon as it is free, and another thread or the rest of the process may get it between two steps
  of a call, also between a close() that EINTR ended and its repetition. `stale` and `moved`
  are histories of the two cases in which the code loses a descriptor.
- **PublicKeyAuth.** Each message is two pieces, since nothing keeps what one write() sends in
  one read(). A signature is the challenge it is about; the key is the right one or not.
- **HttpServer.** The connection is a sequence of lines, each its kind and its number of bytes
  (against the longest line a request may have), and the Content-Length's value. `answers`
  are the responses, each with the number of its request.
- **RMI.** `req` and `rep` hold the words under way. A number is one word, a text is one word
  (`TEXT`), and only an argument's value goes beside its flag, not its type. Reading the begin
  mark, the length and the rest of a packet are steps; the server's last one also executes the
  request and sends the answer. Of a packet that cannot be sent or read, any part may be in
  the connection (`PartOf`), or gone from it. The remote object, which the program derives
  from RMIObject, keeps one value that a call reads or exchanges, or it throws. Ids are
  few and the first one tried, the object's address in the code, is any of them. `known` are
  the server's objects as the client can know them from its calls, `cut` that an exception
  left the two sides out of step, `doubt` the stubs for which a call ended so; `SetSocket`
  stands for setSocket() on both sides with a new connection.

## 3. The runs

| run | question | bounds, and why they are enough |
|---|---|---|
| `thread_safety` | is what the state, the result and a returned wait tell true? | 2 callers, 2 runs: a restart, and every pair of calls at once |
| `thread_live` | does a blocked waiter return, does stop end a run? | 2 callers, 1 run, spurious wakeups |
| `thread_joinreturns` (violation) | does waitForTermination() always return? | same |
| `streams` | bytes in order, once, reads exact and full (`CopiesInOrder`, `EachByteOnce`, `ReadsInOrder`, `ForcedIsFull`) | buffer of 2, 3 bytes, calls up to 3 bytes, one exception on each side: a call that just fits, that overflows, and one larger than the buffer; the exception at every place |
| | is a String's text the one its calls ask for? (`TextIsMeant`) | texts up to 4, blocks up to 6 cells: every call in place, into a block that just fits, into a new one, and shared |
| | does load() bring back what save() wrote? (`FileIsReadBack`) | 2 properties; keys and values with blanks, quotes, escapes, comments, separators; files cut at every character, and files written by hand |
| | does mkdir(true) make the directories? (`MkdirMakes`) | names up to three deep from the root, two deep from the current directory; two changes by others |
| `streams_forcedsize` (violation) | does FORCECS put in just its size? | as `streams` |
| `list` | is List a sequence, ListP its owner, the cursor where it says? | 3 elements, 3 values: first, middle and last |
| | does each device get each message once? (`EachDeviceOnce`) | 2 threads, 3 devices, one type: the second device is reached from both ends |
| `string` | counted links, freed once, each object a value | 2 threads, 3 objects, blocks for all of them and both copies under way |
| `containers` | are Array and HashMap a sequence and a map, sound as structures, LinkedList too? | arrays of 3, growing by one; two lists, 3 elements; keys 0-3 in two buckets: 1 and 3 share one, 0 is never stored |
| `hashmap_strings` (violation) | does a put leave other keys alone? | "Aa", "BB" (one hash code, 2112) and "key" |
| `log` | order, whole chunks, flush, room, every call returns | 2 threads, 3 lines: one short, one that just fills the buffer behind it, one that fits no buffer |
| `gpio` | what do the calls promise over a bad line? | 2 cells: a page of one and of two chunks; a line of 2 bytes, so that each command is cut; 3 of open() and of exceptions: an error, what it leaves, and the open() after it |
| | does select() report what is asked for and ready? (`SelectAnswers`) | 2 descriptors in 3 sets |
| `network` | are calls of remote objects calls of objects? (`IsRemote`, `StubsLive`, `CallsReturn`) | 3 calls: create, change and read, or two objects; 2 exceptions: one that leaves part of a packet, one that leaves part of its answer |
| | has each socket its own descriptor? (`DescriptorsOwned`) | 2 descriptors for 2 sockets, one of them SSL, a server socket and the rest of the process: one too few, so that numbers go round |
| | do both ends of an authentication agree? (`AuthAgrees`) | 3 rounds on one connection, 2 exceptions |
| | has each request its answer? (`AnswersInOrder`) | 2 requests out of a set with bodies, long lines and wrong lengths; lines of up to 4, contents of up to 8 |

`StructuresSound` and `DescriptorsOwned` are conjunctions of the invariants of several
modules. `EachByteOnce` is `NothingLost` and `BytesOnce` of `StreamPipe`, `ChunkFits` contains
GpioSer's types. Each part is defined, and commented, in its own module.

A search goes backwards by more than one element only in lists of six and more
(`_curindex/2`); there `CursorAtIndex` rests on its proof, which is for every length. `MaxByte`,
`MaxCall`, `MaxThrow`, `MaxRead`, `MaxFail`, `MaxText`, `MaxBuf`, `MaxProps`, `MaxStack`, `MaxChanges`
(streams), `MaxCalls`, `MaxThrow`, `MaxLength`, `MaxRounds`, `MaxAuthThrow`, `MaxRequests` (network),
`MaxLen` (list, containers), `MaxDevices` (list), `MaxGrow` (containers), `MaxReady`, `MaxSlips` (gpio), `Kinds` (string:
values are counted modulo it) and `Len(LineLength)` (log) bound what would grow without end. In
the code HashMap has at least 16 buckets, 2 stand for them so that chains get long.

Deadlock is not checked (`CHECK_DEADLOCK FALSE`) where the bounds or the object's end stop
everything; it is checked in `string` and `gpio`.

**Fairness.** `thread_live`: weak fairness for each thread inside a method and for each
run, strong fairness for taking the event's mutex (the operating system schedules every
thread and hands a mutex on; pthread does not promise the latter, but every wait for one
here is short). `run()` is only expected to return after a stop request, and nobody is
made to call a method. `log`: the same for a thread inside write(), flush() or the
destructor. `gpio`: weak fairness for the call under way, and for the board while the line is
open; a call must throw when nothing more comes, because each turn of read() waits with a timeout,
and when it writes to a line that hung up. That a read() of such a line comes to an end is not
assumed, and `CallEnds` does not claim it. `network`: weak
fairness for the server's loop and for the client's reads, which block until something comes; no
exception has to happen. No other
run assumes fairness.

**Refinement.** `IsSequence`, `IsArray`, `IsMap`, `IsValue`, `IsRegisters` and `IsRemote` are the abstract
specifications `ListSpec` (twice), `MapSpec`, `StringValue`, `RegisterSpec`, `RemoteSpec` under a refinement
mapping defined beside them (`Contents` and `Latest`; `Content`; `MapContents`; `Shown`; what the application
knows, twice). A step inside a call is a stutter, the step
that ends it is the abstract call, with its arguments and its result. In `RegisterSpec` the call
under way is a variable of its own, `ask`, with the address and the values the application gave
(`CallMade`): a read gives the cells from that address on, a write changes those of the page the
address belongs to, an error the board reports leaves the first m of these written and every
other as it was, whatever the board itself did, and only an exception or close() gives the line up.

## 4. Findings and limits the runs show

- `waitForTermination()` tests the state and then waits for an event that remembers nothing.
  A run that ends in between leaves the caller waiting for ever (`JoinReturns`,
  `Thread.cpp:175`). What does hold: who is blocked before the fire returns.
- exec() fires the event and then calls `terminated()`, under the comment "maybe terminated()
  deletes this object!" (Thread.cpp:222). The callers that the fire() woke are still in
  `c_event_term` then: they have to take its mutex, and to give it back. The model shows it
  (`deleted`), no property is about it: an object that is waited for may not delete itself.
- read() of a serial line that hung up does not end: select() reports the descriptor at once,
  `::read()` returns 0, and the loop, which tests for -1 only, adds that to what it has
  (RS232Device.cpp:190). The header promises all bytes or a TryAgainException after the timeout
  (RS232Device.h:103). `CallEnds` leaves out a call that reads then, and holds for every other;
  without that condition the run has the counterexample.
- FORCECS repeats a write() that threw TryAgain from where that write() began, although
  `BufferedOutputStream` had already taken bytes: they go out twice (`ForcedSize`,
  `OutputStream.cpp:53`). `EachByteOnce` holds while no such retry happened.
- With String keys `HashMap::put` and `remove` look at the hash code only (`OthersKept`,
  `HashMap.h:198`): "Aa" and "BB" are one key to them, and two to get().
- Holding, but only with the condition in the property: `CopiesInOrder` and `ReadsInOrder`
  stop where an exception cut a flush half way (`BufferedOutputStream.cpp:129`), because the
  next flush then offers `c_pwrite` bytes from `c_plow` on. `EachByteOnce` leaves out a
  close() after an exception: close() swallows it. It also ends where a second exception cuts
  such a flush and leaves `c_plow` beyond `c_pwrite` (`overrun`): bytes put in then lie behind
  `c_plow` and are never sent. That needs a buffer of 3 with three exceptions or one of 4 with
  two, more than the run has; the attempt to prove `EachByteOnce` without the condition showed it,
  and a run with these bounds has the counterexample. `OneRunAtATime` asks that start() is not
  called while a created thread has yet to store its state. `NullOnlyInEmptied` leaves the one
  null pointer `indexOf()` follows: a negative start in an emptied list (`List.h:366`).
  `WalkComplete` leaves out a walk whose current key was removed: it ends early.
- GpioSer has no way back into step: a late answer is read as the next command's, and a
  chunk after an error in the middle of a page is taken as commands. `IsRegisters` therefore
  ends with the first exception and starts again with an open() that finds the line quiet.
  open() itself may not find it so: it takes a stale answer for the version or for the
  buffer's size, and a timeout of the size leaves its answer in the line (GpioSer.cpp:107-113).
  With an odd buffer size, or size 1, a program memory chunk is one byte larger than the
  buffer (GpioSer.cpp:336): `ChunkFits` leaves it out.
- An RMI answer carries no number of its request, so a call after an exception in the middle
  of another may take that one's answer (RMIClient.cpp:167), and a server answers nothing to a
  request it cannot parse, for which the client waits without a timeout. `IsRemote` and
  `CallsReturn` therefore end with the first exception of the connection, and `IsRemote`
  starts again with a new one; `StubsLive` leaves out what a call that ended so was about. An
  object that gets the id 0 is lost to its client, which takes 0 for a failure
  (RMIClient.cpp:56). The model does not show two more: a text that was cut may take in the
  packet that follows it, and a connection may be out of step by less than a word.
- Two threads that log at once share the cursor of the device list: a device may be skipped,
  get a message twice, or the loop follow a null pointer. `EachDeviceOnce` ends there, and at
  setTypeEnabled(), which shifts by what is a mask already (LogController.cpp:164).
- `DescriptorsOwned` leaves out the descriptor that a connect() on a connected Socket drops
  (Socket.cpp:307), and who lost its number to a close() repeated after EINTR (Socket.cpp:375).
  setNonBlockingMode() sets its flag by F_SETFD (Socket.cpp:194); it is not in the model.
- `SelectAnswers` leaves out an exception set that the read maximum hides (Select.cpp:46).
- The authentication gives up on a message that comes in pieces (SSLSocket.cpp:434) and leaves
  the pieces in the connection; `AuthAgrees` holds over them.
- A line whose end alone is beyond readLine()'s maximum shows as an empty line and so ends a
  request's header (InputStream.cpp:78); `AnswersInOrder` leaves that out, with the two forms of
  Content-Length it names and what follows an exception in a request.
- `MkdirMakes` is about names from the root. A name without a separator is its own path
  (File.cpp:115, where lastIndexOf() gives -1), so mkdir(true) of one in a current directory that lacks its first part calls
  itself without end (File.cpp:250); the model counts that as `"overflow"`.
- `FileIsReadBack` asks for texts without quotes and line ends, keys without `=` and not empty:
  save() escapes nothing. save() does not look at its stream, so a part of a file is taken for
  the whole, and its last value may be a shorter one.
- `TextIsMeant` asks only for a sound block after what C leaves undefined: a va_list used twice
  (String.cpp:138), strcpy() of a text onto itself (String.cpp:483, 842). Beside it: replace() of
  "" in a String by itself has no end, indexOf() of an empty text in the same block gives 0, and
  a trailing backslash decodes to a zero character once there was an escape before it.
- Array::remove() with a negative start writes before its buffer (Array.h:289); the model
  marks the array as broken, and its properties end there.
- Read and not modelled: getInt32() and getUInt32() have no range check (Properties.cpp:137-161),
  File::copy() gives an array back by `delete` (File.cpp:201-216).

## 5. Proofs

A property of a component is proved from an invariant that is inductive: it holds at first,
every step of the component keeps it, and it implies the property. What each invariant says
beyond the property is the reason why the code is right.

| theorem | argument |
|---|---|
| `ThreadProof`: TypeCorrect, OneRunAtATimeHolds, ValueVisibleHolds, StopVisibleHolds, WaitSeesEndHolds | each from an invariant that says which states go with which place of the runs: a stored result before State_TERMINATED, the state RUNNING or STOPREQUEST while the only run is in run(), no second start between |
| `StreamPipeProof`: OutTypeCorrect, CopiesInOrderHolds | CopiesInOrder is made inductive by OutTypeOK and DirectShape (a write straight on the stream and the buffer are never in use together); one lemma for what a copy appends, one for each kind of step |
| EachByteOnceHolds | `StampInv`: what is in a slot of the buffer and what was sent is the number of a copy made before. `Kept`: every copy of the buffer's present fill is in its slot or sent, though flushes that exceptions cut have sent some twice; `ByteInv`: the bytes a returned write had are copied, those of the call under way up to where it is, each once until a retry |
| ReadsInOrderHolds | `ReadInv`: what the reader has, what its buffer holds from `c_pread` on, and what it dropped with an exception, follow each other on the wire; with `CopiesInOrder` the wire is what the writer copied |
| ForcedIsFullHolds | from the invariant of ReadsInOrder: what the read under way has copied out is never more than was asked for, and what the buffer still holds is a sequence, so the last copy is exactly what was missing |
| `CursorListProof`: ListTypeCorrect, LinkedHolds, CursorAtIndexHolds, NullOnlyInEmptiedHolds | ListInv: the types, the pointers against `order`, the cursor at its index, and for a search under way that `elem` is `steps` away from `target`. Inserting and unlinking are lemmas about sequences |
| NoDanglingHolds | `Owned`: a deleting list holds each object once and none that was deleted, and what a call brings is not held yet |
| IsSequenceHolds | the refinement of `ListSpec`, call by call. `ListInv` with `Sought`: a search under way has found nothing among the elements it has passed, so that where it ends is the first occurrence from its start, or none. Reading the list off its pointers is a sequence (`ReadIs`), and inserting, taking out and setting an element do the same to both |
| EachDeviceOnceHolds | `LogInv` of LogController: while one thread at a time is in the list, the cursor is at the element of its index whenever nobody is moving it, and a call has written to the devices of its type it has passed |
| `SharedStringProof`: LinksCountedHolds, FreedByLastHolds | `StringInv`: the keepers of each block are the objects and the calls under way, so that `links` is their number; one thread deletes what has none |
| StringIsValue | the refinement of `StringValue`, step by step: `ValueInv` adds that a block that is being changed has one keeper, so that no other object's value moves with it |
| `BufferedLogProof`: LogInvHolds, InOrderOnceHolds, ChunksWholeHolds, FlushCoversHolds | `LogInv`: which call holds which mutex, what it carries to the file and how much of it is there; of the lines accepted, the last ones are in the buffer or in what the call clears next, each of the others is in the file or lost, and the file keeps their order |
| `NetworkProof`: DescriptorsOwnedHolds | `NetInv`: what the kernel's table says of each number against who holds it, for every place in the constructors, connect(), accept() and close(), and what an SSL structure was made for |
| AuthAgreesHolds | `AuthInv`: challenges are under way in the order they were made, and while a signature of the present one is under way, nothing the other end could sign is behind it: so what the request accepts is what the confirmation signed last, and the "ok" it reads is about that |
| StubsLiveHolds, IsRemoteHolds | `RMIInv`. While client and server are in step the words between them are one of few things: nothing; the request of the call under way, whole or what the server has yet to read of it; its answer (`InStep`). Out of step, too, nothing on the way can be read as a release of a stub that is held (`ReleasesAsked`), for which the lengths sent matter (`LengthsSent`); so what a stub stands for stays at the server but for the doubtful (`StubsHeld`). A new connection starts with nothing between the two. The refinement maps a call to the step in which the client takes its answer |
| AnswersInOrderHolds | `ServeInv`. Every line under way belongs to one request, and the lines of a request are the rest of one that is right (`Tagged`, `Follows`): a first line, a header, as much body as is announced. The reader is at the beginning of a request, in its header, in its body with as much to come as it thinks, or behind it. So no line of one request is read for another's first. `ResponseInv`: the length a response announces is that of what it writes, whichever error page took the place of its content |
| `ContainersProof`: StructuresSoundHolds | `ArrayInv`: a deleting ArrayP holds each object once and none it has deleted, and only a negative start breaks the array, one of values and not of objects. `LinkInv`: `lorder` is the list seen from either end, an element is in the list it names and in no other. `HashInv`: a code is in its bucket (`Placed`), the size is the number of keys (`Sized`), the objects are living (`Living`) |
| IsArrayHolds | the refinement of `ListSpec`: what the moves of the cells leave below the size is what the sequence has after the call, whatever was past it (`InsertedCells`, `ClosedCells`), and a new buffer has the same content |
| IsMapHolds | the refinement of `MapSpec` from `HashInv`: a key is at most once in the table and in the bucket of its code, so the search of one chain decides about all of it; each call is shown to change which key holds which value as the map does (`PutsIn`, `TakesOut`) |
| WalkCompleteHolds | in `HashInv`, `Walked`: the keys given out are those before the current one in the order of the buckets and of the chains; `Ended` for a walk that is over. A removal takes one key out of this order, and what a put adds at the front of a chain is not among the keys that stayed |
| `GpioProof`: SelectAnswersHolds | `SelInv`: each maximum is the largest descriptor of its set, or -1, also after a remove that looks for the next lower one; so select() passes a number above every descriptor asked for |
| ChunkFitsHolds | `GpioInv`: what the board has taken, what is on the line and what the host has still to send are one sequence, cut into commands that are not answered and then the request of the call. While the line is in step the call is in one of five phases (nothing asked, asked, replied, a page under way, the page over or given up by the board), and in a page under way the board is as many cells on as there are `RC_NEXT` on the way back or read. The host sends a chunk only after an answer for each cell of the one before, so what the board has not answered is at most one chunk. Without the phases a byte of an earlier command could be taken for the head of a page |
| IsRegistersHolds | the refinement of `RegisterSpec`, from the same `GpioInv`, which also says what the bytes do to the board: the commands that are not answered lead its pins, one after the other, to what the application knows after the call (`Leads`, `Effect`), an answer on the way holds what it knows of pins or memory, a page under way has written its first cells and no others (`FirstWritten`). So what a call finds when its answer is in (`Told`) is what the registers have, and bytes back to cells, bits back to pins are shown to be inverses (`CellsOfFlat`, `JoinedAgain`) |

The only assumptions are those the modules state about their constants: `None` and the other
marks are no object, no value and no number that is used otherwise; sizes are natural numbers
and buffers not empty; there is at least one bucket and HashMap's keys are their own hash codes;
threads and objects whose links are counted are finitely many, and so are descriptor numbers, those of Select too; what goes
over the serial line (an address, the size the board tells) is a byte, the memory behind it is
whole pages (of one or two cells), and the pins and cells an application writes are bits;
an RMI packet is shorter than any mark that could be read for its length, and the values of an RMI
call are no marks; the lengths of HTTP lines and contents are sizes, of a line at least 1. The
bounds of the runs (`MaxLen`, `MaxByte`, ...) are arbitrary numbers in the theorems, so the results
hold for every size of list, map, buffer and call.

Where several components share a run (section 2) the theorem is about the run's specification,
and the steps of the others are stutters.

Model-checked only:

- all liveness, since the provers have no fairness and no ENABLED;
- `TextIsMeant`, `FileIsReadBack`, `MkdirMakes`: `TextBlock` and `Properties` compute texts by
  recursion, about which the provers can say nothing for every text.

## 6. Not modelled

WIN32 branches. Of String: conversions to and from numbers, comparisons, the text that a format
gives, `str()` for writing. Of the containers: destructors of List, HashMap and Array with
AutoDelete_DESTRUCT, elements given by a reference into the container. setFileName() while a
FileLogDevice writes. Of sockets: options, addresses, shutdown and the bytes themselves. Of HTTP: headers,
parameters and escapes as texts. Of SSL: keys, certificates and contexts, which are calls into
OpenSSL. Of File: everything but names, exists() and mkdir(). Map and MapP (they cannot be
instantiated), RegEx, System, USB, the thin log devices, the XML templates (a text substituted,
without state). The components with `not_modelled` or `partly` in PROJECT.json carry their reasons.

## 7. Plan

Done: every component with state is modelled, in the order Thread and WaitEvent, streams, List,
String, HashMap, log devices, GpioSer, RMI; then LogController, Select, Array and LinkedList,
sockets and SSL, HTTP, String's text, Properties, directories.

Proved: every safety property the runs check but the three of section 5 that need induction over
data, and every refinement.

Models next, as far as they add something: the descriptors of File::copy(), load() and the
directory listing when one of their steps throws.
