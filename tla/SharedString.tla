------------------------------ MODULE SharedString -----------------------------
(***************************************************************************)
(* tmb::String: objects that share reference counted data until one of     *)
(* them is modified (src/tmb/lang/String.h and String.cpp), used by        *)
(* several threads.  links is an AtomicInt: its ++ and -- are one step     *)
(* each.  No object is used in a call while another thread's call changes  *)
(* it; different objects that share their data may be used at any time.    *)
(*                                                                         *)
(* Contents are numbers that a modification raises by two, one for each    *)
(* half of it: an odd number is a string half modified.                    *)
(***************************************************************************)
EXTENDS Integers, FiniteSets

CONSTANTS Threads, Objects,
          Buffers,    \* the addresses the allocator can give
          Null,       \* the address of _nullstring
          Kinds,      \* bound: the number of different values
          None

ASSUME StringAssumption ==
  /\ Kinds \in Nat \ {0}
  /\ Null \notin Buffers /\ None \notin Objects \cup Buffers \cup {Null} \cup 0..2 * Kinds - 1
  /\ Threads \cap Objects = {}
  /\ IsFiniteSet(Threads) /\ IsFiniteSet(Objects)

VARIABLES data,       \* String::_data of each object, None: no object
          heap,       \* the allocated stringdata
          links,      \* stringdata::links
          content,    \* stringdata::string
          pc, req,    \* where each thread is, and its call
          old,        \* the data to release
          was         \* history: the value of the object when the call began

vars == <<data, heap, links, content, pc, req, old, was>>
memory == <<heap, links, content>>

Values == {2 * k : k \in 0..Kinds - 1}
Half(c) == (c + 1) % (2 * Kinds)
Idle == [op |-> "none", obj |-> None, src |-> None, arg |-> None]
Call(op, x, y, v) == [op |-> op, obj |-> x, src |-> y, arg |-> v]

\* _nullstring starts with two links, and String::null is an object on it.
Pinned == 3

Init ==
  /\ data = [x \in Objects |-> None]
  /\ heap = {}
  /\ links = [b \in Buffers \cup {Null} |-> IF b = Null THEN Pinned ELSE 0]
  /\ content = [b \in Buffers \cup {Null} |-> 0]
  /\ pc = [t \in Threads |-> "idle"]
  /\ req = [t \in Threads |-> Idle]
  /\ old = [t \in Threads |-> None]
  /\ was = [t \in Threads |-> None]

Goto(t, place) == pc' = [pc EXCEPT ![t] = place]
Obj(t) == req[t].obj
Src(t) == req[t].src

-----------------------------------------------------------------------------
(* The calls *)

Readable(t, x) == \A u \in Threads \ {t} : Obj(u) # x
Writable(t, x) == Readable(t, x) /\ \A u \in Threads \ {t} : Src(u) # x

Begin(t, r, place) ==
  /\ pc[t] = "idle" /\ Writable(t, r.obj)
  /\ r.src # None => r.src # r.obj /\ data[r.src] # None /\ Readable(t, r.src)
  /\ req' = [req EXCEPT ![t] = r]
  /\ was' = [was EXCEPT ![t] = IF data[r.obj] = None THEN None ELSE content[data[r.obj]]]
  /\ Goto(t, place)
  /\ UNCHANGED <<data, memory>>

\* String(const char*)
ConstructCall(t, x, v) ==
  /\ data[x] = None /\ Begin(t, Call("construct", x, None, v), "new")
  /\ UNCHANGED old

\* String()
EmptyCall(t, x) ==
  /\ data[x] = None /\ Begin(t, Call("construct", x, None, 0), "link")
  /\ UNCHANGED old

\* String(const String&)
CopyCall(t, x, y) ==
  /\ data[x] = None /\ Begin(t, Call("copy", x, y, None), "link")
  /\ UNCHANGED old

\* operator=: two objects on the same data are left alone.
AssignCall(t, x, y) ==
  /\ data[x] # None /\ Begin(t, Call("assign", x, y, None), "assign")
  /\ UNCHANGED old

ModifyCall(t, x) ==
  /\ data[x] # None /\ Begin(t, Call("modify", x, None, None), "test")
  /\ UNCHANGED old

DestroyCall(t, x) ==
  /\ data[x] # None /\ Begin(t, Call("destroy", x, None, None), "release")
  /\ old' = [old EXCEPT ![t] = data[x]]

Return(t) == /\ Goto(t, "idle")
             /\ req' = [req EXCEPT ![t] = Idle]
             /\ old' = [old EXCEPT ![t] = None]
             /\ was' = [was EXCEPT ![t] = None]

-----------------------------------------------------------------------------
(* Data and links *)

\* iinitData(): a block of its own, with one link.
Allocate(t, b, c) ==
  /\ b \notin heap
  /\ heap' = heap \cup {b}
  /\ links' = [links EXCEPT ![b] = 1]
  /\ content' = [content EXCEPT ![b] = c]
  /\ data' = [data EXCEPT ![Obj(t)] = b]

\* iinitCopyData()
New(t) ==
  /\ pc[t] = "new"
  /\ \E b \in Buffers : Allocate(t, b, req[t].arg)
  /\ Return(t)

AssignSame(t) ==
  /\ pc[t] = "assign" /\ data[Obj(t)] = data[Src(t)]
  /\ Return(t) /\ UNCHANGED <<data, memory>>

AssignOther(t) ==
  /\ pc[t] = "assign" /\ data[Obj(t)] # data[Src(t)]
  /\ old' = [old EXCEPT ![t] = data[Obj(t)]]
  /\ Goto(t, "release")
  /\ UNCHANGED <<data, memory, req, was>>

\* iislinked(): shared data is copied, and so is data with too little room.
TestShared(t) ==
  /\ pc[t] = "test" /\ Goto(t, "copy")
  /\ UNCHANGED <<data, memory, req, old, was>>

\* Mutant of TestOwn: the data is modified in place, shared or not.
TestNot(t) ==
  /\ pc[t] = "test" /\ data[Obj(t)] # Null /\ Goto(t, "write")
  /\ UNCHANGED <<data, memory, req, old, was>>

TestOwn(t) ==
  /\ pc[t] = "test" /\ ~(links[data[Obj(t)]] > 1)
  /\ Goto(t, "write")
  /\ UNCHANGED <<data, memory, req, old, was>>

\* iunlinkCopyData()
UnlinkCopy(t) ==
  /\ pc[t] = "copy"
  /\ old' = [old EXCEPT ![t] = data[Obj(t)]]
  /\ \E b \in Buffers : Allocate(t, b, content[data[Obj(t)]])
  /\ Goto(t, "release")
  /\ UNCHANGED <<req, was>>

\* Where a call goes on when its data is released.
Released(t) == CASE req[t].op = "assign"  -> "link"
                 [] req[t].op = "modify"  -> "write"
                 [] req[t].op = "destroy" -> "gone"

\* Mutant of Release: links is tested after it is lowered.
ReleaseTested(t) ==
  /\ pc[t] = "release"
  /\ links' = [links EXCEPT ![old[t]] = @ - 1]
  /\ Goto(t, IF links'[old[t]] = 1 THEN "delete" ELSE Released(t))
  /\ UNCHANGED <<data, heap, content, req, old, was>>

\* ireleaseData(): (links--) == 1 tells the last link.
Release(t) ==
  /\ pc[t] = "release"
  /\ links' = [links EXCEPT ![old[t]] = @ - 1]
  /\ Goto(t, IF links[old[t]] = 1 THEN "delete" ELSE Released(t))
  /\ UNCHANGED <<data, heap, content, req, old, was>>

Delete(t) ==
  /\ pc[t] = "delete"
  /\ heap' = heap \ {old[t]}
  /\ Goto(t, Released(t))
  /\ UNCHANGED <<data, links, content, req, old, was>>

Gone(t) ==
  /\ pc[t] = "gone"
  /\ data' = [data EXCEPT ![Obj(t)] = None]
  /\ Return(t) /\ UNCHANGED memory

\* The data iflatCopyData() shares: the source's, or _nullstring.
Given(t) == IF Src(t) = None THEN Null ELSE data[Src(t)]

\* iflatCopyData(): first the link, then the pointer.
Link(t) ==
  /\ pc[t] = "link"
  /\ links' = [links EXCEPT ![Given(t)] = @ + 1]
  /\ Goto(t, "set")
  /\ UNCHANGED <<data, heap, content, req, old, was>>

SetData(t) ==
  /\ pc[t] = "set"
  /\ data' = [data EXCEPT ![Obj(t)] = Given(t)]
  /\ Return(t) /\ UNCHANGED memory

\* The characters are changed one after the other.
Write(t) ==
  /\ pc[t] = "write"
  /\ content' = [content EXCEPT ![data[Obj(t)]] = Half(@)]
  /\ Goto(t, "writing")
  /\ UNCHANGED <<data, heap, links, req, old, was>>

Written(t) ==
  /\ pc[t] = "writing"
  /\ content' = [content EXCEPT ![data[Obj(t)]] = Half(@)]
  /\ Return(t) /\ UNCHANGED <<data, heap, links>>

-----------------------------------------------------------------------------
Step(t) ==
  \/ New(t) \/ AssignSame(t) \/ AssignOther(t)
  \/ TestShared(t) \/ TestOwn(t) \/ UnlinkCopy(t)
  \/ Release(t) \/ Delete(t) \/ Gone(t) \/ Link(t) \/ SetData(t)
  \/ Write(t) \/ Written(t)

Next ==
  \E t \in Threads :
    \/ Step(t)
    \/ \E x \in Objects :
         \/ EmptyCall(t, x) \/ ModifyCall(t, x) \/ DestroyCall(t, x)
         \/ \E v \in Values : ConstructCall(t, x, v)
         \/ \E y \in Objects : CopyCall(t, x, y) \/ AssignCall(t, x, y)

Spec == Init /\ [][Next]_vars

-----------------------------------------------------------------------------
(* Properties *)

Places == {"idle", "new", "assign", "test", "copy", "release", "delete", "gone",
           "link", "set", "write", "writing"}

\* Objects and calls under way refer to data there can be, and the count of
\* links of any data is not negative.
TypeOK ==
  /\ data \in [Objects -> Buffers \cup {Null, None}]
  /\ heap \subseteq Buffers
  /\ links \in [Buffers \cup {Null} -> Nat]
  /\ content \in [Buffers \cup {Null} -> 0..2 * Kinds - 1]
  /\ pc \in [Threads -> Places]
  /\ req \in [Threads -> [op : {"none", "construct", "copy", "assign", "modify", "destroy"},
                          obj : Objects \cup {None}, src : Objects \cup {None},
                          arg : Values \cup {None}]]
  /\ old \in [Threads -> Buffers \cup {Null, None}]
  /\ was \in [Threads -> 0..2 * Kinds - 1 \cup {None}]

\* A call that has released what its object referred to, the pointer still there.
LetGo(t) == pc[t] \in {"delete", "gone", "link", "set"} /\ req[t].op \in {"assign", "destroy"}

\* Who keeps b: the objects on it, a call that copied it and has yet to release
\* it, a call that has linked it and has yet to set its object's pointer.
Keepers(b) ==
  {x \in Objects : data[x] = b /\ \A t \in Threads : LetGo(t) => Obj(t) # x}
    \cup {t \in Threads : pc[t] = "release" /\ req[t].op = "modify" /\ old[t] = b}
    \cup {t \in Threads : pc[t] = "set" /\ Given(t) = b}

\* links counts who keeps the data, at every point between two atomic steps, so
\* iislinked() is right about data that nobody else keeps (String.h:90, 146-172).
\* Every variable has its type.
LinksCounted ==
  /\ TypeOK
  /\ \A b \in heap \cup {Null} :
       links[b] = Cardinality(Keepers(b)) + (IF b = Null THEN Pinned ELSE 0)

\* Data is freed when its last keeper lets go and never before: nothing kept is
\* off the heap, and all that is on it is kept or about to be deleted by one
\* thread, also when two threads release the same data at once (String.h:146-161).
\* The count of links is exact all along.
FreedByLast ==
  /\ LinksCounted
  /\ \A b \in Buffers :
       LET deleting == {t \in Threads : pc[t] = "delete" /\ old[t] = b}
       IN  IF b \in heap THEN Cardinality(deleting) = (IF Keepers(b) = {} THEN 1 ELSE 0)
           ELSE Keepers(b) = {} /\ deleting = {}

=============================================================================
