--------------------------- MODULE SharedStringProof ---------------------------
(***************************************************************************)
(* Proofs about SharedString for any threads, objects, buffers and values: *)
(* the count of links is exact, data is freed by its last keeper, and the  *)
(* strings implement StringValue, where each has a value of its own.       *)
(***************************************************************************)
EXTENDS MCSharedString, FiniteSetTheorems, TLAPS

Op(t) == req[t].op

(* What a call may rely on: its object is its own, its source is changed   *)
(* by nobody, and what it has done so far shows in its object and in old.  *)
CallOk(t) ==
  /\ IF pc[t] = "idle" THEN req[t] = Idle
     ELSE Obj(t) \in Objects /\ Op(t) # "none"
  /\ \A u \in Threads :
       /\ t # u /\ pc[t] # "idle" => Obj(t) # Obj(u)
       /\ Src(t) # None => Src(t) # Obj(u)
  /\ Src(t) # None => data[Src(t)] # None
  /\ pc[t] = "new" => Op(t) = "construct" /\ req[t].arg \in Values
  /\ pc[t] = "assign" => Op(t) = "assign"
  /\ pc[t] \in {"test", "copy", "write", "writing"} => Op(t) = "modify"
  /\ pc[t] \in {"release", "delete"} => Op(t) \in {"assign", "modify", "destroy"}
  /\ pc[t] = "gone" => Op(t) = "destroy"
  /\ pc[t] \in {"link", "set"} => Op(t) \in {"construct", "copy", "assign"}
  /\ Op(t) \in {"construct", "copy"} => data[Obj(t)] = None
  /\ Op(t) \in {"assign", "modify", "destroy"} => data[Obj(t)] # None
  /\ Op(t) = "assign" => Src(t) # None
  /\ pc[t] = "release" => old[t] # None /\ (Op(t) # "modify" => old[t] = data[Obj(t)])
  /\ pc[t] = "delete" => old[t] \in Buffers

CallInv == \A t \in Threads : CallOk(t)

Deleting(t, b) == pc[t] = "delete" /\ old[t] = b

(* The heap is what is kept, and what one thread is about to delete.       *)
HeapInv ==
  \A b \in Buffers :
    /\ b \in heap => Keepers(b) # {} \/ \E t \in Threads : Deleting(t, b)
    /\ b \notin heap => Keepers(b) = {}
    /\ \A t \in Threads : Deleting(t, b) => b \in heap /\ Keepers(b) = {}
    /\ \A t, u \in Threads : Deleting(t, b) /\ Deleting(u, b) => t = u

StringInv == LinksCounted /\ CallInv /\ HeapInv

-----------------------------------------------------------------------------
(* The keepers of any data are finitely many.                              *)
LEMMA KeepersFinite == ASSUME NEW b PROVE IsFiniteSet(Keepers(b))
<1>1. IsFiniteSet(Threads \cup Objects)
  BY StringAssumption, FS_Union
<1>2. Keepers(b) \in SUBSET (Threads \cup Objects)
  BY DEF Keepers
<1> QED BY <1>1, <1>2, FS_Subset

(* A half modification of a content is a content.                          *)
LEMMA HalfType == ASSUME NEW c \in 0..2 * Kinds - 1 PROVE Half(c) \in 0..2 * Kinds - 1
<1> DEFINE m == 2 * Kinds
<1>1. m \in Nat \ {0}
  BY StringAssumption
<1>2. (c + 1) \in Int
  OBVIOUS
<1>3. \A n \in Int : n % m \in 0..m - 1
  <2> HIDE DEF m
  <2> QED BY <1>1
<1> QED BY <1>2, <1>3 DEF Half

-----------------------------------------------------------------------------
\* The calls.
Calls(t) ==
  \E x \in Objects :
    \/ EmptyCall(t, x) \/ ModifyCall(t, x) \/ DestroyCall(t, x)
    \/ \E v \in Values : ConstructCall(t, x, v)
    \/ \E y \in Objects : CopyCall(t, x, y) \/ AssignCall(t, x, y)

(* What every call has in common, and where each begins.                  *)
LEMMA CallIs ==
  ASSUME TypeOK, NEW t \in Threads, Calls(t)
  PROVE  \E x \in Objects, y \in Objects \cup {None}, v \in Values \cup {None},
            op \in {"construct", "copy", "assign", "modify", "destroy"},
            place \in {"new", "link", "assign", "test", "release"} :
           /\ Begin(t, Call(op, x, y, v), place)
           /\ op \in {"construct", "copy"} <=> data[x] = None
           /\ op \in {"construct", "modify", "destroy"} => y = None
           /\ op \in {"copy", "assign"} => y # None
           /\ IF op = "construct" THEN v \in Values ELSE v = None
           /\ place = "new" => op = "construct"
           /\ place = "link" => op \in {"construct", "copy"} /\ v \in {0, None}
           /\ place = "assign" <=> op = "assign"
           /\ place = "test" <=> op = "modify"
           /\ place = "release" <=> op = "destroy"
           /\ old' = IF op = "destroy" THEN [old EXCEPT ![t] = data[x]] ELSE old
<1>0. 0 \in Values /\ None \notin Objects \cup Values
  BY StringAssumption DEF Values
<1> PICK x \in Objects :
    \/ EmptyCall(t, x) \/ ModifyCall(t, x) \/ DestroyCall(t, x)
    \/ \E v \in Values : ConstructCall(t, x, v)
    \/ \E y \in Objects : CopyCall(t, x, y) \/ AssignCall(t, x, y)
  BY DEF Calls
<1>1. CASE EmptyCall(t, x)   BY <1>0, <1>1 DEF EmptyCall
<1>2. CASE ModifyCall(t, x)  BY <1>2 DEF ModifyCall
<1>3. CASE DestroyCall(t, x) BY <1>3 DEF DestroyCall
<1>4. CASE \E v \in Values : ConstructCall(t, x, v)
  BY <1>4 DEF ConstructCall
<1>5. CASE \E y \in Objects : CopyCall(t, x, y)
  BY <1>0, <1>5 DEF CopyCall
<1>6. CASE \E y \in Objects : AssignCall(t, x, y)
  BY <1>0, <1>6 DEF AssignCall
<1> QED BY <1>1, <1>2, <1>3, <1>4, <1>5, <1>6

-----------------------------------------------------------------------------
(* A call that begins keeps the types.                                     *)
LEMMA CallTypes ==
  ASSUME TypeOK, NEW t \in Threads, Calls(t)
  PROVE  TypeOK'
<1> PICK x \in Objects, y \in Objects \cup {None}, v \in Values \cup {None},
         op \in {"construct", "copy", "assign", "modify", "destroy"},
         place \in {"new", "link", "assign", "test", "release"} :
      /\ Begin(t, Call(op, x, y, v), place)
      /\ old' = IF op = "destroy" THEN [old EXCEPT ![t] = data[x]] ELSE old
  BY CallIs
<1>1. Call(op, x, y, v).obj = x
  BY DEF Call
<1>2. was' \in [Threads -> 0..2 * Kinds - 1 \cup {None}]
  <2>1. data[x] # None => data[x] \in Buffers \cup {Null}
    BY DEF TypeOK
  <2> QED BY <1>1, <2>1 DEF TypeOK, Begin
<1>3. pc' \in [Threads -> Places]
  BY DEF TypeOK, Begin, Goto, Places
<1>4. req' \in [Threads -> [op : {"none", "construct", "copy", "assign", "modify", "destroy"},
                          obj : Objects \cup {None}, src : Objects \cup {None},
                          arg : Values \cup {None}]]
  BY DEF TypeOK, Begin, Call
<1> QED BY <1>2, <1>3, <1>4 DEF TypeOK, Begin, memory

(* The data a call is about to release is kept, by its object or by the    *)
(* call itself, so there is a link to lower.                               *)
LEMMA ReleasesLink ==
  ASSUME StringInv, NEW t \in Threads, pc[t] = "release"
  PROVE  /\ old[t] \in heap \cup {Null}
         /\ (IF Op(t) = "modify" THEN t ELSE Obj(t)) \in Keepers(old[t])
         /\ links[old[t]] \in Nat \ {0}
         /\ old[t] = Null => links[old[t]] > 1
<1> USE DEF StringInv, LinksCounted, TypeOK
<1>1. old[t] \in Buffers \cup {Null}
  BY DEF CallInv, CallOk
<1>2. (IF Op(t) = "modify" THEN t ELSE Obj(t)) \in Keepers(old[t])
  BY DEF CallInv, CallOk, Keepers, LetGo, Op
<1>3. old[t] \in heap \cup {Null}
  BY <1>1, <1>2 DEF HeapInv
<1>4. Cardinality(Keepers(old[t])) \in Nat \ {0}
  BY <1>2, KeepersFinite, FS_CardinalityType, FS_EmptySet
<1> QED BY <1>2, <1>3, <1>4, StringAssumption DEF Pinned

(* A step inside a call keeps the types.                                   *)
LEMMA StepTypes ==
  ASSUME StringInv, NEW t \in Threads, Step(t)
  PROVE  TypeOK'
<1> USE DEF StringInv, LinksCounted, TypeOK
<1> DEFINE Req == [op : {"none", "construct", "copy", "assign", "modify", "destroy"},
                   obj : Objects \cup {None}, src : Objects \cup {None},
                   arg : Values \cup {None}]
<1>0. Idle \in Req /\ 1 \in Nat
  BY DEF Idle
<1>a. ASSUME Return(t)
      PROVE  /\ pc' \in [Threads -> Places] /\ req' \in [Threads -> Req]
             /\ old' \in [Threads -> Buffers \cup {Null, None}]
             /\ was' \in [Threads -> 0..2 * Kinds - 1 \cup {None}]
  BY <1>0, <1>a DEF Return, Goto, Places
<1>b. ASSUME NEW place \in Places, Goto(t, place) PROVE pc' \in [Threads -> Places]
  BY <1>b DEF Goto
<1>c. pc[t] # "idle" => Obj(t) \in Objects
  BY DEF CallInv, CallOk
<1>1. CASE New(t)
  <2>1. req[t].arg \in 0..2 * Kinds - 1
    BY <1>1, StringAssumption DEF New, CallInv, CallOk, Values
  <2> QED BY <1>1, <1>a, <1>c, <2>1 DEF New, Allocate
<1>2. CASE AssignSame(t)  BY <1>2, <1>a DEF AssignSame, memory
<1>3. CASE AssignOther(t) BY <1>3, <1>b, <1>c DEF AssignOther, memory, Places
<1>4. CASE TestShared(t)  BY <1>4, <1>b DEF TestShared, memory, Places
<1>5. CASE TestOwn(t)     BY <1>5, <1>b DEF TestOwn, memory, Places
<1>6. CASE UnlinkCopy(t)
  <2>1. data[Obj(t)] \in Buffers \cup {Null}
    BY <1>6, <1>c DEF UnlinkCopy, CallInv, CallOk
  <2> PICK b \in Buffers : Allocate(t, b, content[data[Obj(t)]])
    BY <1>6 DEF UnlinkCopy
  <2>2. "release" \in Places
    BY DEF Places
  <2>3. pc' \in [Threads -> Places]
    BY <1>6, <1>b, <2>2 DEF UnlinkCopy
  <2>4. old' \in [Threads -> Buffers \cup {Null, None}]
    BY <1>6, <2>1 DEF UnlinkCopy
  <2>5. data' \in [Objects -> Buffers \cup {Null, None}]
    BY <1>6, <1>c DEF Allocate, UnlinkCopy
  <2> QED BY <1>0, <1>6, <2>1, <2>3, <2>4, <2>5 DEF UnlinkCopy, Allocate
<1>7. CASE Release(t)
  <2>1. Released(t) \in Places /\ "delete" \in Places
    BY <1>7 DEF Release, Released, CallInv, CallOk, Places, Op
  <2>3. pc' \in [Threads -> Places]
    BY <1>7, <1>b, <2>1 DEF Release
  <2>2. old[t] \in Buffers \cup {Null} /\ links[old[t]] - 1 \in Nat
    BY <1>7, ReleasesLink DEF Release
  <2> QED BY <1>7, <2>2, <2>3 DEF Release
<1>8. CASE Delete(t)
  <2>1. Released(t) \in Places
    BY <1>8 DEF Delete, Released, CallInv, CallOk, Places, Op
  <2> QED BY <1>8, <1>b, <2>1 DEF Delete
<1>9. CASE Gone(t)        BY <1>9, <1>a DEF Gone, memory
<1>10. CASE Link(t)
  <2>1. Given(t) \in Buffers \cup {Null}
    BY <1>10 DEF Link, Given, CallInv, CallOk, Src
  <2> QED BY <1>10, <1>b, <2>1 DEF Link, Places
<1>11. CASE SetData(t)
  <2>1. Given(t) \in Buffers \cup {Null}
    BY <1>11 DEF SetData, Given, CallInv, CallOk, Src
  <2> QED BY <1>11, <1>a, <2>1 DEF SetData, memory
<1>d. pc[t] \in {"write", "writing"} => data[Obj(t)] \in Buffers \cup {Null}
  BY <1>c DEF CallInv, CallOk
<1>12. CASE Write(t)
  BY <1>12, <1>b, <1>d, HalfType DEF Write, Places
<1>13. CASE Written(t)
  BY <1>13, <1>a, <1>d, HalfType DEF Written
<1> QED
  BY <1>1, <1>2, <1>3, <1>4, <1>5, <1>6, <1>7, <1>8, <1>9, <1>10, <1>11, <1>12, <1>13 DEF Step

-----------------------------------------------------------------------------
(* A call that begins finds its object and source as CallInv says, and the *)
(* calls of the other threads as they were.                                *)
LEMMA CallCalls ==
  ASSUME TypeOK, CallInv, NEW t \in Threads, Calls(t)
  PROVE  CallInv'
<1> PICK x \in Objects, y \in Objects \cup {None}, v \in Values \cup {None},
         op \in {"construct", "copy", "assign", "modify", "destroy"},
         place \in {"new", "link", "assign", "test", "release"} :
           /\ Begin(t, Call(op, x, y, v), place)
           /\ op \in {"construct", "copy"} <=> data[x] = None
           /\ op \in {"construct", "modify", "destroy"} => y = None
           /\ op \in {"copy", "assign"} => y # None
           /\ op = "construct" => v \in Values
           /\ place = "new" => op = "construct"
           /\ place = "link" => op \in {"construct", "copy"}
           /\ place = "assign" <=> op = "assign"
           /\ place = "test" <=> op = "modify"
           /\ place = "release" <=> op = "destroy"
           /\ old' = IF op = "destroy" THEN [old EXCEPT ![t] = data[x]] ELSE old
  BY CallIs
<1> USE DEF TypeOK, Obj, Src, Op
<1>1. /\ pc[t] = "idle" /\ pc' = [pc EXCEPT ![t] = place]
      /\ req' = [req EXCEPT ![t] = [op |-> op, obj |-> x, src |-> y, arg |-> v]]
      /\ data' = data
      /\ \A u \in Threads \ {t} : req[u].obj # x /\ req[u].src # x
      /\ y # None => y # x /\ data[y] # None /\ \A u \in Threads \ {t} : req[u].obj # y
  BY DEF Begin, Call, Goto, Writable, Readable
<1>2. x # None
  BY StringAssumption
<1> SUFFICES ASSUME NEW u \in Threads PROVE CallOk(u)'
  BY DEF CallInv
<1>3. CASE u = t
  BY <1>1, <1>2, <1>3 DEF CallInv, CallOk
<1>4. CASE u # t
  BY <1>1, <1>2, <1>4 DEF CallInv, CallOk, Idle
<1> QED BY <1>3, <1>4

(* A step changes no call but its own, and at most the pointer of its own  *)
(* object, which no other call uses.                                       *)
LEMMA StepCalls ==
  ASSUME StringInv, NEW t \in Threads, Step(t)
  PROVE  CallInv'
<1> USE DEF StringInv, LinksCounted, TypeOK, Obj, Src, Op, Goto
<1>0. pc[t] # "idle" /\ req[t].obj \in Objects
  BY DEF CallInv, CallOk, Step, New, AssignSame, AssignOther, TestShared, TestOwn, UnlinkCopy,
         Release, Delete, Gone, Link, SetData, Write, Written
<1>1. /\ \A u \in Threads \ {t} : pc'[u] = pc[u] /\ req'[u] = req[u] /\ old'[u] = old[u]
      /\ \A x \in Objects \ {req[t].obj} : data'[x] = data[x]
      /\ req'[t] \in {req[t], Idle}
  BY <1>0 DEF Step, New, AssignSame, AssignOther, TestShared, TestOwn, UnlinkCopy, Allocate,
         Release, Delete, Gone, Link, SetData, Write, Written, Return, memory
<1>2. ASSUME NEW u \in Threads \ {t} PROVE CallOk(u)'
  <2>1. CallOk(u) /\ CallOk(t)
    BY DEF CallInv
  <2>2. req[u].src # None => req[u].src # req[t].obj /\ data'[req[u].src] = data[req[u].src]
    BY <1>0, <1>1, <2>1 DEF CallOk
  <2>3. pc[u] # "idle" => req[u].obj # req[t].obj /\ data'[req[u].obj] = data[req[u].obj]
    BY <1>0, <1>1, <2>1 DEF CallOk
  <2>4. \A w \in Threads : Obj(w)' \in {Obj(w), None}
    BY <1>1 DEF Idle
  <2>5. None \notin Objects
    BY StringAssumption
  <2>6. pc[u] = "idle" => Op(u) = "none"
    BY <2>1 DEF CallOk, Idle
  <2> QED BY <1>1, <2>1, <2>2, <2>3, <2>4, <2>5, <2>6 DEF CallOk, Idle
<1> SUFFICES CallOk(t)'
  BY <1>2 DEF CallInv
<1>3. ASSUME req'[t] = Idle, pc'[t] = "idle" PROVE CallOk(t)'
  BY <1>3 DEF CallOk, Idle
<1>a. ASSUME req'[t] = req[t],
             data'[Obj(t)] = data[Obj(t)] \/ (Op(t) = "modify" /\ data'[Obj(t)] # None)
      PROVE  /\ Obj(t)' \in Objects /\ Op(t)' # "none"
             /\ \A u \in Threads :
                  /\ t # u => Obj(t)' # Obj(u)'
                  /\ Src(t)' # None => Src(t)' # Obj(u)'
             /\ Src(t)' # None => data'[Src(t)'] # None
             /\ Op(t)' \in {"construct", "copy"} => data'[Obj(t)'] = None
             /\ Op(t)' \in {"assign", "modify", "destroy"} => data'[Obj(t)'] # None
             /\ Op(t)' = "assign" => Src(t)' # None
  <2>1. CallOk(t)
    BY DEF CallInv
  <2>2. \A w \in Threads : Obj(w)' \in {Obj(w), None}
    BY <1>1 DEF Idle
  <2>3. None \notin Objects
    BY StringAssumption
  <2> QED BY <1>0, <1>1, <1>a, <2>1, <2>2, <2>3 DEF CallOk
<1>b. CallOk(t)
  BY DEF CallInv
<1>4. CASE AssignOther(t)
  BY <1>0, <1>a, <1>b, <1>4 DEF AssignOther, CallOk, memory
<1>5. CASE TestShared(t)
  BY <1>0, <1>a, <1>b, <1>5 DEF TestShared, CallOk, memory
<1>6. CASE TestOwn(t)
  BY <1>0, <1>a, <1>b, <1>6 DEF TestOwn, CallOk, memory
<1>7. CASE UnlinkCopy(t)
  <2>1. data[req[t].obj] # None /\ data'[req[t].obj] # None /\ Op(t) = "modify"
    BY <1>0, <1>7, <1>b, StringAssumption DEF UnlinkCopy, Allocate, CallOk
  <2>2. pc'[t] = "release" /\ old'[t] = data[req[t].obj] /\ req'[t] = req[t]
    BY <1>7 DEF UnlinkCopy
  <2> QED BY <1>a, <2>1, <2>2 DEF CallOk
<1>8. CASE Release(t)
  <2>1. old[t] \in heap \cup {Null} /\ (old[t] = Null => links[old[t]] > 1)
    BY <1>8, ReleasesLink DEF Release
  <2>2. links[old[t]] = 1 => old[t] \in Buffers
    BY <2>1
  <2> QED BY <1>0, <1>a, <1>b, <1>8, <2>2 DEF Release, Released, CallOk
<1>9. CASE Delete(t)
  <2>1. Op(t) \in {"assign", "modify", "destroy"}
    BY <1>9, <1>b DEF Delete, CallOk
  <2>2. pc'[t] = Released(t) /\ req'[t] = req[t] /\ data'[Obj(t)] = data[Obj(t)]
    BY <1>9 DEF Delete
  <2>3. /\ Op(t) = "assign" => pc'[t] = "link"
        /\ Op(t) = "modify" => pc'[t] = "write"
        /\ Op(t) = "destroy" => pc'[t] = "gone"
    BY <2>2 DEF Released
  <2> QED BY <1>a, <2>1, <2>2, <2>3 DEF CallOk
<1>10. CASE Link(t)
  <2>1. pc'[t] = "set" /\ req'[t] = req[t] /\ data'[Obj(t)] = data[Obj(t)]
    BY <1>10 DEF Link
  <2>2. Op(t) \in {"construct", "copy", "assign"}
    BY <1>10, <1>b DEF Link, CallOk
  <2> QED BY <1>a, <2>1, <2>2 DEF CallOk
<1>11. CASE Write(t)
  BY <1>0, <1>a, <1>b, <1>11 DEF Write, CallOk
<1>12. CASE New(t) \/ AssignSame(t) \/ Gone(t) \/ SetData(t) \/ Written(t)
  BY <1>0, <1>3, <1>12 DEF New, AssignSame, Gone, SetData, Written, Return
<1> QED BY <1>4, <1>5, <1>6, <1>7, <1>8, <1>9, <1>10, <1>11, <1>12 DEF Step

-----------------------------------------------------------------------------
(* Who keeps what after a step: nothing changes when a call begins.        *)
LEMMA CallKeepers ==
  ASSUME TypeOK, CallInv, NEW t \in Threads, Calls(t), NEW b
  PROVE  Keepers(b)' = Keepers(b) /\ UNCHANGED memory
<1> PICK x \in Objects, y \in Objects \cup {None}, v \in Values \cup {None},
         op \in {"construct", "copy", "assign", "modify", "destroy"},
         place \in {"new", "link", "assign", "test", "release"} :
           /\ Begin(t, Call(op, x, y, v), place)
           /\ place = "link" => op \in {"construct", "copy"}
           /\ place = "release" <=> op = "destroy"
           /\ old' = IF op = "destroy" THEN [old EXCEPT ![t] = data[x]] ELSE old
  BY CallIs
<1> USE DEF TypeOK, Obj, Src
<1>1. /\ pc[t] = "idle" /\ pc' = [pc EXCEPT ![t] = place]
      /\ req' = [req EXCEPT ![t] = [op |-> op, obj |-> x, src |-> y, arg |-> v]]
      /\ data' = data
  BY DEF Begin, Call, Goto
<1>2. \A u \in Threads : LetGo(u)' = LetGo(u) /\ (LetGo(u) => u # t)
  BY <1>1 DEF LetGo
<1>3. \A u \in Threads \ {t} : pc'[u] = pc[u] /\ req'[u] = req[u] /\ old'[u] = old[u]
  BY <1>1
<1>4. pc[t] = "idle" /\ pc'[t] # "set" /\ (pc'[t] = "release" => req'[t].op = "destroy")
  BY <1>1
<1>5. \A u \in Threads \ {t} : Given(u)' = Given(u)
  BY <1>1, <1>3 DEF Given
<1> QED BY <1>1, <1>2, <1>3, <1>4, <1>5 DEF Keepers, Begin

(* Of a thread and its object, what makes each a keeper.                   *)
Holds(t, b) == \/ pc[t] = "release" /\ Op(t) = "modify" /\ old[t] = b
               \/ pc[t] = "set" /\ Given(t) = b

LEMMA KeepersNow ==
  ASSUME StringInv, NEW t \in Threads, NEW b, pc[t] # "idle"
  PROVE  /\ Obj(t) \in Objects /\ Obj(t) \notin Threads /\ t \notin Objects
         /\ Obj(t) \in Keepers(b) <=> data[Obj(t)] = b /\ ~LetGo(t)
         /\ t \in Keepers(b) <=> Holds(t, b)
<1>1. Obj(t) \in Objects /\ Obj(t) \notin Threads /\ t \notin Objects
  BY StringAssumption DEF StringInv, CallInv, CallOk
<1>2. \A u \in Threads \ {t} : LetGo(u) => Obj(u) # Obj(t)
  BY DEF StringInv, CallInv, CallOk, LetGo
<1> QED BY <1>1, <1>2 DEF Keepers, Holds, Op

(* A step inside a call changes only whether it and its object are keepers. *)
LEMMA KeepersAfter ==
  ASSUME StringInv, NEW t \in Threads, Step(t), NEW b
  PROVE  /\ pc[t] # "idle"
         /\ \A k : k \notin {t, Obj(t)} => (k \in Keepers(b)' <=> k \in Keepers(b))
         /\ Obj(t) \in Keepers(b)' <=> data'[Obj(t)] = b /\ ~LetGo(t)'
         /\ t \in Keepers(b)' <=> Holds(t, b)'
<1> USE DEF StringInv, LinksCounted, TypeOK, Obj, Src, Goto
<1>0. pc[t] # "idle" /\ req[t].obj \in Objects /\ req[t].obj \notin Threads /\ t \notin Objects
  BY StringAssumption
     DEF CallInv, CallOk, Step, New, AssignSame, AssignOther, TestShared, TestOwn, UnlinkCopy,
         Release, Delete, Gone, Link, SetData, Write, Written
<1>1. /\ \A u \in Threads \ {t} : pc'[u] = pc[u] /\ req'[u] = req[u] /\ old'[u] = old[u]
      /\ \A x \in Objects \ {req[t].obj} : data'[x] = data[x]
      /\ req'[t] = req[t] \/ (req'[t] = Idle /\ pc'[t] = "idle")
  BY <1>0 DEF Step, New, AssignSame, AssignOther, TestShared, TestOwn, UnlinkCopy, Allocate,
         Release, Delete, Gone, Link, SetData, Write, Written, Return, memory
<1>2. \A u \in Threads \ {t} : LetGo(u)' = LetGo(u) /\ (LetGo(u) => Obj(u) # Obj(t))
  BY <1>0, <1>1 DEF LetGo, CallInv, CallOk
<1>3. LetGo(t)' => Obj(t)' = Obj(t)
  BY <1>1 DEF LetGo
<1>5. \A u \in Threads \ {t} : Given(u)' = Given(u)
  <2> TAKE u \in Threads \ {t}
  <2>1. Src(u) # None => Src(u) # Obj(t) /\ Src(u) \in Objects
    BY DEF CallInv, CallOk
  <2> QED BY <1>1, <2>1 DEF Given
<1>6. ASSUME NEW k, k \notin {t, Obj(t)} PROVE k \in Keepers(b)' <=> k \in Keepers(b)
  <2>1. CASE k \in Objects
    <3>1. k \notin Threads
      BY <2>1, StringAssumption
    <3>2. \A u \in Threads : (LetGo(u)' => Obj(u)' # k) <=> (LetGo(u) => Obj(u) # k)
      BY <1>1, <1>2, <1>3, <1>6
    <3> QED BY <1>1, <1>6, <2>1, <3>1, <3>2 DEF Keepers
  <2>2. CASE k \notin Objects
    BY <1>1, <1>5, <1>6, <2>2 DEF Keepers
  <2> QED BY <2>1, <2>2
<1>7. Obj(t) \in Keepers(b)' <=> data'[Obj(t)] = b /\ ~LetGo(t)'
  BY <1>0, <1>1, <1>2, <1>3 DEF Keepers
<1>8. t \in Keepers(b)' <=> Holds(t, b)'
  BY <1>0 DEF Keepers, Holds, Op
<1> QED BY <1>0, <1>6, <1>7, <1>8

(* Replacing a member by another keeps the cardinality.                    *)
LEMMA Swapped ==
  ASSUME NEW S, IsFiniteSet(S), NEW a \in S, NEW c, c \notin S
  PROVE  Cardinality((S \ {a}) \cup {c}) = Cardinality(S)
<1>1. IsFiniteSet(S \ {a}) /\ Cardinality(S \ {a}) = Cardinality(S) - 1
  BY FS_RemoveElement
<1>2. Cardinality((S \ {a}) \cup {c}) = Cardinality(S \ {a}) + 1
  BY <1>1, FS_AddElement
<1>3. Cardinality(S) \in Nat
  BY FS_CardinalityType
<1> QED BY <1>1, <1>2, <1>3

(* The steps that move no pointer and no link keep the keepers.            *)
LEMMA QuietKeepers ==
  ASSUME StringInv, NEW t \in Threads, Step(t), NEW b \in Buffers \cup {Null},
         AssignSame(t) \/ AssignOther(t) \/ TestShared(t) \/ TestOwn(t) \/ Delete(t) \/ Gone(t)
           \/ Write(t) \/ Written(t)
  PROVE  Keepers(b)' = Keepers(b)
<1> USE DEF StringInv, LinksCounted, TypeOK, Obj, Op, Goto, Holds, LetGo, CallOk
<1>0. CallOk(t) /\ b # None
  BY StringAssumption DEF CallInv
<1>1. (data'[Obj(t)] = b /\ ~LetGo(t)') <=> (data[Obj(t)] = b /\ ~LetGo(t))
  <2>1. CASE AssignSame(t)  BY <1>0, <2>1 DEF AssignSame, Return
  <2>2. CASE AssignOther(t) BY <1>0, <2>2 DEF AssignOther
  <2>3. CASE TestShared(t)  BY <1>0, <2>3 DEF TestShared
  <2>4. CASE TestOwn(t)     BY <1>0, <2>4 DEF TestOwn
  <2>5. CASE Delete(t)      BY <1>0, <2>5 DEF Delete, Released
  <2>6. CASE Gone(t)        BY <1>0, <2>6 DEF Gone, Return
  <2>7. CASE Write(t)       BY <1>0, <2>7 DEF Write
  <2>8. CASE Written(t)     BY <1>0, <2>8 DEF Written, Return
  <2> QED BY <2>1, <2>2, <2>3, <2>4, <2>5, <2>6, <2>7, <2>8
<1>2. ~Holds(t, b)' /\ ~Holds(t, b)
  BY <1>0 DEF AssignSame, AssignOther, TestShared, TestOwn, Delete, Gone, Write, Written, Return, Released
<1> HIDE DEF StringInv, LinksCounted, TypeOK, Obj, Op, Goto, Holds, LetGo, CallOk
<1>3. \A k : k \in Keepers(b)' <=> k \in Keepers(b)
  <2>1. pc[t] # "idle"
    BY KeepersAfter
  <2> QED BY <1>1, <1>2, <2>1, KeepersNow, KeepersAfter
<1> QED BY <1>3

(* A new block is kept by its object alone.                                *)
LEMMA NewKeepers ==
  ASSUME StringInv, NEW t \in Threads, New(t)
  PROVE  \E a \in Buffers \ heap :
           /\ heap' = heap \cup {a} /\ links' = [links EXCEPT ![a] = 1]
           /\ Keepers(a)' = {Obj(t)}
           /\ \A b \in (Buffers \cup {Null}) \ {a} : Keepers(b)' = Keepers(b)
<1> PICK a \in Buffers : Allocate(t, a, req[t].arg)
  BY DEF New
<1> USE DEF StringInv, Obj, Op, Goto, Holds, LetGo
<1>1. CallOk(t) /\ Step(t) /\ data \in [Objects -> Buffers \cup {Null, None}]
  BY DEF CallInv, Step, LinksCounted, TypeOK
<1>2. a \notin heap /\ Keepers(a) = {}
  BY DEF Allocate, HeapInv
<1>3. data[Obj(t)] = None /\ data'[Obj(t)] = a /\ ~LetGo(t)' /\ ~Holds(t, a)' /\ ~Holds(t, a)
  BY <1>1, KeepersNow DEF New, Allocate, CallOk, Return
<1>4. ASSUME NEW b \in (Buffers \cup {Null}) \ {a} PROVE Keepers(b)' = Keepers(b)
  <2>1. b # None /\ ~Holds(t, b) /\ ~Holds(t, b)'
    BY StringAssumption DEF New, Return
  <2> QED BY <1>1, <1>3, <2>1, KeepersNow, KeepersAfter
<1>5. Keepers(a)' = {Obj(t)}
  BY <1>1, <1>2, <1>3, KeepersAfter
<1> QED BY <1>2, <1>4, <1>5 DEF Allocate

(* A copy is kept by the object, what was copied by the call in its stead. *)
LEMMA CopyKeepers ==
  ASSUME StringInv, NEW t \in Threads, UnlinkCopy(t)
  PROVE  \E a \in Buffers \ heap, o \in Buffers \cup {Null} :
           /\ heap' = heap \cup {a} /\ links' = [links EXCEPT ![a] = 1]
           /\ Keepers(a)' = {Obj(t)}
           /\ o = data[Obj(t)] /\ data'[Obj(t)] = a /\ content'[a] = content[o]
           /\ Obj(t) \in Keepers(o) /\ t \notin Keepers(o)
           /\ Keepers(o)' = (Keepers(o) \ {Obj(t)}) \cup {t}
           /\ \A b \in (Buffers \cup {Null}) \ {a, o} : Keepers(b)' = Keepers(b)
<1> PICK a \in Buffers : Allocate(t, a, content[data[Obj(t)]])
  BY DEF UnlinkCopy
<1> PICK o : o = data[Obj(t)]
  OBVIOUS
<1> USE DEF StringInv, Op, Goto, Holds, LetGo
<1>1. CallOk(t) /\ Step(t) /\ data \in [Objects -> Buffers \cup {Null, None}]
  BY DEF CallInv, Step, LinksCounted, TypeOK
<1>2. a \notin heap /\ Keepers(a) = {}
  BY DEF Allocate, HeapInv
<1>3. /\ pc[t] = "copy" /\ Op(t) = "modify" /\ Obj(t) \in Objects /\ o \in Buffers \cup {Null}
      /\ data'[Obj(t)] = a /\ pc'[t] = "release" /\ old'[t] = o /\ req' = req
  BY <1>1, KeepersNow, StringAssumption DEF UnlinkCopy, Allocate, CallOk, LinksCounted, TypeOK
<1>4. Obj(t) \in Keepers(o) /\ t \notin Keepers(o) /\ o # a
  BY <1>2, <1>3, KeepersNow
<1>5. \A b : /\ t \in Keepers(b)' <=> b = o
             /\ Obj(t) \in Keepers(b)' <=> b = a
             /\ Obj(t) \in Keepers(b) <=> b = o
             /\ t \notin Keepers(b)
  BY <1>1, <1>3, KeepersNow, KeepersAfter
<1>6. \A b \in (Buffers \cup {Null}) \ {a, o} : Keepers(b)' = Keepers(b)
  BY <1>1, <1>5, KeepersAfter
<1>7. Keepers(a)' = {Obj(t)}
  BY <1>1, <1>2, <1>4, <1>5, KeepersAfter
<1>8. Keepers(o)' = (Keepers(o) \ {Obj(t)}) \cup {t}
  <2> HIDE DEF StringInv, Op, Goto, Holds, LetGo
  <2>1. \A k : k \in Keepers(o)' <=> k \in (Keepers(o) \ {Obj(t)}) \cup {t}
    BY <1>1, <1>4, <1>5, KeepersAfter
  <2> QED BY <2>1
<1>9. content'[a] = content[o]
  BY DEF Allocate, LinksCounted, TypeOK
<1> QED BY <1>2, <1>3, <1>4, <1>6, <1>7, <1>8, <1>9 DEF Allocate

(* What is released loses the keeper that held it.                         *)
LEMMA ReleaseKeepers ==
  ASSUME StringInv, NEW t \in Threads, Release(t)
  PROVE  \E k \in Keepers(old[t]) \cap {t, Obj(t)} :
           \A b : Keepers(b)' = IF b = old[t] THEN Keepers(b) \ {k} ELSE Keepers(b)
<1> DEFINE k == IF Op(t) = "modify" THEN t ELSE Obj(t)
<1>1. CallOk(t) /\ Step(t) /\ pc[t] = "release" /\ req' = req /\ data' = data /\ pc'[t] \notin {"release", "set"}
  BY DEF StringInv, CallInv, CallOk, Step, Release, Released, Goto, Op, LinksCounted, TypeOK
<1>2. k \in Keepers(old[t]) /\ k \in {t, Obj(t)}
  BY <1>1, ReleasesLink
<1>3. LetGo(t)' <=> Op(t) # "modify"
  BY <1>1 DEF LetGo, Release, Released, Goto, CallOk, Op, StringInv, LinksCounted, TypeOK
<1>4. \A b : /\ ~Holds(t, b)' /\ ~LetGo(t)
             /\ Holds(t, b) <=> Op(t) = "modify" /\ old[t] = b
  BY <1>1 DEF Holds, LetGo
<1>5. \A b : Obj(t) \in Keepers(b)' <=> Obj(t) \in Keepers(b) /\ Obj(t) # k
  BY <1>1, <1>3, <1>4, KeepersNow, KeepersAfter DEF Obj
<1>6. \A b : t \in Keepers(b)' <=> t \in Keepers(b) /\ t # k
  BY <1>1, <1>4, KeepersNow, KeepersAfter
<1>7. \A b, m : m \in Keepers(b)' <=> m \in Keepers(b) /\ m # k
  BY <1>1, <1>5, <1>6, KeepersAfter
<1>8. \A b : k \in Keepers(b) <=> b = old[t]
  BY <1>1, <1>4, KeepersNow DEF CallOk
<1> HIDE DEF k
<1>9. \A b : b = old[t] => Keepers(b)' = Keepers(b) \ {k}
  BY <1>7
<1>10. \A b : b # old[t] => Keepers(b)' = Keepers(b)
  BY <1>7, <1>8
<1> QED BY <1>2, <1>9, <1>10

(* What a call is to link is kept, by its source.                          *)
LEMMA GivenKept ==
  ASSUME StringInv, NEW t \in Threads, Given(t) # Null
  PROVE  Src(t) # None /\ Src(t) \in Keepers(Given(t))
<1>1. Src(t) # None => Src(t) \in Objects /\ \A u \in Threads : Src(t) # Obj(u)
  BY DEF StringInv, LinksCounted, TypeOK, CallInv, CallOk, Src
<1> QED BY <1>1 DEF Given, Keepers

(* What is linked gains the call as a keeper.                              *)
LEMMA LinkKeepers ==
  ASSUME StringInv, NEW t \in Threads, Link(t)
  PROVE  /\ t \notin Keepers(Given(t))
         /\ \A b : Keepers(b)' = IF b = Given(t) THEN Keepers(b) \cup {t} ELSE Keepers(b)
<1>1. CallOk(t) /\ Step(t) /\ pc[t] = "link" /\ pc'[t] = "set" /\ req' = req /\ data' = data
  BY DEF StringInv, CallInv, Step, Link, Goto, LinksCounted, TypeOK
<1>2. LetGo(t)' <=> LetGo(t)
  BY <1>1 DEF LetGo
<1>3. \A b : ~Holds(t, b) /\ (Holds(t, b)' <=> b = Given(t))
  BY <1>1 DEF Holds, Given, Src
<1>4. \A b, m : m \in Keepers(b)' <=> m \in Keepers(b) \/ (m = t /\ b = Given(t))
  BY <1>1, <1>2, <1>3, KeepersNow, KeepersAfter DEF Obj
<1>5. \A b : t \notin Keepers(b)
  BY <1>1, <1>3, KeepersNow
<1> QED BY <1>4, <1>5

(* When the pointer is set, the object keeps the data in the call's stead. *)
LEMMA SetKeepers ==
  ASSUME StringInv, NEW t \in Threads, SetData(t)
  PROVE  /\ t \in Keepers(Given(t)) /\ Obj(t) \notin Keepers(Given(t))
         /\ \A b \in Buffers \cup {Null} :
              Keepers(b)' = IF b = Given(t) THEN (Keepers(b) \ {t}) \cup {Obj(t)} ELSE Keepers(b)
<1>1. /\ CallOk(t) /\ Step(t) /\ pc[t] = "set" /\ pc'[t] = "idle"
      /\ Obj(t) \in Objects /\ data'[Obj(t)] = Given(t)
  BY KeepersNow DEF StringInv, CallInv, Step, SetData, Return, Goto, LinksCounted, TypeOK
<1>2. \A b \in Buffers \cup {Null} : ~LetGo(t)' /\ ~(data[Obj(t)] = b /\ ~LetGo(t))
  BY <1>1, StringAssumption DEF LetGo, CallOk, Op
<1>3. \A b : ~Holds(t, b)' /\ (Holds(t, b) <=> b = Given(t))
  BY <1>1 DEF Holds
<1>4. Given(t) \in Buffers \cup {Null}
  BY <1>1 DEF Given, CallOk, StringInv, CallInv, LinksCounted, TypeOK, Src
<1>5. \A b \in Buffers \cup {Null} :
        /\ Obj(t) \notin Keepers(b) /\ t \notin Keepers(b)'
        /\ t \in Keepers(b) <=> b = Given(t)
        /\ Obj(t) \in Keepers(b)' <=> b = Given(t)
  BY <1>1, <1>2, <1>3, KeepersNow, KeepersAfter
<1>6. ASSUME NEW b \in Buffers \cup {Null}, NEW m
      PROVE  m \in Keepers(b)' <=> \/ m \in Keepers(b) /\ m # t
                                   \/ m = Obj(t) /\ b = Given(t)
  BY <1>1, <1>5, KeepersAfter
<1> QED BY <1>4, <1>5, <1>6

-----------------------------------------------------------------------------
(* A step inside a call moves a link with its keeper.                      *)
LEMMA StepCounts ==
  ASSUME StringInv, NEW t \in Threads, Step(t), NEW b \in heap' \cup {Null}
  PROVE  links'[b] = Cardinality(Keepers(b)') + (IF b = Null THEN Pinned ELSE 0)
<1> DEFINE pin == IF b = Null THEN Pinned ELSE 0
<1>0. /\ \A a \in heap \cup {Null} : links[a] = Cardinality(Keepers(a)) + (IF a = Null THEN Pinned ELSE 0)
      /\ links \in [Buffers \cup {Null} -> Nat] /\ heap \subseteq Buffers
  BY DEF StringInv, LinksCounted, TypeOK
<1>a. /\ IsFiniteSet(Keepers(b)) /\ Cardinality(Keepers(b)) \in Nat /\ pin \in Nat
  BY KeepersFinite, FS_CardinalityType DEF Pinned
<1>b. Null \notin Buffers
  BY StringAssumption
<1>c. Keepers(b)' = {Obj(t)} => Cardinality(Keepers(b)') = 1
  BY FS_Singleton
<1>1. CASE New(t)
  <2>1. PICK a \in Buffers \ heap :
          /\ heap' = heap \cup {a} /\ links' = [links EXCEPT ![a] = 1]
          /\ Keepers(a)' = {Obj(t)}
          /\ \A c \in (Buffers \cup {Null}) \ {a} : Keepers(c)' = Keepers(c)
    BY <1>1, NewKeepers
  <2>2. CASE b = a
    BY <1>0, <1>b, <1>c, <2>1, <2>2
  <2>3. CASE b # a
    BY <1>0, <1>b, <2>1, <2>3
  <2> QED BY <2>2, <2>3
<1>2. CASE UnlinkCopy(t)
  <2>1. PICK a \in Buffers \ heap, o \in Buffers \cup {Null} :
           /\ heap' = heap \cup {a} /\ links' = [links EXCEPT ![a] = 1]
           /\ Keepers(a)' = {Obj(t)}
           /\ Obj(t) \in Keepers(o) /\ t \notin Keepers(o)
           /\ Keepers(o)' = (Keepers(o) \ {Obj(t)}) \cup {t}
           /\ \A c \in (Buffers \cup {Null}) \ {a, o} : Keepers(c)' = Keepers(c)
    BY <1>2, CopyKeepers
  <2>2. CASE b = a
    BY <1>0, <1>b, <1>c, <2>1, <2>2
  <2>3. CASE b # a /\ b # o
    BY <1>0, <1>b, <2>1, <2>3
  <2>4. CASE b # a /\ b = o
    <3>1. Cardinality(Keepers(b)') = Cardinality(Keepers(b))
      BY <1>a, <2>1, <2>4, Swapped
    <3> QED BY <1>0, <1>b, <2>1, <2>4, <3>1
  <2> QED BY <2>2, <2>3, <2>4
<1>3. CASE Release(t)
  <2>1. PICK k \in Keepers(old[t]) :
           \A c : Keepers(c)' = IF c = old[t] THEN Keepers(c) \ {k} ELSE Keepers(c)
    BY <1>3, ReleaseKeepers
  <2>2. links' = [links EXCEPT ![old[t]] = @ - 1] /\ heap' = heap
    BY <1>3 DEF Release
  <2>3. CASE b = old[t]
    <3>1. Cardinality(Keepers(b)') = Cardinality(Keepers(b)) - 1
      BY <1>a, <2>1, <2>3, FS_RemoveElement
    <3> QED BY <1>0, <1>a, <2>2, <2>3, <3>1
  <2>4. CASE b # old[t]
    BY <1>0, <2>1, <2>2, <2>4
  <2> QED BY <2>3, <2>4
<1>4. CASE Link(t)
  <2>1. links' = [links EXCEPT ![Given(t)] = @ + 1] /\ heap' = heap
    BY <1>4 DEF Link
  <2>2. CASE b = Given(t)
    <3>1. Cardinality(Keepers(b)') = Cardinality(Keepers(b)) + 1
      BY <1>4, <1>a, <2>2, LinkKeepers, FS_AddElement
    <3> QED BY <1>0, <1>a, <2>1, <2>2, <3>1
  <2>3. CASE b # Given(t)
    BY <1>0, <1>4, <2>1, <2>3, LinkKeepers
  <2> QED BY <2>2, <2>3
<1>5. CASE SetData(t)
  <2>1. links' = links /\ heap' = heap
    BY <1>5 DEF SetData, memory
  <2>2. CASE b = Given(t)
    BY <1>0, <1>5, <1>a, <2>1, <2>2, SetKeepers, Swapped
  <2>3. CASE b # Given(t)
    BY <1>0, <1>5, <2>1, <2>3, SetKeepers
  <2> QED BY <2>2, <2>3
<1>6. CASE \/ AssignSame(t) \/ AssignOther(t) \/ TestShared(t) \/ TestOwn(t) \/ Delete(t) \/ Gone(t)
           \/ Write(t) \/ Written(t)
  <2>1. links' = links /\ heap' \subseteq heap
    BY <1>6 DEF AssignSame, AssignOther, TestShared, TestOwn, Delete, Gone, Write, Written, memory
  <2>2. Keepers(b)' = Keepers(b)
    BY <1>0, <1>6, <2>1, QuietKeepers
  <2> QED BY <1>0, <2>1, <2>2
<1> QED BY <1>1, <1>2, <1>3, <1>4, <1>5, <1>6 DEF Step

(* A step inside a call deletes what nobody keeps, and only that.          *)
LEMMA StepHeap ==
  ASSUME StringInv, NEW t \in Threads, Step(t)
  PROVE  HeapInv'
<1> SUFFICES ASSUME NEW b \in Buffers
             PROVE  /\ b \in heap' => Keepers(b)' # {} \/ \E u \in Threads : Deleting(u, b)'
                    /\ b \notin heap' => Keepers(b)' = {}
                    /\ \A u \in Threads : Deleting(u, b)' => b \in heap' /\ Keepers(b)' = {}
                    /\ \A u, w \in Threads : Deleting(u, b)' /\ Deleting(w, b)' => u = w
  BY DEF HeapInv
<1>0. /\ b \in heap => Keepers(b) # {} \/ \E u \in Threads : Deleting(u, b)
      /\ b \notin heap => Keepers(b) = {}
      /\ \A u \in Threads : Deleting(u, b) => b \in heap /\ Keepers(b) = {}
      /\ \A u, w \in Threads : Deleting(u, b) /\ Deleting(w, b) => u = w
  BY DEF StringInv, HeapInv
<1>a. \A u \in Threads \ {t} : Deleting(u, b)' = Deleting(u, b)
  BY DEF StringInv, LinksCounted, TypeOK, Goto, Deleting, Step, New, AssignSame, AssignOther, TestShared, TestOwn, UnlinkCopy,
         Release, Delete, Gone, Link, SetData, Write, Written, Return
<1>b. pc[t] # "delete" /\ pc'[t] # "delete" => ~Deleting(t, b) /\ ~Deleting(t, b)'
  BY DEF Deleting
<1>1. CASE New(t) \/ UnlinkCopy(t)
  <2>1. pc[t] # "delete" /\ pc'[t] # "delete"
    BY <1>1 DEF New, UnlinkCopy, Return, Goto, StringInv, LinksCounted, TypeOK
  <2>2. PICK a \in Buffers \ heap :
          /\ heap' = heap \cup {a} /\ Keepers(a)' # {}
          /\ b # a => (Keepers(b)' = {} <=> Keepers(b) = {})
    BY <1>1, NewKeepers, CopyKeepers
  <2> QED BY <1>0, <1>a, <1>b, <2>1, <2>2
<1>2. CASE Release(t)
  <2>1. old' = old /\ heap' = heap /\ pc[t] # "delete" /\ (pc'[t] = "delete" <=> links[old[t]] = 1)
    BY <1>2 DEF Release, Goto, Released, StringInv, LinksCounted, TypeOK, CallInv, CallOk, Op
  <2>2. PICK k \in Keepers(old[t]) :
           \A c : Keepers(c)' = IF c = old[t] THEN Keepers(c) \ {k} ELSE Keepers(c)
    BY <1>2, ReleaseKeepers
  <2>3. CASE b = old[t]
    <3>1. b \in heap
      BY <1>0, <2>2, <2>3
    <3>2. links[b] = Cardinality(Keepers(b))
      BY <3>1, StringAssumption, KeepersFinite, FS_CardinalityType DEF StringInv, LinksCounted
    <3>3. links[b] = 1 <=> Keepers(b)' = {}
      <4>1. links[b] = 1 => Keepers(b) = {k}
        <5>1. IsFiniteSet(Keepers(b))
          BY KeepersFinite
        <5>2. Cardinality(Keepers(b)) = 1 => \E m : Keepers(b) = {m}
          BY <5>1, FS_Singleton
        <5> QED BY <2>2, <2>3, <3>2, <5>2
      <4>2. Keepers(b)' = {} => Keepers(b) = {k}
        BY <2>2, <2>3
      <4>3. Keepers(b) = {k} => links[b] = 1
        BY <3>2, FS_Singleton
      <4> QED BY <2>2, <2>3, <4>1, <4>2, <4>3
    <3>4. Deleting(t, b)' <=> Keepers(b)' = {}
      BY <2>1, <2>3, <3>3 DEF Deleting
    <3> QED BY <1>0, <1>a, <2>1, <2>2, <2>3, <3>1, <3>4
  <2>4. CASE b # old[t]
    BY <1>0, <1>a, <2>1, <2>2, <2>4 DEF Deleting
  <2> QED BY <2>3, <2>4
<1>3. CASE Link(t) \/ SetData(t)
  <2>1. heap' = heap /\ pc[t] # "delete" /\ pc'[t] # "delete"
    BY <1>3 DEF Link, SetData, Return, Goto, StringInv, LinksCounted, TypeOK, memory
  <2>2. Keepers(b)' = {} <=> Keepers(b) = {}
    <3>1. CASE Link(t)
      BY <3>1, LinkKeepers, GivenKept, StringAssumption
    <3>2. CASE SetData(t)
      BY <3>2, SetKeepers
    <3> QED BY <1>3, <3>1, <3>2
  <2> QED BY <1>0, <1>a, <1>b, <2>1, <2>2
<1>4. CASE Delete(t)
  <2>1. Keepers(b)' = Keepers(b)
    BY <1>4, QuietKeepers
  <2>2. heap' = heap \ {old[t]} /\ old' = old /\ pc'[t] # "delete" /\ Deleting(t, old[t])
    BY <1>4 DEF Delete, Goto, Released, StringInv, LinksCounted, TypeOK, CallInv, CallOk, Op, Deleting
  <2> QED BY <1>0, <1>a, <2>1, <2>2 DEF Deleting
<1>5. CASE AssignSame(t) \/ AssignOther(t) \/ TestShared(t) \/ TestOwn(t) \/ Gone(t) \/ Write(t) \/ Written(t)
  <2>1. Keepers(b)' = Keepers(b)
    BY <1>5, QuietKeepers
  <2>2. heap' = heap /\ pc[t] # "delete" /\ pc'[t] # "delete"
    BY <1>5 DEF AssignSame, AssignOther, TestShared, TestOwn, Gone, Write, Written, memory, Return, Goto,
                StringInv, LinksCounted, TypeOK
  <2> QED BY <1>0, <1>a, <1>b, <2>1, <2>2
<1> QED BY <1>1, <1>2, <1>3, <1>4, <1>5 DEF Step

-----------------------------------------------------------------------------
(* The count of links is that of the keepers, and what no thread keeps has *)
(* been deleted or is about to be, at every point between two steps.       *)
LEMMA StringInvAlways == Spec => []StringInv
<1>1. Init => StringInv
  <2> SUFFICES ASSUME Init PROVE StringInv
    OBVIOUS
  <2>0. /\ 0 \in Nat /\ Pinned \in Nat /\ 0 \in 0..2 * Kinds - 1 /\ "idle" \in Places
        /\ Threads # {} => Idle \in [op : {"none", "construct", "copy", "assign", "modify", "destroy"},
                                     obj : Objects \cup {None}, src : Objects \cup {None},
                                     arg : Values \cup {None}]
    BY StringAssumption DEF Pinned, Places, Idle
  <2>1. TypeOK
    BY <2>0 DEF Init, TypeOK
  <2>2. \A b \in Buffers \cup {Null} : Keepers(b) = {} /\ Cardinality(Keepers(b)) = 0
    <3>1. \A b \in Buffers \cup {Null} : Keepers(b) = {}
      BY StringAssumption DEF Init, Keepers
    <3> QED BY <3>1, FS_EmptySet
  <2>3. CallInv
    BY StringAssumption DEF Init, CallInv, CallOk, Idle, Op, Obj, Src
  <2>4. HeapInv
    BY <2>2 DEF Init, HeapInv, Deleting
  <2> QED BY <2>0, <2>1, <2>2, <2>3, <2>4 DEF StringInv, LinksCounted, Init
<1>2. StringInv /\ [Next]_vars => StringInv'
  <2> SUFFICES ASSUME StringInv, [Next]_vars PROVE StringInv'
    OBVIOUS
  <2>1. ASSUME NEW t \in Threads, Calls(t) PROVE StringInv'
    <3>1. TypeOK' /\ CallInv'
      BY <2>1, CallTypes, CallCalls DEF StringInv, LinksCounted
    <3>2. /\ \A b : Keepers(b)' = Keepers(b)
          /\ UNCHANGED memory
      BY <2>1, CallKeepers DEF StringInv, LinksCounted
    <3>3. \A b : \A u \in Threads : Deleting(u, b)' <=> Deleting(u, b)
      BY <2>1, CallIs DEF Begin, Goto, Deleting, StringInv, LinksCounted, TypeOK
    <3>4. HeapInv'
      BY <3>2, <3>3 DEF StringInv, HeapInv, memory
    <3> QED BY <3>1, <3>2, <3>4 DEF StringInv, LinksCounted, memory
  <2>2. ASSUME NEW t \in Threads, Step(t) PROVE StringInv'
    BY <2>2, StepTypes, StepCalls, StepCounts, StepHeap DEF StringInv, LinksCounted
  <2>3. CASE UNCHANGED vars
    <3> USE <2>3 DEF vars, StringInv, Obj, Src, Op
    <3>1. TypeOK'
      BY DEF LinksCounted, TypeOK
    <3>2. \A b : Keepers(b)' = Keepers(b)
      BY DEF Keepers, Given, LetGo
    <3>3. CallInv'
      BY DEF CallInv, CallOk
    <3>4. HeapInv'
      BY <3>2 DEF HeapInv, Deleting
    <3> QED BY <3>1, <3>2, <3>3, <3>4 DEF LinksCounted
  <2> QED BY <2>1, <2>2, <2>3 DEF Next, Calls
<1> QED BY <1>1, <1>2, PTL DEF Spec

(* Every variable has its type, and links counts who keeps the data        *)
(* (String.h:90, 146-172).                                                 *)
THEOREM LinksCountedHolds == Spec => []LinksCounted
<1>1. StringInv => LinksCounted
  BY DEF StringInv
<1> QED BY <1>1, StringInvAlways, PTL

(* Data is freed by its last keeper and never before, whichever threads    *)
(* release it at once (String::ireleaseData against iinitData,             *)
(* iflatCopyData and iunlinkCopyData).                                     *)
THEOREM FreedByLastHolds == Spec => []FreedByLast
<1>1. StringInv => FreedByLast
  <2> SUFFICES ASSUME StringInv, NEW b \in Buffers
      PROVE LET deleting == {t \in Threads : pc[t] = "delete" /\ old[t] = b}
            IN  IF b \in heap THEN Cardinality(deleting) = (IF Keepers(b) = {} THEN 1 ELSE 0)
                ELSE Keepers(b) = {} /\ deleting = {}
    BY DEF FreedByLast, StringInv
  <2> DEFINE deleting == {t \in Threads : pc[t] = "delete" /\ old[t] = b}
  <2>0. /\ b \in heap => Keepers(b) # {} \/ deleting # {}
        /\ b \notin heap => Keepers(b) = {}
        /\ deleting # {} => b \in heap /\ Keepers(b) = {}
        /\ \A t, u \in deleting : t = u
    BY DEF StringInv, HeapInv, Deleting
  <2> HIDE DEF deleting
  <2>1. CASE deleting = {}
    BY <2>0, <2>1, FS_EmptySet DEF deleting
  <2>2. CASE deleting # {}
    <3>1. \E t : deleting = {t}
      BY <2>0, <2>2
    <3>2. Cardinality(deleting) = 1
      BY <3>1, FS_Singleton
    <3> QED BY <2>0, <2>2, <3>2 DEF deleting
  <2> QED BY <2>1, <2>2
<1> QED BY <1>1, StringInvAlways, PTL

-----------------------------------------------------------------------------
(* What StringValue sees: calls in progress show the value they began with, *)
(* and a call's data says how far it is.  A string being modified has its   *)
(* data for itself, from the test or the copy to the last character.        *)
CallValue(t) ==
  /\ Op(t) = "construct" => Src(t) = None /\ (pc[t] # "new" => req[t].arg = 0)
  /\ Op(t) = "copy" => Src(t) # None
  /\ Op(t) = "modify" =>
       /\ pc[t] # "writing" => content[data[Obj(t)]] = was[t]
       /\ pc[t] = "writing" => content[data[Obj(t)]] = Half(was[t])
       /\ pc[t] \in {"release", "delete", "write", "writing"} =>
            data[Obj(t)] \in Buffers /\ Keepers(data[Obj(t)]) = {Obj(t)}

ValueInv ==
  /\ content[Null] = 0
  /\ \A t \in Threads : CallValue(t)

(* The one thread whose call is on an object.                              *)
LEMMA TheCall ==
  ASSUME NEW r, NEW t \in Threads, \A u \in Threads \ {t} : r[u].obj # r[t].obj
  PROVE  (CHOOSE u \in Threads : r[u].obj = r[t].obj) = t
OBVIOUS

(* An object in a call shows the value the call began with.                *)
LEMMA ShownInCall ==
  ASSUME StringInv, NEW t \in Threads, pc[t] # "idle"
  PROVE  Shown[Obj(t)] = was[t]
<1>1. Obj(t) \in Objects /\ \A u \in Threads \ {t} : req[u].obj # req[t].obj
  BY DEF StringInv, CallInv, CallOk, Obj
<1>2. (CHOOSE u \in Threads : req[u].obj = req[t].obj) = t
  BY <1>1, TheCall
<1> QED BY <1>1, <1>2 DEF Shown, Obj

(* Any other object shows what its data holds.                             *)
LEMMA ShownFree ==
  ASSUME NEW x \in Objects, \A t \in Threads : Obj(t) # x
  PROVE  Shown[x] = IF data[x] = None THEN None ELSE content[data[x]]
BY DEF Shown

(* Data that is kept has the same content after a step, unless it is the   *)
(* string the step modifies.                                               *)
LEMMA ContentKept ==
  ASSUME StringInv, NEW t \in Threads, Step(t), NEW b \in Buffers \cup {Null},
         Keepers(b) # {} \/ b = Null,
         pc[t] \in {"write", "writing"} => b # data[Obj(t)]
  PROVE  content'[b] = content[b]
<1>1. b \in heap \/ b = Null
  BY DEF StringInv, HeapInv
<1>2. Null \notin Buffers
  BY StringAssumption
<1>3. CASE New(t) \/ UnlinkCopy(t)
  BY <1>1, <1>2, <1>3 DEF New, UnlinkCopy, Allocate, StringInv, LinksCounted, TypeOK
<1>4. CASE Write(t) \/ Written(t)
  BY <1>4 DEF Write, Written, StringInv, LinksCounted, TypeOK
<1>5. CASE ~(New(t) \/ UnlinkCopy(t) \/ Write(t) \/ Written(t))
  BY <1>5 DEF Step, AssignSame, AssignOther, TestShared, TestOwn,
         Release, Delete, Gone, Link, SetData, memory
<1> QED BY <1>3, <1>4, <1>5

(* A step of one call leaves what one object of another keeps alone to it. *)
LEMMA OwnKept ==
  ASSUME StringInv, NEW t \in Threads, Step(t), NEW u \in Threads \ {t}, pc[u] # "idle",
         NEW b \in Buffers, Keepers(b) = {Obj(u)}
  PROVE  Keepers(b)' = {Obj(u)}
<1>1. Obj(u) # t /\ Obj(u) # Obj(t) /\ Src(t) # Obj(u) /\ b \in heap /\ b # Null
  <2>1. Obj(u) \in Objects /\ Src(t) # Obj(u) /\ Obj(u) # Obj(t)
    BY StringAssumption DEF StringInv, LinksCounted, TypeOK, CallInv, CallOk, Src
  <2> QED BY <2>1, StringAssumption DEF StringInv, HeapInv
<1>2. CASE New(t)      BY <1>1, <1>2, NewKeepers
<1>3. CASE UnlinkCopy(t)
  <2> PICK a \in Buffers \ heap, o \in Buffers \cup {Null} :
           /\ Obj(t) \in Keepers(o)
           /\ \A c \in (Buffers \cup {Null}) \ {a, o} : Keepers(c)' = Keepers(c)
    BY <1>3, CopyKeepers
  <2> QED BY <1>1
<1>4. CASE Release(t)
  <2> PICK k \in Keepers(old[t]) \cap {t, Obj(t)} :
           \A c : Keepers(c)' = IF c = old[t] THEN Keepers(c) \ {k} ELSE Keepers(c)
    BY <1>4, ReleaseKeepers
  <2> QED BY <1>1
<1>5. CASE Link(t)     BY <1>1, <1>5, GivenKept, LinkKeepers
<1>6. CASE SetData(t)  BY <1>1, <1>6, SetKeepers
<1>7. CASE ~(New(t) \/ UnlinkCopy(t) \/ Release(t) \/ Link(t) \/ SetData(t))
  BY <1>7, QuietKeepers DEF Step
<1> QED BY <1>2, <1>3, <1>4, <1>5, <1>6, <1>7

(* How far a modification is, after each of its steps.                      *)
LEMMA ModifyValue ==
  ASSUME StringInv, ValueInv, NEW t \in Threads, Step(t), Op(t) = "modify", pc'[t] # "idle"
  PROVE  \A b : b = data'[Obj(t)] =>
         /\ IF pc'[t] = "writing" THEN content'[b] = Half(was[t]) ELSE content'[b] = was[t]
         /\ pc'[t] \in {"release", "delete", "write", "writing"} => b \in Buffers /\ Keepers(b)' = {Obj(t)}
<1> USE DEF StringInv, LinksCounted, TypeOK
<1>1. /\ pc[t] # "idle" /\ Obj(t) \in Objects /\ CallOk(t) /\ CallValue(t) /\ ~LetGo(t)
      /\ pc[t] \in {"test", "copy", "release", "delete", "write", "writing"}
  <2>1. pc[t] # "idle" /\ Obj(t) \in Objects /\ CallOk(t) /\ CallValue(t)
    BY KeepersAfter, KeepersNow DEF ValueInv, CallInv
  <2> QED BY <2>1 DEF CallOk, LetGo, Op, Places
<1> PICK d : d = data[Obj(t)]
  OBVIOUS
<1>2. /\ d \in Buffers \cup {Null} /\ Obj(t) \in Keepers(d) /\ d \in heap \cup {Null}
      /\ pc[t] # "writing" => content[d] = was[t]
      /\ pc[t] \in {"release", "delete", "write", "writing"} => d \in Buffers /\ Keepers(d) = {Obj(t)}
  BY <1>1, KeepersNow DEF CallOk, CallValue, HeapInv
<1> HIDE DEF StringInv, LinksCounted, TypeOK
<1>t. pc \in [Threads -> Places] /\ content \in [Buffers \cup {Null} -> 0..2 * Kinds - 1]
  BY DEF StringInv, LinksCounted, TypeOK
<1>3. CASE UnlinkCopy(t)
  <2>1. PICK a \in Buffers \ heap :
           /\ Keepers(a)' = {Obj(t)}
           /\ data'[Obj(t)] = a /\ content'[a] = content[data[Obj(t)]]
    BY <1>3, CopyKeepers
  <2>2. pc[t] # "writing" /\ pc'[t] # "writing"
    BY <1>t, <1>3 DEF UnlinkCopy, Goto
  <2> QED BY <1>2, <2>1, <2>2
<1>4. CASE TestShared(t)
  BY <1>1, <1>4 DEF TestShared, CallValue, Goto, memory
<1>5. CASE TestOwn(t)
  <2>1. ~(links[d] > 1)
    BY <1>5 DEF TestOwn
  <2>2. IsFiniteSet(Keepers(d)) /\ Cardinality(Keepers(d)) \in Nat \ {0}
    BY <1>2, KeepersFinite, FS_CardinalityType, FS_EmptySet
  <2>3. d # Null /\ Cardinality(Keepers(d)) = 1
    <3>1. links[d] \in Nat /\ links[d] = Cardinality(Keepers(d)) + (IF d = Null THEN Pinned ELSE 0)
      BY <1>2 DEF StringInv, LinksCounted, TypeOK
    <3> QED BY <2>1, <2>2, <3>1 DEF Pinned
  <2>4. Keepers(d) = {Obj(t)}
    <3>1. \E m : Keepers(d) = {m}
      BY <2>2, <2>3, FS_Singleton
    <3> QED BY <1>2, <3>1
  <2>5. Keepers(d)' = Keepers(d)
    BY <1>2, <1>5, QuietKeepers
  <2>6. data' = data /\ content' = content /\ pc'[t] = "write" /\ pc[t] # "writing"
    BY <1>t, <1>5 DEF TestOwn, Goto, memory
  <2> QED BY <1>2, <2>3, <2>4, <2>5, <2>6
<1>6. CASE Release(t)
  <2>1. PICK k \in Keepers(old[t]) \cap {t, Obj(t)} :
           \A b : Keepers(b)' = IF b = old[t] THEN Keepers(b) \ {k} ELSE Keepers(b)
    BY <1>6, ReleaseKeepers
  <2>2. pc[t] = "release" /\ data' = data /\ content' = content /\ pc'[t] # "writing"
    BY <1>t, <1>6 DEF Release, Goto, Released, Op
  <2>3. t \in Keepers(old[t])
    BY <2>2, ReleasesLink
  <2>4. t # Obj(t)
    BY <1>1, KeepersNow
  <2> QED BY <1>2, <2>1, <2>2, <2>3, <2>4
<1>7. CASE Delete(t)
  <2>1. pc[t] = "delete" /\ data' = data /\ content' = content /\ pc'[t] # "writing"
    BY <1>t, <1>7 DEF Delete, Goto, Released, Op
  <2> QED BY <1>2, <1>7, <2>1, QuietKeepers
<1>8. CASE Write(t)
  <2>1. pc[t] = "write" /\ data' = data /\ content'[d] = Half(content[d]) /\ pc'[t] = "writing"
    BY <1>2, <1>8, <1>t DEF Write, Goto
  <2> QED BY <1>2, <1>8, <2>1, QuietKeepers
<1> QED
  BY <1>t, <1>1, <1>3, <1>4, <1>5, <1>6, <1>7, <1>8
     DEF Step, New, AssignSame, AssignOther, Gone, Link, SetData, Written, Return, Goto, CallOk

(* A step inside a call keeps its value and those of the others.           *)
LEMMA StepValues ==
  ASSUME StringInv, ValueInv, NEW t \in Threads, Step(t)
  PROVE  ValueInv'
<1> USE DEF StringInv, LinksCounted, TypeOK
<1>1. /\ pc[t] # "idle" /\ Obj(t) \in Objects /\ CallOk(t) /\ CallValue(t)
      /\ \A u \in Threads \ {t} :
           pc'[u] = pc[u] /\ req'[u] = req[u] /\ old'[u] = old[u] /\ was'[u] = was[u]
      /\ \A x \in Objects \ {Obj(t)} : data'[x] = data[x]
      /\ (req'[t] = req[t] /\ was'[t] = was[t]) \/ (req'[t] = Idle /\ pc'[t] = "idle")
  <2>1. pc[t] # "idle" /\ Obj(t) \in Objects /\ CallOk(t) /\ CallValue(t)
    BY KeepersAfter, KeepersNow DEF ValueInv, CallInv
  <2> QED
    BY <2>1 DEF Step, New, AssignSame, AssignOther, TestShared, TestOwn, UnlinkCopy, Allocate,
         Release, Delete, Gone, Link, SetData, Write, Written, Return, memory, Goto
<1>2. ASSUME pc[t] \in {"write", "writing"} PROVE Keepers(data[Obj(t)]) = {Obj(t)} /\ data[Obj(t)] # Null
  BY <1>1, <1>2, StringAssumption DEF CallOk, CallValue
<1>3. content'[Null] = 0
  BY <1>2, ContentKept DEF ValueInv
<1>4. ASSUME NEW u \in Threads \ {t} PROVE CallValue(u)'
  <2>1. CallValue(u) /\ CallOk(u)
    BY DEF ValueInv, CallInv
  <2>2. CASE Op(u) # "modify"
    BY <1>1, <2>1, <2>2 DEF CallValue, Op, Src
  <2>3. CASE Op(u) = "modify"
    <3> PICK b : b = data[Obj(u)]
      OBVIOUS
    <3>1. /\ pc[u] # "idle" /\ Obj(u) \in Objects /\ Obj(u) # Obj(t) /\ ~LetGo(u)
          /\ b \in Buffers \cup {Null}
      BY <1>1, <2>1, <2>3 DEF CallOk, Idle, LetGo, Op, Obj
    <3>2. Obj(u) \in Keepers(b)
      BY <3>1, KeepersNow
    <3>3. pc[t] \in {"write", "writing"} => b # data[Obj(t)]
      BY <1>2, <3>1, <3>2
    <3>4. content'[b] = content[b]
      BY <3>1, <3>2, <3>3, ContentKept
    <3>5. data'[Obj(u)] = b /\ Obj(u)' = Obj(u) /\ Op(u)' = Op(u) /\ pc'[u] = pc[u] /\ was'[u] = was[u]
      BY <1>1, <3>1 DEF Obj, Op
    <3>6. b \in Buffers /\ Keepers(b) = {Obj(u)} => Keepers(b)' = {Obj(u)}
      BY <3>1, OwnKept
    <3> QED BY <2>1, <2>3, <3>4, <3>5, <3>6 DEF CallValue
  <2> QED BY <2>2, <2>3
<1>5. CallValue(t)'
  <2>1. CASE req'[t] = Idle
    BY <2>1 DEF CallValue, Idle, Op
  <2>2. CASE req'[t] = req[t] /\ was'[t] = was[t] /\ Op(t) # "modify"
    <3>1. pc[t] = "new" => req'[t] = Idle
      BY DEF Step, New, AssignSame, AssignOther, TestShared, TestOwn, UnlinkCopy, Release, Delete,
             Gone, Link, SetData, Write, Written, Return
    <3> QED BY <1>1, <2>2, <3>1 DEF CallValue, Op, Src, Idle
  <2>3. CASE req'[t] = req[t] /\ was'[t] = was[t] /\ Op(t) = "modify"
    <3>1. pc'[t] # "idle"
      BY <1>1, <2>3 DEF Step, Op, New, AssignSame, AssignOther, TestShared, TestOwn, UnlinkCopy,
             Release, Released, Delete, Gone, Link, SetData, Write, Written, Return, Goto, Idle
    <3> PICK b : b = data'[Obj(t)]
      OBVIOUS
    <3>2. /\ IF pc'[t] = "writing" THEN content'[b] = Half(was[t]) ELSE content'[b] = was[t]
          /\ pc'[t] \in {"release", "delete", "write", "writing"} => b \in Buffers /\ Keepers(b)' = {Obj(t)}
      BY <2>3, <3>1, ModifyValue
    <3>3. Obj(t)' = Obj(t) /\ data[Obj(t)]' = b
      BY <2>3 DEF Obj
    <3> QED BY <2>3, <3>2, <3>3 DEF CallValue, Op, Src
  <2> QED BY <1>1, <2>1, <2>2, <2>3
<1> QED BY <1>3, <1>4, <1>5 DEF ValueInv

(* A call that begins shows its object's value, and changes nothing else:  *)
(* it is a step of StringValue.                                            *)
LEMMA CallRefines ==
  ASSUME StringInv, ValueInv, NEW t \in Threads, Calls(t)
  PROVE  ValueInv' /\ Owned!SvNext
<1> PICK x \in Objects, y \in Objects \cup {None}, v \in Values \cup {None},
         op \in {"construct", "copy", "assign", "modify", "destroy"},
         place \in {"new", "link", "assign", "test", "release"} :
           /\ Begin(t, Call(op, x, y, v), place)
           /\ op \in {"construct", "copy"} <=> data[x] = None
           /\ op \in {"construct", "modify", "destroy"} => y = None
           /\ op \in {"copy", "assign"} => y # None
           /\ IF op = "construct" THEN v \in Values ELSE v = None
           /\ place = "new" => op = "construct"
           /\ place = "link" => op \in {"construct", "copy"} /\ v \in {0, None}
           /\ place = "assign" <=> op = "assign"
           /\ place = "test" <=> op = "modify"
           /\ place = "release" <=> op = "destroy"
  <2>1. TypeOK
    BY DEF StringInv, LinksCounted
  <2> QED BY <2>1, CallIs
<1> DEFINE r == [op |-> op, obj |-> x, src |-> y, arg |-> v]
<1>0. TypeOK
  BY DEF StringInv, LinksCounted
<1>1. /\ pc[t] = "idle" /\ pc' = [pc EXCEPT ![t] = place]
      /\ req[t] = Idle /\ req' = [req EXCEPT ![t] = r]
      /\ was' = [was EXCEPT ![t] = IF data[x] = None THEN None ELSE content[data[x]]]
      /\ UNCHANGED <<data, heap, links, content>>
      /\ \A u \in Threads \ {t} : req[u].obj # x /\ req[u].src # x
      /\ y # None => y # x /\ data[y] # None /\ \A u \in Threads \ {t} : req[u].obj # y
  BY DEF Begin, Call, Goto, Writable, Readable, StringInv, CallInv, CallOk, memory, Obj, Src
<1>2. None \notin Objects /\ None \notin 0..2 * Kinds - 1 /\ None \notin Values
  BY StringAssumption DEF Values
<1>3. \A u \in Threads \ {t} : pc'[u] = pc[u] /\ req'[u] = req[u] /\ was'[u] = was[u]
  BY <1>0, <1>1 DEF TypeOK
<1>4. ValueInv'
  <2>1. ASSUME NEW u \in Threads \ {t} PROVE CallValue(u)'
    <3> PICK b : b = data[Obj(u)]
      OBVIOUS
    <3>1. Keepers(b)' = Keepers(b)
      BY CallKeepers DEF StringInv, LinksCounted
    <3>2. CallValue(u)
      BY DEF ValueInv
    <3>3. Op(u)' = Op(u) /\ Obj(u)' = Obj(u) /\ Src(u)' = Src(u)
      BY <1>3 DEF Op, Obj, Src
    <3> QED BY <1>1, <1>3, <3>1, <3>2, <3>3 DEF CallValue
  <2>2. CallValue(t)'
    BY <1>0, <1>1, <1>2 DEF CallValue, Op, Obj, Src, TypeOK
  <2> QED BY <1>1, <2>1, <2>2 DEF ValueInv
<1>5. ASSUME NEW z \in Objects PROVE Shown'[z] = Shown[z]
  <2>1. CASE z = x
    <3>1. (CHOOSE u \in Threads : req'[u].obj = x) = t /\ \E u \in Threads : req'[u].obj = x
      BY <1>0, <1>1, <1>3 DEF TypeOK
    <3>2. Shown'[x] = was'[t]
      BY <3>1 DEF Shown, Obj
    <3>3. \A u \in Threads : Obj(u) # x
      BY <1>1, <1>2 DEF Obj, Idle
    <3> QED BY <1>0, <1>1, <2>1, <3>2, <3>3, ShownFree DEF TypeOK
  <2>2. CASE \E u \in Threads \ {t} : Obj(u) = z
    <3> PICK u \in Threads \ {t} : Obj(u) = z
      BY <2>2
    <3>1. pc[u] # "idle" /\ z # x /\ \A w \in Threads \ {u} : req[w].obj # req[u].obj
      BY <1>1, <1>2 DEF StringInv, CallInv, CallOk, Obj, Idle
    <3>2. \A w \in Threads \ {u} : req'[w].obj # req'[u].obj
      BY <1>0, <1>1, <1>3, <3>1 DEF TypeOK, Obj
    <3>3. (CHOOSE w \in Threads : req'[w].obj = req'[u].obj) = u
      BY <3>2, TheCall
    <3>4. Shown'[z] = was'[u]
      <4>1. req'[u].obj = z
        BY <1>3 DEF Obj
      <4> QED BY <3>3, <4>1 DEF Shown, Obj
    <3> QED BY <1>3, <3>1, <3>4, ShownInCall
  <2>3. CASE z # x /\ \A u \in Threads \ {t} : Obj(u) # z
    <3>1. (\A u \in Threads : Obj(u) # z) /\ \A u \in Threads : req'[u].obj # z
      BY <1>0, <1>1, <1>2, <1>3, <2>3 DEF TypeOK, Obj, Idle
    <3>2. Shown'[z] = IF data[z] = None THEN None ELSE content[data[z]]
      BY <1>1, <3>1 DEF Shown, Obj
    <3> QED BY <3>1, <3>2, ShownFree
  <2> QED BY <2>1, <2>2, <2>3
<1>6. Shown' = Shown
  BY <1>5 DEF Shown
<1>7. \A z \in Objects : (\A u \in Threads : Obj(u) # z) => (Shown[z] = None <=> data[z] = None)
  BY <1>0, <1>2, ShownFree DEF TypeOK
<1>8. \A u \in Threads : Obj(u) # x /\ (y # None => Obj(u) # y)
  BY <1>1, <1>2 DEF Obj, Idle
<1>9. r \in Owned!Calls
  BY DEF Owned!Calls
<1>10. Owned!SvBegin(t, r)
  BY <1>1, <1>2, <1>6, <1>7, <1>8
     DEF Owned!SvBegin, Owned!Busy, Owned!Idle, Idle, Owned!Writable, Owned!Readable
<1> QED BY <1>4, <1>9, <1>10 DEF Owned!SvNext

(* A step inside a call shows no change to any object but its own.         *)
LEMMA OthersShown ==
  ASSUME StringInv, ValueInv, NEW t \in Threads, Step(t), NEW z \in Objects \ {Obj(t)}
  PROVE  Shown'[z] = Shown[z]
<1>0. TypeOK
  BY DEF StringInv, LinksCounted
<1>1. /\ pc[t] # "idle" /\ Obj(t) \in Objects /\ CallOk(t) /\ CallValue(t)
      /\ \A u \in Threads \ {t} : pc'[u] = pc[u] /\ req'[u] = req[u] /\ was'[u] = was[u]
      /\ data'[z] = data[z]
      /\ req'[t] = req[t] \/ req'[t] = Idle
  <2>1. pc[t] # "idle" /\ Obj(t) \in Objects /\ CallOk(t) /\ CallValue(t)
    BY KeepersAfter, KeepersNow DEF ValueInv, StringInv, CallInv
  <2> QED
    BY <1>0, <2>1 DEF TypeOK, Step, New, AssignSame, AssignOther, TestShared, TestOwn, UnlinkCopy, Allocate,
         Release, Delete, Gone, Link, SetData, Write, Written, Return, memory, Goto
<1>2. None \notin Objects
  BY StringAssumption
<1>3. CASE \E u \in Threads \ {t} : Obj(u) = z
  <2> PICK u \in Threads \ {t} : Obj(u) = z
    BY <1>3
  <2>1. pc[u] # "idle" /\ \A w \in Threads \ {u} : req[w].obj # req[u].obj
    BY <1>2 DEF StringInv, CallInv, CallOk, Obj, Idle
  <2>2. req'[u].obj = z /\ \A w \in Threads \ {u} : req'[w].obj # req'[u].obj
    BY <1>0, <1>1, <1>2, <2>1 DEF TypeOK, Obj, Idle
  <2>3. (CHOOSE w \in Threads : req'[w].obj = req'[u].obj) = u
    BY <2>2, TheCall
  <2>4. Shown'[z] = was'[u]
    BY <2>2, <2>3 DEF Shown, Obj
  <2> QED BY <1>1, <2>1, <2>4, ShownInCall
<1>4. CASE \A u \in Threads \ {t} : Obj(u) # z
  <2>1. /\ \A u \in Threads : Obj(u) # z
        /\ \A u \in Threads : req'[u].obj # z
    BY <1>1, <1>2, <1>4 DEF Obj, Idle
  <2>2. Shown'[z] = IF data[z] = None THEN None ELSE content'[data[z]]
    BY <1>1, <2>1 DEF Shown, Obj
  <2>3. ASSUME data[z] # None PROVE content'[data[z]] = content[data[z]]
    <3>1. z \in Keepers(data[z]) /\ data[z] \in Buffers \cup {Null}
      BY <1>0, <2>1, <2>3 DEF Keepers, TypeOK
    <3>2. pc[t] \in {"write", "writing"} => data[z] # data[Obj(t)]
      BY <1>1, <3>1 DEF CallOk, CallValue
    <3> QED BY <3>1, <3>2, ContentKept
  <2> QED BY <2>1, <2>2, <2>3, ShownFree
<1> QED BY <1>3, <1>4

(* A step that ends a call gives its object the call's result, any other   *)
(* shows nothing.                                                          *)
LEMMA StepRefines ==
  ASSUME StringInv, ValueInv, NEW t \in Threads, Step(t)
  PROVE  [Owned!SvNext]_(Owned!svVars)
<1>0. TypeOK
  BY DEF StringInv, LinksCounted
<1>1. pc[t] # "idle" /\ Obj(t) \in Objects /\ CallOk(t) /\ CallValue(t)
  BY KeepersAfter, KeepersNow DEF ValueInv, StringInv, CallInv
<1>2. Shown[Obj(t)] = was[t]
  BY <1>1, ShownInCall
<1>3. None \notin Objects
  BY StringAssumption
<1>4. ASSUME req' = req, was' = was PROVE UNCHANGED Owned!svVars
  <2>1. \A u \in Threads \ {t} : req'[u].obj # req'[t].obj
    BY <1>1, <1>4 DEF StringInv, CallInv, CallOk, Obj
  <2>2. Shown'[Obj(t)] = was'[t]
    <3>1. (CHOOSE u \in Threads : req'[u].obj = req'[t].obj) = t
      BY <2>1, TheCall
    <3> QED BY <1>1, <1>4, <3>1 DEF Shown, Obj
  <2>3. \A z \in Objects : Shown'[z] = Shown[z]
    BY <1>2, <1>4, <2>2, OthersShown
  <2> QED BY <1>4, <2>3 DEF Shown, Owned!svVars
<1>5. CASE AssignOther(t) \/ TestShared(t) \/ TestOwn(t) \/ UnlinkCopy(t) \/ Release(t) \/ Delete(t)
             \/ Link(t) \/ Write(t)
  BY <1>4, <1>5 DEF AssignOther, TestShared, TestOwn, UnlinkCopy, Release, Delete, Link, Write
<1>6. ASSUME Return(t), Shown'[Obj(t)] = Owned!Result(req[t]) PROVE Owned!SvNext
  <2>1. req' = [req EXCEPT ![t] = Idle] /\ req[t] # Idle
    BY <1>1, <1>6 DEF Return, CallOk, Op, Idle
  <2>2. Shown' = [Shown EXCEPT ![Obj(t)] = Owned!Result(req[t])]
    <3> PICK result : result = Owned!Result(req[t])
      OBVIOUS
    <3>1. \A z \in Objects : Shown'[z] = IF z = Obj(t) THEN result ELSE Shown[z]
      BY <1>6, OthersShown
    <3>2. /\ Shown = [z \in Objects |-> Shown[z]]
          /\ Shown' = [z \in Objects |-> Shown'[z]]
      BY DEF Shown
    <3> QED BY <3>1, <3>2
  <2> QED BY <2>1, <2>2 DEF Owned!SvNext, Owned!SvEnd, Owned!Busy, Owned!Idle, Idle, Obj
<1>7. ASSUME Return(t) PROVE Shown'[Obj(t)] = IF data'[Obj(t)] = None THEN None ELSE content'[data'[Obj(t)]]
  <2>1. \A u \in Threads : req'[u].obj # Obj(t)
    BY <1>0, <1>1, <1>3, <1>7 DEF Return, TypeOK, StringInv, CallInv, CallOk, Obj, Idle
  <2> QED BY <1>1, <2>1 DEF Shown, Obj
<1>8. Src(t) # None => Shown[Src(t)] = content[data[Src(t)]] /\ data[Src(t)] # None
  <2>1. Src(t) # None => Src(t) \in Objects /\ \A u \in Threads : Obj(u) # Src(t)
    BY <1>0, <1>1 DEF CallOk, TypeOK, Src
  <2> QED BY <1>1, <2>1, ShownFree DEF CallOk
<1>9. None \notin Buffers \cup {Null}
  BY StringAssumption
<1>10. CASE New(t)
  <2> PICK a \in Buffers : Allocate(t, a, req[t].arg)
    BY <1>10 DEF New
  <2>1. Return(t) /\ req[t].op = "construct" /\ data'[Obj(t)] = a /\ content'[a] = req[t].arg
    BY <1>0, <1>1, <1>10 DEF New, Allocate, CallOk, TypeOK, Op
  <2> QED BY <1>6, <1>7, <1>9, <2>1 DEF Owned!Result
<1>11. CASE AssignSame(t)
  <2>1. Return(t) /\ req[t].op = "assign" /\ data' = data /\ content' = content /\ data[Obj(t)] = data[Src(t)]
    BY <1>1, <1>11 DEF AssignSame, memory, CallOk, Op
  <2>2. Src(t) # None /\ Src(t) = req[t].src
    BY <1>1, <2>1 DEF CallOk, Op, Src
  <2> QED BY <1>6, <1>7, <1>8, <2>1, <2>2 DEF Owned!Result
<1>12. CASE Gone(t)
  <2>1. Return(t) /\ req[t].op = "destroy" /\ data'[Obj(t)] = None
    BY <1>0, <1>1, <1>12 DEF Gone, CallOk, TypeOK, Op
  <2> QED BY <1>6, <1>7, <2>1 DEF Owned!Result
<1>13. CASE SetData(t)
  <2>1. /\ Return(t) /\ req[t].op \in {"construct", "copy", "assign"}
        /\ data'[Obj(t)] = Given(t) /\ content' = content
    BY <1>0, <1>1, <1>13 DEF SetData, memory, CallOk, TypeOK, Op
  <2>2. CASE req[t].op = "construct"
    <3>1. Given(t) = Null /\ req[t].arg = 0 /\ content[Null] = 0
      BY <1>1, <1>13, <2>2 DEF SetData, CallValue, Given, Op, ValueInv
    <3> QED BY <1>6, <1>7, <1>9, <2>1, <2>2, <3>1 DEF Owned!Result
  <2>3. CASE req[t].op \in {"copy", "assign"}
    <3>1. Src(t) # None /\ Src(t) = req[t].src /\ Given(t) = data[Src(t)]
      BY <1>1, <2>3 DEF CallOk, CallValue, Given, Op, Src
    <3> QED BY <1>6, <1>7, <1>8, <2>1, <2>3, <3>1 DEF Owned!Result
  <2> QED BY <2>1, <2>2, <2>3
<1>14. CASE Written(t)
  <2>1. /\ Return(t) /\ req[t].op = "modify" /\ data' = data
        /\ data[Obj(t)] \in Buffers /\ content[data[Obj(t)]] = Half(was[t])
        /\ content'[data[Obj(t)]] = Half(content[data[Obj(t)]])
    BY <1>0, <1>1, <1>14 DEF Written, CallOk, CallValue, TypeOK, Op
  <2>2. Owned!Result(req[t]) = Half(Half(was[t]))
    BY <1>2, <2>1 DEF Owned!Result, Obj
  <2> QED BY <1>6, <1>7, <1>9, <2>1, <2>2
<1> QED BY <1>5, <1>10, <1>11, <1>12, <1>13, <1>14 DEF Step

(* Strings that share their data behave as strings that each have a value  *)
(* of their own, whichever threads copy, assign, modify and destroy them   *)
(* (String::iislinked and the copy it leads to).                           *)
THEOREM StringIsValue == Spec => IsValue
<1>1. Init => ValueInv /\ Owned!SvInit
  <2> SUFFICES ASSUME Init PROVE ValueInv /\ Owned!SvInit
    OBVIOUS
  <2>1. ValueInv
    BY DEF Init, ValueInv, CallValue, Idle, Op
  <2>2. Shown = [x \in Objects |-> None]
    BY StringAssumption DEF Init, Shown, Idle, Obj
  <2> QED BY <2>1, <2>2 DEF Init, Owned!SvInit, Owned!Idle, Idle
<1>2. StringInv /\ ValueInv /\ [Next]_vars => ValueInv' /\ [Owned!SvNext]_(Owned!svVars)
  <2> SUFFICES ASSUME StringInv, ValueInv, [Next]_vars
               PROVE  ValueInv' /\ [Owned!SvNext]_(Owned!svVars)
    OBVIOUS
  <2>1. ASSUME NEW t \in Threads, Calls(t) PROVE ValueInv' /\ Owned!SvNext
    BY <2>1, CallRefines
  <2>2. ASSUME NEW t \in Threads, Step(t) PROVE ValueInv' /\ [Owned!SvNext]_(Owned!svVars)
    BY <2>2, StepValues, StepRefines
  <2>3. CASE UNCHANGED vars
    <3>1. \A b : Keepers(b)' = Keepers(b)
      BY <2>3 DEF vars, Keepers, LetGo, Given, Obj, Src
    <3>2. ValueInv'
      BY <2>3, <3>1 DEF vars, ValueInv, CallValue, Op, Obj, Src
    <3>3. UNCHANGED Owned!svVars
      BY <2>3 DEF vars, Owned!svVars, Shown, Obj
    <3> QED BY <3>2, <3>3
  <2> QED BY <2>1, <2>2, <2>3 DEF Next, Calls
<1> QED BY <1>1, <1>2, StringInvAlways, PTL DEF Spec, IsValue, Owned!SvSpec
=============================================================================
