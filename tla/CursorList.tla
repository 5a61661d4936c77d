----------------------------- MODULE CursorList -----------------------------
(***************************************************************************)
(* tmb::List, a doubly linked list that remembers the element it was last  *)
(* asked for (_curp at _curindex), and the deleting of objects that        *)
(* tmb::ListP adds.  One thread calls it; a turn of each loop is a step.   *)
(***************************************************************************)
EXTENDS Integers, Sequences

CONSTANTS
  Nodes,       \* the elements the allocator can give
  Values,      \* the data, or the objects a ListP points to
  None,        \* the null pointer, and no value
  MaxLen       \* bound: length of the list

ASSUME ListAssumption == None \notin Nodes /\ None \notin Values /\ MaxLen \in Nat

VARIABLES
  next, prev, data, root, size,  \* Element's fields, _root, _size
  curp, curindex,                \* the cursor
  autodelete,                    \* ListP: _autodelete & AutoDelete_REMOVE
  freed,                         \* the objects deleted and not made again
  pc, req,                       \* where the call under way is, the call
  target, elem, steps, way,     \* igetDataElementAt(): its index and loop
  last,                          \* the last call that ended
  order                          \* history: the elements in their order

links == <<next, prev, root, size, order>>
cursor == <<curp, curindex>>
search == <<target, elem, steps, way>>
owner == <<autodelete, freed>>
vars == <<links, data, cursor, search, owner, pc, req, last>>

Idle == [op |-> "none", index |-> 0, value |-> None, count |-> 0]
Call(op, i, v, n) == [op |-> op, index |-> i, value |-> v, count |-> n]
Answer(r, result) == [op |-> r.op, index |-> r.index, value |-> r.value, result |-> result]

Init ==
  /\ next = [n \in Nodes |-> None] /\ prev = [n \in Nodes |-> None]
  /\ data = [n \in Nodes |-> None]
  /\ root = None /\ size = 0 /\ order = <<>>
  /\ curp = None /\ curindex = 0
  /\ autodelete \in BOOLEAN /\ freed = {}
  /\ pc = "idle" /\ req = Idle
  /\ target = 0 /\ elem = None /\ steps = 0 /\ way = "next"
  /\ last = Answer(Idle, None)

-----------------------------------------------------------------------------
Used == {order[i] : i \in DOMAIN order}
Held == {data[n] : n \in Used}

(* What the program puts into a deleting ListP is a new object. *)
Storable(v) == autodelete => v \notin Held

(* A call that goes to the element at index t first. *)
Seek(r, t) ==
  /\ pc = "idle" /\ pc' = "seek" /\ req' = r /\ target' = t
  /\ last' = Answer(Idle, None)
  /\ UNCHANGED <<links, data, cursor, owner, elem, steps, way>>

(* A call that ends at once. *)
Refused(r, result) ==
  /\ pc = "idle" /\ last' = Answer(r, result)
  /\ UNCHANGED <<links, data, cursor, search, owner, pc, req>>

CallGet(i) == i \in 0 .. size - 1 /\ Seek(Call("get", i, None, 0), i)
CallPut(i, v) == i \in 0 .. size - 1 /\ Storable(v) /\ Seek(Call("put", i, v, 0), i)
CallTake(i) == i \in 0 .. size - 1 /\ Seek(Call("take", i, None, 0), i)

CallRemove(i) ==
  IF i \in 0 .. size - 1 THEN Seek(Call("remove", i, None, 1), i)
                         ELSE Refused(Call("remove", i, None, 0), None)

(* remove(start, end): a negative end, or one too large, is the size. *)
CallRemoveRange(start, end) ==
  LET stop == IF end < 0 \/ end > size THEN size ELSE end
      r == Call("range", start, end, stop - start)
  IN IF start \in 0 .. size - 1 /\ start < stop THEN Seek(r, start) ELSE Refused(r, None)

CallIndexOf(v, start) ==
  LET r == Call("indexOf", start, v, 0)
  IN IF start >= 0 /\ start >= size THEN Refused(r, -1)
     ELSE Seek(r, IF start < 0 THEN 0 ELSE start)

(* An element behind the first i, or the i-th one gone, in the order. *)
InsertNode(s, i, n) ==
  [j \in 1 .. Len(s) + 1 |-> IF j <= i THEN s[j] ELSE IF j = i + 1 THEN n ELSE s[j - 1]]

RemoveNode(s, i) == [j \in 1 .. Len(s) - 1 |-> IF j < i THEN s[j] ELSE s[j + 1]]

(* insert() in an empty list or at its beginning. *)
InsertFirst(n, i, v) ==
  /\ pc = "idle" /\ Len(order) < MaxLen /\ n \notin Used /\ Storable(v)
  /\ size = 0 \/ i <= 0
  /\ next' = [next EXCEPT ![n] = IF size = 0 THEN None ELSE root]
  /\ prev' = [m \in Nodes |-> IF m = n THEN None
                              ELSE IF size # 0 /\ m = root THEN n ELSE prev[m]]
  /\ data' = [data EXCEPT ![n] = v]
  /\ root' = n /\ size' = size + 1
  /\ curindex' = 0 /\ curp' = n
  /\ freed' = freed \ {v}
  /\ order' = InsertNode(order, 0, n)
  /\ last' = Answer(Call("insert", i, v, 0), None)
  /\ UNCHANGED <<search, autodelete, pc, req>>

(* Mutant: an index past the end is not cut. *)
CallInsertUncut(i, v) ==
  /\ Len(order) < MaxLen /\ size > 0 /\ i > 0 /\ Storable(v)
  /\ Seek(Call("insert", i, v, 0), i - 1)

(* insert() behind another element, which it goes to first. *)
CallInsert(i, v) ==
  /\ Len(order) < MaxLen /\ size > 0 /\ i > 0 /\ Storable(v)
  /\ Seek(Call("insert", i, v, 0), (IF i > size THEN size ELSE i) - 1)

-----------------------------------------------------------------------------
(* igetDataElementAt(target): where to start and how far to go.  A None    *)
(* that is followed is a null pointer dereferenced.                        *)
Begin(at, far, along) ==
  /\ elem' = at /\ steps' = far /\ way' = along /\ pc' = "walk"

Locate ==
  /\ pc = "seek"
  /\ CASE target = curindex -> Begin(curp, 0, "next")
       [] target = curindex + 1 -> Begin(curp, 1, "next")
       [] target = curindex - 1 -> Begin(curp, 1, "prev")
       [] OTHER ->
            IF target = 0 THEN Begin(root, 0, "next")
            ELSE IF target > curindex THEN Begin(curp, target - curindex, "next")
            ELSE IF target > curindex \div 2 THEN Begin(curp, curindex - target, "prev")
            ELSE Begin(root, target, "next")
  /\ UNCHANGED <<links, data, cursor, owner, target, req, last>>

(* Mutant: a walk ends one element too early. *)
WalkShort ==
  /\ pc = "walk" /\ steps > 0
  /\ IF elem = None THEN pc' = "crashed" /\ UNCHANGED <<elem, steps>>
     ELSE /\ elem' = IF way = "prev" THEN prev[elem] ELSE next[elem]
          /\ steps' = IF steps = 2 THEN 0 ELSE steps - 1
          /\ UNCHANGED pc
  /\ UNCHANGED <<links, data, cursor, owner, target, way, req, last>>

Walk ==
  /\ pc = "walk" /\ steps > 0
  /\ IF elem = None THEN pc' = "crashed" /\ UNCHANGED <<elem, steps>>
     ELSE /\ elem' = IF way = "prev" THEN prev[elem] ELSE next[elem]
          /\ steps' = steps - 1
          /\ UNCHANGED pc
  /\ UNCHANGED <<links, data, cursor, owner, target, way, req, last>>

Arrive ==
  /\ pc = "walk" /\ steps = 0
  /\ curp' = elem /\ curindex' = target
  /\ pc' = IF req.op = "indexOf" THEN "scan" ELSE IF elem = None THEN "crashed" ELSE "found"
  /\ UNCHANGED <<links, data, search, owner, req, last>>

-----------------------------------------------------------------------------
(* The rest of each call, at the element it was looking for. *)
End(result) ==
  /\ pc' = "idle" /\ req' = Idle /\ last' = Answer(req, result)
  /\ target' = 0 /\ elem' = None /\ steps' = 0 /\ way' = "next"

At(op) == pc = "found" /\ req.op = op

Get ==
  /\ At("get") /\ End(data[elem])
  /\ UNCHANGED <<links, data, cursor, owner>>

(* put() overwrites; what a ListP pointed to is not deleted. *)
Put ==
  /\ At("put") /\ data' = [data EXCEPT ![elem] = req.value] /\ End(None)
  /\ freed' = freed \ {req.value}
  /\ UNCHANGED <<links, cursor, autodelete>>

(* Mutant: the following element keeps its _prev. *)
InsertHalf(n) ==
  /\ At("insert") /\ n \notin Used
  /\ next' = [next EXCEPT ![n] = next[elem], ![elem] = n]
  /\ prev' = [prev EXCEPT ![n] = elem]
  /\ data' = [data EXCEPT ![n] = req.value]
  /\ size' = size + 1
  /\ curindex' = target + 1 /\ curp' = n
  /\ freed' = freed \ {req.value}
  /\ order' = InsertNode(order, target + 1, n)
  /\ End(None)
  /\ UNCHANGED <<root, autodelete>>

Insert(n) ==
  /\ At("insert") /\ n \notin Used
  /\ next' = [next EXCEPT ![n] = next[elem], ![elem] = n]
  /\ prev' = [m \in Nodes |-> IF m = n THEN elem
                              ELSE IF m = next[elem] THEN n ELSE prev[m]]
  /\ data' = [data EXCEPT ![n] = req.value]
  /\ size' = size + 1
  /\ curindex' = target + 1 /\ curp' = n
  /\ freed' = freed \ {req.value}
  /\ order' = InsertNode(order, target + 1, n)
  /\ End(None)
  /\ UNCHANGED <<root, autodelete>>

(* Mutant: the cursor keeps the index when the last element goes. *)
MoveCursorStay == curindex' = target /\ curp' = IF next[elem] # None THEN next[elem] ELSE prev[elem]

MoveCursor ==
  IF next[elem] # None THEN curindex' = target /\ curp' = next[elem]
                       ELSE curindex' = target - 1 /\ curp' = prev[elem]

(* The element goes, and with it its fields. *)
Unlink ==
  /\ prev' = [m \in Nodes |-> IF m = elem THEN None
                              ELSE IF m = next[elem] THEN prev[elem] ELSE prev[m]]
  /\ next' = [m \in Nodes |-> IF m = elem THEN None
                              ELSE IF m = prev[elem] THEN next[elem] ELSE next[m]]
  /\ root' = IF prev[elem] = None THEN next[elem] ELSE root
  /\ data' = [data EXCEPT ![elem] = None]
  /\ MoveCursor
  /\ size' = size - 1
  /\ order' = RemoveNode(order, target + 1)

(* Mutant: ListP asks for the object again after the element is gone. *)
RemoveDeletesNext ==
  /\ pc = "found" /\ req.op \in {"remove", "range"}
  /\ freed' = IF autodelete /\ next[elem] # None THEN freed \cup {data[next[elem]]} ELSE freed
  /\ Unlink
  /\ IF req.count > 1
     THEN /\ pc' = "seek" /\ req' = [req EXCEPT !.count = @ - 1]
          /\ UNCHANGED <<search, last>>
     ELSE End(None)
  /\ UNCHANGED autodelete

(* remove(): ListP deletes the object first.  A range goes on at the same  *)
(* index with the next element.                                            *)
Remove ==
  /\ pc = "found" /\ req.op \in {"remove", "range"}
  /\ freed' = IF autodelete THEN freed \cup {data[elem]} ELSE freed
  /\ Unlink
  /\ IF req.count > 1
     THEN /\ pc' = "seek" /\ req' = [req EXCEPT !.count = @ - 1]
          /\ UNCHANGED <<search, last>>
     ELSE End(None)
  /\ UNCHANGED autodelete

(* getAndRemove(): the object goes to the caller and is never deleted. *)
Take ==
  /\ At("take") /\ Unlink /\ End(data[elem])
  /\ UNCHANGED owner

(* indexOf() goes on from there without moving the cursor. *)
Scan ==
  /\ pc = "scan"
  /\ IF elem = None THEN End(-1)
     ELSE IF data[elem] = req.value THEN End(target)
     ELSE /\ elem' = next[elem] /\ target' = target + 1
          /\ UNCHANGED <<pc, req, steps, way, last>>
  /\ UNCHANGED <<links, data, cursor, owner>>

(* The program goes on with a copy (icopyData): new elements in the same   *)
(* order, here under the same names, the cursor where the original's is if *)
(* the copy has such an element; a ListP's copy deletes nothing.           *)
Copy ==
  /\ pc = "idle"
  /\ curp' = IF curp \in Used THEN curp ELSE None
  /\ autodelete' = FALSE
  /\ UNCHANGED <<links, data, curindex, search, freed, pc, req, last>>

Next ==
  \/ \E i \in -1 .. MaxLen + 1 :
       \/ CallGet(i) \/ CallTake(i) \/ CallRemove(i)
       \/ \E end \in -1 .. MaxLen + 1 : CallRemoveRange(i, end)
       \/ \E v \in Values :
            \/ CallPut(i, v) \/ CallIndexOf(v, i) \/ CallInsert(i, v)
            \/ \E n \in Nodes : InsertFirst(n, i, v)
  \/ Locate \/ Walk \/ Arrive
  \/ Get \/ Put \/ Remove \/ Take \/ Scan
  \/ \E n \in Nodes : Insert(n)
  \/ Copy

Spec == Init /\ [][Next]_vars

-----------------------------------------------------------------------------
NodeOrNone == Nodes \cup {None}
Ops == {"none", "get", "put", "take", "remove", "range", "indexOf", "insert"}

TypeOK ==
  /\ next \in [Nodes -> NodeOrNone] /\ prev \in [Nodes -> NodeOrNone]
  /\ data \in [Nodes -> Values \cup {None}]
  /\ root \in NodeOrNone /\ size \in 0 .. MaxLen /\ order \in Seq(Nodes)
  /\ curp \in NodeOrNone /\ curindex \in Int
  /\ autodelete \in BOOLEAN /\ freed \subseteq Values \cup {None}
  /\ pc \in {"idle", "seek", "walk", "found", "scan", "crashed"}
  /\ req \in [op : Ops, index : Int, value : Values \cup {None} \cup Int, count : Int]
  /\ target \in Nat /\ elem \in NodeOrNone /\ steps \in Nat /\ way \in {"next", "prev"}

OrderAt(i) == IF i \in DOMAIN order THEN order[i] ELSE None

(* _next and _prev, from _root on, are one another's inverse and pass      *)
(* through _size different elements (List::insert, remove).                *)
Linked ==
  /\ size = Len(order) /\ root = OrderAt(1)
  /\ \A i, j \in DOMAIN order : order[i] = order[j] => i = j
  /\ \A i \in DOMAIN order : next[order[i]] = OrderAt(i + 1) /\ prev[order[i]] = OrderAt(i - 1)

(* The element the list remembers is the one at the index it remembers, or *)
(* there is none; every way igetDataElementAt() goes starts from it.       *)
CursorAtIndex ==
  IF size = 0 THEN curp = None /\ curindex \in {0, -1}
              ELSE curindex \in 0 .. size - 1 /\ curp = OrderAt(curindex + 1)

(* The inductive form: how far a call has come towards its element.        *)
Pending == pc \in {"seek", "walk", "found"}
Searching ==
  /\ pc \in {"seek", "walk", "scan", "crashed"} /\ size = 0 => req.op = "indexOf" /\ req.index < 0
  /\ Pending =>
       \/ target \in 0 .. size - 1
       \/ size = 0 /\ target = 0 /\ req.op = "indexOf" /\ pc # "found"
  /\ pc = "walk" =>
       IF size = 0 THEN elem = None /\ (steps > 0 => curindex = -1)
       ELSE LET i == IF way = "prev" THEN target + steps + 1 ELSE target - steps + 1
            IN i \in DOMAIN order /\ elem = order[i]
  /\ pc = "found" => elem = order[target + 1]
  /\ Pending /\ req.op = "range" => req.count <= size - target
  /\ Pending /\ req.op = "insert" => Len(order) < MaxLen
  /\ Pending /\ req.op \in {"insert", "put"} => req.value \in Values
  /\ Pending /\ req.op = "remove" => req.count = 1
  /\ pc = "crashed" => size = 0 /\ curindex = -1
ListInv == TypeOK /\ Linked /\ CursorAtIndex /\ Searching

(* A ListP that deletes what it removes never holds a deleted object.      *)
NoDangling == autodelete => Held \cap freed = {}

(* The inductive form: the objects such a ListP holds are there, each held *)
(* once, and one that a call is bringing is not held yet.                  *)
Owned ==
  autodelete =>
    /\ \A i \in DOMAIN order : data[order[i]] \in Values \ freed
    /\ \A i, j \in DOMAIN order : data[order[i]] = data[order[j]] => i = j
    /\ Pending /\ req.op \in {"put", "insert"} => req.value \notin Held

(* No call follows a null pointer, but indexOf() from a negative index in  *)
(* a list that has become empty (List::indexOf, igetDataElementAt).        *)
NullOnlyInEmptied ==
  pc = "crashed" => req.op = "indexOf" /\ req.index < 0 /\ size = 0 /\ curindex = -1

-----------------------------------------------------------------------------
(* The sequence the list stands for, in which a range is gone as soon as   *)
(* its removal is under way, and the last call that took effect.           *)
Removing == pc # "idle" /\ req.op = "range"
Contents ==
  LET gone == IF Removing THEN req.count ELSE 0
  IN [i \in 1 .. Len(order) - gone |->
        data[order[IF gone > 0 /\ i > target THEN i + gone ELSE i]]]
Latest == IF Removing THEN Answer(req, None) ELSE last
=============================================================================
