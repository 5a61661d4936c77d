-------------------------- MODULE CursorListProof --------------------------
(***************************************************************************)
(* Proofs about CursorList for any elements, values and length: the list   *)
(* stays linked, the cursor stays at its index, the only null pointer a    *)
(* call follows is the one NullOnlyInEmptied names, and no deleted object  *)
(* is held; and the list implements the sequence of ListSpec.  Then the    *)
(* LogController's walks over such a list.                                 *)
(***************************************************************************)
EXTENDS MCCursorList, SequenceTheorems, TLAPS

USE ListAssumption DEF ListAssumption

(* The order with one element more, and with one less. *)
LEMMA InsertNodeIs ==
  ASSUME NEW s \in Seq(Nodes), NEW i \in 0 .. Len(s), NEW n \in Nodes
  PROVE  /\ InsertNode(s, i, n) \in Seq(Nodes)
         /\ Len(InsertNode(s, i, n)) = Len(s) + 1
         /\ \A j \in 1 .. Len(s) + 1 :
              InsertNode(s, i, n)[j] = IF j <= i THEN s[j] ELSE IF j = i + 1 THEN n ELSE s[j - 1]
<1> DEFINE t == InsertNode(s, i, n)
<1>1. t \in [1 .. Len(s) + 1 -> Nodes]
  BY DEF InsertNode
<1>2. t \in Seq(Nodes) /\ Len(t) = Len(s) + 1
  <2> HIDE DEF t
  <2> QED BY <1>1
<1> QED BY <1>2 DEF InsertNode

LEMMA RemoveNodeIs ==
  ASSUME NEW s \in Seq(Nodes), NEW i \in 1 .. Len(s)
  PROVE  /\ RemoveNode(s, i) \in Seq(Nodes)
         /\ Len(RemoveNode(s, i)) = Len(s) - 1
         /\ \A j \in 1 .. Len(s) - 1 : RemoveNode(s, i)[j] = IF j < i THEN s[j] ELSE s[j + 1]
<1> DEFINE t == RemoveNode(s, i)
<1>1. t \in [1 .. Len(s) - 1 -> Nodes]
  BY DEF RemoveNode
<1>2. t \in Seq(Nodes) /\ Len(t) = Len(s) - 1
  <2> HIDE DEF t
  <2> QED BY <1>1
<1> QED BY <1>2 DEF RemoveNode

(* Hooking n in behind the p-th element keeps the list linked (insert).     *)
LEMMA LinkedAfterInsert ==
  ASSUME TypeOK, Linked, NEW p \in 0 .. Len(order), NEW n \in Nodes, n \notin Used,
         order' = InsertNode(order, p, n), size' = size + 1,
         root' = (IF p = 0 THEN n ELSE root),
         \A m \in Nodes : next'[m] = IF m = n THEN OrderAt(p + 1)
                                     ELSE IF m = OrderAt(p) THEN n ELSE next[m],
         \A m \in Nodes : prev'[m] = IF m = n THEN OrderAt(p)
                                     ELSE IF m = OrderAt(p + 1) THEN n ELSE prev[m]
  PROVE  Linked' /\ order' \in Seq(Nodes)
<1> DEFINE k == Len(order)
<1>1. /\ k \in Nat /\ DOMAIN order = 1 .. k /\ \A j \in 1 .. k : order[j] \in Nodes /\ order[j] # n
      /\ size = k
  BY DEF TypeOK, Used, Linked
<1>2. /\ order' \in Seq(Nodes) /\ Len(order') = k + 1 /\ DOMAIN order' = 1 .. k + 1
      /\ \A j \in 1 .. k + 1 :
           order'[j] = IF j <= p THEN order[j] ELSE IF j = p + 1 THEN n ELSE order[j - 1]
  <2>1. order \in Seq(Nodes)
    BY DEF TypeOK
  <2>2. /\ order' \in Seq(Nodes) /\ Len(order') = k + 1
        /\ \A j \in 1 .. k + 1 :
             order'[j] = IF j <= p THEN order[j] ELSE IF j = p + 1 THEN n ELSE order[j - 1]
    BY <2>1, InsertNodeIs
  <2> QED BY <1>1, <2>2
<1>3. \A i, j \in 1 .. k : order[i] = order[j] => i = j
  BY <1>1 DEF Linked
<1>4. \A i \in 1 .. k : next[order[i]] = OrderAt(i + 1) /\ prev[order[i]] = OrderAt(i - 1)
  BY <1>1 DEF Linked
<1>5. \A i, j \in DOMAIN order' : order'[i] = order'[j] => i = j
  BY <1>1, <1>2, <1>3
<1>6. ASSUME NEW j \in 1 .. k + 1 PROVE next'[order'[j]] = OrderAt(j + 1)'
  <2>1. CASE j < p
    BY <1>1, <1>2, <1>3, <1>4, <2>1 DEF OrderAt
  <2>2. CASE j = p
    BY <1>1, <1>2, <2>2 DEF OrderAt
  <2>3. CASE j = p + 1
    BY <1>1, <1>2, <2>3 DEF OrderAt
  <2>4. CASE j > p + 1
    <3>1. order'[j] = order[j - 1] /\ j - 1 \in 1 .. k
      BY <1>1, <1>2, <2>4
    <3>2. order[j - 1] # n /\ order[j - 1] # OrderAt(p)
      BY <1>1, <1>3, <2>4, <3>1 DEF OrderAt
    <3>3. next'[order'[j]] = OrderAt(j)
      BY <1>1, <1>4, <3>1, <3>2
    <3> QED BY <1>1, <1>2, <2>4, <3>3 DEF OrderAt
  <2> QED BY <2>1, <2>2, <2>3, <2>4
<1>7. ASSUME NEW j \in 1 .. k + 1 PROVE prev'[order'[j]] = OrderAt(j - 1)'
  <2>1. CASE j <= p
    <3>1. order'[j] = order[j] /\ j \in 1 .. k
      BY <1>1, <1>2, <2>1
    <3>2. order[j] # n /\ order[j] # OrderAt(p + 1)
      BY <1>1, <1>3, <2>1, <3>1 DEF OrderAt
    <3>3. prev'[order'[j]] = OrderAt(j - 1)
      BY <1>1, <1>4, <3>1, <3>2
    <3> QED BY <1>1, <1>2, <2>1, <3>3 DEF OrderAt
  <2>2. CASE j = p + 1
    BY <1>1, <1>2, <2>2 DEF OrderAt
  <2>3. CASE j = p + 2
    BY <1>1, <1>2, <2>3 DEF OrderAt
  <2>4. CASE j > p + 2
    <3>1. order'[j] = order[j - 1] /\ j - 1 \in 1 .. k
      BY <1>1, <1>2, <2>4
    <3>2. order[j - 1] # n /\ order[j - 1] # OrderAt(p + 1)
      BY <1>1, <1>3, <2>4, <3>1 DEF OrderAt
    <3>3. prev'[order'[j]] = OrderAt(j - 2)
      BY <1>1, <1>4, <3>1, <3>2
    <3> QED BY <1>1, <1>2, <2>4, <3>3 DEF OrderAt
  <2> QED BY <2>1, <2>2, <2>3, <2>4
<1>8. root' = OrderAt(1)'
  BY <1>1, <1>2 DEF OrderAt, Linked
<1> QED BY <1>1, <1>2, <1>5, <1>6, <1>7, <1>8 DEF Linked

(* Taking the element a call has found out keeps the list linked (remove).  *)
LEMMA LinkedAfterUnlink ==
  ASSUME TypeOK, Linked, target + 1 \in DOMAIN order, elem = order[target + 1], Unlink
  PROVE  Linked' /\ order' \in Seq(Nodes) /\ size' = size - 1 /\ elem \in Nodes
<1> DEFINE k == Len(order)
           p == target + 1
<1>1. /\ k \in Nat /\ DOMAIN order = 1 .. k /\ \A j \in 1 .. k : order[j] \in Nodes
      /\ size = k /\ p \in 1 .. k /\ elem = order[p] /\ target \in Nat
  BY DEF TypeOK, Linked
<1>2. /\ order' \in Seq(Nodes) /\ Len(order') = k - 1 /\ DOMAIN order' = 1 .. k - 1
      /\ \A j \in 1 .. k - 1 : order'[j] = IF j < p THEN order[j] ELSE order[j + 1]
  <2>1. order \in Seq(Nodes) /\ order' = RemoveNode(order, p)
    BY DEF TypeOK, Unlink
  <2>2. /\ order' \in Seq(Nodes) /\ Len(order') = k - 1
        /\ \A j \in 1 .. k - 1 : order'[j] = IF j < p THEN order[j] ELSE order[j + 1]
    BY <1>1, <2>1, RemoveNodeIs
  <2>3. order' \in Seq(Nodes) => DOMAIN order' = 1 .. Len(order')
    OBVIOUS
  <2> HIDE DEF k, p
  <2> QED BY <2>2, <2>3
<1>3. \A i, j \in 1 .. k : order[i] = order[j] => i = j
  BY <1>1 DEF Linked
<1>4. \A i \in 1 .. k : next[order[i]] = OrderAt(i + 1) /\ prev[order[i]] = OrderAt(i - 1)
  BY <1>1 DEF Linked
<1>5. next[elem] = OrderAt(p + 1) /\ prev[elem] = OrderAt(p - 1)
  BY <1>1, <1>4
<1>6. /\ \A m \in Nodes : next'[m] = IF m = elem THEN None
                                     ELSE IF m = OrderAt(p - 1) THEN OrderAt(p + 1) ELSE next[m]
      /\ \A m \in Nodes : prev'[m] = IF m = elem THEN None
                                     ELSE IF m = OrderAt(p + 1) THEN OrderAt(p - 1) ELSE prev[m]
      /\ root' = IF OrderAt(p - 1) = None THEN OrderAt(p + 1) ELSE root
      /\ size' = size - 1
  BY <1>5 DEF Unlink
<1>7. \A i, j \in DOMAIN order' : order'[i] = order'[j] => i = j
  BY <1>1, <1>2, <1>3
<1>8. ASSUME NEW j \in 1 .. k - 1 PROVE next'[order'[j]] = OrderAt(j + 1)'
  <2>1. CASE j < p - 1
    <3>1. order'[j] = order[j] /\ order[j] # elem /\ order[j] # OrderAt(p - 1)
      BY <1>1, <1>2, <1>3, <2>1 DEF OrderAt
    <3>2. next'[order'[j]] = OrderAt(j + 1)
      BY <1>1, <1>4, <1>6, <3>1
    <3> QED BY <1>1, <1>2, <2>1, <3>2 DEF OrderAt
  <2>2. CASE j = p - 1
    <3>1. order'[j] = order[j] /\ order[j] # elem /\ order[j] = OrderAt(p - 1)
      BY <1>1, <1>2, <1>3, <2>2 DEF OrderAt
    <3>2. next'[order'[j]] = OrderAt(p + 1)
      BY <1>1, <1>6, <3>1
    <3> QED BY <1>1, <1>2, <2>2, <3>2 DEF OrderAt
  <2>3. CASE j >= p
    <3>1. order'[j] = order[j + 1] /\ order[j + 1] # elem /\ order[j + 1] # OrderAt(p - 1)
      BY <1>1, <1>2, <1>3, <2>3 DEF OrderAt
    <3>2. next'[order'[j]] = OrderAt(j + 2)
      BY <1>1, <1>4, <1>6, <3>1
    <3> QED BY <1>1, <1>2, <2>3, <3>2 DEF OrderAt
  <2> QED BY <1>1, <2>1, <2>2, <2>3
<1>9. ASSUME NEW j \in 1 .. k - 1 PROVE prev'[order'[j]] = OrderAt(j - 1)'
  <2>1. CASE j < p
    <3>1. order'[j] = order[j] /\ order[j] # elem /\ order[j] # OrderAt(p + 1)
      BY <1>1, <1>2, <1>3, <2>1 DEF OrderAt
    <3>2. prev'[order'[j]] = OrderAt(j - 1)
      BY <1>1, <1>4, <1>6, <3>1
    <3> QED BY <1>1, <1>2, <2>1, <3>2 DEF OrderAt
  <2>2. CASE j = p
    <3>1. order'[j] = order[j + 1] /\ order[j + 1] # elem /\ order[j + 1] = OrderAt(p + 1)
      BY <1>1, <1>2, <1>3, <2>2 DEF OrderAt
    <3>2. prev'[order'[j]] = OrderAt(p - 1)
      BY <1>1, <1>6, <3>1
    <3> QED BY <1>1, <1>2, <2>2, <3>2 DEF OrderAt
  <2>3. CASE j > p
    <3>1. order'[j] = order[j + 1] /\ order[j + 1] # elem /\ order[j + 1] # OrderAt(p + 1)
      <4>1. order'[j] = order[j + 1] /\ j + 1 \in 1 .. k /\ j + 1 # p /\ j + 1 # p + 1
        BY <1>1, <1>2, <2>3
      <4> QED BY <1>1, <1>3, <4>1 DEF OrderAt
    <3>2. prev'[order'[j]] = OrderAt(j)
      BY <1>1, <1>4, <1>6, <3>1
    <3> QED BY <1>1, <1>2, <2>3, <3>2 DEF OrderAt
  <2> QED BY <1>1, <2>1, <2>2, <2>3
<1>10. root' = OrderAt(1)'
  BY <1>1, <1>2, <1>6 DEF OrderAt, Linked
<1>11. size' = Len(order') /\ size' = size - 1
  BY <1>1, <1>2, <1>6
<1> QED BY <1>1, <1>2, <1>7, <1>8, <1>9, <1>10, <1>11 DEF Linked
-----------------------------------------------------------------------------
Requests == [op : Ops, index : Int, value : Values \cup {None} \cup Int, count : Int]

(* A call sets out for an element the list has, or indexOf() for the first  *)
(* one of a list that has none.                                             *)
LEMMA SeekKeeps ==
  ASSUME ListInv, NEW r \in Requests, NEW t \in Nat, Seek(r, t),
         t \in 0 .. size - 1 \/ (size = 0 /\ t = 0 /\ r.op = "indexOf" /\ r.index < 0),
         r.op = "range" => r.count <= size - t,
         r.op = "insert" => Len(order) < MaxLen,
         r.op \in {"insert", "put"} => r.value \in Values,
         r.op = "remove" => r.count = 1
  PROVE  ListInv'
<1> USE DEF ListInv, Seek, links, cursor, owner
<1>1. TypeOK'
  BY DEF TypeOK, Requests
<1>2. Linked' /\ CursorAtIndex'
  BY DEF Linked, CursorAtIndex, OrderAt
<1>3. size \in Nat
  BY DEF TypeOK
<1>4. Searching'
  BY <1>3 DEF Searching, Pending
<1> QED BY <1>1, <1>2, <1>4

(* A call that is refused changes nothing but last. *)
LEMMA SameKeeps ==
  ASSUME ListInv, UNCHANGED <<links, data, cursor, search, owner, pc, req>>
  PROVE  ListInv'
BY DEF ListInv, TypeOK, Linked, CursorAtIndex, OrderAt, Searching, Pending,
       links, cursor, search, owner

(* The calls, as far as their search or their early return. *)
LEMMA CallKeeps ==
  ASSUME ListInv, NEW i \in Int,
         \/ CallGet(i) \/ CallTake(i) \/ CallRemove(i)
         \/ \E end \in Int : CallRemoveRange(i, end)
         \/ \E v \in Values : CallPut(i, v) \/ CallIndexOf(v, i) \/ CallInsert(i, v)
  PROVE  ListInv'
<1>1. size \in Nat /\ size = Len(order)
  BY DEF ListInv, TypeOK, Linked
<1>2. CASE CallGet(i)
  <2>1. i \in 0 .. size - 1 /\ Seek(Call("get", i, None, 0), i)
    BY <1>2 DEF CallGet
  <2>2. Call("get", i, None, 0) \in Requests /\ Call("get", i, None, 0).op = "get"
    BY DEF Call, Requests, Ops
  <2> QED BY <1>1, <2>1, <2>2, SeekKeeps
<1>3. CASE CallTake(i)
  <2>1. i \in 0 .. size - 1 /\ Seek(Call("take", i, None, 0), i)
    BY <1>3 DEF CallTake
  <2>2. Call("take", i, None, 0) \in Requests /\ Call("take", i, None, 0).op = "take"
    BY DEF Call, Requests, Ops
  <2> QED BY <1>1, <2>1, <2>2, SeekKeeps
<1>4. CASE CallRemove(i)
  <2>1. CASE i \in 0 .. size - 1
    <3>1. Seek(Call("remove", i, None, 1), i)
      BY <1>4, <2>1 DEF CallRemove
    <3>2. /\ Call("remove", i, None, 1) \in Requests
          /\ Call("remove", i, None, 1).op = "remove"
          /\ Call("remove", i, None, 1).count = 1
      BY DEF Call, Requests, Ops
    <3> QED BY <1>1, <2>1, <3>1, <3>2, SeekKeeps
  <2>2. CASE i \notin 0 .. size - 1
    BY <1>4, <2>2, SameKeeps DEF CallRemove, Refused
  <2> QED BY <2>1, <2>2
<1>5. ASSUME NEW end \in Int, CallRemoveRange(i, end) PROVE ListInv'
  <2> DEFINE stop == IF end < 0 \/ end > size THEN size ELSE end
             r == Call("range", i, end, stop - i)
  <2>1. CASE i \in 0 .. size - 1 /\ i < stop
    <3>1. Seek(r, i)
      BY <1>5, <2>1 DEF CallRemoveRange
    <3>2. stop \in Int /\ stop - i <= size - i
      BY <1>1
    <3>3. r \in Requests /\ r.op = "range" /\ r.count = stop - i
      BY <3>2 DEF Call, Requests, Ops
    <3> HIDE DEF stop, r
    <3> QED BY <1>1, <2>1, <3>1, <3>2, <3>3, SeekKeeps
  <2>2. CASE ~(i \in 0 .. size - 1 /\ i < stop)
    BY <1>5, <2>2, SameKeeps DEF CallRemoveRange, Refused
  <2> QED BY <2>1, <2>2
<1>6. ASSUME NEW v \in Values, CallPut(i, v) PROVE ListInv'
  <2>1. i \in 0 .. size - 1 /\ Seek(Call("put", i, v, 0), i)
    BY <1>6 DEF CallPut
  <2>2. /\ Call("put", i, v, 0) \in Requests
        /\ Call("put", i, v, 0).op = "put"
        /\ Call("put", i, v, 0).value = v
    BY DEF Call, Requests, Ops
  <2> QED BY <1>1, <2>1, <2>2, SeekKeeps
<1>7. ASSUME NEW v \in Values, CallIndexOf(v, i) PROVE ListInv'
  <2> DEFINE r == Call("indexOf", i, v, 0)
             t == IF i < 0 THEN 0 ELSE i
  <2>1. CASE i >= 0 /\ i >= size
    BY <1>7, <2>1, SameKeeps DEF CallIndexOf, Refused
  <2>2. CASE ~(i >= 0 /\ i >= size)
    <3>1. Seek(r, t)
      BY <1>7, <2>2 DEF CallIndexOf
    <3>2. r \in Requests /\ r.op = "indexOf" /\ r.index = i
      BY DEF Call, Requests, Ops
    <3>3. t \in Nat /\ (t \in 0 .. size - 1 \/ (size = 0 /\ t = 0 /\ i < 0))
      BY <1>1, <2>2
    <3> HIDE DEF r, t
    <3> QED BY <3>1, <3>2, <3>3, SeekKeeps
  <2> QED BY <2>1, <2>2
<1>8. ASSUME NEW v \in Values, CallInsert(i, v) PROVE ListInv'
  <2> DEFINE t == (IF i > size THEN size ELSE i) - 1
  <2>1. Seek(Call("insert", i, v, 0), t) /\ Len(order) < MaxLen /\ t \in 0 .. size - 1
    BY <1>1, <1>8 DEF CallInsert
  <2>2. /\ Call("insert", i, v, 0) \in Requests
        /\ Call("insert", i, v, 0).op = "insert"
        /\ Call("insert", i, v, 0).value = v
    BY DEF Call, Requests, Ops
  <2> HIDE DEF t
  <2> QED BY <1>1, <2>1, <2>2, SeekKeeps
<1> QED BY <1>2, <1>3, <1>4, <1>5, <1>6, <1>7, <1>8

-----------------------------------------------------------------------------
(* igetDataElementAt() sets out from the cursor or the root and is, at each *)
(* turn, as far from its element as it has steps left.                      *)
LEMMA SearchKeeps ==
  ASSUME ListInv, Locate \/ Walk \/ Arrive
  PROVE  ListInv'
<1> USE DEF links, cursor, search, owner
<1>1. /\ size \in Nat /\ size = Len(order) /\ order \in Seq(Nodes) /\ DOMAIN order = 1 .. size
      /\ \A j \in 1 .. size : order[j] \in Nodes /\ order[j] # None
      /\ target \in Nat /\ steps \in Nat /\ curindex \in Int /\ way \in {"next", "prev"}
  BY DEF ListInv, TypeOK, Linked
<1>2. CASE Locate
  <2>1. Linked' /\ CursorAtIndex'
    BY <1>2 DEF ListInv, Linked, CursorAtIndex, OrderAt, Locate
  <2>2. pc = "seek" /\ pc' = "walk" /\ UNCHANGED <<links, data, cursor, owner, target, req>>
    BY <1>2 DEF Locate, Begin
  <2>3. CASE size = 0
    <3>1. target = 0 /\ curp = None /\ root = None /\ req.op = "indexOf" /\ req.index < 0
      BY <1>1, <2>2, <2>3 DEF ListInv, Searching, Pending, CursorAtIndex, Linked, OrderAt
    <3>2. elem' = None /\ steps' \in Nat /\ way' \in {"next", "prev"} /\ (steps' > 0 => curindex = -1)
      <4>1. curindex \in {0, -1}
        BY <2>3 DEF ListInv, CursorAtIndex
      <4>2. CASE curindex = 0
        BY <1>2, <3>1, <4>2 DEF Locate, Begin
      <4>3. CASE curindex = -1
        BY <1>2, <3>1, <4>3 DEF Locate, Begin
      <4> QED BY <4>1, <4>2, <4>3
    <3>3. TypeOK'
      BY <2>2, <3>2 DEF ListInv, TypeOK, NodeOrNone
    <3>4. Searching'
      BY <2>2, <2>3, <3>1, <3>2 DEF ListInv, Searching, Pending
    <3> QED BY <2>1, <3>3, <3>4 DEF ListInv
  <2>4. CASE size # 0
    <3>1. /\ target \in 0 .. size - 1 /\ curindex \in 0 .. size - 1
          /\ curp = order[curindex + 1] /\ root = order[1]
      BY <1>1, <2>2, <2>4 DEF ListInv, Searching, Pending, CursorAtIndex, Linked, OrderAt
    <3> DEFINE place == IF way' = "prev" THEN target + steps' + 1 ELSE target - steps' + 1
    <3>2. /\ steps' \in Nat /\ way' \in {"next", "prev"} /\ place \in 1 .. size /\ elem' = order[place]
      <4>1. CASE target = curindex
        BY <1>1, <1>2, <3>1, <4>1 DEF Locate, Begin
      <4>2. CASE target = curindex + 1
        BY <1>1, <1>2, <3>1, <4>2 DEF Locate, Begin
      <4>3. CASE target = curindex - 1
        BY <1>1, <1>2, <3>1, <4>3 DEF Locate, Begin
      <4>4. CASE target \notin {curindex, curindex + 1, curindex - 1}
        <5>1. IF target = 0 THEN Begin(root, 0, "next")
              ELSE IF target > curindex THEN Begin(curp, target - curindex, "next")
              ELSE IF target > curindex \div 2 THEN Begin(curp, curindex - target, "prev")
              ELSE Begin(root, target, "next")
          BY <1>2, <4>4 DEF Locate
        <5>2. CASE target = 0
          BY <1>1, <3>1, <5>1, <5>2 DEF Begin
        <5>3. CASE target # 0 /\ target > curindex
          BY <1>1, <3>1, <5>1, <5>3 DEF Begin
        <5>4. CASE target # 0 /\ ~(target > curindex) /\ target > curindex \div 2
          BY <1>1, <3>1, <4>4, <5>1, <5>4 DEF Begin
        <5>5. CASE target # 0 /\ ~(target > curindex) /\ ~(target > curindex \div 2)
          BY <1>1, <3>1, <4>4, <5>1, <5>5 DEF Begin
        <5> QED BY <5>2, <5>3, <5>4, <5>5
      <4> QED BY <4>1, <4>2, <4>3, <4>4
    <3>3. TypeOK'
      BY <1>1, <2>2, <3>2 DEF ListInv, TypeOK, NodeOrNone
    <3>4. Searching'
      BY <1>1, <2>2, <2>4, <3>1, <3>2 DEF ListInv, Searching, Pending
    <3> QED BY <2>1, <3>3, <3>4 DEF ListInv
  <2> QED BY <2>3, <2>4
<1>3. CASE Walk
  <2>1. Linked' /\ CursorAtIndex'
    BY <1>3 DEF ListInv, Linked, CursorAtIndex, OrderAt, Walk
  <2>2. pc = "walk" /\ steps > 0 /\ UNCHANGED <<links, data, cursor, owner, target, way, req>>
    BY <1>3 DEF Walk
  <2>3. CASE size = 0
    <3>1. elem = None /\ curindex = -1 /\ req.op = "indexOf" /\ req.index < 0
      BY <2>2, <2>3 DEF ListInv, Searching
    <3>2. pc' = "crashed" /\ UNCHANGED <<elem, steps>>
      BY <1>3, <3>1 DEF Walk
    <3>3. TypeOK'
      BY <2>2, <3>2 DEF ListInv, TypeOK, NodeOrNone
    <3>4. Searching'
      BY <2>2, <2>3, <3>1, <3>2 DEF Searching, Pending
    <3> QED BY <2>1, <3>3, <3>4 DEF ListInv
  <2>4. CASE size # 0
    <3> DEFINE place == IF way = "prev" THEN target + steps + 1 ELSE target - steps + 1
    <3>1. place \in 1 .. size /\ elem = order[place] /\ target \in 0 .. size - 1
      BY <1>1, <2>2, <2>4 DEF ListInv, Searching, Pending
    <3>2. /\ elem \in Nodes /\ elem # None
          /\ next[elem] = OrderAt(place + 1) /\ prev[elem] = OrderAt(place - 1)
      BY <1>1, <3>1 DEF ListInv, Linked
    <3>3. /\ pc' = "walk" /\ steps' = steps - 1
          /\ elem' = IF way = "prev" THEN prev[elem] ELSE next[elem]
      BY <1>3, <2>2, <3>2 DEF Walk
    <3> DEFINE there == IF way' = "prev" THEN target' + steps' + 1 ELSE target' - steps' + 1
    <3>4. there \in 1 .. size /\ elem' = order[there] /\ steps' \in Nat
      <4>1. steps' \in Nat /\ steps' = steps - 1 /\ target' = target /\ way' = way
        BY <1>1, <2>2, <3>3
      <4>2. CASE way = "prev"
        <5>1. place - 1 \in 1 .. size /\ there = place - 1
          BY <1>1, <2>2, <3>1, <4>1, <4>2
        <5>2. elem' = order[place - 1]
          BY <1>1, <3>2, <3>3, <4>2, <5>1 DEF OrderAt
        <5> QED BY <4>1, <5>1, <5>2
      <4>3. CASE way # "prev"
        <5>1. place + 1 \in 1 .. size /\ there = place + 1
          BY <1>1, <2>2, <3>1, <4>1, <4>3
        <5>2. elem' = order[place + 1]
          BY <1>1, <3>2, <3>3, <4>3, <5>1 DEF OrderAt
        <5> QED BY <4>1, <5>1, <5>2
      <4> QED BY <4>2, <4>3
    <3>5. TypeOK'
      BY <1>1, <2>2, <3>3, <3>4 DEF ListInv, TypeOK, NodeOrNone
    <3>6. Searching'
      BY <1>1, <2>2, <2>4, <3>1, <3>3, <3>4 DEF ListInv, Searching, Pending
    <3> QED BY <2>1, <3>5, <3>6 DEF ListInv
  <2> QED BY <2>3, <2>4
<1>4. CASE Arrive
  <2>1. /\ pc = "walk" /\ steps = 0 /\ curp' = elem /\ curindex' = target
        /\ pc' = IF req.op = "indexOf" THEN "scan" ELSE IF elem = None THEN "crashed" ELSE "found"
        /\ UNCHANGED <<links, data, search, owner, req>>
    BY <1>4 DEF Arrive
  <2>2. Linked'
    BY <2>1 DEF ListInv, Linked, OrderAt
  <2>3. TypeOK'
    BY <1>1, <2>1 DEF ListInv, TypeOK, NodeOrNone
  <2>4. CASE size = 0
    <3>1. elem = None /\ target = 0 /\ req.op = "indexOf" /\ req.index < 0
      BY <1>1, <2>1, <2>4 DEF ListInv, Searching, Pending
    <3>2. CursorAtIndex'
      BY <2>1, <2>4, <3>1 DEF CursorAtIndex
    <3>3. Searching'
      BY <2>1, <2>4, <3>1 DEF Searching, Pending
    <3> QED BY <2>2, <2>3, <3>2, <3>3 DEF ListInv
  <2>5. CASE size # 0
    <3>1. target \in 0 .. size - 1 /\ elem = order[target + 1] /\ elem # None
      BY <1>1, <2>1, <2>5 DEF ListInv, Searching, Pending
    <3>2. CursorAtIndex'
      BY <1>1, <2>1, <2>5, <3>1 DEF CursorAtIndex, OrderAt
    <3>3. Searching'
      BY <1>1, <2>1, <2>5, <3>1 DEF ListInv, Searching, Pending
    <3> QED BY <2>2, <2>3, <3>2, <3>3 DEF ListInv
  <2> QED BY <2>4, <2>5
<1> QED BY <1>2, <1>3, <1>4
-----------------------------------------------------------------------------
(* insert() at the beginning. *)
LEMMA FirstKeeps ==
  ASSUME ListInv, NEW n \in Nodes, NEW i \in Int, NEW v \in Values, InsertFirst(n, i, v)
  PROVE  ListInv'
<1>0. /\ size \in Nat /\ size = Len(order) /\ order \in Seq(Nodes) /\ DOMAIN order = 1 .. size
      /\ \A j \in 1 .. size : order[j] \in Nodes /\ order[j] # None
      /\ root = OrderAt(1) /\ target \in Nat /\ TypeOK /\ Linked
  BY DEF ListInv, TypeOK, Linked
<1>1. /\ pc = "idle" /\ pc' = "idle" /\ Len(order) < MaxLen /\ n \notin Used
      /\ order' = InsertNode(order, 0, n) /\ size' = size + 1 /\ root' = n
      /\ curindex' = 0 /\ curp' = n
  BY DEF InsertFirst
<1>2. /\ \A m \in Nodes : next'[m] = IF m = n THEN OrderAt(0 + 1)
                                     ELSE IF m = OrderAt(0) THEN n ELSE next[m]
      /\ \A m \in Nodes : prev'[m] = IF m = n THEN OrderAt(0)
                                     ELSE IF m = OrderAt(0 + 1) THEN n ELSE prev[m]
  BY <1>0 DEF InsertFirst, OrderAt, TypeOK
<1>3. Linked' /\ order' \in Seq(Nodes)
  BY <1>0, <1>1, <1>2, LinkedAfterInsert
<1>4. size' \in 1 .. MaxLen /\ order'[1] = n /\ DOMAIN order' = 1 .. size'
  <2>1. Len(order') = size' /\ OrderAt(1)' = n
    BY <1>1, <1>3 DEF Linked
  <2> QED BY <1>0, <1>1, <1>3, <2>1 DEF OrderAt
<1>5. CursorAtIndex'
  BY <1>1, <1>4 DEF CursorAtIndex, OrderAt
<1>6. TypeOK'
  <2>1. /\ next' \in [Nodes -> NodeOrNone] /\ prev' \in [Nodes -> NodeOrNone]
        /\ data' \in [Nodes -> Values \cup {None}] /\ freed' \subseteq Values \cup {None}
    BY <1>0 DEF InsertFirst, TypeOK, NodeOrNone
  <2>2. UNCHANGED <<search, autodelete, req>>
    BY DEF InsertFirst
  <2> QED BY <1>0, <1>1, <1>3, <1>4, <2>1, <2>2 DEF TypeOK, NodeOrNone, search
<1>7. Searching'
  BY <1>1 DEF Searching, Pending
<1> QED BY <1>3, <1>5, <1>6, <1>7 DEF ListInv

(* insert() behind the element the call has found.                          *)
LEMMA BehindKeeps ==
  ASSUME ListInv, NEW n \in Nodes, Insert(n)
  PROVE  ListInv'
<1>0. /\ size \in Nat /\ size = Len(order) /\ order \in Seq(Nodes) /\ DOMAIN order = 1 .. size
      /\ \A j \in 1 .. size : order[j] \in Nodes /\ order[j] # None
      /\ root = OrderAt(1) /\ target \in Nat /\ TypeOK /\ Linked
  BY DEF ListInv, TypeOK, Linked
<1> DEFINE p == target + 1
<1>1. /\ pc = "found" /\ pc' = "idle" /\ req.op = "insert" /\ n \notin Used
      /\ order' = InsertNode(order, p, n) /\ size' = size + 1 /\ root' = root
      /\ curindex' = p /\ curp' = n
  BY DEF Insert, At, End
<1>2. target \in 0 .. size - 1 /\ elem = order[p] /\ Len(order) < MaxLen
  BY <1>1 DEF ListInv, Searching, Pending
<1>3. elem \in Nodes /\ elem # n /\ next[elem] = OrderAt(p + 1) /\ elem = OrderAt(p) /\ p # 0
  BY <1>0, <1>1, <1>2 DEF Linked, Used, OrderAt
<1>4. /\ \A m \in Nodes : next'[m] = IF m = n THEN OrderAt(p + 1)
                                     ELSE IF m = OrderAt(p) THEN n ELSE next[m]
      /\ \A m \in Nodes : prev'[m] = IF m = n THEN OrderAt(p)
                                     ELSE IF m = OrderAt(p + 1) THEN n ELSE prev[m]
  BY <1>0, <1>3 DEF Insert, TypeOK
<1>5. p \in 0 .. Len(order)
  BY <1>0, <1>2
<1>6. Linked' /\ order' \in Seq(Nodes)
  <2> HIDE DEF p
  <2> QED BY <1>0, <1>1, <1>3, <1>4, <1>5, LinkedAfterInsert
<1>7. order'[p + 1] = n /\ size' \in 1 .. MaxLen /\ p \in 0 .. size' - 1
  <2>1. order \in Seq(Nodes) /\ p + 1 \in 1 .. Len(order) + 1
    BY <1>0, <1>5
  <2>2. order'[p + 1] = n
    <3>1. InsertNode(order, p, n)[p + 1] = n
      <4> HIDE DEF p
      <4>1. p \in Int /\ ~(p + 1 <= p)
        BY <1>0, <1>5
      <4> QED BY <2>1, <4>1 DEF InsertNode
    <3> QED BY <1>1, <3>1
  <2> QED BY <1>0, <1>1, <1>2, <2>2
<1>8. CursorAtIndex'
  <2>1. p + 1 \in DOMAIN order'
    BY <1>0, <1>1, <1>6, <1>7 DEF Linked
  <2> QED BY <1>1, <1>7, <2>1 DEF CursorAtIndex, OrderAt
<1>9. TypeOK'
  <2>1. /\ next' \in [Nodes -> NodeOrNone] /\ prev' \in [Nodes -> NodeOrNone]
    BY <1>0, <1>3 DEF Insert, TypeOK, NodeOrNone
  <2>2. data' \in [Nodes -> Values \cup {None}] /\ freed' \subseteq Values \cup {None}
    <3>1. req.value \in Values
      BY <1>1 DEF ListInv, Searching, Pending
    <3> QED BY <1>0, <3>1 DEF Insert, TypeOK
  <2>3. UNCHANGED autodelete /\ req' = Idle /\ target' = 0 /\ elem' = None /\ steps' = 0
        /\ way' = "next"
    BY DEF Insert, End
  <2>4. Idle \in [op : Ops, index : Int, value : Values \cup {None} \cup Int, count : Int]
    BY DEF Idle, Ops
  <2> QED BY <1>0, <1>1, <1>6, <1>7, <2>1, <2>2, <2>3, <2>4 DEF TypeOK, NodeOrNone
<1>10. Searching'
  BY <1>1 DEF Searching, Pending
<1> QED BY <1>6, <1>8, <1>9, <1>10 DEF ListInv

(* The element found goes, and the cursor with it to a neighbour (remove).  *)
LEMMA UnlinkKeeps ==
  ASSUME ListInv, pc = "found", Unlink
  PROVE  /\ Linked' /\ CursorAtIndex' /\ order' \in Seq(Nodes)
         /\ size' = size - 1 /\ size' \in 0 .. MaxLen
         /\ elem \in Nodes /\ target \in 0 .. size - 1
         /\ next' \in [Nodes -> NodeOrNone] /\ prev' \in [Nodes -> NodeOrNone]
         /\ data' \in [Nodes -> Values \cup {None}] /\ data[elem] \in Values \cup {None}
         /\ root' \in NodeOrNone /\ curp' \in NodeOrNone /\ curindex' \in Int
<1>1. /\ size \in 0 .. MaxLen /\ size = Len(order) /\ order \in Seq(Nodes)
      /\ DOMAIN order = 1 .. size /\ \A j \in 1 .. size : order[j] \in Nodes /\ order[j] # None
      /\ target \in Nat /\ TypeOK /\ Linked
  BY DEF ListInv, TypeOK, Linked
<1>2. target \in 0 .. size - 1 /\ elem = order[target + 1]
  BY DEF ListInv, Searching, Pending
<1>3. Linked' /\ order' \in Seq(Nodes) /\ size' = size - 1 /\ elem \in Nodes
  <2>1. target + 1 \in DOMAIN order
    BY <1>1, <1>2
  <2> QED BY <1>1, <1>2, <2>1, LinkedAfterUnlink
<1>4. next[elem] = OrderAt(target + 2) /\ prev[elem] = OrderAt(target)
  BY <1>1, <1>2 DEF Linked
<1>5. /\ next' \in [Nodes -> NodeOrNone] /\ prev' \in [Nodes -> NodeOrNone]
      /\ data' \in [Nodes -> Values \cup {None}] /\ data[elem] \in Values \cup {None}
  BY <1>1, <1>3 DEF Unlink, TypeOK, NodeOrNone
<1>6. root' \in NodeOrNone
  BY <1>1, <1>3 DEF Unlink, TypeOK, NodeOrNone
<1>7. \A j \in 1 .. size - 1 : order'[j] = IF j < target + 1 THEN order[j] ELSE order[j + 1]
  <2>1. order' = RemoveNode(order, target + 1) /\ target + 1 \in 1 .. Len(order)
    BY <1>1, <1>2 DEF Unlink
  <2> QED BY <1>1, <2>1, RemoveNodeIs
<1>8. DOMAIN order' = 1 .. size - 1
  <2>1. Len(order') = size - 1
    BY <1>1, <1>3 DEF Linked
  <2> QED BY <1>3, <2>1
<1>9. /\ curp' \in NodeOrNone /\ curindex' \in Int
      /\ CursorAtIndex'
  <2>1. CASE target + 1 < size
    <3>1. next[elem] = order[target + 2] /\ next[elem] # None /\ next[elem] \in Nodes
      BY <1>1, <1>2, <1>4, <2>1 DEF OrderAt
    <3>2. curindex' = target /\ curp' = order[target + 2]
      BY <3>1 DEF Unlink, MoveCursor
    <3>3. order'[target + 1] = order[target + 2] /\ target + 1 \in DOMAIN order'
      BY <1>1, <1>2, <1>7, <1>8, <2>1
    <3> QED BY <1>1, <1>2, <1>3, <2>1, <3>1, <3>2, <3>3 DEF CursorAtIndex, OrderAt, NodeOrNone
  <2>2. CASE target + 1 = size
    <3>1. next[elem] = None
      BY <1>1, <1>4, <2>2 DEF OrderAt
    <3>2. curindex' = target - 1 /\ curp' = OrderAt(target)
      BY <1>4, <3>1 DEF Unlink, MoveCursor
    <3>3. CASE size = 1
      <4>1. target = 0 /\ curp' = None /\ size' = 0
        BY <1>1, <1>2, <1>3, <2>2, <3>2, <3>3 DEF OrderAt
      <4> QED BY <3>2, <4>1 DEF CursorAtIndex, NodeOrNone
    <3>4. CASE size # 1
      <4>1. target \in 1 .. size - 1 /\ curp' = order[target] /\ order'[target] = order[target]
        BY <1>1, <1>2, <1>7, <2>2, <3>2, <3>4 DEF OrderAt
      <4>2. target \in DOMAIN order' /\ size' # 0
        BY <1>1, <1>3, <1>8, <2>2, <3>4, <4>1
      <4> QED BY <1>1, <1>3, <2>2, <3>2, <4>1, <4>2 DEF CursorAtIndex, OrderAt, NodeOrNone
    <3> QED BY <3>3, <3>4
  <2> QED BY <1>1, <1>2, <2>1, <2>2
<1> QED BY <1>1, <1>2, <1>3, <1>5, <1>6, <1>9

LEMMA RemoveKeeps ==
  ASSUME ListInv, Remove \/ Take
  PROVE  ListInv'
<1>1. pc = "found" /\ Unlink /\ freed' \subseteq Values \cup {None} /\ UNCHANGED autodelete
  <2>1. pc = "found" /\ Unlink
    BY DEF Remove, Take, At
  <2>2. data[elem] \in Values \cup {None}
    BY <2>1, UnlinkKeeps
  <2> QED BY <2>1, <2>2 DEF Remove, Take, owner, ListInv, TypeOK
<1>2. /\ Linked' /\ CursorAtIndex' /\ order' \in Seq(Nodes)
      /\ size' = size - 1 /\ size' \in 0 .. MaxLen /\ size \in Nat /\ target \in 0 .. size - 1
      /\ next' \in [Nodes -> NodeOrNone] /\ prev' \in [Nodes -> NodeOrNone]
      /\ data' \in [Nodes -> Values \cup {None}]
      /\ root' \in NodeOrNone /\ curp' \in NodeOrNone /\ curindex' \in Int
  BY <1>1, UnlinkKeeps DEF ListInv, TypeOK
<1>3. CASE \E result : End(result)
  <2>1. pc' = "idle" /\ req' = Idle /\ target' = 0 /\ elem' = None /\ steps' = 0 /\ way' = "next"
    BY <1>3 DEF End
  <2>2. Idle \in [op : Ops, index : Int, value : Values \cup {None} \cup Int, count : Int]
    BY DEF Idle, Ops
  <2>3. TypeOK'
    BY <1>1, <1>2, <2>1, <2>2 DEF ListInv, TypeOK, NodeOrNone
  <2>4. Searching'
    BY <2>1 DEF Searching, Pending
  <2> QED BY <1>2, <2>3, <2>4 DEF ListInv
<1>4. CASE ~\E result : End(result)
  <2>1. /\ Remove /\ req.count > 1 /\ pc' = "seek" /\ req' = [req EXCEPT !.count = @ - 1]
        /\ UNCHANGED search
    BY <1>4 DEF Remove, Take
  <2>2. /\ req \in [op : Ops, index : Int, value : Values \cup {None} \cup Int, count : Int]
        /\ target \in Nat /\ elem \in NodeOrNone /\ steps \in Nat /\ way \in {"next", "prev"}
    BY DEF ListInv, TypeOK
  <2>3. /\ req' \in [op : Ops, index : Int, value : Values \cup {None} \cup Int, count : Int]
        /\ req'.op = req.op /\ req'.count = req.count - 1 /\ req.count \in Int
    BY <2>1, <2>2
  <2>4. TypeOK'
    BY <1>1, <1>2, <2>1, <2>2, <2>3 DEF ListInv, TypeOK, search
  <2>5. req.op \in {"remove", "range"} /\ (req.op = "remove" => req.count <= 1)
    BY <2>1 DEF Remove, ListInv, Searching, Pending
  <2>6. req.op = "range" /\ req.count <= size - target
    BY <1>1, <2>1, <2>5 DEF ListInv, Searching, Pending
  <2>7. target' = target /\ target \in 0 .. size' - 1
    BY <1>2, <2>1, <2>3, <2>6 DEF search
  <2>8. Searching'
    BY <1>2, <2>1, <2>3, <2>6, <2>7 DEF Searching, Pending
  <2> QED BY <1>2, <2>4, <2>8 DEF ListInv
<1> QED BY <1>3, <1>4

(* The calls that leave the links alone. *)
LEMMA OthersKeep ==
  ASSUME ListInv, Get \/ Put \/ Scan \/ Copy
  PROVE  ListInv'
<1> USE DEF links, cursor, search, owner
<1>1. /\ size \in Nat /\ size = Len(order) /\ DOMAIN order = 1 .. size
      /\ \A j \in 1 .. size : order[j] \in Nodes /\ order[j] # None
      /\ target \in Nat
  BY DEF ListInv, TypeOK, Linked
<1>2. UNCHANGED links /\ Linked'
  BY DEF Get, Put, Scan, Copy, ListInv, Linked, OrderAt
<1>3. CASE Get \/ Put
  <2>1. /\ pc' = "idle" /\ req' = Idle /\ target' = 0 /\ elem' = None /\ steps' = 0 /\ way' = "next"
        /\ UNCHANGED <<cursor, autodelete>>
    BY <1>3 DEF Get, Put, End
  <2>2. Idle \in [op : Ops, index : Int, value : Values \cup {None} \cup Int, count : Int]
    BY DEF Idle, Ops
  <2>3. data' \in [Nodes -> Values \cup {None}] /\ freed' \subseteq Values \cup {None}
    <3>1. CASE Get
      BY <3>1 DEF Get, ListInv, TypeOK
    <3>2. CASE Put
      <4>1. elem \in Nodes /\ req.value \in Values
        BY <1>1, <3>2 DEF Put, At, ListInv, Searching, Pending
      <4> QED BY <3>2, <4>1 DEF Put, ListInv, TypeOK
    <3> QED BY <1>3, <3>1, <3>2
  <2>4. TypeOK'
    BY <1>2, <2>1, <2>2, <2>3 DEF ListInv, TypeOK, NodeOrNone
  <2>5. CursorAtIndex'
    BY <1>2, <2>1 DEF ListInv, CursorAtIndex, OrderAt
  <2>6. Searching'
    BY <2>1 DEF Searching, Pending
  <2> QED BY <1>2, <2>4, <2>5, <2>6 DEF ListInv
<1>4. CASE Scan
  <2>1. pc = "scan" /\ UNCHANGED <<links, data, cursor, owner>>
    BY <1>4 DEF Scan
  <2>2. CursorAtIndex'
    BY <2>1 DEF ListInv, CursorAtIndex, OrderAt
  <2>3. CASE \E result : End(result)
    <3>1. pc' = "idle" /\ req' = Idle /\ target' = 0 /\ elem' = None /\ steps' = 0 /\ way' = "next"
      BY <2>3 DEF End
    <3>2. Idle \in [op : Ops, index : Int, value : Values \cup {None} \cup Int, count : Int]
      BY DEF Idle, Ops
    <3>3. TypeOK'
      BY <2>1, <3>1, <3>2 DEF ListInv, TypeOK, NodeOrNone
    <3>4. Searching'
      BY <3>1 DEF Searching, Pending
    <3> QED BY <1>2, <2>2, <3>3, <3>4 DEF ListInv
  <2>4. CASE ~\E result : End(result)
    <3>1. elem # None /\ elem' = next[elem] /\ target' = target + 1 /\ UNCHANGED <<pc, req, steps, way>>
      BY <1>4, <2>4 DEF Scan
    <3>2. elem' \in NodeOrNone
      BY <3>1 DEF ListInv, TypeOK, NodeOrNone
    <3>3. TypeOK'
      BY <1>1, <2>1, <3>1, <3>2 DEF ListInv, TypeOK
    <3>4. Searching'
      BY <2>1, <3>1 DEF ListInv, Searching, Pending
    <3> QED BY <1>2, <2>2, <3>3, <3>4 DEF ListInv
  <2> QED BY <2>3, <2>4
<1>5. CASE Copy
  <2>1. /\ pc = "idle" /\ pc' = pc /\ autodelete' = FALSE
        /\ curp' = IF curp \in Used THEN curp ELSE None
        /\ UNCHANGED <<links, data, curindex, search, freed, req>>
    BY <1>5 DEF Copy
  <2>2. curp' = curp
    <3>1. CASE size = 0
      BY <2>1, <3>1 DEF ListInv, CursorAtIndex
    <3>2. CASE size # 0
      <4>1. curp \in Used
        BY <1>1, <3>2 DEF ListInv, CursorAtIndex, OrderAt, Used
      <4> QED BY <2>1, <4>1
    <3> QED BY <3>1, <3>2
  <2>3. TypeOK'
    BY <2>1, <2>2 DEF ListInv, TypeOK
  <2>4. CursorAtIndex'
    BY <2>1, <2>2 DEF ListInv, CursorAtIndex, OrderAt
  <2>5. Searching'
    BY <2>1 DEF Searching, Pending
  <2> QED BY <1>2, <2>3, <2>4, <2>5 DEF ListInv
<1> QED BY <1>3, <1>4, <1>5

-----------------------------------------------------------------------------
LEMMA ListInvFirst == Init => ListInv
<1> SUFFICES ASSUME Init PROVE ListInv
  OBVIOUS
<1>1. Idle \in [op : Ops, index : Int, value : Values \cup {None} \cup Int, count : Int]
  BY DEF Idle, Ops
<1>2. /\ next \in [Nodes -> NodeOrNone] /\ prev \in [Nodes -> NodeOrNone]
      /\ data \in [Nodes -> Values \cup {None}] /\ order \in Seq(Nodes) /\ Len(order) = 0
      /\ DOMAIN order = {}
  BY DEF Init, NodeOrNone
<1>3. TypeOK
  BY <1>1, <1>2 DEF Init, TypeOK, NodeOrNone
<1>4. Linked /\ CursorAtIndex
  BY <1>2 DEF Init, Linked, CursorAtIndex, OrderAt
<1>5. Searching
  BY DEF Init, Searching, Pending
<1> QED BY <1>3, <1>4, <1>5 DEF ListInv

LEMMA ListInvStep == ListInv /\ [Next]_vars => ListInv'
<1> SUFFICES ASSUME ListInv, [Next]_vars PROVE ListInv'
  OBVIOUS
<1>1. ASSUME NEW i \in -1 .. MaxLen + 1, CallGet(i) \/ CallTake(i) \/ CallRemove(i)
      PROVE  ListInv'
  BY <1>1, CallKeeps
<1>2. ASSUME NEW i \in -1 .. MaxLen + 1, NEW end \in -1 .. MaxLen + 1, CallRemoveRange(i, end)
      PROVE  ListInv'
  BY <1>2, CallKeeps
<1>3. ASSUME NEW i \in -1 .. MaxLen + 1, NEW v \in Values,
             CallPut(i, v) \/ CallIndexOf(v, i) \/ CallInsert(i, v)
      PROVE  ListInv'
  BY <1>3, CallKeeps
<1>4. ASSUME NEW i \in -1 .. MaxLen + 1, NEW v \in Values, NEW n \in Nodes, InsertFirst(n, i, v)
      PROVE  ListInv'
  BY <1>4, FirstKeeps
<1>5. CASE Locate \/ Walk \/ Arrive
  BY <1>5, SearchKeeps
<1>6. CASE Remove \/ Take
  BY <1>6, RemoveKeeps
<1>7. CASE Get \/ Put \/ Scan \/ Copy
  BY <1>7, OthersKeep
<1>8. ASSUME NEW n \in Nodes, Insert(n) PROVE ListInv'
  BY <1>8, BehindKeeps
<1>9. CASE UNCHANGED vars
  BY <1>9, SameKeeps DEF vars
<1> QED BY <1>1, <1>2, <1>3, <1>4, <1>5, <1>6, <1>7, <1>8, <1>9 DEF Next

LEMMA ListInvAlways == Spec => []ListInv
BY ListInvFirst, ListInvStep, PTL DEF Spec

(* Every field of the list and of a call under way keeps its type.          *)
THEOREM ListTypeCorrect == Spec => []TypeOK
<1>1. ListInv => TypeOK
  BY DEF ListInv
<1> QED BY <1>1, ListInvAlways, PTL

(* The elements stay one doubly linked list of _size elements, through      *)
(* every insert, remove, range and getAndRemove.                            *)
THEOREM LinkedHolds == Spec => []Linked
<1>1. ListInv => Linked
  BY DEF ListInv
<1> QED BY <1>1, ListInvAlways, PTL

(* The remembered element is the one at the remembered index, on whatever   *)
(* way igetDataElementAt() came to it and whatever was removed since.       *)
THEOREM CursorAtIndexHolds == Spec => []CursorAtIndex
<1>1. ListInv => CursorAtIndex
  BY DEF ListInv
<1> QED BY <1>1, ListInvAlways, PTL

(* No call but indexOf() from a negative index in an emptied list follows a *)
(* null pointer.                                                            *)
THEOREM NullOnlyInEmptiedHolds == Spec => []NullOnlyInEmptied
<1>1. ListInv => NullOnlyInEmptied
  BY DEF ListInv, Searching, NullOnlyInEmptied
<1> QED BY <1>1, ListInvAlways, PTL

-----------------------------------------------------------------------------
(* A deleting ListP's objects, as long as a step touches neither them nor   *)
(* the object a call brings.                                                *)
LEMMA OwnedKept ==
  ASSUME Owned, UNCHANGED <<order, data, autodelete, freed>>, Pending' => Pending /\ req' = req
  PROVE  Owned'
BY DEF Owned, Held, Used

(* put() and insert() are called with an object the list does not hold.     *)
LEMMA OwnedSought ==
  ASSUME Owned, NEW r, NEW t, Seek(r, t), r.op \in {"put", "insert"} => Storable(r.value)
  PROVE  Owned'
<1>1. UNCHANGED <<order, data, freed>> /\ req' = r /\ (autodelete' <=> autodelete)
  BY DEF Seek, links, owner
<1>2. Held' = Held
  BY <1>1 DEF Held, Used
<1>3. autodelete => (r.op \in {"put", "insert"} => r.value \notin Held)
  BY DEF Storable
<1> SUFFICES ASSUME autodelete' PROVE Owned'
  BY DEF Owned
<1>4. autodelete
  BY <1>1
<1> QED BY <1>1, <1>2, <1>3, <1>4 DEF Owned

LEMMA OwnedCalled ==
  ASSUME Owned, NEW i \in Int,
         \/ CallGet(i) \/ CallTake(i) \/ CallRemove(i)
         \/ \E end \in Int : CallRemoveRange(i, end)
         \/ \E v \in Values : CallPut(i, v) \/ CallIndexOf(v, i) \/ CallInsert(i, v)
  PROVE  Owned'
<1>1. ASSUME NEW r, NEW result, Refused(r, result) PROVE Owned'
  <2>1. UNCHANGED <<order, data, autodelete, freed, pc, req>>
    BY <1>1 DEF Refused, links, owner
  <2> QED BY <2>1, OwnedKept DEF Pending
<1>2. ASSUME NEW op \in Ops \ {"put", "insert"}, NEW v, NEW n, NEW t, Seek(Call(op, i, v, n), t)
      PROVE  Owned'
  <2>1. Call(op, i, v, n).op \notin {"put", "insert"}
    BY DEF Call
  <2> QED BY <1>2, <2>1, OwnedSought
<1>3. ASSUME NEW op, NEW v, Storable(v), NEW t, Seek(Call(op, i, v, 0), t) PROVE Owned'
  <2>1. Call(op, i, v, 0).value = v
    BY DEF Call
  <2> QED BY <1>3, <2>1, OwnedSought
<1>4. CASE CallGet(i) \/ CallTake(i) \/ CallRemove(i)
  BY <1>1, <1>2, <1>4 DEF CallGet, CallTake, CallRemove, Ops
<1>5. ASSUME NEW end \in Int, CallRemoveRange(i, end) PROVE Owned'
  <2>1. \E r, n, t : Refused(r, None) \/ Seek(Call("range", i, end, n), t)
    BY <1>5 DEF CallRemoveRange
  <2> QED BY <1>1, <1>2, <2>1 DEF Ops
<1>6. ASSUME NEW v \in Values, CallPut(i, v) \/ CallInsert(i, v) PROVE Owned'
  BY <1>3, <1>6 DEF CallPut, CallInsert
<1>7. ASSUME NEW v \in Values, CallIndexOf(v, i) PROVE Owned'
  <2>1. \E r, t : Refused(r, -1) \/ Seek(Call("indexOf", i, v, 0), t)
    BY <1>7 DEF CallIndexOf
  <2> QED BY <1>1, <1>2, <2>1 DEF Ops
<1> QED BY <1>4, <1>5, <1>6, <1>7

(* An object that goes in behind the first p is held once, and is there     *)
(* again if it had been deleted (insert).                                   *)
LEMMA OwnedInserted ==
  ASSUME ListInv, Owned, NEW p \in 0 .. Len(order), NEW n \in Nodes, n \notin Used,
         NEW v \in Values, Storable(v), order' = InsertNode(order, p, n), data' = [data EXCEPT ![n] = v],
         freed' = freed \ {v}, UNCHANGED autodelete, pc' = "idle"
  PROVE  Owned'
<1> SUFFICES ASSUME autodelete
             PROVE  /\ \A i \in DOMAIN order' : data'[order'[i]] \in Values \ freed'
                    /\ \A i, j \in DOMAIN order' : data'[order'[i]] = data'[order'[j]] => i = j
  <2>1. ~Pending' /\ (autodelete' <=> autodelete)
    BY DEF Pending
  <2> QED BY <2>1, Zenon DEF Owned
<1> DEFINE k == Len(order)
<1>1. /\ k \in Nat /\ DOMAIN order = 1 .. k /\ order \in Seq(Nodes)
      /\ \A j \in 1 .. k : order[j] \in Nodes /\ order[j] # n
  BY DEF ListInv, TypeOK, Used
<1>2. /\ order' \in Seq(Nodes) /\ Len(order') = k + 1
      /\ \A j \in 1 .. k + 1 :
           order'[j] = IF j <= p THEN order[j] ELSE IF j = p + 1 THEN n ELSE order[j - 1]
  <2>1. order \in Seq(Nodes) /\ p \in 0 .. Len(order) /\ n \in Nodes /\ order' = InsertNode(order, p, n)
    BY <1>1
  <2>2. order' \in Seq(Nodes) /\ Len(order') = k + 1
    BY ONLY <2>1, InsertNodeIs
  <2>3. ASSUME NEW j \in 1 .. k + 1
        PROVE  order'[j] = IF j <= p THEN order[j] ELSE IF j = p + 1 THEN n ELSE order[j - 1]
    BY ONLY <2>1, <2>3, InsertNodeIs
  <2> QED BY <2>2, <2>3
<1>3. /\ \A j \in 1 .. k : data'[order[j]] = data[order[j]]
      /\ data'[n] = v
  BY <1>1 DEF ListInv, TypeOK
<1>4. \A j \in 1 .. k : data[order[j]] \in Values \ freed /\ data[order[j]] # v
  BY <1>1 DEF Owned, Storable, Held, Used
<1>5. \A i, j \in 1 .. k : data[order[i]] = data[order[j]] => i = j
  BY <1>1 DEF Owned
<1> DEFINE old(j) == IF j <= p THEN j ELSE j - 1
<1>6. ASSUME NEW j \in 1 .. k + 1, j # p + 1
      PROVE  old(j) \in 1 .. k /\ data'[order'[j]] = data[order[old(j)]]
  <2>1. old(j) \in 1 .. k /\ order'[j] = order[old(j)]
    BY <1>1, <1>2, <1>6
  <2> QED BY <1>3, <2>1
<1>7. data'[order'[p + 1]] = v
  <2>1. p + 1 \in 1 .. k + 1 /\ ~(p + 1 <= p)
    BY <1>1
  <2> QED BY <1>2, <1>3, <2>1
<1>8. \A i, j \in 1 .. k + 1 : i # p + 1 /\ j # p + 1 /\ old(i) = old(j) => i = j
  BY <1>1
<1>9. DOMAIN order' = 1 .. k + 1
  BY <1>2
<1> HIDE DEF old, k
<1>10. ASSUME NEW j \in 1 .. k + 1 PROVE data'[order'[j]] \in Values \ freed'
  BY <1>4, <1>6, <1>7
<1>11. ASSUME NEW i \in 1 .. k + 1, NEW j \in 1 .. k + 1, data'[order'[i]] = data'[order'[j]]
       PROVE  i = j
  <2>1. CASE i = p + 1 \/ j = p + 1
    BY <1>4, <1>6, <1>7, <1>11, <2>1
  <2>2. CASE i # p + 1 /\ j # p + 1
    BY <1>5, <1>6, <1>8, <1>11, <2>2
  <2> QED BY <2>1, <2>2
<1> QED BY <1>9, <1>10, <1>11

(* The object deleted with the element is held nowhere else, so none of the *)
(* others is deleted (ListP's remove and getAndRemove).                     *)
LEMMA OwnedRemoved ==
  ASSUME ListInv, Owned, pc = "found", Unlink, UNCHANGED autodelete,
         req.op \notin {"put", "insert"}, Pending' => req'.op = req.op,
         freed' \subseteq freed \cup {data[elem]}
  PROVE  Owned'
<1> SUFFICES ASSUME autodelete
             PROVE  /\ \A i \in DOMAIN order' : data'[order'[i]] \in Values \ freed'
                    /\ \A i, j \in DOMAIN order' : data'[order'[i]] = data'[order'[j]] => i = j
  BY DEF Owned
<1> DEFINE k == Len(order)
           p == target + 1
<1>1. /\ k \in Nat /\ DOMAIN order = 1 .. k /\ order \in Seq(Nodes)
      /\ \A j \in 1 .. k : order[j] \in Nodes
      /\ p \in 1 .. k /\ elem = order[p]
  <2>1. /\ k \in Nat /\ DOMAIN order = 1 .. k /\ order \in Seq(Nodes) /\ size = k /\ target \in Nat
        /\ \A j \in 1 .. k : order[j] \in Nodes
    BY DEF ListInv, TypeOK, Linked
  <2>2. target \in 0 .. size - 1 /\ elem = order[target + 1]
    BY DEF ListInv, Searching, Pending
  <2> QED BY <2>1, <2>2
<1>2. /\ order' \in Seq(Nodes) /\ Len(order') = k - 1
      /\ \A j \in 1 .. k - 1 : order'[j] = IF j < p THEN order[j] ELSE order[j + 1]
  <2>1. order' = RemoveNode(order, p)
    BY DEF Unlink
  <2> QED BY <1>1, <2>1, RemoveNodeIs
<1>3. \A i, j \in 1 .. k : order[i] = order[j] => i = j
  BY <1>1 DEF ListInv, Linked
<1>4. \A j \in 1 .. k : j # p => data'[order[j]] = data[order[j]]
  BY <1>1, <1>3 DEF Unlink, ListInv, TypeOK
<1>5. \A i, j \in 1 .. k : data[order[i]] = data[order[j]] => i = j
  BY <1>1 DEF Owned
<1>6. \A j \in 1 .. k : j # p => data[order[j]] \in Values \ freed'
  BY <1>1, <1>5 DEF Owned
<1> DEFINE old(j) == IF j < p THEN j ELSE j + 1
<1>7. ASSUME NEW j \in 1 .. k - 1
      PROVE  old(j) \in 1 .. k /\ old(j) # p /\ data'[order'[j]] = data[order[old(j)]]
  <2>1. old(j) \in 1 .. k /\ old(j) # p /\ order'[j] = order[old(j)]
    BY <1>1, <1>2
  <2> QED BY <1>4, <2>1
<1>8. \A i, j \in 1 .. k - 1 : old(i) = old(j) => i = j
  BY <1>1
<1>9. DOMAIN order' = 1 .. k - 1
  BY <1>2
<1> HIDE DEF old, k, p
<1> QED BY <1>5, <1>6, <1>7, <1>8, <1>9

LEMMA OwnedStep == ListInv /\ Owned /\ Next => Owned'
<1> SUFFICES ASSUME ListInv, Owned, Next PROVE Owned'
  OBVIOUS
<1>1. ASSUME NEW i \in -1 .. MaxLen + 1, NEW v \in Values, NEW n \in Nodes, InsertFirst(n, i, v)
      PROVE  Owned'
  <2>1. /\ order' = InsertNode(order, 0, n) /\ data' = [data EXCEPT ![n] = v] /\ n \notin Used
        /\ Storable(v) /\ freed' = freed \ {v} /\ UNCHANGED autodelete /\ pc' = "idle"
    BY <1>1 DEF InsertFirst
  <2>2. 0 \in 0 .. Len(order)
    BY DEF ListInv, TypeOK
  <2> QED BY <2>1, <2>2, OwnedInserted
<1>2. ASSUME NEW n \in Nodes, Insert(n) PROVE Owned'
  <2>1. /\ order' = InsertNode(order, target + 1, n) /\ data' = [data EXCEPT ![n] = req.value]
        /\ n \notin Used /\ freed' = freed \ {req.value} /\ UNCHANGED autodelete /\ pc' = "idle"
        /\ pc = "found" /\ req.op = "insert"
    BY <1>2 DEF Insert, End, At
  <2>2. req.value \in Values /\ Storable(req.value)
    BY <2>1 DEF ListInv, Searching, Pending, Owned, Storable
  <2>3. target + 1 \in 0 .. Len(order)
    BY <2>1 DEF ListInv, TypeOK, Linked, Searching, Pending
  <2> QED BY <2>1, <2>2, <2>3, OwnedInserted
<1>3. CASE Locate \/ Walk \/ Arrive
  <2>1. UNCHANGED <<order, data, autodelete, freed, req>> /\ (Pending' => Pending)
    BY <1>3 DEF Locate, Begin, Walk, Arrive, Pending, links, owner
  <2> QED BY <2>1, OwnedKept
<1>4. CASE Get \/ Scan
  <2>1. UNCHANGED <<order, data, autodelete, freed>> /\ ~Pending'
    BY <1>4 DEF Get, Scan, End, Pending, links, owner
  <2> QED BY <2>1, OwnedKept
<1>5. CASE Copy
  BY <1>5 DEF Copy, Owned
<1>6. CASE Put
  <2>1. /\ data' = [data EXCEPT ![elem] = req.value] /\ UNCHANGED <<order, autodelete>>
        /\ freed' = freed \ {req.value} /\ pc' = "idle" /\ pc = "found" /\ req.op = "put"
    BY <1>6 DEF Put, End, At, links
  <2>2. req.value \in Values /\ Storable(req.value)
    BY <2>1 DEF ListInv, Searching, Pending, Owned, Storable
  <2>3. \A i, j \in DOMAIN order : order[i] = order[j] => i = j
    BY DEF ListInv, Linked
  <2>4. \A i \in DOMAIN order : order[i] \in Nodes
    BY DEF ListInv, TypeOK
  <2>5. \A i \in DOMAIN order :
          data'[order[i]] = IF order[i] = elem THEN req.value ELSE data[order[i]]
    BY <2>1, <2>4 DEF ListInv, TypeOK
  <2>6. autodelete => \A i \in DOMAIN order : data[order[i]] # req.value
    BY <2>2 DEF Storable, Held, Used
  <2> QED BY <2>1, <2>2, <2>3, <2>5, <2>6 DEF Owned, Pending
<1>7. CASE Remove
  <2>1. /\ pc = "found" /\ Unlink /\ UNCHANGED autodelete /\ req.op \in {"remove", "range"}
        /\ freed' \subseteq freed \cup {data[elem]}
    BY <1>7 DEF Remove
  <2>2. Pending' => req'.op = req.op
    BY <1>7 DEF Remove, End, Pending, ListInv, TypeOK
  <2> QED BY <2>1, <2>2, OwnedRemoved
<1>8. CASE Take
  <2>1. /\ pc = "found" /\ Unlink /\ UNCHANGED <<autodelete, freed>> /\ req.op = "take"
        /\ ~Pending'
    BY <1>8 DEF Take, At, End, Pending, owner
  <2> QED BY <2>1, OwnedRemoved
<1>9. ASSUME NEW i \in -1 .. MaxLen + 1,
             \/ CallGet(i) \/ CallTake(i) \/ CallRemove(i)
             \/ \E end \in -1 .. MaxLen + 1 : CallRemoveRange(i, end)
             \/ \E v \in Values : CallPut(i, v) \/ CallIndexOf(v, i) \/ CallInsert(i, v)
      PROVE  Owned'
  BY <1>9, OwnedCalled
<1> QED BY <1>1, <1>2, <1>3, <1>4, <1>5, <1>6, <1>7, <1>8, <1>9 DEF Next

(* A ListP that deletes what it removes never holds an object that remove() *)
(* has deleted, whatever was put, inserted, removed and taken before.       *)
THEOREM NoDanglingHolds == Spec => []NoDangling
<1>1. Init => Owned
  <2>1. Init => DOMAIN order = {} /\ ~Pending
    BY DEF Init, Pending
  <2> QED BY <2>1 DEF Owned
<1>2. ListInv /\ Owned /\ [Next]_vars => Owned'
  <2>1. UNCHANGED vars => UNCHANGED <<order, data, autodelete, freed, pc, req>>
    BY DEF vars, links, owner
  <2>2. UNCHANGED vars /\ Owned => Owned'
    BY <2>1, OwnedKept DEF Pending
  <2> QED BY <2>2, OwnedStep
<1>3. Owned => NoDangling
  BY DEF Owned, NoDangling, Held, Used
<1> QED BY <1>1, <1>2, <1>3, ListInvAlways, PTL DEF Spec

-----------------------------------------------------------------------------
(* As long as the cursor is at its index, get() of an index of the list is  *)
(* the element at it, from wherever it starts (igetDataElementAt).          *)
LEMMA GetIsElement ==
  ASSUME NEW i \in Nat, i < Len(devices), devices \in Seq(SUBSET Types),
         logcurindex \in Nat, logcurindex < Len(devices), logcurp = logcurindex + 1
  PROVE  Controller!Reached(i) = i + 1
<1>1. Len(devices) \in Nat
  OBVIOUS
<1>2. Controller!Moved(logcurp, i - logcurindex) = i + 1
  BY <1>1 DEF Controller!Moved
<1>3. i = 0 => i + 1 = 1
  OBVIOUS
<1> QED BY <1>2, <1>3 DEF Controller!Reached

(* The settings change and devices come while no call is under way.         *)
LEMMA QuietKeeps ==
  ASSUME Controller!LogInv, Controller!Quiet, UNCHANGED Controller!calls, UNCHANGED overlap,
         devices' \in Seq(SUBSET Types), logcurp' \in Nat, logcurindex' \in Nat,
         shifted' \in BOOLEAN, ~shifted' => mask' = wanted',
         devices' # <<>> => logcurindex' < Len(devices') /\ logcurp' = logcurindex' + 1
  PROVE  Controller!LogInv'
<1>1. UNCHANGED <<lpc, type, total, index, logelem, got, overlap>>
  BY DEF Controller!calls
<1>2. \A t \in Loggers : lpc'[t] = "idle"
  BY <1>1 DEF Controller!Quiet
<1>3. Controller!LogTyped'
  BY <1>1 DEF Controller!LogInv, Controller!LogTyped
<1>4. \A t \in Loggers : Controller!CallSound(t)'
  BY <1>2 DEF Controller!CallSound, Controller!Within
<1>5. \A t, u \in Loggers : Controller!Within(t)' /\ Controller!Within(u)' => t = u
  BY <1>2 DEF Controller!Within
<1>6. Controller!CursorThere'
  BY DEF Controller!CursorThere
<1> QED BY <1>3, <1>4, <1>5, <1>6 DEF Controller!LogInv

LEMMA SettingKeeps ==
  ASSUME Controller!LogInv,
         \/ \E types \in SUBSET Types :
              \/ Controller!AddDevice(types) \/ Controller!SetLogLevel(types)
              \/ \E d \in 1 .. MaxDevices : Controller!SetDevice(d, types)
              \/ \E on \in BOOLEAN : Controller!SetTypesEnabled(types, on)
         \/ \E bit \in Types, on \in BOOLEAN : Controller!SetTypeEnabled(bit, on)
  PROVE  Controller!LogInv'
<1>1. /\ devices \in Seq(SUBSET Types) /\ logcurp \in Nat /\ logcurindex \in Nat
      /\ shifted \in BOOLEAN /\ (~shifted => mask = wanted) /\ Len(devices) \in Nat
  BY DEF Controller!LogInv, Controller!LogTyped
<1>2. Controller!Quiet => (devices # <<>> => logcurindex < Len(devices) /\ logcurp = logcurindex + 1)
  BY DEF Controller!LogInv, Controller!CursorThere, Controller!Quiet
<1>3. ASSUME NEW types \in SUBSET Types, Controller!AddDevice(types) PROVE Controller!LogInv'
  <2>1. /\ Controller!Quiet /\ UNCHANGED Controller!calls /\ UNCHANGED overlap
        /\ UNCHANGED <<mask, wanted>> /\ UNCHANGED shifted
        /\ devices' = Append(devices, types) /\ logcurindex' = Len(devices) /\ logcurp' = Len(devices')
    BY <1>3 DEF Controller!AddDevice
  <2>2. devices' \in Seq(SUBSET Types) /\ Len(devices') = Len(devices) + 1
    BY <1>1, <2>1
  <2>3. logcurindex' < Len(devices') /\ logcurp' = logcurindex' + 1 /\ logcurp' \in Nat
    BY <1>1, <2>1, <2>2
  <2>4. shifted' \in BOOLEAN /\ (~shifted' => mask' = wanted')
    BY <1>1, <2>1
  <2> QED BY <1>1, <2>1, <2>2, <2>3, <2>4, QuietKeeps
<1>4. ASSUME NEW types \in SUBSET Types, Controller!SetLogLevel(types) PROVE Controller!LogInv'
  <2>1. /\ Controller!Quiet /\ UNCHANGED Controller!calls /\ UNCHANGED overlap
        /\ UNCHANGED <<devices, logcurp, logcurindex>> /\ mask' = wanted' /\ shifted' = FALSE
    BY <1>4 DEF Controller!SetLogLevel
  <2> QED BY <1>1, <1>2, <2>1, QuietKeeps
<1>5. ASSUME NEW types \in SUBSET Types, NEW d \in 1 .. MaxDevices, Controller!SetDevice(d, types)
      PROVE  Controller!LogInv'
  <2>1. /\ Controller!Quiet /\ UNCHANGED Controller!calls /\ UNCHANGED overlap
        /\ UNCHANGED <<mask, wanted>> /\ UNCHANGED shifted
        /\ d \in DOMAIN devices /\ devices' = [devices EXCEPT ![d] = types]
        /\ UNCHANGED <<logcurp, logcurindex>>
    BY <1>5 DEF Controller!SetDevice
  <2>2. devices' \in Seq(SUBSET Types) /\ Len(devices') = Len(devices) /\ devices # <<>>
    BY <1>1, <2>1
  <2>3. logcurindex' < Len(devices') /\ logcurp' = logcurindex' + 1
    BY <1>2, <2>1, <2>2
  <2>4. shifted' \in BOOLEAN /\ (~shifted' => mask' = wanted')
    BY <1>1, <2>1
  <2> QED BY <1>1, <2>1, <2>2, <2>3, <2>4, QuietKeeps
<1>6. ASSUME NEW types \in SUBSET Types, NEW on \in BOOLEAN, Controller!SetTypesEnabled(types, on)
      PROVE  Controller!LogInv'
  <2>1. /\ Controller!Quiet /\ UNCHANGED Controller!calls /\ UNCHANGED overlap
        /\ UNCHANGED <<devices, logcurp, logcurindex>> /\ UNCHANGED shifted
        /\ (mask = wanted => mask' = wanted')
    BY <1>6 DEF Controller!SetTypesEnabled
  <2>2. shifted' \in BOOLEAN /\ (~shifted' => mask' = wanted')
    BY <1>1, <2>1
  <2> QED BY <1>1, <1>2, <2>1, <2>2, QuietKeeps
<1>7. ASSUME NEW bit \in Types, NEW on \in BOOLEAN, Controller!SetTypeEnabled(bit, on)
      PROVE  Controller!LogInv'
  <2>1. /\ Controller!Quiet /\ UNCHANGED Controller!calls /\ UNCHANGED overlap
        /\ UNCHANGED <<devices, logcurp, logcurindex>> /\ shifted' = TRUE
    BY <1>7 DEF Controller!SetTypeEnabled
  <2> QED BY <1>1, <1>2, <2>1, QuietKeeps
<1> QED BY <1>3, <1>4, <1>5, <1>6, <1>7

(* A step of one thread's call, which moves the cursor only inside get().   *)
LEMMA ThreadKeeps ==
  ASSUME Controller!LogInv, NEW t \in Loggers, Controller!LogTyped',
         UNCHANGED <<mask, devices, wanted>>, shifted' <=> shifted, overlap => overlap',
         \A u \in Loggers \ {t} :
           /\ lpc'[u] = lpc[u] /\ type'[u] = type[u] /\ total'[u] = total[u]
           /\ index'[u] = index[u] /\ logelem'[u] = logelem[u] /\ got'[u] = got[u],
         logcurindex' = logcurindex \/ Controller!Within(t),
         ~overlap' => /\ Controller!CallSound(t)' /\ Controller!CursorThere'
                      /\ Controller!Within(t)' => \A u \in Loggers \ {t} : ~Controller!Within(u)
  PROVE  Controller!LogInv'
<1>1. ~shifted' => mask' = wanted'
  BY DEF Controller!LogInv
<1> SUFFICES ASSUME ~overlap'
             PROVE  /\ \A u, w \in Loggers : Controller!Within(u)' /\ Controller!Within(w)' => u = w
                    /\ \A u \in Loggers : Controller!CallSound(u)'
  BY <1>1 DEF Controller!LogInv
<1>2. ~overlap /\ \A u, w \in Loggers : Controller!Within(u) /\ Controller!Within(w) => u = w
  BY DEF Controller!LogInv
<1>3. \A u \in Loggers \ {t} : Controller!Within(u)' <=> Controller!Within(u)
  BY DEF Controller!Within
<1>4. ASSUME NEW u \in Loggers \ {t} PROVE Controller!CallSound(u)'
  <2>1. Controller!CallSound(u)
    BY <1>2 DEF Controller!LogInv
  <2>2. lpc[u] = "cursor" => logcurindex' = logcurindex
    BY <1>2 DEF Controller!Within
  <2>3. /\ Controller!InOrder(u)' <=> Controller!InOrder(u)
        /\ Controller!Written(u)' = Controller!Written(u)
        /\ Controller!Passed(u)' = Controller!Passed(u)
    <3>1. /\ got'[u] = got[u] /\ type'[u] = type[u] /\ index'[u] = index[u]
          /\ mask' = mask /\ devices' = devices
      OBVIOUS
    <3>2. Controller!InOrder(u)' <=> Controller!InOrder(u)
      BY ONLY <3>1 DEF Controller!InOrder
    <3>3. Controller!Written(u)' = Controller!Written(u)
      BY ONLY <3>1 DEF Controller!Written
    <3>4. Controller!Passed(u)' = Controller!Passed(u)
      BY ONLY <3>1 DEF Controller!Passed, Controller!canWrite
    <3> QED BY <3>2, <3>3, <3>4
  <2>4. lpc'[u] = "cursor" => logcurindex' = index'[u]
    BY <2>1, <2>2 DEF Controller!CallSound
  <2>5. /\ lpc'[u] # "crashed"
        /\ Controller!Within(u)' => index'[u] < total'[u]
        /\ Controller!Within(u)' \/ lpc'[u] = "loop" => type'[u] \in mask'
        /\ lpc'[u] \in {"index", "cursor", "write"} => logelem'[u] = index'[u] + 1
        /\ lpc'[u] = "done" /\ type'[u] \in mask' => index'[u] = total'[u]
    BY <1>3, <2>1 DEF Controller!CallSound
  <2>6. lpc'[u] # "idle" => total'[u] = Len(devices') /\ index'[u] <= total'[u]
    BY <2>1 DEF Controller!CallSound
  <2>7. lpc'[u] # "idle" => Controller!InOrder(u)' /\ Controller!Written(u)' = Controller!Passed(u)'
    BY <2>1, <2>3 DEF Controller!CallSound
  <2> QED BY <2>4, <2>5, <2>6, <2>7 DEF Controller!CallSound
<1>5. \A u, w \in Loggers : Controller!Within(u)' /\ Controller!Within(w)' => u = w
  BY <1>2, <1>3
<1> QED BY <1>4, <1>5

(* s lists in order the numbers of Ok up to i.                              *)
Lists(s, i, Ok) == /\ {s[k] : k \in DOMAIN s} = {d \in 1 .. i : d \in Ok}
                   /\ \A j, k \in DOMAIN s : j < k => s[j] < s[k]

(* A device more is written to when the call comes past it.                 *)
LEMMA WriteAppends ==
  ASSUME NEW s \in Seq(Nat), NEW i \in Nat, NEW Ok, Lists(s, i, Ok),
         NEW r, r = IF i + 1 \in Ok THEN Append(s, i + 1) ELSE s
  PROVE  Lists(r, i + 1, Ok)
<1>1. i + 1 \notin Ok => {d \in 1 .. i : d \in Ok} = {d \in 1 .. i + 1 : d \in Ok}
  <2>1. ASSUME i + 1 \notin Ok, NEW d \in 1 .. i + 1, d \in Ok PROVE d \in 1 .. i
    <3>1. d # i + 1
      BY <2>1
    <3> QED BY <3>1
  <2> QED BY <2>1
<1> SUFFICES ASSUME i + 1 \in Ok PROVE Lists(r, i + 1, Ok)
  BY <1>1 DEF Lists
<1>0. /\ {s[k] : k \in DOMAIN s} = {d \in 1 .. i : d \in Ok}
      /\ \A j, k \in DOMAIN s : j < k => s[j] < s[k]
  BY DEF Lists
<1>2. /\ Len(s) \in Nat /\ DOMAIN s = 1 .. Len(s) /\ DOMAIN r = 1 .. Len(s) + 1
      /\ \A k \in 1 .. Len(s) : r[k] = s[k]
      /\ r[Len(s) + 1] = i + 1
  OBVIOUS
<1>3. \A k \in 1 .. Len(s) : s[k] \in 1 .. i
  BY <1>0, <1>2
<1>4. \A j, k \in DOMAIN r : j < k => r[j] < r[k]
  <2> SUFFICES ASSUME NEW j \in DOMAIN r, NEW k \in DOMAIN r, j < k PROVE r[j] < r[k]
    OBVIOUS
  <2>1. j \in 1 .. Len(s) /\ r[j] = s[j]
    BY <1>2
  <2>2. CASE k = Len(s) + 1
    BY <1>2, <1>3, <2>1, <2>2
  <2>3. CASE k # Len(s) + 1
    <3>1. k \in 1 .. Len(s) /\ r[k] = s[k]
      BY <1>2, <2>3
    <3> QED BY <1>0, <1>2, <2>1, <3>1
  <2> QED BY <2>2, <2>3
<1>5. ASSUME NEW k \in DOMAIN r PROVE r[k] \in 1 .. i + 1 /\ r[k] \in Ok
  <2>1. CASE k = Len(s) + 1
    BY <1>2, <2>1
  <2>2. CASE k # Len(s) + 1
    <3>1. k \in DOMAIN s /\ r[k] = s[k]
      BY <1>2, <2>2
    <3>2. s[k] \in {d \in 1 .. i : d \in Ok}
      BY <1>0, <3>1
    <3> QED BY <3>1, <3>2
  <2> QED BY <2>1, <2>2
<1>6. ASSUME NEW d \in 1 .. i + 1, d \in Ok PROVE \E k \in DOMAIN r : r[k] = d
  <2>1. CASE d = i + 1
    BY <1>2, <2>1
  <2>2. CASE d # i + 1
    <3>1. d \in {c \in 1 .. i : c \in Ok}
      BY <1>6, <2>2
    <3>2. PICK k \in DOMAIN s : s[k] = d
      BY <1>0, <3>1
    <3> QED BY <1>2, <3>2
  <2> QED BY <2>1, <2>2
<1>7. {r[k] : k \in DOMAIN r} = {d \in 1 .. i + 1 : d \in Ok}
  BY ONLY <1>5, <1>6
<1> QED BY <1>4, <1>7 DEF Lists

LEMMA EntryKeeps == Controller!LogInv /\ (\E t \in Loggers : \/ Controller!Loop(t)
                      \/ Controller!Return(t) \/ \E bit \in Types : Controller!Log(t, bit))
                    => Controller!LogInv'
<1> SUFFICES ASSUME Controller!LogInv, NEW t \in Loggers,
                    \/ Controller!Loop(t) \/ Controller!Return(t)
                    \/ \E bit \in Types : Controller!Log(t, bit)
             PROVE  Controller!LogInv'
  OBVIOUS
<1>0. Controller!LogTyped
  BY DEF Controller!LogInv
<1>1. ~overlap => Controller!CallSound(t) /\ Controller!CursorThere
  BY DEF Controller!LogInv
<1>2. CASE Controller!Loop(t)
  <2>1. /\ lpc[t] = "loop" /\ UNCHANGED <<mask, devices, logcurp, logcurindex, type, total, index>>
        /\ UNCHANGED <<logelem, got, wanted, shifted>>
        /\ lpc' = [lpc EXCEPT ![t] = IF index[t] < total[t] THEN "get" ELSE "done"]
    BY <1>2 DEF Controller!Loop, Controller!To
  <2>2. overlap' <=> (overlap \/ \E u \in Loggers : u # t /\ Controller!Within(u))
    BY <1>2 DEF Controller!Loop
  <2>3. overlap' \in BOOLEAN
    BY <1>2 DEF Controller!Loop
  <2>4. /\ Controller!LogTyped' /\ lpc'[t] = IF index[t] < total[t] THEN "get" ELSE "done"
        /\ \A u \in Loggers \ {t} : lpc'[u] = lpc[u]
    BY <1>0, <2>1, <2>3 DEF Controller!LogTyped
  <2>5. ASSUME ~overlap' PROVE Controller!CallSound(t)'
    <3>1. /\ total[t] = Len(devices) /\ index[t] <= total[t] /\ type[t] \in mask
          /\ Controller!InOrder(t) /\ Controller!Written(t) = Controller!Passed(t)
      BY <1>1, <2>1, <2>2, <2>5 DEF Controller!CallSound
    <3>2. Controller!InOrder(t)' /\ Controller!Written(t)' = Controller!Passed(t)'
      BY <2>1, <3>1 DEF Controller!InOrder, Controller!Written, Controller!Passed, Controller!canWrite
    <3>3. index[t] \in Nat /\ total[t] \in Nat /\ (~(index[t] < total[t]) => index[t] = total[t])
      BY <1>0, <3>1 DEF Controller!LogTyped
    <3> QED BY <2>1, <2>4, <3>1, <3>2, <3>3 DEF Controller!CallSound, Controller!Within
  <2>6. ~overlap' => Controller!CursorThere'
    BY <1>1, <2>1, <2>2, <2>4 DEF Controller!CursorThere
  <2>7. shifted' <=> shifted
    BY <2>1
  <2> QED BY <2>1, <2>2, <2>4, <2>5, <2>6, <2>7, ThreadKeeps
<1>3. CASE Controller!Return(t)
  <2>1. /\ lpc[t] = "done" /\ lpc' = [lpc EXCEPT ![t] = "idle"] /\ got' = [got EXCEPT ![t] = <<>>]
        /\ type' = [type EXCEPT ![t] = 0] /\ total' = [total EXCEPT ![t] = 0]
        /\ index' = [index EXCEPT ![t] = 0]
        /\ UNCHANGED <<mask, devices, logcurp, logcurindex, logelem, wanted>>
        /\ (shifted' <=> shifted) /\ (overlap' <=> overlap)
    BY <1>3 DEF Controller!Return, Controller!To
  <2>2. overlap' \in BOOLEAN /\ shifted' \in BOOLEAN
    BY <1>0, <1>3 DEF Controller!LogTyped, Controller!Return
  <2>3. /\ Controller!LogTyped' /\ lpc'[t] = "idle"
        /\ \A u \in Loggers \ {t} :
             /\ lpc'[u] = lpc[u] /\ type'[u] = type[u] /\ total'[u] = total[u]
             /\ index'[u] = index[u] /\ got'[u] = got[u]
    BY <1>0, <2>1, <2>2 DEF Controller!LogTyped
  <2>4. Controller!CallSound(t)' /\ ~Controller!Within(t)'
    BY <2>3 DEF Controller!CallSound, Controller!Within
  <2>5. ~overlap' => Controller!CursorThere'
    BY <1>1, <2>1, <2>3 DEF Controller!CursorThere
  <2> QED BY <2>1, <2>3, <2>4, <2>5, ThreadKeeps
<1>4. ASSUME NEW bit \in Types, Controller!Log(t, bit) PROVE Controller!LogInv'
  <2>1. /\ lpc[t] = "idle" /\ lpc' = [lpc EXCEPT ![t] = IF bit \in mask THEN "loop" ELSE "done"]
        /\ got' = [got EXCEPT ![t] = <<>>] /\ type' = [type EXCEPT ![t] = bit]
        /\ total' = [total EXCEPT ![t] = Len(devices)] /\ index' = [index EXCEPT ![t] = 0]
        /\ UNCHANGED <<mask, devices, logcurp, logcurindex, logelem, wanted>>
        /\ (shifted' <=> shifted) /\ (overlap' <=> overlap)
    BY <1>4 DEF Controller!Log, Controller!To
  <2>2. overlap' \in BOOLEAN /\ shifted' \in BOOLEAN /\ Len(devices) \in Nat
    BY <1>0, <1>4 DEF Controller!LogTyped, Controller!Log
  <2>3. /\ Controller!LogTyped' /\ lpc'[t] = (IF bit \in mask THEN "loop" ELSE "done")
        /\ got'[t] = <<>> /\ type'[t] = bit /\ total'[t] = Len(devices) /\ index'[t] = 0
        /\ \A u \in Loggers \ {t} :
             /\ lpc'[u] = lpc[u] /\ type'[u] = type[u] /\ total'[u] = total[u]
             /\ index'[u] = index[u] /\ got'[u] = got[u]
    BY <1>0, <2>1, <2>2 DEF Controller!LogTyped
  <2>4. Controller!InOrder(t)' /\ Controller!Written(t)' = Controller!Passed(t)'
    <3>1. DOMAIN got'[t] = {} /\ 1 .. index'[t] = {}
      BY <2>3
    <3> QED BY <3>1 DEF Controller!InOrder, Controller!Written, Controller!Passed
  <2>5. Controller!CallSound(t)' /\ ~Controller!Within(t)'
    BY <2>1, <2>2, <2>3, <2>4 DEF Controller!CallSound, Controller!Within
  <2>6. ~overlap' => Controller!CursorThere'
    BY <1>1, <2>1, <2>3 DEF Controller!CursorThere
  <2> QED BY <2>1, <2>3, <2>5, <2>6, ThreadKeeps
<1> QED BY <1>2, <1>3, <1>4

(* get() of iwrite(): the thread is the only one in the list, so the cursor *)
(* it reads is at its index.                                                *)
LEMMA GetKeeps == Controller!LogInv /\ (\E t \in Loggers : \/ Controller!Get(t)
                     \/ Controller!SetIndex(t) \/ Controller!SetCursor(t)) => Controller!LogInv'
<1> SUFFICES ASSUME Controller!LogInv, NEW t \in Loggers,
                    Controller!Get(t) \/ Controller!SetIndex(t) \/ Controller!SetCursor(t)
             PROVE  Controller!LogInv'
  OBVIOUS
<1>0. Controller!LogTyped
  BY DEF Controller!LogInv
<1>1. /\ lpc[t] \in {"get", "index", "cursor"} /\ Controller!Within(t)
      /\ UNCHANGED <<mask, devices, type, total, index, got, wanted>>
      /\ (shifted' <=> shifted) /\ (overlap' <=> overlap)
  BY DEF Controller!Get, Controller!SetIndex, Controller!SetCursor, Controller!Within
<1>2. overlap' \in BOOLEAN /\ shifted' \in BOOLEAN
  BY <1>0 DEF Controller!LogTyped, Controller!Get, Controller!SetIndex, Controller!SetCursor
<1>3. ~overlap => /\ Controller!CallSound(t) /\ Controller!CursorThere
                  /\ \A u \in Loggers \ {t} : ~Controller!Within(u)
  BY <1>1 DEF Controller!LogInv
<1>4. index[t] \in Nat /\ total[t] \in Nat /\ Len(devices) \in Nat
  BY <1>0 DEF Controller!LogTyped
<1>5. ~overlap => /\ total[t] = Len(devices) /\ index[t] < total[t] /\ type[t] \in mask
                  /\ Controller!InOrder(t)' /\ Controller!Written(t)' = Controller!Passed(t)'
  <2>1. ~overlap => /\ total[t] = Len(devices) /\ index[t] < total[t] /\ type[t] \in mask
                    /\ Controller!InOrder(t) /\ Controller!Written(t) = Controller!Passed(t)
    BY <1>1, <1>3 DEF Controller!CallSound
  <2>2. /\ Controller!InOrder(t)' <=> Controller!InOrder(t)
        /\ Controller!Written(t)' = Controller!Written(t)
        /\ Controller!Passed(t)' = Controller!Passed(t)
    BY <1>1 DEF Controller!InOrder, Controller!Written, Controller!Passed, Controller!canWrite
  <2> QED BY <2>1, <2>2
<1>6. CASE Controller!Get(t)
  <2>1. /\ lpc[t] = "get" /\ UNCHANGED <<logcurp, logcurindex>>
        /\ logelem' = [logelem EXCEPT ![t] = Controller!Reached(index[t])]
        /\ lpc' = [lpc EXCEPT ![t] = IF logelem'[t] = 0 THEN "crashed"
                                     ELSE IF index[t] = logcurindex THEN "write" ELSE "index"]
    BY <1>6 DEF Controller!Get, Controller!To
  <2>2. Controller!Reached(index[t]) \in Nat
    BY <1>0, <1>4 DEF Controller!LogTyped, Controller!Reached, Controller!Moved
  <2>3. /\ Controller!LogTyped'
        /\ logelem'[t] = Controller!Reached(index[t])
        /\ lpc'[t] = (IF logelem'[t] = 0 THEN "crashed"
                      ELSE IF index[t] = logcurindex THEN "write" ELSE "index")
        /\ \A u \in Loggers \ {t} : lpc'[u] = lpc[u] /\ logelem'[u] = logelem[u]
    BY <1>0, <1>1, <1>2, <2>1, <2>2 DEF Controller!LogTyped
  <2>4. ASSUME ~overlap PROVE logelem'[t] = index[t] + 1
    <3>1. \A u \in Loggers : lpc[u] # "cursor"
      BY <1>3, <2>1, <2>4 DEF Controller!Within
    <3>2. devices # <<>>
      BY <1>4, <1>5, <2>4
    <3>3. logcurindex < Len(devices) /\ logcurp = logcurindex + 1
      BY <1>3, <2>4, <3>1, <3>2 DEF Controller!CursorThere
    <3>4. index[t] < Len(devices) /\ devices \in Seq(SUBSET Types) /\ logcurindex \in Nat
      BY <1>0, <1>5, <2>4 DEF Controller!LogTyped
    <3> QED BY <1>4, <2>3, <3>3, <3>4, GetIsElement
  <2>5. ~overlap => logelem'[t] # 0 /\ lpc'[t] \in {"write", "index"}
    BY <1>4, <2>3, <2>4
  <2>6. ~overlap => Controller!CallSound(t)'
    BY <1>1, <1>4, <1>5, <2>4, <2>5 DEF Controller!CallSound, Controller!Within
  <2>7. ~overlap => Controller!CursorThere'
    BY <1>1, <1>3, <2>1, <2>3, <2>5 DEF Controller!CursorThere
  <2> QED BY <1>1, <1>3, <2>1, <2>3, <2>6, <2>7, ThreadKeeps
<1>7. CASE Controller!SetIndex(t)
  <2>1. /\ lpc[t] = "index" /\ UNCHANGED <<logcurp, logelem>> /\ logcurindex' = index[t]
        /\ lpc' = [lpc EXCEPT ![t] = "cursor"]
    BY <1>7 DEF Controller!SetIndex, Controller!To
  <2>2. /\ Controller!LogTyped' /\ lpc'[t] = "cursor"
        /\ \A u \in Loggers \ {t} : lpc'[u] = lpc[u]
    BY <1>0, <1>1, <1>2, <1>4, <2>1 DEF Controller!LogTyped
  <2>3. ~overlap => logelem'[t] = index[t] + 1
    BY <1>3, <2>1 DEF Controller!CallSound
  <2>4. ~overlap => Controller!CallSound(t)'
    BY <1>1, <1>4, <1>5, <2>1, <2>2, <2>3 DEF Controller!CallSound, Controller!Within
  <2>5. Controller!CursorThere'
    BY <2>2 DEF Controller!CursorThere
  <2> QED BY <1>1, <1>3, <2>1, <2>2, <2>4, <2>5, ThreadKeeps
<1>8. CASE Controller!SetCursor(t)
  <2>1. /\ lpc[t] = "cursor" /\ UNCHANGED <<logcurindex, logelem>> /\ logcurp' = logelem[t]
        /\ lpc' = [lpc EXCEPT ![t] = "write"]
    BY <1>8 DEF Controller!SetCursor, Controller!To
  <2>2. /\ Controller!LogTyped' /\ lpc'[t] = "write"
        /\ \A u \in Loggers \ {t} : lpc'[u] = lpc[u]
    BY <1>0, <1>1, <1>2, <2>1 DEF Controller!LogTyped
  <2>3. ~overlap => logelem[t] = index[t] + 1 /\ logcurindex = index[t]
    BY <1>3, <2>1 DEF Controller!CallSound
  <2>4. ~overlap => Controller!CallSound(t)'
    BY <1>1, <1>4, <1>5, <2>1, <2>2, <2>3 DEF Controller!CallSound, Controller!Within
  <2>5. ~overlap => Controller!CursorThere'
    BY <1>1, <1>4, <1>5, <2>1, <2>3 DEF Controller!CursorThere
  <2> QED BY <1>1, <1>3, <2>1, <2>2, <2>4, <2>5, ThreadKeeps
<1> QED BY <1>6, <1>7, <1>8

LEMMA WriteKeeps == Controller!LogInv /\ (\E t \in Loggers : Controller!Write(t)) => Controller!LogInv'
<1> SUFFICES ASSUME Controller!LogInv, NEW t \in Loggers, Controller!Write(t) PROVE Controller!LogInv'
  OBVIOUS
<1>0. Controller!LogTyped
  BY DEF Controller!LogInv
<1>1. /\ lpc[t] = "write" /\ Controller!Within(t)
      /\ UNCHANGED <<mask, devices, logcurp, logcurindex, type, total, wanted>>
      /\ (shifted' <=> shifted) /\ (overlap' <=> overlap)
      /\ got' = IF type[t] \in devices[logelem[t]]
                THEN [got EXCEPT ![t] = Append(@, logelem[t])] ELSE got
      /\ index' = [index EXCEPT ![t] = @ + 1] /\ logelem' = [logelem EXCEPT ![t] = 0]
      /\ lpc' = [lpc EXCEPT ![t] = "loop"]
  BY DEF Controller!Write, Controller!Within, Controller!canWrite, Controller!To
<1>2. overlap' \in BOOLEAN /\ shifted' \in BOOLEAN
  BY <1>0 DEF Controller!LogTyped, Controller!Write
<1>3. /\ index[t] \in Nat /\ total[t] \in Nat /\ Len(devices) \in Nat /\ got[t] \in Seq(Nat)
      /\ logelem[t] \in Nat
  BY <1>0 DEF Controller!LogTyped
<1>4. got' \in [Loggers -> Seq(Nat)]
  BY <1>0, <1>1, <1>3 DEF Controller!LogTyped
<1>5. /\ Controller!LogTyped' /\ lpc'[t] = "loop" /\ index'[t] = index[t] + 1
      /\ \A u \in Loggers \ {t} :
           /\ lpc'[u] = lpc[u] /\ index'[u] = index[u] /\ logelem'[u] = logelem[u]
           /\ got'[u] = got[u]
      /\ got'[t] = IF type[t] \in devices[logelem[t]] THEN Append(got[t], logelem[t]) ELSE got[t]
  BY <1>0, <1>1, <1>2, <1>3, <1>4 DEF Controller!LogTyped
<1>6. ASSUME ~overlap
      PROVE  /\ total[t] = Len(devices) /\ index[t] < total[t] /\ type[t] \in mask
             /\ Controller!InOrder(t) /\ Controller!Written(t) = Controller!Passed(t)
             /\ logelem[t] = index[t] + 1 /\ Controller!CursorThere
  BY <1>1, <1>6 DEF Controller!LogInv, Controller!CallSound
<1>7. ASSUME ~overlap PROVE Controller!InOrder(t)' /\ Controller!Written(t)' = Controller!Passed(t)'
  <2> DEFINE Ok == {d \in 1 .. Len(devices) : type[t] \in devices[d]}
             s == got[t]
             r == got'[t]
             i == index[t]
  <2>1. {s[k] : k \in DOMAIN s} = {d \in 1 .. i : d \in Ok}
    <3>1. Controller!Passed(t) = {d \in 1 .. i : type[t] \in devices[d]}
      BY <1>6, <1>7 DEF Controller!Passed, Controller!canWrite
    <3>2. {d \in 1 .. i : type[t] \in devices[d]} = {d \in 1 .. i : d \in Ok}
      BY <1>3, <1>6, <1>7
    <3> QED BY <1>6, <1>7, <3>1, <3>2 DEF Controller!Written
  <2>2. \A j, k \in DOMAIN s : j < k => s[j] < s[k]
    BY <1>6, <1>7 DEF Controller!InOrder
  <2>3. (i + 1 \in Ok) <=> type[t] \in devices[logelem[t]]
    BY <1>3, <1>6, <1>7
  <2>4. r = IF i + 1 \in Ok THEN Append(s, i + 1) ELSE s
    BY <1>5, <1>6, <1>7, <2>3
  <2>5. Controller!Passed(t)' = {d \in 1 .. i + 1 : d \in Ok}
    <3>1. Controller!Passed(t)' = {d \in 1 .. i + 1 : type[t] \in devices[d]}
      BY <1>1, <1>5, <1>6, <1>7 DEF Controller!Passed, Controller!canWrite
    <3>2. {d \in 1 .. i + 1 : type[t] \in devices[d]} = {d \in 1 .. i + 1 : d \in Ok}
      BY <1>3, <1>6, <1>7
    <3> QED BY <3>1, <3>2
  <2>6. s \in Seq(Nat) /\ i \in Nat
    BY <1>3
  <2> HIDE DEF Ok, s, r, i
  <2>7. Lists(s, i, Ok)
    BY <2>1, <2>2 DEF Lists
  <2>8. Lists(r, i + 1, Ok)
    BY <2>4, <2>6, <2>7, WriteAppends
  <2> QED BY <2>5, <2>8 DEF Lists, Controller!InOrder, Controller!Written, r
<1>8. ~overlap => Controller!CallSound(t)'
  BY <1>1, <1>3, <1>5, <1>6, <1>7 DEF Controller!CallSound, Controller!Within
<1>9. ~overlap => Controller!CursorThere'
  BY <1>1, <1>5, <1>6 DEF Controller!CursorThere
<1>10. ~Controller!Within(t)'
  BY <1>5 DEF Controller!Within
<1> QED BY <1>1, <1>5, <1>8, <1>9, <1>10, ThreadKeeps

LEMMA LogInvAlways == MCSpec => []Controller!LogInv
<1>1. MCInit => Controller!LogInv
  <2> SUFFICES ASSUME Controller!LogInit PROVE Controller!LogInv
    BY DEF MCInit
  <2>1. /\ devices = <<>> /\ logcurp = 0 /\ logcurindex = 0 /\ mask = wanted
        /\ (shifted <=> FALSE) /\ (overlap <=> FALSE)
        /\ \A t \in Loggers : lpc[t] = "idle"
    BY DEF Controller!LogInit
  <2>2. Controller!LogTyped
    <3>1. /\ lpc = [t \in Loggers |-> "idle"] /\ type = [t \in Loggers |-> 0]
          /\ total = type /\ index = type /\ logelem = type /\ got = [t \in Loggers |-> <<>>]
      BY DEF Controller!LogInit
    <3>2. devices \in Seq(SUBSET Types)
      BY <2>1
    <3>3. overlap \in BOOLEAN /\ shifted \in BOOLEAN
      BY Zenon DEF Controller!LogInit
    <3> QED BY <2>1, <3>1, <3>2, <3>3 DEF Controller!LogTyped
  <2>3. \A t \in Loggers : Controller!CallSound(t) /\ ~Controller!Within(t)
    BY <2>1 DEF Controller!CallSound, Controller!Within
  <2>4. Controller!CursorThere
    BY <2>1 DEF Controller!CursorThere
  <2> QED BY <2>1, <2>2, <2>3, <2>4 DEF Controller!LogInv
<1>2. Controller!LogInv /\ Controller!LogNext => Controller!LogInv'
  BY SettingKeeps, EntryKeeps, GetKeeps, WriteKeeps DEF Controller!LogNext
<1>3. Controller!LogInv /\ UNCHANGED logvars => Controller!LogInv'
  <2> SUFFICES ASSUME Controller!LogInv, UNCHANGED logvars PROVE Controller!LogInv'
    OBVIOUS
  <2>1. UNCHANGED <<mask, devices, logcurp, logcurindex, lpc, type, total, index, logelem, got,
                    wanted, shifted, overlap>>
    BY DEF logvars
  <2> QED BY <2>1 DEF Controller!LogInv, Controller!LogTyped, Controller!CursorThere,
                      Controller!CallSound, Controller!Within, Controller!InOrder,
                      Controller!Written, Controller!Passed, Controller!canWrite
<1>4. Controller!LogInv /\ [MCNext]_<<part, vars, logvars>> => Controller!LogInv'
  BY <1>2, <1>3 DEF MCNext
<1> QED BY <1>1, <1>4, PTL DEF MCSpec

(* A message goes once and in order to the devices that take its type and   *)
(* to no other, and no walk follows a null pointer, for any threads,        *)
(* devices and types, as long as no two threads walk the devices at once.   *)
THEOREM EachDeviceOnceHolds == MCSpec => []EachDeviceOnce
<1>1. Controller!LogInv => EachDeviceOnce
  <2> SUFFICES ASSUME Controller!LogInv, NEW t \in Loggers, ~overlap
               PROVE  /\ lpc[t] # "crashed"
                      /\ lpc[t] = "done" /\ ~shifted =>
                           Controller!InOrder(t) /\ Controller!Written(t) = Controller!Due(t)
    BY DEF EachDeviceOnce, Controller!EachDeviceOnce
  <2>1. Controller!CallSound(t) /\ (~shifted => mask = wanted)
    BY DEF Controller!LogInv
  <2> QED BY <2>1 DEF Controller!CallSound, Controller!Passed, Controller!Due
<1> QED BY <1>1, LogInvAlways, PTL

-----------------------------------------------------------------------------
(* The list as a sequence: what its elements hold, in their order, without  *)
(* the g elements behind the t-th.                                          *)
Datum == Values \cup {None}
Read(d, o, g, t) == [i \in 1 .. Len(o) - g |-> d[o[IF g > 0 /\ i > t THEN i + g ELSE i]]]

Set(d, n, v) == [d EXCEPT ![n] = v]
Distinct(o) == \A i, j \in 1 .. Len(o) : o[i] = o[j] => i = j
Lacks(o, n) == \A i \in 1 .. Len(o) : o[i] # n

LEMMA ReadIs ==
  ASSUME NEW d \in [Nodes -> Datum], NEW o \in Seq(Nodes), NEW t \in Int, NEW g \in Nat,
         g <= Len(o), g > 0 => t \in 0 .. Len(o) - g
  PROVE  /\ Read(d, o, g, t) \in Seq(Datum) /\ Len(Read(d, o, g, t)) = Len(o) - g
         /\ DOMAIN Read(d, o, g, t) = 1 .. Len(o) - g
         /\ \A i \in 1 .. Len(o) - g :
              Read(d, o, g, t)[i] = d[o[IF g > 0 /\ i > t THEN i + g ELSE i]]
<1> DEFINE s == Read(d, o, g, t)
<1>1. s \in [1 .. Len(o) - g -> Datum]
  <2> SUFFICES ASSUME NEW i \in 1 .. Len(o) - g
               PROVE  d[o[IF g > 0 /\ i > t THEN i + g ELSE i]] \in Datum
    BY DEF Read
  <2>1. o[IF g > 0 /\ i > t THEN i + g ELSE i] \in Nodes
    OBVIOUS
  <2> QED BY <2>1
<1>2. s \in Seq(Datum) /\ Len(s) = Len(o) - g /\ DOMAIN s = 1 .. Len(o) - g
  <2> HIDE DEF s
  <2>1. Len(o) - g \in Nat
    OBVIOUS
  <2> QED BY <1>1, <2>1
<1> QED BY <1>2 DEF Read

(* Sequences of one length that hold the same are one.                      *)
LEMMA SameSequence ==
  ASSUME NEW S, NEW s \in Seq(S), NEW u \in Seq(S), Len(s) = Len(u),
         \A i \in 1 .. Len(s) : s[i] = u[i]
  PROVE  s = u
OBVIOUS

(* Without the g elements behind the t-th. *)
LEMMA CutIs ==
  ASSUME NEW S, NEW s \in Seq(S), NEW g \in Nat, NEW t \in 0 .. Len(s) - g
  PROVE  LET c == SubSeq(s, 1, t) \o SubSeq(s, t + g + 1, Len(s))
         IN /\ c \in Seq(S) /\ Len(c) = Len(s) - g
            /\ \A i \in 1 .. Len(s) - g : c[i] = s[IF i <= t THEN i ELSE i + g]
<1> DEFINE a == SubSeq(s, 1, t)
           b == SubSeq(s, t + g + 1, Len(s))
<1>0. Len(s) \in Nat /\ t \in Nat /\ t + g <= Len(s)
  OBVIOUS
<1>1. a \in Seq(S) /\ Len(a) = t /\ \A i \in 1 .. t : a[i] = s[i]
  OBVIOUS
<1>2. b \in Seq(S) /\ Len(b) = Len(s) - (t + g) /\ \A i \in 1 .. Len(s) - (t + g) : b[i] = s[t + g + i]
  OBVIOUS
<1> HIDE DEF a, b
<1>3. /\ a \o b \in Seq(S) /\ Len(a \o b) = Len(a) + Len(b)
      /\ \A i \in 1 .. Len(a) + Len(b) : (a \o b)[i] = IF i <= Len(a) THEN a[i] ELSE b[i - Len(a)]
  BY <1>1, <1>2, ConcatProperties
<1>4. \A i \in 1 .. Len(s) - g : (a \o b)[i] = s[IF i <= t THEN i ELSE i + g]
  <2> TAKE i \in 1 .. Len(s) - g
  <2>0. i \in Nat
    BY <1>0
  <2>1. CASE i <= t
    BY <1>1, <1>2, <1>3, <2>1
  <2>2. CASE i > t
    <3>1. (a \o b)[i] = b[i - t] /\ i - t \in 1 .. Len(s) - (t + g)
      BY <1>0, <1>1, <1>2, <1>3, <2>2
    <3>2. b[i - t] = s[t + g + (i - t)]
      BY <1>2, <3>1
    <3>3. t + g + (i - t) = i + g
      BY <1>0, <2>0
    <3> QED BY <1>0, <2>0, <2>2, <3>1, <3>2, <3>3
  <2>3. i <= t \/ i > t
    BY <1>0, <2>0
  <2> QED BY <2>1, <2>2, <2>3, Zenon
<1>5. Len(a \o b) = Len(s) - g
  BY <1>0, <1>1, <1>2, <1>3
<1> QED BY <1>3, <1>4, <1>5 DEF a, b

(* With a value behind the t-th.                                            *)
LEMMA InsertedIs ==
  ASSUME NEW S, NEW s \in Seq(S), NEW t \in 0 .. Len(s), NEW v \in S
  PROVE  LET c == Abstract!InsertAt(s, t + 1, v)
         IN /\ c \in Seq(S) /\ Len(c) = Len(s) + 1
            /\ \A i \in 1 .. Len(s) + 1 :
                 c[i] = IF i <= t THEN s[i] ELSE IF i = t + 1 THEN v ELSE s[i - 1]
<1> DEFINE a == SubSeq(s, 1, t)
           b == SubSeq(s, t + 1, Len(s))
           o == <<v>>
<1>0. Len(s) \in Nat /\ t \in Nat /\ t <= Len(s) /\ (t + 1) - 1 = t
  OBVIOUS
<1>1. a \in Seq(S) /\ Len(a) = t /\ \A i \in 1 .. t : a[i] = s[i]
  OBVIOUS
<1>2. b \in Seq(S) /\ Len(b) = Len(s) - t /\ \A i \in 1 .. Len(s) - t : b[i] = s[t + i]
  OBVIOUS
<1>3. o \in Seq(S) /\ Len(o) = 1 /\ o[1] = v
  OBVIOUS
<1>4. Abstract!InsertAt(s, t + 1, v) = a \o o \o b
  BY <1>0 DEF Abstract!InsertAt
<1> HIDE DEF a, b, o
<1>5. /\ a \o o \in Seq(S) /\ Len(a \o o) = t + 1
      /\ \A i \in 1 .. t + 1 : (a \o o)[i] = IF i <= t THEN s[i] ELSE v
  <2>1. /\ a \o o \in Seq(S) /\ Len(a \o o) = Len(a) + Len(o)
        /\ \A i \in 1 .. Len(a) + Len(o) : (a \o o)[i] = IF i <= Len(a) THEN a[i] ELSE o[i - Len(a)]
    BY <1>1, <1>3, ConcatProperties
  <2> QED BY <1>1, <1>3, <2>1
<1> DEFINE ao == a \o o
<1> HIDE DEF ao
<1>6. /\ ao \o b \in Seq(S) /\ Len(ao \o b) = Len(ao) + Len(b)
      /\ \A i \in 1 .. Len(ao) + Len(b) :
           (ao \o b)[i] = IF i <= Len(ao) THEN ao[i] ELSE b[i - Len(ao)]
  BY <1>2, <1>5, ConcatProperties DEF ao
<1>7. Len(ao \o b) = Len(s) + 1
  BY <1>2, <1>5, <1>6 DEF ao
<1>8. ASSUME NEW i \in 1 .. Len(s) + 1
      PROVE  (ao \o b)[i] = IF i <= t THEN s[i] ELSE IF i = t + 1 THEN v ELSE s[i - 1]
  <2>0. i \in Nat
    BY <1>0
  <2>1. CASE i <= t + 1
    BY <1>0, <1>2, <1>5, <1>6, <2>0, <2>1 DEF ao
  <2>2. CASE i > t + 1
    <3>1. (ao \o b)[i] = b[i - (t + 1)] /\ i - (t + 1) \in 1 .. Len(s) - t
      BY <1>0, <1>2, <1>5, <1>6, <2>0, <2>2 DEF ao
    <3>2. b[i - (t + 1)] = s[t + (i - (t + 1))]
      BY <1>2, <3>1
    <3>3. t + (i - (t + 1)) = i - 1
      BY <1>0, <2>0
    <3> QED BY <1>0, <2>0, <2>2, <3>1, <3>2, <3>3
  <2>3. i <= t + 1 \/ i > t + 1
    BY <1>0, <2>0
  <2> QED BY <2>1, <2>2, <2>3, Zenon
<1> QED BY <1>4, <1>6, <1>7, <1>8 DEF ao

(* A range under way is gone from the sequence.                             *)
LEMMA ReadCut ==
  ASSUME NEW d \in [Nodes -> Datum], NEW o \in Seq(Nodes), NEW g \in Nat,
         NEW t \in 0 .. Len(o) - g, NEW x \in Int
  PROVE  Read(d, o, g, t) =
           SubSeq(Read(d, o, 0, x), 1, t) \o SubSeq(Read(d, o, 0, x), t + g + 1, Len(o))
<1> DEFINE s == Read(d, o, 0, x)
           u == Read(d, o, g, t)
           c == SubSeq(s, 1, t) \o SubSeq(s, t + g + 1, Len(s))
<1>0. Len(o) \in Nat
  OBVIOUS
<1>1. s \in Seq(Datum) /\ Len(s) = Len(o) /\ \A i \in 1 .. Len(o) : s[i] = d[o[i]]
  BY ReadIs
<1>2. /\ u \in Seq(Datum) /\ Len(u) = Len(o) - g
      /\ \A i \in 1 .. Len(o) - g : u[i] = d[o[IF g > 0 /\ i > t THEN i + g ELSE i]]
  BY ReadIs
<1> HIDE DEF s, u
<1>3. /\ c \in Seq(Datum) /\ Len(c) = Len(s) - g
      /\ \A i \in 1 .. Len(s) - g : c[i] = s[IF i <= t THEN i ELSE i + g]
  <2>1. t \in 0 .. Len(s) - g /\ s \in Seq(Datum)
    BY <1>1
  <2> QED BY ONLY <2>1, g \in Nat, CutIs
<1> HIDE DEF c
<1>4. \A i \in 1 .. Len(u) : u[i] = c[i]
  <2> TAKE i \in 1 .. Len(u)
  <2>0. i \in Nat /\ i <= Len(o) - g
    BY <1>0, <1>2
  <2>1. c[i] = s[IF i <= t THEN i ELSE i + g]
    BY <1>1, <1>2, <1>3
  <2>2. c[i] = d[o[IF i <= t THEN i ELSE i + g]]
    BY <1>0, <1>1, <2>0, <2>1
  <2> QED BY <1>0, <1>2, <2>0, <2>2
<1>5. u = c
  BY <1>1, <1>2, <1>3, <1>4, SameSequence
<1> QED BY <1>1, <1>5 DEF c, u, s

(* The next of a range going for good changes nothing of it.                *)
LEMMA ReadGone ==
  ASSUME NEW d \in [Nodes -> Datum], NEW o \in Seq(Nodes), NEW g \in Nat \ {0},
         NEW t \in 0 .. Len(o) - g, NEW x \in Int, x = t \/ g = 1,
         Distinct(o)
  PROVE  Read(Set(d, o[t + 1], None), RemoveNode(o, t + 1), g - 1, x) = Read(d, o, g, t)
<1> DEFINE p == RemoveNode(o, t + 1)
           e == Set(d, o[t + 1], None)
           u == Read(d, o, g, t)
           h == g - 1
           w == Read(e, p, h, x)
<1>0. Len(o) \in Nat /\ g \in Nat /\ g > 0 /\ t \in Nat /\ t + g <= Len(o)
  OBVIOUS
<1>1. /\ p \in Seq(Nodes) /\ Len(p) = Len(o) - 1
      /\ \A j \in 1 .. Len(o) - 1 : p[j] = IF j < t + 1 THEN o[j] ELSE o[j + 1]
  <2>1. t + 1 \in 1 .. Len(o)
    OBVIOUS
  <2> QED BY <2>1, RemoveNodeIs
<1>2. e \in [Nodes -> Datum] /\ \A i \in 1 .. Len(o) : i # t + 1 => e[o[i]] = d[o[i]]
  <2>1. \A i \in 1 .. Len(o) : o[i] \in Nodes
    OBVIOUS
  <2> QED BY <2>1 DEF Datum, Set, Distinct
<1> HIDE DEF p, e
<1>3. /\ w \in Seq(Datum) /\ Len(w) = Len(o) - g
      /\ \A i \in 1 .. Len(o) - g :
           w[i] = e[p[IF g - 1 > 0 /\ i > x THEN i + (g - 1) ELSE i]]
  <2>1. g - 1 \in Nat /\ g - 1 <= Len(p) /\ (g - 1 > 0 => x \in 0 .. Len(p) - (g - 1))
    BY <1>1
  <2>2. Len(p) - (g - 1) = Len(o) - g
    BY <1>0, <1>1
  <2>3. h \in Nat /\ h <= Len(p) /\ (h > 0 => x \in 0 .. Len(p) - h)
    BY <2>1
  <2> HIDE DEF h
  <2>4. /\ w \in Seq(Datum) /\ Len(w) = Len(p) - h
        /\ \A i \in 1 .. Len(p) - h : w[i] = e[p[IF h > 0 /\ i > x THEN i + h ELSE i]]
    <3>1. e \in [Nodes -> Datum] /\ p \in Seq(Nodes)
      BY <1>1, <1>2
    <3> QED BY ONLY <2>3, <3>1, x \in Int, ReadIs
  <2> QED BY <2>2, <2>4 DEF h
<1>4. /\ u \in Seq(Datum) /\ Len(u) = Len(o) - g
      /\ \A i \in 1 .. Len(o) - g : u[i] = d[o[IF g > 0 /\ i > t THEN i + g ELSE i]]
  BY ReadIs
<1> HIDE DEF u, w
<1>5. \A i \in 1 .. Len(w) : w[i] = u[i]
  <2> TAKE i \in 1 .. Len(w)
  <2>0. i \in 1 .. Len(o) - g /\ i \in Nat
    BY <1>0, <1>3
  <2>1. CASE i <= t
    <3>1. ~(g - 1 > 0 /\ i > x) /\ ~(g > 0 /\ i > t) /\ i \in 1 .. Len(o) - 1 /\ i < t + 1
      BY <1>0, <2>0, <2>1
    <3>2. w[i] = e[p[i]] /\ p[i] = o[i] /\ u[i] = d[o[i]]
      BY <1>1, <1>3, <1>4, <2>0, <3>1
    <3> QED BY <1>0, <1>2, <2>0, <2>1, <3>2
  <2>2. CASE i > t
    <3>1. (IF g - 1 > 0 /\ i > x THEN i + (g - 1) ELSE i) = i + (g - 1)
      BY <1>0, <2>0, <2>2
    <3>2. w[i] = e[p[i + (g - 1)]]
      BY <1>3, <2>0, <3>1
    <3>3. u[i] = d[o[i + g]]
      BY <1>0, <1>4, <2>0, <2>2
    <3>4. i + (g - 1) \in 1 .. Len(o) - 1 /\ ~(i + (g - 1) < t + 1) /\ i + (g - 1) + 1 = i + g
      BY <1>0, <2>0, <2>2
    <3>5. p[i + (g - 1)] = o[i + g] /\ i + g \in 1 .. Len(o) /\ i + g # t + 1
      BY <1>0, <1>1, <2>0, <2>2, <3>4
    <3> QED BY <1>2, <3>2, <3>3, <3>5
  <2> QED BY <1>0, <2>0, <2>1, <2>2
<1>6. w = u
  BY <1>3, <1>4, <1>5, SameSequence
<1> QED BY <1>6 DEF u, w, e, p

(* What insert() and put() make of the sequence.                            *)
LEMMA ReadInserted ==
  ASSUME NEW d \in [Nodes -> Datum], NEW o \in Seq(Nodes), NEW t \in 0 .. Len(o),
         NEW n \in Nodes, NEW v \in Datum, Lacks(o, n),
         NEW x \in Int, NEW y \in Int
  PROVE  Read(Set(d, n, v), InsertNode(o, t, n), 0, x) =
           Abstract!InsertAt(Read(d, o, 0, y), t + 1, v)
<1> DEFINE p == InsertNode(o, t, n)
           e == Set(d, n, v)
           s == Read(d, o, 0, y)
           w == Read(e, p, 0, x)
           c == Abstract!InsertAt(s, t + 1, v)
<1>0. Len(o) \in Nat /\ t \in Nat /\ t <= Len(o)
  OBVIOUS
<1>1. /\ p \in Seq(Nodes) /\ Len(p) = Len(o) + 1
      /\ \A j \in 1 .. Len(o) + 1 :
           p[j] = IF j <= t THEN o[j] ELSE IF j = t + 1 THEN n ELSE o[j - 1]
  BY InsertNodeIs
<1>2. e \in [Nodes -> Datum] /\ e[n] = v /\ \A i \in 1 .. Len(o) : e[o[i]] = d[o[i]]
  <2>1. \A i \in 1 .. Len(o) : o[i] \in Nodes
    OBVIOUS
  <2> QED BY <2>1 DEF Set, Lacks
<1> HIDE DEF p, e
<1>3. s \in Seq(Datum) /\ Len(s) = Len(o) /\ \A i \in 1 .. Len(o) : s[i] = d[o[i]]
  BY ReadIs
<1>4. w \in Seq(Datum) /\ Len(w) = Len(o) + 1 /\ \A i \in 1 .. Len(o) + 1 : w[i] = e[p[i]]
  BY <1>1, <1>2, ReadIs
<1> HIDE DEF s, w
<1>5. /\ c \in Seq(Datum) /\ Len(c) = Len(s) + 1
      /\ \A i \in 1 .. Len(s) + 1 :
           c[i] = IF i <= t THEN s[i] ELSE IF i = t + 1 THEN v ELSE s[i - 1]
  <2>1. s \in Seq(Datum) /\ t \in 0 .. Len(s)
    BY <1>3
  <2>2. v \in Datum
    OBVIOUS
  <2>3. LET k == Abstract!InsertAt(s, t + 1, v)
        IN  /\ k \in Seq(Datum) /\ Len(k) = Len(s) + 1
            /\ \A i \in 1 .. Len(s) + 1 :
                 k[i] = IF i <= t THEN s[i] ELSE IF i = t + 1 THEN v ELSE s[i - 1]
    BY ONLY <2>1, <2>2, InsertedIs
  <2> QED BY <2>3 DEF c
<1> HIDE DEF c
<1>6. \A i \in 1 .. Len(w) : w[i] = c[i]
  <2> TAKE i \in 1 .. Len(w)
  <2>0. i \in Nat
    BY <1>0, <1>4
  <2>1. CASE i <= t
    <3>1. w[i] = e[o[i]] /\ c[i] = s[i] /\ i \in 1 .. Len(o)
      BY <1>1, <1>3, <1>4, <1>5, <2>1
    <3> QED BY <1>2, <1>3, <3>1
  <2>2. CASE i = t + 1
    BY <1>1, <1>2, <1>3, <1>4, <1>5, <2>2
  <2>3. CASE i > t + 1
    <3>1. w[i] = e[o[i - 1]] /\ c[i] = s[i - 1] /\ i - 1 \in 1 .. Len(o)
      BY <1>1, <1>3, <1>4, <1>5, <2>3
    <3> QED BY <1>2, <1>3, <3>1
  <2> QED BY <1>0, <2>0, <2>1, <2>2, <2>3
<1>7. w = c
  BY <1>0, <1>3, <1>4, <1>5, <1>6, SameSequence
<1> QED BY <1>7 DEF c, s, w, e, p

LEMMA ReadPut ==
  ASSUME NEW d \in [Nodes -> Datum], NEW o \in Seq(Nodes), NEW t \in 0 .. Len(o) - 1,
         NEW v \in Datum, NEW x \in Int, NEW y \in Int, Distinct(o)
  PROVE  Read(Set(d, o[t + 1], v), o, 0, x) = Abstract!ReplaceAt(Read(d, o, 0, y), t + 1, v)
<1> DEFINE e == Set(d, o[t + 1], v)
<1>1. \A i \in 1 .. Len(o) : o[i] \in Nodes
  OBVIOUS
<1>2. \A i \in 1 .. Len(o) : e[o[i]] = IF i = t + 1 THEN v ELSE d[o[i]]
  BY <1>1 DEF Set, Distinct
<1> HIDE DEF e
<1>3. Read(e, o, 0, x) = [i \in 1 .. Len(o) |-> e[o[i]]]
  BY DEF Read
<1>4. Read(d, o, 0, y) = [i \in 1 .. Len(o) |-> d[o[i]]]
  BY DEF Read
<1>5. [i \in 1 .. Len(o) |-> e[o[i]]] = [[i \in 1 .. Len(o) |-> d[o[i]]] EXCEPT ![t + 1] = v]
  BY <1>2
<1> QED BY <1>3, <1>4, <1>5 DEF Abstract!ReplaceAt, e

-----------------------------------------------------------------------------
(* The call under way seeks what it was called for, and a scan has passed   *)
(* nothing that it looks for.                                               *)
Sought ==
  /\ Pending =>
       /\ req.op \in {"get", "put", "take", "remove", "range"} => target = req.index
       /\ req.op \in {"get", "take", "remove"} => req.value = None
       /\ req.op = "insert" =>
            req.index > 0 /\ target = (IF req.index > size THEN size ELSE req.index) - 1
       /\ req.op = "range" => req.count > 0
       /\ req.op = "indexOf" => target = IF req.index < 0 THEN 0 ELSE req.index
       /\ req.op = "indexOf" => pc # "found"
  /\ pc \in {"scan", "crashed"} => req.op = "indexOf"
  /\ pc = "scan" =>
       /\ elem = OrderAt(target + 1) /\ target >= 0 /\ target >= req.index
       /\ \A i \in DOMAIN order : req.index < i /\ i <= target => data[order[i]] # req.value

(* Between calls nothing is sought.                                         *)
LEMMA SoughtIdle ==
  ASSUME pc' = "idle"
  PROVE  Sought'
BY DEF Sought, Pending

LEMMA SoughtSet ==
  ASSUME NEW r, NEW t, Seek(r, t),
         r.op \in {"get", "put", "take", "remove", "range"} => t = r.index,
         r.op \in {"get", "take", "remove"} => r.value = None,
         r.op = "insert" => r.index > 0 /\ t = (IF r.index > size THEN size ELSE r.index) - 1,
         r.op = "range" => r.count > 0,
         r.op = "indexOf" => t = IF r.index < 0 THEN 0 ELSE r.index
  PROVE  Sought'
BY DEF Sought, Pending, Seek, links

LEMMA SoughtCalled ==
  ASSUME ListInv, NEW i \in Int,
         \/ CallGet(i) \/ CallTake(i) \/ CallRemove(i)
         \/ \E end \in Int : CallRemoveRange(i, end)
         \/ \E v \in Values : CallPut(i, v) \/ CallIndexOf(v, i) \/ CallInsert(i, v)
  PROVE  Sought'
<1> USE DEF Call
<1>1. CASE CallGet(i)
  BY <1>1, SoughtSet DEF CallGet
<1>2. CASE CallTake(i)
  BY <1>2, SoughtSet DEF CallTake
<1>3. CASE CallRemove(i)
  <2>1. CASE Seek(Call("remove", i, None, 1), i)
    BY <2>1, SoughtSet
  <2>2. CASE Refused(Call("remove", i, None, 0), None)
    BY <2>2, SoughtIdle DEF Refused
  <2> QED BY <1>3, <2>1, <2>2 DEF CallRemove
<1>4. ASSUME NEW end \in Int, CallRemoveRange(i, end) PROVE Sought'
  <2> DEFINE stop == IF end < 0 \/ end > size THEN size ELSE end
             r == Call("range", i, end, stop - i)
  <2>1. CASE Refused(r, None)
    BY <2>1, SoughtIdle DEF Refused
  <2>2. CASE i < stop /\ Seek(r, i)
    <3>1. stop \in Int
      BY DEF ListInv, TypeOK
    <3>2. r.count > 0 /\ r.op = "range" /\ r.index = i
      BY <2>2, <3>1
    <3> HIDE DEF r
    <3> QED BY <2>2, <3>2, SoughtSet
  <2> QED BY <1>4, <2>1, <2>2 DEF CallRemoveRange
<1>5. ASSUME NEW v \in Values, CallPut(i, v) PROVE Sought'
  BY <1>5, SoughtSet DEF CallPut
<1>6. ASSUME NEW v \in Values, CallIndexOf(v, i) PROVE Sought'
  <2> DEFINE r == Call("indexOf", i, v, 0)
  <2>1. CASE Refused(r, -1)
    BY <2>1, SoughtIdle DEF Refused
  <2>2. CASE Seek(r, IF i < 0 THEN 0 ELSE i)
    <3>1. r.op = "indexOf" /\ r.index = i
      OBVIOUS
    <3> HIDE DEF r
    <3> QED BY <2>2, <3>1, SoughtSet
  <2> QED BY <1>6, <2>1, <2>2 DEF CallIndexOf
<1>7. ASSUME NEW v \in Values, CallInsert(i, v) PROVE Sought'
  <2> DEFINE r == Call("insert", i, v, 0)
  <2>1. i > 0 /\ Seek(r, (IF i > size THEN size ELSE i) - 1)
    BY <1>7 DEF CallInsert
  <2>2. r.op = "insert" /\ r.index = i
    OBVIOUS
  <2> HIDE DEF r
  <2> QED BY <2>1, <2>2, SoughtSet
<1> QED BY <1>1, <1>2, <1>3, <1>4, <1>5, <1>6, <1>7

(* The walk to the element, and what it finds there.                        *)
LEMMA SoughtFound ==
  ASSUME ListInv, Sought, Locate \/ Walk \/ Arrive
  PROVE  Sought'
<1> USE DEF links, cursor, search, owner
<1>1. /\ size \in Nat /\ size = Len(order) /\ DOMAIN order = 1 .. size
      /\ \A j \in 1 .. size : order[j] # None
      /\ target \in Nat /\ steps \in Nat /\ req.index \in Int
  BY DEF ListInv, TypeOK, Linked
<1>2. CASE Locate
  BY <1>2 DEF Locate, Begin, Sought, Pending
<1>3. CASE Walk
  <2>1. CASE elem = None
    <3>1. size = 0
      BY <1>1, <1>3, <2>1 DEF Walk, ListInv, Searching
    <3>2. req.op = "indexOf" /\ req' = req /\ pc' = "crashed"
      BY <1>3, <2>1, <3>1 DEF Walk, ListInv, Searching
    <3> QED BY <3>2 DEF Sought, Pending
  <2>2. CASE elem # None
    BY <1>3, <2>2 DEF Walk, Sought, Pending
  <2> QED BY <2>1, <2>2
<1>4. CASE Arrive
  <2>1. elem = OrderAt(target + 1) /\ (elem = None => req.op = "indexOf")
    <3>1. CASE size = 0
      <4>1. elem = None /\ target = 0 /\ req.op = "indexOf"
        BY <1>1, <1>4, <3>1 DEF Arrive, ListInv, Searching, Pending
      <4> QED BY <1>1, <3>1, <4>1 DEF OrderAt
    <3>2. CASE size # 0
      <4>1. target + 1 \in DOMAIN order /\ elem = order[target + 1]
        BY <1>1, <1>4, <3>2 DEF Arrive, ListInv, Searching
      <4> QED BY <1>1, <4>1 DEF OrderAt
    <3> QED BY <3>1, <3>2
  <2>2. CASE req.op = "indexOf"
    <3>1. pc' = "scan" /\ UNCHANGED <<links, data, search, req>>
      BY <1>4, <2>2 DEF Arrive
    <3>2. target = IF req.index < 0 THEN 0 ELSE req.index
      BY <1>4, <2>2 DEF Arrive, Sought, Pending
    <3>3. target >= 0 /\ target >= req.index /\ \A i \in DOMAIN order : ~(req.index < i /\ i <= target)
      BY <1>1, <3>2
    <3> QED BY <2>1, <2>2, <3>1, <3>3 DEF Sought, Pending, OrderAt
  <2>3. CASE req.op # "indexOf"
    <3>1. pc' = "found" /\ UNCHANGED <<links, data, search, req>>
      BY <1>4, <2>1, <2>3 DEF Arrive
    <3> QED BY <1>4, <2>3, <3>1 DEF Arrive, Sought, Pending
  <2> QED BY <2>2, <2>3
<1> QED BY <1>2, <1>3, <1>4

(* A scan goes on, a range goes on.                                         *)
LEMMA SoughtOn ==
  ASSUME ListInv, Sought, Scan \/ Remove
  PROVE  Sought'
<1> USE DEF links, search
<1>1. /\ size \in Nat /\ size = Len(order) /\ DOMAIN order = 1 .. size
      /\ \A j \in 1 .. size : order[j] # None
      /\ target \in Nat /\ req.index \in Int
  BY DEF ListInv, TypeOK, Linked
<1>2. CASE Scan
  <2>1. CASE \E result : End(result)
    BY <2>1, SoughtIdle DEF End
  <2>2. CASE ~\E result : End(result)
    <3>1. /\ pc = "scan" /\ elem # None /\ data[elem] # req.value
          /\ elem' = next[elem] /\ target' = target + 1
          /\ UNCHANGED <<pc, req, links, data>>
      BY <1>2, <2>2 DEF Scan
    <3>2. elem = OrderAt(target + 1) /\ target >= req.index /\ req.op = "indexOf"
      BY <3>1 DEF Sought
    <3>3. target + 1 \in DOMAIN order /\ elem = order[target + 1]
      BY <3>1, <3>2 DEF OrderAt
    <3>4. elem' = OrderAt(target + 2)
      BY <1>1, <3>1, <3>3 DEF ListInv, Linked
    <3>5. \A i \in DOMAIN order : req.index < i /\ i <= target + 1 => data[order[i]] # req.value
      <4> SUFFICES ASSUME NEW i \in DOMAIN order, req.index < i, i <= target + 1
                   PROVE  data[order[i]] # req.value
        OBVIOUS
      <4>1. CASE i = target + 1
        BY <3>1, <3>3, <4>1
      <4>2. CASE i # target + 1
        BY <1>1, <3>1, <4>2 DEF Sought
      <4> QED BY <4>1, <4>2
    <3>6. target' + 1 = target + 2 /\ target' >= 0 /\ target' >= req'.index
      BY <1>1, <3>1, <3>2
    <3>7. elem' = OrderAt(target + 1)'
      BY <3>1, <3>4, <3>6 DEF OrderAt
    <3>8. \A i \in DOMAIN order' : req'.index < i /\ i <= target' => data'[order'[i]] # req'.value
      BY <3>1, <3>5
    <3> QED BY <3>1, <3>2, <3>6, <3>7, <3>8 DEF Sought, Pending
  <2> QED BY <2>1, <2>2
<1>3. CASE Remove
  <2>1. CASE req.count > 1
    <3>1. /\ pc = "found" /\ req.op \in {"remove", "range"}
          /\ pc' = "seek" /\ req' = [req EXCEPT !.count = @ - 1] /\ UNCHANGED search
      BY <1>3, <2>1 DEF Remove
    <3>2. req.op = "range" /\ req.count \in Int
      BY <2>1, <3>1 DEF ListInv, Searching, Pending, TypeOK
    <3>3. /\ req'.op = "range" /\ req'.index = req.index /\ req'.count = req.count - 1
      BY <3>1, <3>2 DEF ListInv, TypeOK
    <3>4. target = req.index
      BY <3>1, <3>2 DEF Sought, Pending
    <3>5. req'.count > 0 /\ target' = req'.index
      BY <2>1, <3>1, <3>2, <3>3, <3>4
    <3> QED BY <3>1, <3>3, <3>5 DEF Sought, Pending
  <2>2. CASE ~(req.count > 1)
    BY <1>3, <2>2, SoughtIdle DEF Remove, End
  <2> QED BY <2>1, <2>2
<1> QED BY <1>2, <1>3

LEMMA SoughtStep == ListInv /\ Sought /\ [Next]_vars => Sought'
<1> SUFFICES ASSUME ListInv, Sought, [Next]_vars PROVE Sought'
  OBVIOUS
<1>1. ASSUME NEW i \in -1 .. MaxLen + 1, CallGet(i) \/ CallTake(i) \/ CallRemove(i)
      PROVE  Sought'
  BY <1>1, SoughtCalled
<1>2. ASSUME NEW i \in -1 .. MaxLen + 1, NEW end \in -1 .. MaxLen + 1, CallRemoveRange(i, end)
      PROVE  Sought'
  BY <1>2, SoughtCalled
<1>3. ASSUME NEW i \in -1 .. MaxLen + 1, NEW v \in Values,
             CallPut(i, v) \/ CallIndexOf(v, i) \/ CallInsert(i, v)
      PROVE  Sought'
  BY <1>3, SoughtCalled
<1>4. ASSUME NEW i \in -1 .. MaxLen + 1, NEW v \in Values, NEW n \in Nodes, InsertFirst(n, i, v)
      PROVE  Sought'
  BY <1>4, SoughtIdle DEF InsertFirst
<1>5. CASE Locate \/ Walk \/ Arrive
  BY <1>5, SoughtFound
<1>6. CASE Remove \/ Scan
  BY <1>6, SoughtOn
<1>7. CASE Get \/ Put \/ Take \/ Copy
  BY <1>7, SoughtIdle DEF Get, Put, Take, Copy, End
<1>8. ASSUME NEW n \in Nodes, Insert(n) PROVE Sought'
  BY <1>8, SoughtIdle DEF Insert, End
<1>9. CASE UNCHANGED vars
  BY <1>9 DEF vars, links, search, Sought, Pending, OrderAt
<1> QED BY <1>1, <1>2, <1>3, <1>4, <1>5, <1>6, <1>7, <1>8, <1>9 DEF Next

-----------------------------------------------------------------------------
(* What the sequence is before and after a step, from what the list is.     *)
LEMMA ListFacts ==
  ASSUME ListInv
  PROVE  /\ data \in [Nodes -> Datum] /\ order \in Seq(Nodes)
         /\ size \in Nat /\ Len(order) = size /\ DOMAIN order = 1 .. size
         /\ Distinct(order)
         /\ target \in Nat /\ req.index \in Int /\ req.count \in Int /\ elem \in NodeOrNone
<1>1. /\ data \in [Nodes -> Datum] /\ order \in Seq(Nodes) /\ target \in Nat
      /\ req.index \in Int /\ req.count \in Int /\ elem \in NodeOrNone
  BY DEF ListInv, TypeOK, Datum
<1>2. size \in Nat /\ Len(order) = size
  BY DEF ListInv, TypeOK, Linked
<1>3. DOMAIN order = 1 .. size
  BY ONLY <1>1, <1>2, LenProperties
<1>4. \A i, j \in DOMAIN order : order[i] = order[j] => i = j
  BY DEF ListInv, Linked
<1>5. Distinct(order)
  BY <1>2, <1>3, <1>4 DEF Distinct
<1> QED BY <1>1, <1>2, <1>3, <1>5

LEMMA Unmoved ==
  ASSUME ListInv
  PROVE  /\ ~Removing => Contents = Read(data, order, 0, 0) /\ Latest = last
         /\ ~Removing' => Contents' = Read(data', order', 0, 0) /\ Latest' = last'
         /\ Contents = Read(data, order, IF Removing THEN req.count ELSE 0, target)
         /\ Contents' = Read(data', order', IF Removing' THEN req'.count ELSE 0, target')
BY DEF Contents, Read, Latest

LEMMA Whole ==
  ASSUME ListInv, ~Removing
  PROVE  /\ Contents \in Seq(Datum) /\ Len(Contents) = size /\ DOMAIN Contents = 1 .. size
         /\ \A i \in 1 .. size : Contents[i] = data[order[i]]
         /\ Abstract!Indices = 0 .. size - 1
<1>1. Contents = Read(data, order, 0, 0)
  BY Unmoved
<1>2. /\ Contents \in Seq(Datum) /\ Len(Contents) = Len(order) - 0
      /\ DOMAIN Contents = 1 .. Len(order) - 0
      /\ \A i \in 1 .. Len(order) - 0 : Contents[i] = data[order[i]]
  BY <1>1, ListFacts, ReadIs
<1> QED BY <1>2, ListFacts DEF Abstract!Indices

(* A call sets out; it has done nothing yet, but a range.                   *)
LEMMA SetOut ==
  ASSUME ListInv, NEW r, NEW t, Seek(r, t), r.op # "range"
  PROVE  Abstract!LsNext
<1>1. ~Removing /\ ~Removing' /\ UNCHANGED <<data, order>> /\ last' = Answer(Idle, None)
  BY DEF Seek, Removing, links
<1>2. Latest' = Abstract!Answer("none", 0, None, None) /\ UNCHANGED Contents
  BY <1>1, Unmoved DEF Answer, Abstract!Answer, Idle
<1> QED BY <1>2 DEF Abstract!LsNext, Abstract!LsCall

(* A call that ends at once leaves the sequence.                            *)
LEMMA Ended ==
  ASSUME ListInv, NEW op, NEW i, NEW v, NEW n, NEW result, Refused(Call(op, i, v, n), result)
  PROVE  /\ ~Removing /\ UNCHANGED Contents
         /\ Latest' = Abstract!Answer(op, i, v, result)
         /\ Latest'.op = op /\ Latest'.index = i /\ Latest'.value = v
<1>1. ~Removing /\ ~Removing' /\ UNCHANGED <<data, order>>
      /\ last' = Answer(Call(op, i, v, n), result)
  BY DEF Refused, Removing, links
<1>2. UNCHANGED Contents /\ Latest' = Abstract!Answer(op, i, v, result)
  BY <1>1, Unmoved DEF Answer, Call, Abstract!Answer
<1> QED BY <1>1, <1>2 DEF Abstract!Answer

LEMMA RangeCalled ==
  ASSUME ListInv, NEW i \in Int, NEW end \in Int, CallRemoveRange(i, end)
  PROVE  Abstract!LsNext
<1> DEFINE stop == IF end < 0 \/ end > size THEN size ELSE end
           g == stop - i
           r == Call("range", i, end, g)
<1>0. size \in Nat /\ Len(order) = size
  BY ListFacts
<1>1. CASE Refused(r, None) /\ ~(i \in 0 .. size - 1 /\ i < stop)
  <2>1. /\ ~Removing /\ UNCHANGED Contents
        /\ Latest' = Abstract!Answer("range", i, end, None)
        /\ Latest'.index = i /\ Latest'.value = end
    BY <1>1, Ended
  <2>2. Abstract!Indices = 0 .. size - 1 /\ Len(Contents) = size
    BY <2>1, Whole
  <2>3. stop = IF end \in 0 .. Len(Contents) THEN end ELSE Len(Contents)
    BY <1>0, <2>2
  <2> HIDE DEF stop
  <2>4. Abstract!LsRemoveRange(i, end)
    BY <1>1, <2>1, <2>2, <2>3 DEF Abstract!LsRemoveRange
  <2> QED BY <2>1, <2>4 DEF Abstract!LsNext
<1>2. CASE Seek(r, i) /\ i \in 0 .. size - 1 /\ i < stop
  <2>1. /\ ~Removing /\ UNCHANGED <<data, order>> /\ pc' = "seek" /\ req' = r /\ target' = i
    BY <1>2 DEF Seek, Removing, links
  <2>2. Removing' /\ Latest' = Abstract!Answer("range", i, end, None) /\ req'.count = g
    BY <2>1 DEF Removing, Latest, Call, Answer, Abstract!Answer
  <2>3. Latest'.index = i /\ Latest'.value = end
    BY <2>2 DEF Abstract!Answer
  <2>4. g \in Nat /\ i \in 0 .. Len(order) - g /\ i + g = stop
    BY <1>0, <1>2
  <2> HIDE DEF r, g
  <2>5. Contents' = Read(data, order, g, i) /\ Contents = Read(data, order, 0, 0)
    BY <2>1, <2>2, Unmoved
  <2>6. Contents' = SubSeq(Contents, 1, i) \o SubSeq(Contents, i + g + 1, Len(order))
    <3>1. data \in [Nodes -> Datum] /\ order \in Seq(Nodes) /\ 0 \in Int
      BY ListFacts
    <3>2. Read(data, order, g, i) =
            SubSeq(Read(data, order, 0, 0), 1, i) \o SubSeq(Read(data, order, 0, 0), i + g + 1, Len(order))
      BY ONLY <2>4, <3>1, ReadCut
    <3> QED BY <2>5, <3>2
  <2>7. Abstract!Indices = 0 .. size - 1 /\ Len(Contents) = size
    BY <2>1, Whole
  <2>8. stop = IF end \in 0 .. Len(Contents) THEN end ELSE Len(Contents)
    BY <1>0, <2>7
  <2>9. i + g + 1 = stop + 1
    BY <2>4
  <2> HIDE DEF stop
  <2>10. Contents' = SubSeq(Contents, 1, i) \o SubSeq(Contents, stop + 1, Len(Contents))
    BY <1>0, <2>6, <2>7, <2>9
  <2>11. Abstract!LsRemoveRange(i, end)
    BY <1>2, <2>2, <2>7, <2>8, <2>10 DEF Abstract!LsRemoveRange
  <2> QED BY <2>3, <2>11 DEF Abstract!LsNext
<1> QED BY <1>1, <1>2 DEF CallRemoveRange

LEMMA CalledIs ==
  ASSUME ListInv, NEW i \in Int,
         \/ CallGet(i) \/ CallTake(i) \/ CallRemove(i)
         \/ \E end \in Int : CallRemoveRange(i, end)
         \/ \E v \in Values : CallPut(i, v) \/ CallIndexOf(v, i) \/ CallInsert(i, v)
  PROVE  Abstract!LsNext
<1>0. size \in Nat
  BY ListFacts
<1>1. CASE CallGet(i)
  BY <1>1, SetOut DEF CallGet, Call
<1>2. CASE CallTake(i)
  BY <1>2, SetOut DEF CallTake, Call
<1>3. CASE CallRemove(i)
  <2>1. CASE Seek(Call("remove", i, None, 1), i)
    BY <2>1, SetOut DEF Call
  <2>2. CASE i \notin 0 .. size - 1 /\ Refused(Call("remove", i, None, 0), None)
    <3>1. /\ ~Removing /\ UNCHANGED Contents
          /\ Latest' = Abstract!Answer("remove", i, None, None) /\ Latest'.index = i
      BY <2>2, Ended
    <3>2. i \notin Abstract!Indices
      BY <2>2, <3>1, Whole
    <3>3. Abstract!LsRemove(i)
      BY <3>1, <3>2 DEF Abstract!LsRemove
    <3> QED BY <3>1, <3>3 DEF Abstract!LsNext
  <2> QED BY <1>3, <2>1, <2>2 DEF CallRemove
<1>4. ASSUME NEW end \in Int, CallRemoveRange(i, end) PROVE Abstract!LsNext
  BY <1>4, RangeCalled
<1>5. ASSUME NEW v \in Values, CallPut(i, v) PROVE Abstract!LsNext
  BY <1>5, SetOut DEF CallPut, Call
<1>6. ASSUME NEW v \in Values, CallIndexOf(v, i) PROVE Abstract!LsNext
  <2>1. CASE i >= size /\ Refused(Call("indexOf", i, v, 0), -1)
    <3>1. /\ ~Removing /\ UNCHANGED Contents
          /\ Latest' = Abstract!Answer("indexOf", i, v, -1)
          /\ Latest'.op = "indexOf" /\ Latest'.index = i /\ Latest'.value = v
      BY <2>1, Ended
    <3>2. Abstract!Indices = 0 .. size - 1
      BY <3>1, Whole
    <3>3. Abstract!Hits(v, i) = {}
      BY <1>0, <2>1, <3>2 DEF Abstract!Hits
    <3>4. Abstract!LsIndexOf(v, i)
      BY <3>1, <3>3 DEF Abstract!LsIndexOf
    <3> QED BY <3>1, <3>4 DEF Abstract!LsNext
  <2>2. CASE Seek(Call("indexOf", i, v, 0), IF i < 0 THEN 0 ELSE i)
    BY <2>2, SetOut DEF Call
  <2> QED BY <1>6, <2>1, <2>2 DEF CallIndexOf
<1>7. ASSUME NEW v \in Values, CallInsert(i, v) PROVE Abstract!LsNext
  BY <1>7, SetOut DEF CallInsert, Call
<1> QED BY <1>1, <1>2, <1>3, <1>4, <1>5, <1>6, <1>7

-----------------------------------------------------------------------------
(* At the element it has found each call does what the sequence's does.     *)
LEMMA ElementIs ==
  ASSUME ListInv, pc = "found"
  PROVE  /\ target \in 0 .. size - 1 /\ target + 1 \in 1 .. Len(order)
         /\ elem = order[target + 1] /\ elem \in Nodes
<1>1. target \in 0 .. size - 1 /\ elem = order[target + 1]
  BY DEF ListInv, Searching, Pending
<1>2. order \in Seq(Nodes) /\ size \in Nat /\ Len(order) = size /\ target \in Nat
  BY ListFacts
<1> QED BY <1>1, <1>2

LEMMA Concluded ==
  ASSUME ListInv, NEW result, End(result)
  PROVE  /\ ~Removing' /\ Contents' = Read(data', order', 0, 0)
         /\ Latest' = Abstract!Answer(req.op, req.index, req.value, result)
         /\ Latest'.op = req.op /\ Latest'.index = req.index /\ Latest'.value = req.value
<1>1. ~Removing' /\ last' = Answer(req, result)
  BY DEF End, Removing
<1>2. Contents' = Read(data', order', 0, 0) /\ Latest' = last'
  BY <1>1, Unmoved
<1> QED BY <1>1, <1>2 DEF Answer, Abstract!Answer

LEMMA GetPutIs ==
  ASSUME ListInv, Sought, Get \/ Put
  PROVE  Abstract!LsNext
<1>1. pc = "found" /\ req.op \in {"get", "put"} /\ ~Removing
  BY DEF Get, Put, At, Removing
<1>2. target = req.index /\ (req.op = "get" => req.value = None)
  BY <1>1 DEF Sought, Pending
<1>3. target \in 0 .. size - 1 /\ elem = order[target + 1]
  BY <1>1, ElementIs
<1>4. /\ Contents = Read(data, order, 0, 0) /\ Abstract!Indices = 0 .. size - 1
      /\ \A i \in 1 .. size : Contents[i] = data[order[i]]
  BY <1>1, Unmoved, Whole
<1>5. size \in Nat /\ target + 1 \in 1 .. size
  BY <1>3, ListFacts
<1>6. CASE Get
  <2>1. End(data[elem]) /\ req.op = "get" /\ UNCHANGED <<data, order>>
    BY <1>6 DEF Get, At, links
  <2>2. /\ Contents' = Contents /\ Latest'.op = "get" /\ Latest'.index = target
        /\ Latest' = Abstract!Answer("get", target, None, Contents[target + 1])
    BY <1>2, <1>3, <1>4, <1>5, <2>1, Concluded
  <2>3. Abstract!LsGet(target)
    BY <1>3, <1>4, <2>2 DEF Abstract!LsGet
  <2> QED BY <2>2, <2>3 DEF Abstract!LsNext
<1>7. CASE Put
  <2>1. /\ End(None) /\ req.op = "put" /\ UNCHANGED order
        /\ data' = [data EXCEPT ![order[target + 1]] = req.value]
    BY <1>3, <1>7 DEF Put, At, links
  <2>2. /\ Contents' = Read(data', order, 0, 0) /\ Latest'.op = "put" /\ Latest'.index = target
        /\ Latest'.value = req.value
        /\ Latest' = Abstract!Answer("put", target, req.value, None)
    BY <1>2, <2>1, Concluded
  <2>3. req.value \in Datum
    BY <1>1, <2>1 DEF ListInv, Searching, Pending, Datum
  <2>4. Contents' = Abstract!ReplaceAt(Contents, target + 1, req.value)
    <3>1. /\ data \in [Nodes -> Datum] /\ order \in Seq(Nodes) /\ 0 \in Int
          /\ target \in 0 .. Len(order) - 1
          /\ Distinct(order)
      BY <1>3, ListFacts
    <3>2. Read(Set(data, order[target + 1], req.value), order, 0, 0) =
            Abstract!ReplaceAt(Read(data, order, 0, 0), target + 1, req.value)
      BY ONLY <2>3, <3>1, ReadPut
    <3>3. data' = Set(data, order[target + 1], req.value)
      BY <2>1 DEF Set
    <3> QED BY <1>4, <2>2, <3>2, <3>3
  <2>5. Abstract!LsPut(target, req.value)
    BY <1>3, <1>4, <2>2, <2>4 DEF Abstract!LsPut
  <2> QED BY <2>2, <2>5 DEF Abstract!LsNext
<1> QED BY <1>6, <1>7

LEMMA InsertIs ==
  ASSUME ListInv, NEW i \in Int, NEW v \in Values, NEW n \in Nodes, n \notin Used, ~Removing,
         Contents' = Read(data', order', 0, 0), Latest' = Abstract!Answer("insert", i, v, None),
         data' = [data EXCEPT ![n] = v],
         order' = InsertNode(order, IF i < 0 THEN 0 ELSE IF i > size THEN size ELSE i, n)
  PROVE  Abstract!LsNext
<1> DEFINE t == IF i < 0 THEN 0 ELSE IF i > size THEN size ELSE i
<1>1. /\ data \in [Nodes -> Datum] /\ order \in Seq(Nodes) /\ 0 \in Int /\ v \in Datum
      /\ size \in Nat /\ Len(order) = size /\ DOMAIN order = 1 .. size
  BY ListFacts DEF Datum
<1>2. t \in 0 .. Len(order) /\ order' = InsertNode(order, t, n)
  BY <1>1
<1>3. Lacks(order, n) /\ data' = Set(data, n, v)
  BY <1>1 DEF Used, Lacks, Set
<1>4. Contents = Read(data, order, 0, 0) /\ Len(Contents) = size
  BY Unmoved, Whole
<1>5. t = IF i < 0 THEN 0 ELSE IF i > Len(Contents) THEN Len(Contents) ELSE i
  BY <1>4
<1> HIDE DEF t
<1>6. Read(Set(data, n, v), InsertNode(order, t, n), 0, 0) =
        Abstract!InsertAt(Read(data, order, 0, 0), t + 1, v)
  <2>1. /\ data \in [Nodes -> Datum] /\ order \in Seq(Nodes) /\ t \in 0 .. Len(order)
        /\ n \in Nodes /\ v \in Datum /\ 0 \in Int
    BY <1>1, <1>2
  <2> QED BY ONLY <2>1, <1>3, ReadInserted
<1>7. Contents' = Abstract!InsertAt(Contents, t + 1, v)
  BY <1>2, <1>3, <1>4, <1>6
<1>8. Abstract!LsInsert(i, v)
  BY <1>5, <1>7 DEF Abstract!LsInsert
<1>9. Latest'.index = i /\ Latest'.value = v
  BY DEF Abstract!Answer
<1> QED BY <1>8, <1>9 DEF Abstract!LsNext

LEMMA InsertsAre ==
  ASSUME ListInv, Sought, NEW n \in Nodes,
         Insert(n) \/ \E i \in Int, v \in Values : InsertFirst(n, i, v)
  PROVE  Abstract!LsNext
<1>0. size \in Nat /\ req.index \in Int
  BY ListFacts
<1>1. ASSUME NEW i \in Int, NEW v \in Values, InsertFirst(n, i, v) PROVE Abstract!LsNext
  <2>1. /\ ~Removing /\ ~Removing' /\ n \notin Used /\ data' = [data EXCEPT ![n] = v]
        /\ order' = InsertNode(order, 0, n) /\ (size = 0 \/ i <= 0)
        /\ last' = Answer(Call("insert", i, v, 0), None)
    BY <1>1 DEF InsertFirst, Removing
  <2>2. Contents' = Read(data', order', 0, 0) /\ Latest' = Abstract!Answer("insert", i, v, None)
    BY <2>1, Unmoved DEF Answer, Call, Abstract!Answer
  <2>3. (IF i < 0 THEN 0 ELSE IF i > size THEN size ELSE i) = 0
    BY <1>0, <2>1
  <2> QED BY <2>1, <2>2, <2>3, InsertIs
<1>2. CASE Insert(n)
  <2>1. /\ pc = "found" /\ req.op = "insert" /\ End(None) /\ ~Removing /\ n \notin Used
        /\ data' = [data EXCEPT ![n] = req.value] /\ order' = InsertNode(order, target + 1, n)
    BY <1>2 DEF Insert, At, Removing
  <2>2. Contents' = Read(data', order', 0, 0)
        /\ Latest' = Abstract!Answer("insert", req.index, req.value, None)
    BY <2>1, Concluded
  <2>3. req.value \in Values
    BY <2>1 DEF ListInv, Searching, Pending
  <2>4. req.index > 0 /\ target = (IF req.index > size THEN size ELSE req.index) - 1
    BY <2>1 DEF Sought, Pending
  <2>5. (IF req.index < 0 THEN 0 ELSE IF req.index > size THEN size ELSE req.index) = target + 1
    BY <1>0, <2>4
  <2> QED BY <1>0, <2>1, <2>2, <2>3, <2>5, InsertIs
<1> QED BY <1>1, <1>2

(* An element goes, or the next of a range that has gone already.           *)
LEMMA GoneIs ==
  ASSUME ListInv, pc = "found", Unlink, NEW g \in Nat \ {0}, target + g <= size
  PROVE  Read(data', order', g - 1, target) = Read(data, order, g, target)
         /\ (g = 1 => Read(data', order', 0, 0) = Read(data, order, g, target))
<1>1. /\ target \in 0 .. size - 1 /\ target + 1 \in 1 .. Len(order) /\ elem = order[target + 1]
  BY ElementIs
<1>2. /\ data \in [Nodes -> Datum] /\ order \in Seq(Nodes) /\ Len(order) = size /\ size \in Nat
      /\ target \in Int /\ 0 \in Int /\ target \in 0 .. Len(order) - g
      /\ Distinct(order)
  <2>1. /\ data \in [Nodes -> Datum] /\ order \in Seq(Nodes) /\ Len(order) = size /\ size \in Nat
        /\ Distinct(order)
    BY ListFacts
  <2> QED BY <1>1, <2>1
<1>3. data' = Set(data, order[target + 1], None) /\ order' = RemoveNode(order, target + 1)
  BY <1>1 DEF Unlink, Set
<1>4. Read(Set(data, order[target + 1], None), RemoveNode(order, target + 1), g - 1, target) =
        Read(data, order, g, target)
  <2>1. target = target \/ g = 1
    OBVIOUS
  <2> QED BY ONLY <1>2, <2>1, g \in Nat \ {0}, ReadGone
<1>5. g = 1 => Read(Set(data, order[target + 1], None), RemoveNode(order, target + 1), g - 1, 0) =
                 Read(data, order, g, target)
  <2> SUFFICES ASSUME g = 1
               PROVE  Read(Set(data, order[target + 1], None), RemoveNode(order, target + 1), g - 1, 0) =
                        Read(data, order, g, target)
    OBVIOUS
  <2>1. 0 = target \/ g = 1
    OBVIOUS
  <2> QED BY ONLY <1>2, <2>1, g \in Nat \ {0}, ReadGone
<1>6. g = 1 => g - 1 = 0
  OBVIOUS
<1> QED BY <1>3, <1>4, <1>5, <1>6

(* One that goes by itself.                                                 *)
LEMMA OneGone ==
  ASSUME ListInv, pc = "found", ~Removing, Unlink
  PROVE  Read(data', order', 0, 0) = Abstract!RemoveAt(Contents, target + 1)
<1>1. target \in 0 .. size - 1
  BY ElementIs
<1>2. /\ data \in [Nodes -> Datum] /\ order \in Seq(Nodes) /\ Len(order) = size /\ size \in Nat
  BY ListFacts
<1>3. Read(data', order', 0, 0) = Read(data, order, 1, target)
  <2>1. 1 \in Nat \ {0} /\ target + 1 <= size
    BY <1>1, <1>2
  <2> QED BY <2>1, GoneIs
<1>4. Read(data, order, 1, target) =
        SubSeq(Read(data, order, 0, 0), 1, target) \o SubSeq(Read(data, order, 0, 0), target + 1 + 1, Len(order))
  <2>1. 1 \in Nat /\ target \in 0 .. Len(order) - 1 /\ 0 \in Int
    BY <1>1, <1>2
  <2> QED BY ONLY <1>2, <2>1, ReadCut
<1>5. Contents = Read(data, order, 0, 0) /\ Len(Contents) = Len(order)
  BY <1>2, Unmoved, Whole
<1>6. (target + 1) - 1 = target
  BY <1>1, <1>2
<1>7. SubSeq(Contents, 1, (target + 1) - 1) = SubSeq(Contents, 1, target)
  BY ONLY <1>6, Zenon
<1> QED BY ONLY <1>3, <1>4, <1>5, <1>7 DEF Abstract!RemoveAt

LEMMA RemovesAre ==
  ASSUME ListInv, ListInv', Sought, Remove \/ Take
  PROVE  Abstract!LsNext \/ UNCHANGED Abstract!lsVars
<1>1. pc = "found" /\ Unlink
  BY DEF Remove, Take, At
<1>2. target \in 0 .. size - 1 /\ elem = order[target + 1]
  BY <1>1, ElementIs
<1>3. size \in Nat /\ req.count \in Int /\ Len(order) = size
  BY ListFacts
<1>4. CASE Take \/ (Remove /\ req.op = "remove")
  <2>1. /\ ~Removing /\ target = req.index /\ req.value = None
        /\ req.op \in {"take", "remove"}
    BY <1>1, <1>4 DEF Take, At, Removing, Sought, Pending
  <2>2. Abstract!Indices = 0 .. size - 1 /\ Contents[target + 1] = data[elem]
    BY <1>2, <1>3, <2>1, Whole
  <2>3. Read(data', order', 0, 0) = Abstract!RemoveAt(Contents, target + 1)
    BY <1>1, <2>1, OneGone
  <2>4. CASE Take
    <3>1. req.op = "take" /\ End(data[elem])
      BY <2>4 DEF Take, At
    <3>2. Abstract!LsTake(target) /\ Latest'.index = target
      BY <1>2, <2>1, <2>2, <2>3, <3>1, Concluded DEF Abstract!LsTake
    <3> QED BY <3>2 DEF Abstract!LsNext
  <2>5. CASE Remove /\ req.op = "remove"
    <3>1. req.count = 1
      BY <1>1, <2>5 DEF ListInv, Searching, Pending
    <3>2. End(None)
      BY <2>5, <3>1 DEF Remove
    <3>3. Abstract!LsRemove(target) /\ Latest'.index = target
      BY <1>2, <2>1, <2>2, <2>3, <2>5, <3>2, Concluded DEF Abstract!LsRemove
    <3> QED BY <3>3 DEF Abstract!LsNext
  <2> QED BY <1>4, <2>4, <2>5
<1>5. CASE Remove /\ req.op = "range"
  <2> DEFINE g == req.count
  <2>1. g > 0 /\ target + g <= size /\ g \in Nat \ {0}
    <3>1. g > 0 /\ g <= size - target
      BY <1>1, <1>5 DEF Sought, ListInv, Searching, Pending
    <3> QED BY <1>2, <1>3, <3>1
  <2>2. Removing /\ Contents = Read(data, order, g, target) /\ Latest = Answer(req, None)
    BY <1>1, <1>5, Unmoved DEF Removing, Latest
  <2>3. CASE g > 1
    <3>1. /\ pc' = "seek" /\ req' = [req EXCEPT !.count = @ - 1] /\ UNCHANGED <<search, last>>
      BY <1>5, <2>3 DEF Remove
    <3>2. /\ req'.op = req.op /\ req'.index = req.index /\ req'.value = req.value
          /\ req'.count = g - 1 /\ target' = target
      BY <3>1 DEF ListInv, TypeOK, search
    <3>3. Removing' /\ Latest' = Latest
      BY <1>5, <2>2, <3>1, <3>2 DEF Removing, Latest, Answer
    <3>4. Contents' = Read(data', order', g - 1, target)
      BY <3>2, <3>3, Unmoved
    <3>5. Contents' = Contents
      BY <1>1, <2>1, <2>2, <3>4, GoneIs
    <3> QED BY <3>3, <3>5 DEF Abstract!lsVars
  <2>4. CASE g = 1
    <3>1. End(None)
      BY <1>5, <2>4 DEF Remove
    <3>2. Contents' = Read(data', order', 0, 0) /\ Latest' = Answer(req, None)
      BY <3>1, Concluded DEF Answer, Abstract!Answer
    <3>3. Contents' = Contents
      BY <1>1, <2>1, <2>2, <2>4, <3>2, GoneIs
    <3> QED BY <2>2, <3>2, <3>3 DEF Abstract!lsVars
  <2> QED BY <2>1, <2>3, <2>4
<1> QED BY <1>4, <1>5 DEF Remove

(* The scan answers with the first index that holds the value, if one does. *)
LEMMA ScanIs ==
  ASSUME ListInv, Sought, Scan
  PROVE  Abstract!LsNext \/ UNCHANGED Abstract!lsVars
<1>1. /\ pc = "scan" /\ req.op = "indexOf" /\ ~Removing /\ UNCHANGED <<data, order>>
      /\ elem = OrderAt(target + 1) /\ target >= req.index
      /\ \A i \in DOMAIN order : req.index < i /\ i <= target => data[order[i]] # req.value
  BY DEF Scan, Sought, Removing, links
<1>2. /\ size \in Nat /\ target \in Nat /\ req.index \in Int /\ DOMAIN order = 1 .. size
      /\ order \in Seq(Nodes)
  BY ListFacts
<1>3. /\ Contents = Read(data, order, 0, 0) /\ Abstract!Indices = 0 .. size - 1
      /\ \A i \in 1 .. size : Contents[i] = data[order[i]]
  BY <1>1, Unmoved, Whole
<1> DEFINE H == Abstract!Hits(req.value, req.index)
<1>4. \A i : i \in H <=> i \in 0 .. size - 1 /\ i >= req.index /\ data[order[i + 1]] = req.value
  <2>1. Abstract!Hits(req.value, req.index) =
          {i \in 0 .. size - 1 : i >= req.index /\ Contents[i + 1] = req.value}
    BY <1>3 DEF Abstract!Hits
  <2>2. \A i \in 0 .. size - 1 : Contents[i + 1] = data[order[i + 1]]
    BY <1>2, <1>3
  <2> QED BY <2>1, <2>2
<1>5. \A i \in H : i >= target
  <2> SUFFICES ASSUME NEW i \in H, i < target PROVE FALSE
    BY <1>2, <1>4
  <2>1. i + 1 \in DOMAIN order /\ req.index < i + 1 /\ i + 1 <= target
    BY <1>2, <1>4
  <2> QED BY <1>1, <1>4, <2>1
<1> HIDE DEF H
<1>6. CASE elem = None /\ End(-1)
  <2>1. target >= size
    BY <1>1, <1>2, <1>6 DEF OrderAt
  <2>2. H = {}
    BY <1>2, <1>4, <1>5, <2>1
  <2>3. /\ Contents' = Contents /\ Latest'.op = "indexOf"
        /\ Latest' = Abstract!Answer("indexOf", req.index, req.value, -1)
        /\ Latest'.index = req.index /\ Latest'.value = req.value
    BY <1>1, <1>3, <1>6, Concluded
  <2>4. Abstract!LsIndexOf(req.value, req.index)
    BY <2>2, <2>3 DEF Abstract!LsIndexOf, H
  <2> QED BY <2>3, <2>4 DEF Abstract!LsNext
<1>7. CASE elem # None /\ data[elem] = req.value /\ End(target)
  <2>1. target + 1 \in DOMAIN order /\ elem = order[target + 1]
    BY <1>1, <1>7 DEF OrderAt
  <2>2. target \in H
    BY <1>1, <1>2, <1>4, <1>7, <2>1
  <2>3. Abstract!Min(H) = target
    <3>1. \A i \in H : i \in Int
      BY <1>4
    <3>2. \A x \in H : (\A y \in H : x =< y) => x = target
      BY <1>2, <1>5, <2>2, <3>1
    <3> QED BY <1>5, <1>2, <2>2, <3>1, <3>2 DEF Abstract!Min
  <2>4. /\ Contents' = Contents /\ Latest'.op = "indexOf"
        /\ Latest' = Abstract!Answer("indexOf", req.index, req.value, target)
        /\ Latest'.index = req.index /\ Latest'.value = req.value
    BY <1>1, <1>3, <1>7, Concluded
  <2>5. Abstract!LsIndexOf(req.value, req.index)
    BY <2>2, <2>3, <2>4 DEF Abstract!LsIndexOf, H
  <2> QED BY <2>4, <2>5 DEF Abstract!LsNext
<1>8. CASE elem # None /\ UNCHANGED <<pc, req, last>>
  <2>1. ~Removing' /\ UNCHANGED Contents /\ UNCHANGED Latest
    BY <1>1, <1>3, <1>8, Unmoved DEF Removing
  <2> QED BY <2>1 DEF Abstract!lsVars
<1> QED BY <1>6, <1>7, <1>8 DEF Scan

(* The way to the element, and a copy, leave the sequence.                  *)
LEMMA WaysAre ==
  ASSUME ListInv, Locate \/ Walk \/ Arrive \/ Copy \/ UNCHANGED vars
  PROVE  UNCHANGED Abstract!lsVars
<1>1. /\ UNCHANGED <<data, order, target, req, last>> /\ (pc = "idle" <=> pc' = "idle")
  BY DEF Locate, Begin, Walk, Arrive, Copy, vars, links, search
<1>2. (Removing' <=> Removing) /\ UNCHANGED Latest
  BY <1>1 DEF Removing, Latest
<1>3. UNCHANGED Contents
  <2>1. CASE Removing
    BY <1>1, <1>2, <2>1, Unmoved
  <2>2. CASE ~Removing
    BY <1>1, <1>2, <2>2, Unmoved
  <2> QED BY <2>1, <2>2
<1> QED BY <1>2, <1>3 DEF Abstract!lsVars

(* Every step of the list, with the loops of its calls, is a step of the    *)
(* sequence or leaves it.                                                   *)
LEMMA ListSteps ==
  ListInv /\ ListInv' /\ Sought /\ [Next]_vars => [Abstract!LsNext]_(Abstract!lsVars)
<1> SUFFICES ASSUME ListInv, ListInv', Sought, [Next]_vars
             PROVE  Abstract!LsNext \/ UNCHANGED Abstract!lsVars
  OBVIOUS
<1>1. ASSUME NEW i \in -1 .. MaxLen + 1, CallGet(i) \/ CallTake(i) \/ CallRemove(i)
      PROVE  Abstract!LsNext
  BY <1>1, CalledIs
<1>2. ASSUME NEW i \in -1 .. MaxLen + 1, NEW end \in -1 .. MaxLen + 1, CallRemoveRange(i, end)
      PROVE  Abstract!LsNext
  BY <1>2, CalledIs
<1>3. ASSUME NEW i \in -1 .. MaxLen + 1, NEW v \in Values,
             CallPut(i, v) \/ CallIndexOf(v, i) \/ CallInsert(i, v)
      PROVE  Abstract!LsNext
  BY <1>3, CalledIs
<1>4. ASSUME NEW i \in -1 .. MaxLen + 1, NEW v \in Values, NEW n \in Nodes, InsertFirst(n, i, v)
      PROVE  Abstract!LsNext
  BY <1>4, InsertsAre
<1>5. CASE Locate \/ Walk \/ Arrive \/ Copy \/ UNCHANGED vars
  BY <1>5, WaysAre
<1>6. CASE Remove \/ Take
  BY <1>6, RemovesAre
<1>7. CASE Get \/ Put
  BY <1>7, GetPutIs
<1>8. CASE Scan
  BY <1>8, ScanIs
<1>9. ASSUME NEW n \in Nodes, Insert(n) PROVE Abstract!LsNext
  BY <1>9, InsertsAre
<1> QED BY <1>1, <1>2, <1>3, <1>4, <1>5, <1>6, <1>7, <1>8, <1>9 DEF Next

(* Every call of tmb::List does to its elements and returns what the same   *)
(* call does to a sequence, whichever way the cursor takes it there, for    *)
(* any elements, values and length (List.h).                                *)
THEOREM IsSequenceHolds == MCSpec => IsSequence
<1>1. MCInit => ListInv /\ Sought /\ Abstract!LsInit
  <2> SUFFICES ASSUME MCInit PROVE ListInv /\ Sought /\ Abstract!LsInit
    OBVIOUS
  <2>1. Init /\ pc = "idle" /\ ~Removing /\ order = <<>> /\ last = Answer(Idle, None)
    BY DEF MCInit, Init, Removing
  <2>2. ListInv
    BY <2>1, ListInvFirst
  <2>3. Sought
    BY <2>1 DEF Sought, Pending
  <2>4. Contents = << >> /\ Latest = Abstract!Answer("none", 0, None, None)
    <3>1. Contents \in Seq(Datum) /\ Len(Contents) = size /\ size = 0
      BY <2>1, <2>2, Whole DEF Init
    <3> QED BY <2>1, <3>1 DEF Latest, Answer, Idle, Abstract!Answer
  <2>5. << >> \in Abstract!Starts
    <3>1. [1 .. 0 -> Values \cup {None}] \in {[1 .. n -> Values \cup {None}] : n \in 0 .. 2}
      OBVIOUS
    <3>2. << >> \in [1 .. 0 -> Values \cup {None}]
      OBVIOUS
    <3> QED BY <3>1, <3>2 DEF Abstract!Starts
  <2> QED BY <2>2, <2>3, <2>4, <2>5 DEF Abstract!LsInit
<1>2. ListInv /\ Sought /\ [MCNext]_<<part, vars, logvars>> =>
        ListInv' /\ Sought' /\ [Abstract!LsNext]_(Abstract!lsVars)
  <2>1. [MCNext]_<<part, vars, logvars>> => [Next]_vars
    BY DEF MCNext
  <2> QED BY <2>1, ListInvStep, SoughtStep, ListSteps
<1> QED BY <1>1, <1>2, PTL DEF MCSpec, IsSequence, Abstract!LsSpec
=============================================================================
