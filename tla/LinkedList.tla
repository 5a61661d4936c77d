----------------------------- MODULE LinkedList -----------------------------
(***************************************************************************)
(* tmb::LinkedList: the links are in the elements, which the program makes *)
(* and adds; each knows the list it is in and leaves it when it is         *)
(* destroyed.  Here the object of an element is derived from Element, so   *)
(* deleting the one destroys the other.  The program adds an element that  *)
(* is in no list: add() does not ask (LinkedList.h:121).                   *)
(***************************************************************************)
EXTENDS Naturals, SequencesExt

CONSTANTS
  Lists, Elems,
  None          \* the null pointer

VARIABLES
  nxt, prv,     \* _ll_next, _ll_prev
  parent,       \* _ll_parent
  first, final, \* _first, _last
  num,          \* _size
  removes, destructs,  \* the bits AutoDelete_REMOVE and _DESTRUCT
  lists, elems, \* the lists and the elements that exist
  order         \* history: the elements of each list in their order

links == <<nxt, prv, parent>>
ends == <<first, final, num>>
modes == <<removes, destructs>>
vars == <<links, ends, modes, lists, elems, order>>

Init ==
  /\ nxt = [e \in Elems |-> None] /\ prv = nxt /\ parent = nxt
  /\ first = [l \in Lists |-> None] /\ final = first /\ num = [l \in Lists |-> 0]
  /\ removes \in [Lists -> BOOLEAN] /\ destructs \in [Lists -> BOOLEAN]
  /\ lists = Lists /\ elems = {} /\ order = [l \in Lists |-> <<>>]

-----------------------------------------------------------------------------
NewElement(e) ==
  /\ e \notin elems /\ elems' = elems \cup {e}
  /\ nxt' = [nxt EXCEPT ![e] = None] /\ prv' = [prv EXCEPT ![e] = None]
  /\ parent' = [parent EXCEPT ![e] = None]
  /\ UNCHANGED <<ends, modes, lists, order>>

NewList(l, remove, destruct) ==
  /\ l \notin lists /\ lists' = lists \cup {l}
  /\ first' = [first EXCEPT ![l] = None] /\ final' = [final EXCEPT ![l] = None]
  /\ num' = [num EXCEPT ![l] = 0]
  /\ removes' = [removes EXCEPT ![l] = remove] /\ destructs' = [destructs EXCEPT ![l] = destruct]
  /\ UNCHANGED <<links, elems, order>>

(* Element e comes between two neighbours, or at an end. *)
Between(l, before, e, after) ==
  /\ nxt' = [x \in Elems |-> IF x = e THEN after ELSE IF x = before THEN e ELSE nxt[x]]
  /\ prv' = [x \in Elems |-> IF x = e THEN before ELSE IF x = after THEN e ELSE prv[x]]
  /\ parent' = [parent EXCEPT ![e] = l]
  /\ first' = IF before = None THEN [first EXCEPT ![l] = e] ELSE first
  /\ final' = IF after = None THEN [final EXCEPT ![l] = e] ELSE final
  /\ num' = [num EXCEPT ![l] = @ + 1]
  /\ UNCHANGED <<modes, lists, elems>>

Addable(l, e) == l \in lists /\ e \in elems /\ parent[e] = None

Add(l, e) ==
  /\ Addable(l, e) /\ Between(l, final[l], e, None)
  /\ order' = [order EXCEPT ![l] = Append(@, e)]

AddFirst(l, e) ==
  /\ Addable(l, e) /\ Between(l, None, e, first[l])
  /\ order' = [order EXCEPT ![l] = <<e>> \o @]

(* addAfter(), addBefore(): refused when pos is in no list or another. *)
AddAfter(l, pos, e) ==
  /\ Addable(l, e) /\ pos \in elems /\ parent[pos] = l
  /\ Between(l, pos, e, nxt[pos])
  /\ order' = [order EXCEPT ![l] = InsertAt(@, SelectInSeq(@, LAMBDA x : x = pos) + 1, e)]

AddBefore(l, pos, e) ==
  /\ Addable(l, e) /\ pos \in elems /\ parent[pos] = l
  /\ Between(l, prv[pos], e, pos)
  /\ order' = [order EXCEPT ![l] = InsertAt(@, SelectInSeq(@, LAMBDA x : x = pos), e)]

-----------------------------------------------------------------------------
(* _ll_unlink() *)
Unlinked(l, e) ==
  /\ nxt' = [x \in Elems |-> IF x = e THEN None ELSE IF x = prv[e] THEN nxt[e] ELSE nxt[x]]
  /\ prv' = [x \in Elems |-> IF x = e THEN None ELSE IF x = nxt[e] THEN prv[e] ELSE prv[x]]
  /\ first' = IF prv[e] = None THEN [first EXCEPT ![l] = nxt[e]] ELSE first
  /\ final' = IF nxt[e] = None THEN [final EXCEPT ![l] = prv[e]] ELSE final
  /\ parent' = [parent EXCEPT ![e] = None]
  /\ num' = [num EXCEPT ![l] = @ - 1]
  /\ order' = [order EXCEPT ![l] = RemoveFirst(@, e)]

(* Mutant: an element in the list of another is taken for one's own. *)
RemoveAny(l, e) ==
  /\ l \in lists /\ e \in elems /\ parent[e] # None
  /\ Unlinked(l, e)
  /\ elems' = IF removes[l] THEN elems \ {e} ELSE elems
  /\ UNCHANGED <<modes, lists>>

(* remove() of an element of this list, removeFirst(), removeLast(). *)
RemoveElement(l, e) ==
  /\ l \in lists /\ e \in elems /\ parent[e] = l
  /\ Unlinked(l, e)
  /\ elems' = IF removes[l] THEN elems \ {e} ELSE elems
  /\ UNCHANGED <<modes, lists>>

(* The program destroys an element, which leaves its list. *)
DeleteElement(e) ==
  /\ e \in elems /\ elems' = elems \ {e}
  /\ IF parent[e] # None THEN Unlinked(parent[e], e) ELSE UNCHANGED <<links, ends, order>>
  /\ UNCHANGED <<modes, lists>>

In(l) == {e \in Elems : parent[e] = l}

(* All elements of l leave it; some are destroyed. *)
Emptied(l, gone) ==
  LET all == In(l)
  IN /\ nxt' = [e \in Elems |-> IF e \in all THEN None ELSE nxt[e]]
     /\ prv' = [e \in Elems |-> IF e \in all THEN None ELSE prv[e]]
     /\ parent' = [e \in Elems |-> IF e \in all THEN None ELSE parent[e]]
     /\ first' = [first EXCEPT ![l] = None] /\ final' = [final EXCEPT ![l] = None]
     /\ num' = [num EXCEPT ![l] = 0]
     /\ order' = [order EXCEPT ![l] = <<>>]
     /\ elems' = elems \ gone

Clear(l) ==
  /\ l \in lists /\ first[l] # None
  /\ Emptied(l, IF removes[l] THEN In(l) ELSE {})
  /\ UNCHANGED <<modes, lists>>

(* The destructor deletes the objects or sends the elements away. *)
DeleteList(l) ==
  /\ l \in lists /\ lists' = lists \ {l}
  /\ Emptied(l, IF destructs[l] THEN In(l) ELSE {})
  /\ UNCHANGED modes

Next ==
  \/ \E e \in Elems : NewElement(e) \/ DeleteElement(e)
  \/ \E l \in Lists :
       \/ \E remove, destruct \in BOOLEAN : NewList(l, remove, destruct)
       \/ Clear(l) \/ DeleteList(l)
       \/ \E e \in Elems :
            \/ Add(l, e) \/ AddFirst(l, e) \/ RemoveElement(l, e)
            \/ \E pos \in Elems : AddAfter(l, pos, e) \/ AddBefore(l, pos, e)

Spec == Init /\ [][Next]_vars

-----------------------------------------------------------------------------
At(l, i) == IF i \in DOMAIN order[l] THEN order[l][i] ELSE None

(* Each list reaches its elements, in their order, from both ends, counts  *)
(* them and is the one they name; an element that is in no list names none *)
(* (LinkedList.h add, addAfter, addBefore, _ll_unlink, the destructors).   *)
EndsMeet ==
  /\ \A l \in lists :
       /\ first[l] = At(l, 1) /\ final[l] = At(l, Len(order[l])) /\ num[l] = Len(order[l])
       /\ \A i \in DOMAIN order[l] :
            LET e == order[l][i]
            IN parent[e] = l /\ nxt[e] = At(l, i + 1) /\ prv[e] = At(l, i - 1)
  /\ \A e \in elems : parent[e] # None => parent[e] \in lists /\ e \in ToSet(order[parent[e]])

(* No list holds an element that was destroyed.                            *)
NoDangling == \A l \in lists : ToSet(order[l]) \subseteq elems
=============================================================================
