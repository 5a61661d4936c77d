---------------------------- MODULE MCContainers ----------------------------
(***************************************************************************)
(* The containers of src/tmb/lang side by side: a behaviour is that of one *)
(* of them, the others stay as they began.                                 *)
(***************************************************************************)
EXTENDS Naturals, TLC

CONSTANTS
  None,
  Cells, DefaultBuf, MaxGrow, MaxLen,  \* Array: its elements, its buffer's growth, its length
  Lists, Elems,                        \* LinkedList
  Keys, Vals, HashSize                 \* HashMap: number keys, their own hash codes

ASSUME ContainersAssumption ==
  /\ None \notin Cells \cup Lists \cup Elems \cup Keys \cup Vals
  /\ DefaultBuf \in Nat /\ MaxGrow \in Nat /\ MaxLen \in Nat
  /\ Keys \subseteq Nat /\ HashSize \in Nat \ {0}

VARIABLES
  kind,
  acells, acount, apointers, aremoves, adead, abroken, alast,
  lnext, lprev, lparent, lfirst, lfinal, lnum, lremoves, ldestructs, llists, lelems, lorder,
  htable, hsize, hremoves, hfreed, hlast, hcurrent, hseen, hstayed, htaken, hcut

A == INSTANCE Array WITH Values <- Cells, cells <- acells, count <- acount,
       pointers <- apointers, removes <- aremoves, dead <- adead, broken <- abroken, last <- alast

L == INSTANCE LinkedList WITH nxt <- lnext, prv <- lprev, parent <- lparent, first <- lfirst,
       final <- lfinal, num <- lnum, removes <- lremoves, destructs <- ldestructs,
       lists <- llists, elems <- lelems, order <- lorder

NumberHash == [n \in Keys |-> n]
H == INSTANCE HashMap WITH Names <- Keys, Hash <- NumberHash, ByString <- FALSE,
       table <- htable, size <- hsize, autodelete <- hremoves, freed <- hfreed, last <- hlast,
       current <- hcurrent, seen <- hseen, stayed <- hstayed, taken <- htaken, cut <- hcut

arrayvars == <<acells, acount, apointers, aremoves, adead, abroken, alast>>
linkvars == <<lnext, lprev, lparent, lfirst, lfinal, lnum, lremoves, ldestructs, llists, lelems, lorder>>
mapvars == <<htable, hsize, hremoves, hfreed, hlast, hcurrent, hseen, hstayed, htaken, hcut>>
allvars == <<kind, arrayvars, linkvars, mapvars>>

MCInit ==
  /\ kind \in {"array", "links", "map"}
  /\ A!Init /\ L!Init /\ H!Init
  /\ kind # "array" => acells = <<>> /\ ~apointers
  /\ kind # "links" => \A l \in Lists : ~lremoves[l] /\ ~ldestructs[l]
  /\ kind # "map" => ~hremoves

ArrayStep == kind = "array" /\ A!Next /\ UNCHANGED <<kind, linkvars, mapvars>>
LinkStep == kind = "links" /\ L!Next /\ UNCHANGED <<kind, arrayvars, mapvars>>
MapStep == kind = "map" /\ H!Next /\ UNCHANGED <<kind, arrayvars, linkvars>>

MCNext == ArrayStep \/ LinkStep \/ MapStep

MCSpec == MCInit /\ [][MCNext]_allvars

-----------------------------------------------------------------------------
Symmetry == Permutations(Vals)

(* Every call of tmb::Array does to its elements and returns what the same *)
(* call does to a sequence, however the buffer grew, shrank or was         *)
(* assigned, and whatever is left in the cells past the size (Array.h).    *)
Sequence == INSTANCE ListSpec WITH Values <- Cells, seq <- A!Content, last <- alast
IsArray == Sequence!LsSpec

(* Whatever is put in or taken out, data fits the array's buffer (only     *)
(* Array::remove() with a negative start leaves it, Array.h:289-301), a    *)
(* linked list reaches the same elements from both its ends and each names *)
(* its list, and a hash code is in its bucket, once.  No container that    *)
(* deletes what it drops (ArrayP, LinkedList, HashMapP) holds an object it *)
(* has deleted; a map, moreover, has deleted each object it took and no    *)
(* longer holds, and none is in it twice.                                  *)
StructuresSound ==
  /\ A!SizeFits /\ L!EndsMeet /\ H!Chained
  /\ A!NoDangling /\ L!NoDangling /\ H!Owned

(* A walk by nextKey() meets what stayed in the map (HashMap.h:322-371).   *)
WalkComplete == H!WalkComplete

(* Puts, removes and gets are those of a map (HashMap.h:126-299).          *)
MapContents == [n \in {m \in Keys : H!Matching(m) # {}} |-> H!Found(n)]
Map == INSTANCE MapSpec WITH Names <- Keys, map <- MapContents, last <- hlast,
         NoKeys <- {n \in Keys : n = 0}
IsMap == Map!MsSpec
=============================================================================
