------------------------------- MODULE HashMap --------------------------------
(***************************************************************************)
(* tmb::HashMap and HashMapP (src/tmb/lang/HashMap.h, HashMapP.h): chains  *)
(* of elements in an array of buckets, found by a 32 bit hash code.  A key *)
(* is a number, its own hash code, or a String, of which the element keeps *)
(* a copy beside its hash code.  A chain is the sequence of its elements.  *)
(* The array that the first put() allocates is there from the start: until *)
(* then every call tests for it or for _size = 0 and finds nothing.        *)
(***************************************************************************)
EXTENDS Naturals, Sequences, SequencesExt, FiniteSets

CONSTANTS Names,      \* the keys callers use
          Hash,       \* [Names -> Nat]: hashcode(), or the number itself
          ByString,   \* TRUE: the keys are Strings
          Vals,       \* the data, or the objects a HashMapP points to
          HashSize,   \* _hashsize
          None        \* no value, no string, no key

VARIABLES table,       \* _hasharray
          size,        \* _size
          autodelete,  \* HashMapP: _autodelete & AutoDelete_REMOVE
          freed,       \* the objects deleted and not made again
          last,        \* the last call
          current,     \* the key a walk with nextKey() stands on, 0: none
          (* history *)
          seen,        \* the keys the walk was given, until cut
          stayed,      \* the keys in the map from the start of the walk on
          taken,       \* the values the map took
          cut          \* "yes": the key the walk stands on was removed

walk == <<current, seen, stayed, cut>>
vars == <<table, size, autodelete, freed, last, walk, taken>>

Buckets == 0..HashSize - 1
Hashes == {Hash[n] : n \in Names}
Answer(op, n, v, result) == [op |-> op, name |-> n, val |-> v, result |-> result]

Init ==
  /\ table = [b \in Buckets |-> <<>>] /\ size = 0
  /\ autodelete \in BOOLEAN /\ freed = {} /\ taken = {}
  /\ last = Answer("none", None, None, None)
  /\ current = 0 /\ seen = <<>> /\ stayed = {} /\ cut = "no"

-----------------------------------------------------------------------------
(* Chains *)

hashidx(h) == h % HashSize
Chain(h) == table[hashidx(h)]
Stored == UNION {ToSet(table[b]) : b \in Buckets}
Held == {e.data : e \in Stored}
KeysIn == {e.key : e \in Stored}

\* Mutant of At: the hash code is not compared, the bucket is enough.
AtBucket(h) == {i \in DOMAIN Chain(h) : h # 0}

\* Where the elements of hash code h are in their chain; 0 is never stored.
At(h) == {i \in DOMAIN Chain(h) : h # 0 /\ Chain(h)[i].key = h}
First(I) == CHOOSE i \in I : \A j \in I : i <= j

\* The element iget() and icontainsKey() find: the string is compared if both
\* the caller and the element have one.
Matching(n) == {i \in At(Hash[n]) : ByString => Chain(Hash[n])[i].str = n}

-----------------------------------------------------------------------------
(* The calls *)

Kept == UNCHANGED <<table, size, autodelete, freed, walk, taken>>

Get(n) ==
  /\ last' = Answer("get", n, None, IF Matching(n) = {} THEN None
                                    ELSE Chain(Hash[n])[First(Matching(n))].data)
  /\ Kept

ContainsKey(n) ==
  /\ last' = Answer("contains", n, None, size # 0 /\ Matching(n) # {})
  /\ Kept

Element(n, v) == [key |-> Hash[n], str |-> IF ByString THEN n ELSE None, data |-> v]

\* An object put into a HashMapP is not in it yet, unless under the same key.
Made(v) == v \notin Held
Delete(v) == IF autodelete THEN {v} ELSE {}

PutNothing(n, v) ==
  /\ Hash[n] = 0 /\ Made(v)
  /\ last' = Answer("put", n, v, FALSE)
  /\ Kept

PutReplace(n, v) ==
  /\ At(Hash[n]) # {}
  /\ LET i == First(At(Hash[n])) data == Chain(Hash[n])[i].data IN
       /\ Made(v) \/ v = data
       /\ table' = [table EXCEPT ![hashidx(Hash[n])][i].data = v]
       /\ freed' = (freed \ {v}) \cup (IF v = data THEN {} ELSE Delete(data))
  /\ taken' = taken \cup {v}
  /\ last' = Answer("put", n, v, TRUE)
  /\ UNCHANGED <<size, autodelete, walk>>

PutInsert(n, v) ==
  /\ Made(v) /\ Hash[n] # 0 /\ At(Hash[n]) = {}
  /\ table' = [table EXCEPT ![hashidx(Hash[n])] = <<Element(n, v)>> \o @]
  /\ size' = size + 1
  /\ freed' = freed \ {v} /\ taken' = taken \cup {v}
  /\ last' = Answer("put", n, v, FALSE)
  /\ UNCHANGED <<autodelete, walk>>

\* iremove(): the first element of the hash code, whatever its string.
RemoveKey(n) ==
  /\ size > 0 /\ At(Hash[n]) # {}
  /\ LET i == First(At(Hash[n])) IN
       /\ table' = [table EXCEPT ![hashidx(Hash[n])] = RemoveAt(@, i)]
       /\ freed' = freed \cup Delete(Chain(Hash[n])[i].data)
  /\ size' = size - 1
  /\ last' = Answer("remove", n, None, TRUE)
  /\ stayed' = stayed \ {Hash[n]}
  /\ cut' = IF Hash[n] = current THEN "yes" ELSE cut
  /\ UNCHANGED <<autodelete, current, seen, taken>>

RemoveNothing(n) ==
  /\ size = 0 \/ At(Hash[n]) = {}
  /\ last' = Answer("remove", n, None, FALSE)
  /\ Kept

Clear ==
  /\ table' = [b \in Buckets |-> <<>>] /\ size' = 0
  /\ freed' = freed \cup UNION {Delete(v) : v \in Held}
  /\ last' = Answer("clear", None, None, None)
  /\ stayed' = {} /\ cut' = IF current # 0 THEN "yes" ELSE cut
  /\ UNCHANGED <<autodelete, current, seen, taken>>

-----------------------------------------------------------------------------
(* A walk: k = nextKey(0), then k = nextKey(k) until it is 0 *)

\* The first element of the first chain from bucket b on; 0 if there is none.
FirstFrom(b) ==
  LET full == {c \in Buckets : c >= b /\ table[c] # <<>>}
  IN  IF full = {} THEN 0 ELSE table[First(full)][1].key

\* Mutant of After: the rest of the chain is passed over.
AfterBucket(h) == IF At(h) = {} THEN 0 ELSE FirstFrom(hashidx(h) + 1)

\* The key after h: from a key that is gone the search runs off the end.
After(h) ==
  IF At(h) = {} THEN 0
  ELSE LET i == First(At(h)) IN
       IF i < Len(Chain(h)) THEN Chain(h)[i + 1].key ELSE FirstFrom(hashidx(h) + 1)

NameOf(h) == IF h = 0 THEN None
             ELSE LET i == First(At(h)) IN
                  IF ByString THEN Chain(h)[i].str ELSE CHOOSE n \in Names : Hash[n] = h

Given(h) == /\ current' = h
            /\ last' = Answer("nextKey", None, None, NameOf(h))
            /\ UNCHANGED <<table, size, autodelete, freed, taken>>

FirstKey ==
  /\ current = 0
  /\ LET h == IF size = 0 THEN 0 ELSE FirstFrom(0) IN
       /\ Given(h)
       /\ seen' = IF h = 0 THEN <<>> ELSE <<h>>
  /\ stayed' = KeysIn /\ cut' = "no"

NextKey ==
  /\ current # 0
  /\ LET h == IF size = 0 THEN 0 ELSE After(current) IN
       /\ Given(h)
       /\ seen' = IF cut = "yes" THEN <<>> ELSE IF h = 0 THEN seen ELSE Append(seen, h)
  /\ UNCHANGED <<stayed, cut>>

-----------------------------------------------------------------------------
Next ==
  \/ \E n \in Names : \/ Get(n) \/ ContainsKey(n) \/ RemoveKey(n) \/ RemoveNothing(n)
                      \/ \E v \in Vals : PutNothing(n, v) \/ PutReplace(n, v) \/ PutInsert(n, v)
  \/ Clear \/ FirstKey \/ NextKey

Spec == Init /\ [][Next]_vars

-----------------------------------------------------------------------------
(* Properties *)

Elements == [key : Hashes \ {0}, str : Names \cup {None}, data : Vals]

\* Chains are of elements, and what calls, walks and deletes name are values,
\* keys and hash codes there are.
TypeOK ==
  /\ table \in [Buckets -> Seq(Elements)] /\ size \in Nat
  /\ autodelete \in BOOLEAN /\ {freed, taken} \subseteq SUBSET Vals /\ cut \in {"yes", "no"}
  /\ last.name \in Names \cup {None} /\ last.val \in Vals \cup {None}
  /\ current \in Hashes \cup {0} /\ seen \in Seq(Hashes) /\ stayed \subseteq Hashes

\* Each hash code is stored once, in the bucket it belongs to, and _size counts
\* the elements, whatever puts and removes shared a bucket (HashMap.h:171-284).
\* Every variable has its type.
Chained ==
  /\ TypeOK
  /\ \A b, c \in Buckets : \A i \in DOMAIN table[b], j \in DOMAIN table[c] :
       table[b][i].key = table[c][j].key => b = c /\ i = j
  /\ \A b \in Buckets : \A i \in DOMAIN table[b] : hashidx(table[b][i].key) = b
  /\ size = Cardinality(Stored)

\* No value in the map is deleted and none is in it twice; a deleting HashMapP
\* has deleted each value it took and no longer has (HashMapP.h:113-189).
Owned ==
  /\ Held \cap freed = {}
  /\ autodelete => taken \subseteq Held \cup freed
  /\ \A d, e \in Stored : d.data = e.data => d = e

\* A walk that ends was given every key that was in the map all the time, and
\* no key twice of those, while other keys come and go, unless the key it stood
\* on was removed (HashMap.h:322-371).
WalkComplete ==
  last.op = "nextKey" /\ last.result = None /\ cut = "no" =>
    \A h \in stayed : \E i \in DOMAIN seen : seen[i] = h /\ \A j \in DOMAIN seen : seen[j] = h => j = i

\* "Put a key/value pair into the map. It the key already exists, the value of
\* this key is replaced" (HashMap.h:165-166): what is put or removed under one
\* key leaves what get() finds under every other.
Found(n) == IF Matching(n) = {} THEN None ELSE Chain(Hash[n])[First(Matching(n))].data
OthersKept ==
  [][last'.op \in {"put", "remove"} => \A n \in Names \ {last'.name} : Found(n)' = Found(n)]_vars

-----------------------------------------------------------------------------
\* Strings for Names and Hash: "Aa" and "BB" have the hash code 2112, "key" another.
StringNames == {"Aa", "BB", "key"}
StringHash == [n \in StringNames |-> IF n = "key" THEN 106079 ELSE 2112]
=============================================================================
