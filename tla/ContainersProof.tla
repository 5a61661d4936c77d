--------------------------- MODULE ContainersProof ---------------------------
(***************************************************************************)
(* StructuresSound and WalkComplete of MCContainers, for any elements,     *)
(* lists, keys, values, buffer growth and number of buckets, after any     *)
(* number of calls; and, from the same invariants, that the array          *)
(* implements the sequence of ListSpec and the table the map of MapSpec.   *)
(***************************************************************************)
EXTENDS MCContainers, SequenceTheorems, FiniteSetTheorems, WellFoundedInduction, TLAPS

-----------------------------------------------------------------------------
(* Sequences *)

LEMMA Joined ==
  ASSUME NEW S, NEW s \in Seq(S), NEW t \in Seq(S), NEW x, x = s \o t
  PROVE  /\ x \in Seq(S) /\ Len(x) = Len(s) + Len(t)
         /\ \A i \in 1 .. Len(x) : x[i] = IF i <= Len(s) THEN s[i] ELSE t[i - Len(s)]
BY ConcatProperties

\* InsertAt() moves up by one what it puts the element in front of.
LEMMA InsertedAt ==
  ASSUME NEW S, NEW s \in Seq(S), NEW e \in S, NEW k \in 1 .. Len(s) + 1,
         NEW t, t = L!InsertAt(s, k, e)
  PROVE  /\ t \in Seq(S) /\ Len(t) = Len(s) + 1
         /\ \A i \in 1 .. Len(t) :
              t[i] = IF i < k THEN s[i] ELSE IF i = k THEN e ELSE s[i - 1]
<1> DEFINE a == SubSeq(s, 1, k - 1)
           b == SubSeq(s, k, Len(s))
<1>1. a \in Seq(S) /\ Len(a) = k - 1 /\ \A i \in 1 .. k - 1 : a[i] = s[i]
  BY SubSeqProperties
<1>2. b \in Seq(S) /\ Len(b) = Len(s) + 1 - k
      /\ \A i \in 1 .. Len(s) + 1 - k : b[i] = s[k + i - 1]
  BY SubSeqProperties
<1> DEFINE ae == a \o <<e>>
<1> HIDE DEF a, b
<1>3. /\ ae \in Seq(S) /\ Len(ae) = k
      /\ \A i \in 1 .. k : ae[i] = IF i < k THEN s[i] ELSE e
  <2>1. <<e>> \in Seq(S) /\ Len(<<e>>) = 1 /\ <<e>>[1] = e
    OBVIOUS
  <2> DEFINE se == <<e>>
  <2> HIDE DEF se
  <2>2. ae = a \o se
    BY DEF se
  <2>3. se \in Seq(S) /\ Len(se) = 1 /\ se[1] = e
    BY <2>1 DEF se
  <2> HIDE DEF ae
  <2>4. /\ ae \in Seq(S) /\ Len(ae) = Len(a) + Len(se)
        /\ \A i \in 1 .. Len(ae) : ae[i] = IF i <= Len(a) THEN a[i] ELSE se[i - Len(a)]
    <3>1. a \in Seq(S) /\ se \in Seq(S)
      BY <1>1, <2>3
    <3> QED BY ONLY <2>2, <3>1, Joined
  <2> QED BY <1>1, <2>3, <2>4
<1> HIDE DEF ae
<1>4. t = ae \o b
  BY Zenon DEF a, ae, b, L!InsertAt
<1>5. /\ t \in Seq(S) /\ Len(t) = Len(ae) + Len(b)
      /\ \A i \in 1 .. Len(t) : t[i] = IF i <= Len(ae) THEN ae[i] ELSE b[i - Len(ae)]
  <2>1. ae \in Seq(S) /\ b \in Seq(S)
    BY <1>2, <1>3
  <2> QED BY ONLY <1>4, <2>1, Joined
<1>6. Len(t) = Len(s) + 1
  BY <1>2, <1>3, <1>5
<1>7. ASSUME NEW i \in 1 .. Len(t)
      PROVE  t[i] = IF i < k THEN s[i] ELSE IF i = k THEN e ELSE s[i - 1]
  <2>1. CASE i <= k
    BY <1>3, <1>5, <2>1
  <2>2. CASE i > k
    <3>1. i - k \in 1 .. Len(s) + 1 - k /\ k + (i - k) - 1 = i - 1
      BY <1>6, <2>2
    <3>2. t[i] = b[i - k]
      BY <1>3, <1>5, <2>2
    <3>3. b[i - k] = s[k + (i - k) - 1]
      BY <1>2, <3>1
    <3> QED BY <2>2, <3>1, <3>2, <3>3
  <2> QED BY <2>1, <2>2
<1> QED BY <1>5, <1>6, <1>7

\* RemoveAt() moves down by one what is behind the element.
LEMMA RemovedAt ==
  ASSUME NEW S, NEW s \in Seq(S), NEW k \in 1 .. Len(s)
  PROVE  LET t == L!RemoveAt(s, k)
         IN /\ t \in Seq(S) /\ Len(t) = Len(s) - 1
            /\ \A i \in 1 .. Len(t) : t[i] = IF i < k THEN s[i] ELSE s[i + 1]
<1> DEFINE a == SubSeq(s, 1, k - 1)
           b == SubSeq(s, k + 1, Len(s))
<1>1. a \in Seq(S) /\ Len(a) = k - 1 /\ \A i \in 1 .. k - 1 : a[i] = s[i]
  BY SubSeqProperties
<1>2. b \in Seq(S) /\ Len(b) = Len(s) - k /\ \A i \in 1 .. Len(s) - k : b[i] = s[k + i]
  BY SubSeqProperties
<1> DEFINE t == L!RemoveAt(s, k)
<1>3. t = a \o b
  BY Zenon DEF L!RemoveAt
<1> HIDE DEF a, b, t
<1>4. /\ t \in Seq(S) /\ Len(t) = Len(a) + Len(b)
      /\ \A i \in 1 .. Len(t) : t[i] = IF i <= Len(a) THEN a[i] ELSE b[i - Len(a)]
  <2>1. a \in Seq(S) /\ b \in Seq(S)
    BY <1>1, <1>2
  <2> QED BY ONLY <1>3, <2>1, Joined
<1>5. t \in Seq(S) /\ Len(t) = Len(s) - 1
  BY <1>1, <1>2, <1>4
<1>6. ASSUME NEW i \in 1 .. Len(t)
      PROVE  t[i] = IF i < k THEN s[i] ELSE s[i + 1]
  <2>1. t[i] = IF i <= Len(a) THEN a[i] ELSE b[i - Len(a)]
    BY <1>4
  <2>2. CASE i < k
    BY <1>1, <2>1, <2>2
  <2>3. CASE ~(i < k)
    <3>1. i + 1 - k \in 1 .. Len(s) - k /\ i - Len(a) = i + 1 - k /\ k + (i + 1 - k) = i + 1
      BY <1>1, <1>5, <2>3
    <3>2. b[i + 1 - k] = s[k + (i + 1 - k)]
      BY <1>2, <3>1
    <3> QED BY <1>1, <2>1, <2>3, <3>1, <3>2
  <2> QED BY <2>2, <2>3
<1> QED BY <1>4, <1>5, <1>6 DEF t

\* RemoveFirst() of an element that is at one place removes it there.
LEMMA RemovedFirst ==
  ASSUME NEW S, NEW s \in Seq(S), NEW k \in 1 .. Len(s),
         \A i \in 1 .. Len(s) : s[i] = s[k] => i = k
  PROVE  L!RemoveFirst(s, s[k]) = L!RemoveAt(s, k)
<1>1. {i \in 1 .. Len(s) : s[i] = s[k]} = {k}
  OBVIOUS
<1>2. L!Min({k}) = k
  BY DEF L!Min
<1> QED BY <1>1, <1>2 DEF L!RemoveFirst, L!SelectInSeq

-----------------------------------------------------------------------------
(* Array and ArrayP *)

Cell == Cells \cup {None}

ArrayTyped ==
  /\ acells \in Seq(Cell) /\ acount \in 0 .. Len(acells)
  /\ apointers \in BOOLEAN /\ aremoves \in BOOLEAN

\* An ArrayP that deletes holds each object once, and none it has deleted.
ArrayLiving ==
  aremoves => /\ apointers
              /\ \A i, j \in 1 .. acount : acells[i] = acells[j] => i = j
              /\ \A i \in 1 .. acount : acells[i] \notin adead

\* remove() leaves the buffer only for an Array, not an ArrayP, and in front.
BrokenInFront ==
  /\ abroken \in {"no", "remove"}
  /\ abroken = "remove" => ~apointers /\ alast.op \in {"remove", "range"} /\ alast.index < 0

ArrayInv == ArrayTyped /\ ArrayLiving /\ BrokenInFront

LEMMA ArrayInvImplies == ArrayInv => A!SizeFits /\ A!NoDangling
BY DEF ArrayInv, ArrayTyped, ArrayLiving, BrokenInFront, A!SizeFits, A!NoDangling, A!Objects

LEMMA FreshCells ==
  ASSUME NEW n \in Int
  PROVE  A!Fresh(n) \in Seq(Cell) /\ Len(A!Fresh(n)) = IF n < 0 THEN 0 ELSE n
<1> DEFINE m == IF n < 0 THEN 0 ELSE n
<1>1. m \in Nat /\ 1 .. n = 1 .. m
  OBVIOUS
<1>2. A!Fresh(n) = [i \in 1 .. m |-> None]
  BY <1>1 DEF A!Fresh
<1> HIDE DEF m
<1>3. [i \in 1 .. m |-> None] \in Seq(Cell) /\ Len([i \in 1 .. m |-> None]) = m
  BY <1>1 DEF Cell
<1> QED BY <1>2, <1>3 DEF m

LEMMA ContentCells ==
  ASSUME ArrayTyped
  PROVE  /\ A!Content \in Seq(Cell) /\ Len(A!Content) = acount
         /\ \A i \in 1 .. acount : A!Content[i] = acells[i]
BY SubSeqProperties DEF ArrayTyped, A!Content

\* A new buffer holds the data, and is at least as long as asked for.
LEMMA ResizedCells ==
  ASSUME ArrayTyped, NEW n \in Int
  PROVE  /\ A!Resized(n) \in Seq(Cell) /\ Len(A!Resized(n)) >= acount /\ Len(A!Resized(n)) >= n
         /\ \A i \in 1 .. acount : A!Resized(n)[i] = acells[i]
<1> DEFINE long == IF n < acount THEN acount ELSE n
           gap == long - acount
           data == A!Content
           rest == A!Fresh(gap)
           t == data \o rest
<1>1. /\ long \in Int /\ long >= acount /\ long >= n /\ gap \in Int /\ gap >= 0 /\ long = acount + gap
      /\ acells \in Seq(Cell) /\ acount \in Nat /\ acount <= Len(acells)
  BY DEF ArrayTyped
<1>2. A!Resized(n) = IF long = Len(acells) THEN acells ELSE t
  BY DEF A!Resized
<1> HIDE DEF long, gap
<1>3. rest \in Seq(Cell) /\ Len(rest) = gap
  BY <1>1, FreshCells
<1>4. data \in Seq(Cell) /\ Len(data) = acount /\ \A i \in 1 .. acount : data[i] = acells[i]
  BY ContentCells
<1>5. t = data \o rest
  OBVIOUS
<1> HIDE DEF data, rest, t
<1>6. /\ t \in Seq(Cell) /\ Len(t) = Len(data) + Len(rest)
      /\ \A i \in 1 .. Len(t) : t[i] = IF i <= Len(data) THEN data[i] ELSE rest[i - Len(data)]
  <2>1. data \in Seq(Cell) /\ rest \in Seq(Cell)
    BY <1>3, <1>4
  <2> QED BY ONLY <1>5, <2>1, Joined
<1>7. Len(t) = long
  BY <1>1, <1>3, <1>4, <1>6
<1>8. \A i \in 1 .. acount : t[i] = acells[i]
  BY <1>1, <1>4, <1>6, <1>7
<1> QED BY <1>1, <1>2, <1>6, <1>7, <1>8

LEMMA ArrayInitially == A!Init => ArrayInv
<1> SUFFICES ASSUME A!Init
             PROVE  ArrayInv
  OBVIOUS
<1>1. PICK n \in {0, 2}, buf \in {0, 2}, given \in BOOLEAN :
        LET long == IF buf < n THEN n ELSE buf
        IN \/ ~given /\ acount = n /\ acells = A!Fresh(long)
           \/ /\ given /\ acount = n
              /\ \E data \in [1 .. n -> Cells] :
                   acells = data \o A!Fresh((IF long < DefaultBuf THEN DefaultBuf ELSE long) - n)
  BY Zenon DEF A!Init
<1> DEFINE long == IF buf < n THEN n ELSE buf
           most == IF long < DefaultBuf THEN DefaultBuf ELSE long
<1>2. n \in Nat /\ long \in Nat /\ n <= long /\ most \in Nat /\ n <= most
  BY ContainersAssumption
<1>3. acount = n
  BY <1>1
<1>4. acells \in Seq(Cell) /\ Len(acells) >= n
  <2>1. CASE acells = A!Fresh(long)
    BY <1>2, <2>1, FreshCells
  <2>2. CASE \E data \in [1 .. n -> Cells] : acells = data \o A!Fresh(most - n)
    <3> HIDE DEF most
    <3>1. PICK data \in [1 .. n -> Cells] : acells = data \o A!Fresh(most - n)
      BY <2>2
    <3>2. data \in Seq(Cell) /\ Len(data) = n
      BY <1>2 DEF Cell
    <3>3. A!Fresh(most - n) \in Seq(Cell) /\ Len(A!Fresh(most - n)) \in Nat
      BY <1>2, FreshCells
    <3>4. acells \in Seq(Cell) /\ Len(acells) = Len(data) + Len(A!Fresh(most - n))
      <4> DEFINE rest == A!Fresh(most - n)
      <4>1. data \in Seq(Cell) /\ rest \in Seq(Cell) /\ acells = data \o rest
        BY <3>1, <3>2, <3>3
      <4> HIDE DEF rest
      <4>2. acells \in Seq(Cell) /\ Len(acells) = Len(data) + Len(rest)
        BY ONLY <4>1, Joined
      <4> QED BY <4>2 DEF rest
    <3> QED BY <1>2, <3>2, <3>3, <3>4
  <2> QED BY <1>1, <2>1, <2>2
<1>5. /\ apointers \in BOOLEAN /\ aremoves \in BOOLEAN
      /\ aremoves => apointers
      /\ apointers => \A i, j \in 1 .. acount : acells[i] = acells[j] => i = j
      /\ adead = {} /\ abroken = "no"
  BY DEF A!Init
<1>6. ArrayTyped
  <2>1. acount \in 0 .. Len(acells)
    BY ONLY <1>2, <1>3, <1>4
  <2> QED BY ONLY <1>4, <1>5, <2>1, Zenon DEF ArrayTyped
<1>7. ArrayLiving
  <2>1. adead = {}
    BY <1>5
  <2>2. \A i \in 1 .. acount : acells[i] \notin adead
    BY ONLY <2>1
  <2> QED BY ONLY <1>5, <2>2, Zenon DEF ArrayLiving
<1>8. BrokenInFront
  BY <1>5 DEF BrokenInFront
<1> QED BY <1>6, <1>7, <1>8 DEF ArrayInv

LEMMA ArrayAnswers ==
  ASSUME ArrayInv, abroken = "no",
         acells' = acells, acount' = acount, apointers' = apointers, aremoves' = aremoves,
         adead' = adead, abroken' = abroken
  PROVE  ArrayInv'
BY Zenon DEF ArrayInv, ArrayTyped, ArrayLiving, BrokenInFront

\* What goes behind data the array keeps or takes.
LEMMA FollowedBy ==
  ASSUME NEW data \in Seq(Cell), NEW rest \in Seq(Cell)
  PROVE  /\ data \o rest \in Seq(Cell) /\ Len(data \o rest) = Len(data) + Len(rest)
         /\ \A i \in 1 .. Len(data) : (data \o rest)[i] = data[i]
<1> DEFINE t == data \o rest
<1>1. t = data \o rest
  OBVIOUS
<1> HIDE DEF t
<1>2. /\ t \in Seq(Cell) /\ Len(t) = Len(data) + Len(rest)
      /\ \A i \in 1 .. Len(t) : t[i] = IF i <= Len(data) THEN data[i] ELSE rest[i - Len(data)]
  BY ONLY <1>1, Joined
<1>3. Len(data) \in Nat /\ Len(rest) \in Nat
  OBVIOUS
<1>4. \A i \in 1 .. Len(data) : t[i] = data[i]
  BY <1>2, <1>3
<1> QED BY <1>2, <1>4 DEF t

LEMMA PutKeepsArray ==
  ASSUME ArrayInv, NEW i \in Int, NEW v \in Cells, A!Put(i, v)
  PROVE  ArrayInv'
<1>1. /\ abroken = "no" /\ i \in 0 .. acount - 1 /\ (aremoves => v \notin A!Objects(0, acount))
      /\ acells' = [acells EXCEPT ![i + 1] = v] /\ adead' = adead \ {v}
      /\ acount' = acount /\ apointers' = apointers /\ aremoves' = aremoves /\ abroken' = abroken
  BY DEF A!Put, A!Whole, A!Index, A!Storable, A!ReplaceAt
<1>2. acells \in Seq(Cell) /\ acount \in 0 .. Len(acells) /\ i + 1 \in 1 .. acount
  BY <1>1 DEF ArrayInv, ArrayTyped
<1>3. acells' \in Seq(Cell) /\ Len(acells') = Len(acells)
      /\ \A j \in 1 .. Len(acells) : acells'[j] = IF j = i + 1 THEN v ELSE acells[j]
  BY <1>1, <1>2 DEF Cell
<1>4. ArrayTyped'
  BY <1>1, <1>2, <1>3 DEF ArrayInv, ArrayTyped
<1>5. ASSUME aremoves PROVE ArrayLiving'
  <2>1. /\ apointers /\ \A j \in 1 .. acount : acells[j] \notin adead /\ acells[j] # v
        /\ \A j, k \in 1 .. acount : acells[j] = acells[k] => j = k
    BY <1>1, <1>5 DEF ArrayInv, ArrayLiving, A!Objects
  <2>2. \A j \in 1 .. acount : acells'[j] = IF j = i + 1 THEN v ELSE acells[j]
    BY <1>2, <1>3
  <2>3. \A j, k \in 1 .. acount : acells'[j] = acells'[k] => j = k
    BY <2>1, <2>2
  <2>4. \A j \in 1 .. acount : acells'[j] \notin adead'
    BY <1>1, <2>1, <2>2
  <2> QED BY <1>1, <2>1, <2>3, <2>4, Zenon DEF ArrayLiving
<1>6. ArrayLiving'
  BY <1>1, <1>5, Zenon DEF ArrayLiving
<1>7. BrokenInFront'
  BY <1>1 DEF BrokenInFront
<1> QED BY <1>4, <1>6, <1>7 DEF ArrayInv

LEMMA InsertedCells ==
  ASSUME ArrayInv, NEW i \in Int, NEW v \in Cells, A!Insert(i, v)
  PROVE  LET k == (IF i < 0 THEN 0 ELSE IF i >= acount THEN acount ELSE i) + 1
         IN /\ k \in 1 .. acount + 1
            /\ acells' \in Seq(Cell) /\ Len(acells') >= acount + 1
            /\ \A j \in 1 .. acount + 1 :
                 acells'[j] = IF j < k THEN acells[j] ELSE IF j = k THEN v ELSE acells[j - 1]
<1> DEFINE at == IF i < 0 THEN 0 ELSE IF i >= acount THEN acount ELSE i
           k == at + 1
           data == L!InsertAt(A!Content, k, v)
           long == IF acount >= Len(acells) THEN A!Grown ELSE Len(acells)
           rest == IF acount >= Len(acells) THEN A!Fresh(long - acount - 1)
                   ELSE SubSeq(acells, acount + 2, long)
<1>1. acells \in Seq(Cell) /\ acount \in Nat /\ acount <= Len(acells) /\ Len(acells) \in Nat
  BY DEF ArrayInv, ArrayTyped
<1>2. k \in 1 .. acount + 1
  BY <1>1
<1>3. A!InsertAt(A!Content, k, v) = data
  BY DEF A!InsertAt, L!InsertAt
<1>4. acells' = data \o rest
  BY <1>3 DEF A!Insert
<1>5. rest \in Seq(Cell)
  <2>1. CASE acount >= Len(acells)
    <3>1. A!Grown \in Int
      BY <1>1, ContainersAssumption DEF A!Grown
    <3>2. long - acount - 1 \in Int
      BY <1>1, <2>1, <3>1
    <3> QED BY <2>1, <3>2, FreshCells
  <2>2. CASE ~(acount >= Len(acells))
    BY <1>1, <2>2, SubSeqProperties
  <2> QED BY <2>1, <2>2
<1> HIDE DEF k, rest
<1>6. /\ data \in Seq(Cell) /\ Len(data) = acount + 1
      /\ \A j \in 1 .. acount + 1 :
           data[j] = IF j < k THEN acells[j] ELSE IF j = k THEN v ELSE acells[j - 1]
  <2>1. ArrayTyped /\ v \in Cell
    BY DEF ArrayInv, Cell
  <2> DEFINE c == A!Content
  <2>2. /\ c \in Seq(Cell) /\ Len(c) = acount /\ \A j \in 1 .. acount : c[j] = acells[j]
    BY <2>1, ContentCells
  <2> HIDE DEF c
  <2>3. k \in 1 .. Len(c) + 1
    BY <1>2, <2>2
  <2> DEFINE t == L!InsertAt(c, k, v)
  <2>4. /\ t \in Seq(Cell) /\ Len(t) = Len(c) + 1
        /\ \A j \in 1 .. Len(t) : t[j] = IF j < k THEN c[j] ELSE IF j = k THEN v ELSE c[j - 1]
    <3>1. c \in Seq(Cell) /\ v \in Cell /\ k \in 1 .. Len(c) + 1
      BY <2>1, <2>2, <2>3
    <3> HIDE DEF t
    <3>2. t = L!InsertAt(c, k, v)
      BY DEF t
    <3> QED BY ONLY <3>1, <3>2, InsertedAt
  <2> HIDE DEF t
  <2>5. ASSUME NEW j \in 1 .. acount + 1
        PROVE  t[j] = IF j < k THEN acells[j] ELSE IF j = k THEN v ELSE acells[j - 1]
    BY <1>1, <1>2, <2>2, <2>4
  <2>6. t = data
    BY DEF t, c
  <2> QED BY <1>1, <2>2, <2>4, <2>5, <2>6
<1> HIDE DEF data
<1>7. acells' \in Seq(Cell) /\ Len(acells') >= acount + 1 /\ \A j \in 1 .. acount + 1 : acells'[j] = data[j]
  BY <1>4, <1>5, <1>6, FollowedBy
<1> QED BY <1>2, <1>6, <1>7 DEF k

LEMMA InsertKeepsArray ==
  ASSUME ArrayInv, NEW i \in Int, NEW v \in Cells, A!Insert(i, v)
  PROVE  ArrayInv'
<1> DEFINE k == (IF i < 0 THEN 0 ELSE IF i >= acount THEN acount ELSE i) + 1
<1>1. acells \in Seq(Cell) /\ acount \in Nat /\ acount <= Len(acells) /\ Len(acells) \in Nat
  BY DEF ArrayInv, ArrayTyped
<1>2. /\ abroken = "no" /\ (aremoves => v \notin A!Objects(0, acount)) /\ adead' = adead \ {v}
      /\ acount' = acount + 1 /\ apointers' = apointers /\ aremoves' = aremoves /\ abroken' = abroken
  BY DEF A!Insert, A!Whole, A!Storable
<1>3. /\ k \in 1 .. acount + 1 /\ acells' \in Seq(Cell) /\ Len(acells') >= acount + 1
      /\ \A j \in 1 .. acount + 1 :
           acells'[j] = IF j < k THEN acells[j] ELSE IF j = k THEN v ELSE acells[j - 1]
  BY InsertedCells
<1>4. /\ acount \in Nat /\ k \in 1 .. acount + 1
      /\ \A j \in 1 .. acount + 1 :
           acells'[j] = IF j < k THEN acells[j] ELSE IF j = k THEN v ELSE acells[j - 1]
  BY <1>1, <1>3
<1> HIDE DEF k
<1>5. ArrayTyped'
  BY <1>1, <1>2, <1>3 DEF ArrayInv, ArrayTyped
<1>6. ASSUME aremoves PROVE ArrayLiving'
  <2>1. /\ apointers /\ \A j \in 1 .. acount : acells[j] \notin adead /\ acells[j] # v
        /\ \A j, m \in 1 .. acount : acells[j] = acells[m] => j = m
    BY <1>2, <1>6 DEF ArrayInv, ArrayLiving, A!Objects
  <2>2. ASSUME NEW j \in 1 .. acount + 1 PROVE acells'[j] \notin adead'
    <3>4. adead' = adead \ {v}
      BY <1>2
    <3>1. CASE j = k
      BY <1>1, <1>3, <3>1, <3>4
    <3>2. CASE j < k
      <4>1. j \in 1 .. acount /\ acells'[j] = acells[j]
        BY <1>1, <1>3, <3>2
      <4> QED BY <2>1, <3>4, <4>1
    <3>3. CASE j > k
      <4>2. j - 1 \in 1 .. acount /\ ~(j < k) /\ j # k
        BY <1>4, <3>3
      <4>3. acells'[j] = IF j < k THEN acells[j] ELSE IF j = k THEN v ELSE acells[j - 1]
        BY <1>3
      <4>1. j - 1 \in 1 .. acount /\ acells'[j] = acells[j - 1]
        BY <4>2, <4>3
      <4> QED BY <2>1, <3>4, <4>1
    <3> QED BY <1>1, <1>3, <3>1, <3>2, <3>3
  <2>3. ASSUME NEW j \in 1 .. acount + 1, NEW m \in 1 .. acount + 1, acells'[j] = acells'[m]
        PROVE  j = m
    BY <1>4, <2>1, <2>3
  <2> QED BY <1>2, <2>1, <2>2, <2>3, Zenon DEF ArrayLiving
<1>7. ArrayLiving'
  BY <1>2, <1>6, Zenon DEF ArrayLiving
<1>8. BrokenInFront'
  BY <1>2 DEF BrokenInFront
<1> QED BY <1>5, <1>7, <1>8 DEF ArrayInv

\* remove(), the range form of it, and getAndRemove().
LEMMA ClosedCells ==
  ASSUME ArrayTyped, NEW start \in Nat, NEW stop \in Nat, start < stop, stop <= acount,
         acells' = A!Closed(start, stop)
  PROVE  /\ acells' \in Seq(Cell) /\ Len(acells') = Len(acells)
         /\ \A i \in 1 .. acount - (stop - start) :
              acells'[i] = acells[IF i > start THEN i + stop - start ELSE i]
<1> DEFINE m == acount - (stop - start)
<1>1. /\ acells \in Seq(Cell) /\ acount \in Nat /\ acount <= Len(acells) /\ Len(acells) \in Nat
      /\ m \in Nat /\ m <= acount /\ DOMAIN acells = 1 .. Len(acells)
      /\ \A i \in 1 .. Len(acells) : acells[i] \in Cell
  BY DEF ArrayTyped
<1>2. \A i \in 1 .. Len(acells) : i <= m => i + stop - start \in 1 .. Len(acells)
  BY <1>1
<1>3. acells' = [i \in 1 .. Len(acells) |->
                   IF i > start /\ i <= m THEN acells[i + stop - start] ELSE acells[i]]
  BY <1>1, Zenon DEF A!Closed
<1>4. \A i \in 1 .. m : i \in 1 .. Len(acells) /\ i <= m
  BY <1>1
<1> HIDE DEF m
<1>5. acells' \in [1 .. Len(acells) -> Cell]
  BY <1>1, <1>2, <1>3
<1>6. acells' \in Seq(Cell) /\ Len(acells') = Len(acells)
  BY <1>1, <1>5
<1>7. \A i \in 1 .. m : acells'[i] = acells[IF i > start THEN i + stop - start ELSE i]
  BY <1>3, <1>4
<1> QED BY <1>6, <1>7 DEF m

LEMMA RemoveKeepsArray ==
  ASSUME ArrayInv, NEW start \in Int, NEW end \in Int, NEW op \in {"remove", "range", "take"}, NEW result,
         op = "take" => start \in A!Index,
         A!RemoveCells(start, end, op, result)
  PROVE  ArrayInv'
<1> DEFINE stop == IF end < 0 \/ end > acount THEN acount ELSE end
           none == stop <= start \/ (apointers /\ op # "take" /\ start \notin A!Index)
<1>1. acells \in Seq(Cell) /\ acount \in Nat /\ acount <= Len(acells) /\ Len(acells) \in Nat
  BY DEF ArrayInv, ArrayTyped
<1>2. stop \in Int /\ stop <= acount
  BY <1>1
<1>3. /\ abroken = "no" /\ apointers' = apointers /\ aremoves' = aremoves
      /\ alast'.op = op /\ alast'.index = start
  BY DEF A!RemoveCells, A!Whole, A!Answer
<1>4. IF none THEN acells' = acells /\ acount' = acount /\ adead' = adead /\ abroken' = abroken
      ELSE IF start < 0
      THEN abroken' = "remove" /\ acells' = acells /\ acount' = acount /\ adead' = adead
      ELSE /\ adead' = IF aremoves /\ op # "take" THEN adead \cup A!Objects(start, stop) ELSE adead
           /\ acells' = A!Closed(start, stop) /\ acount' = acount - (stop - start)
           /\ abroken' = abroken
  BY Zenon DEF A!RemoveCells
<1> HIDE DEF stop
<1>5. CASE none
  BY <1>3, <1>4, <1>5, ArrayAnswers
<1>6. CASE ~none /\ start < 0
  <2>1. op # "take" /\ ~apointers
    BY <1>1, <1>6 DEF A!Index, ArrayInv, ArrayTyped
  <2>2. BrokenInFront'
    <3>1. abroken' = "remove" /\ ~apointers'
      BY <1>3, <1>4, <1>6, <2>1
    <3>2. alast'.op \in {"remove", "range"} /\ alast'.index < 0
      BY <1>3, <1>6, <2>1
    <3> QED BY <3>1, <3>2 DEF BrokenInFront
  <2>3. acells' = acells /\ acount' = acount /\ adead' = adead
    BY <1>4, <1>6
  <2>4. ArrayTyped' /\ ArrayLiving'
    BY <1>3, <2>3, Zenon DEF ArrayInv, ArrayTyped, ArrayLiving
  <2> QED BY <2>2, <2>4 DEF ArrayInv
<1>7. CASE ~none /\ ~(start < 0)
  <2> DEFINE m == acount - (stop - start)
             From(i) == IF i > start THEN i + stop - start ELSE i
  <2>1. /\ start \in Nat /\ start < stop /\ m \in Nat /\ m <= acount
        /\ acells' = A!Closed(start, stop) /\ acount' = m /\ abroken' = abroken
        /\ adead' = IF aremoves /\ op # "take" THEN adead \cup A!Objects(start, stop) ELSE adead
    BY <1>1, <1>2, <1>4, <1>7
  <2>2. \A i \in 1 .. m : From(i) \in 1 .. acount /\ From(i) \notin start + 1 .. stop
    BY <1>1, <1>2, <2>1
  <2>3. \A i, j \in 1 .. m : From(i) = From(j) => i = j
    BY <1>1, <1>2, <2>1
  <2>4. /\ acells' \in Seq(Cell) /\ Len(acells') = Len(acells)
        /\ \A i \in 1 .. m : acells'[i] = acells[From(i)]
    <3>1. ArrayTyped /\ stop \in Nat
      BY <1>2, <2>1 DEF ArrayInv
    <3> QED BY <1>2, <2>1, <3>1, ClosedCells
  <2> HIDE DEF From, m
  <2>5. ArrayTyped'
    BY <1>1, <1>3, <2>1, <2>4 DEF ArrayInv, ArrayTyped
  <2>6. ASSUME aremoves PROVE ArrayLiving'
    <3>1. /\ apointers /\ \A j \in 1 .. acount : acells[j] \notin adead
          /\ \A j, k \in 1 .. acount : acells[j] = acells[k] => j = k
      BY <2>6 DEF ArrayInv, ArrayLiving
    <3>2. ASSUME NEW i \in 1 .. m PROVE acells'[i] \notin adead'
      <4>1. From(i) \in 1 .. acount /\ acells'[i] = acells[From(i)]
        BY <2>2, <2>4
      <4>2. acells'[i] \notin adead
        BY <3>1, <4>1
      <4>3. \A j \in start + 1 .. stop : j \in 1 .. acount /\ j # From(i)
        BY <1>1, <1>2, <2>1, <2>2
      <4>4. \A j \in start + 1 .. stop : acells[j] # acells[From(i)]
        BY <3>1, <4>1, <4>3
      <4>5. acells'[i] \notin A!Objects(start, stop)
        BY <4>1, <4>4 DEF A!Objects
      <4> QED BY <2>1, <4>2, <4>5
    <3>3. ASSUME NEW i \in 1 .. m, NEW j \in 1 .. m, acells'[i] = acells'[j]
          PROVE  i = j
      BY <2>2, <2>3, <2>4, <3>1, <3>3
    <3> QED BY <1>3, <2>1, <3>1, <3>2, <3>3, Zenon DEF ArrayLiving
  <2>7. ArrayLiving'
    BY <1>3, <2>6, Zenon DEF ArrayLiving
  <2>8. BrokenInFront'
    BY <1>3, <2>1 DEF BrokenInFront
  <2> QED BY <2>5, <2>7, <2>8 DEF ArrayInv
<1> QED BY <1>5, <1>6, <1>7

LEMMA TruncateKeepsArray ==
  ASSUME ArrayInv, NEW n \in Int, A!Truncate(n)
  PROVE  ArrayInv'
<1>1. acells \in Seq(Cell) /\ acount \in Nat /\ acount <= Len(acells) /\ Len(acells) \in Nat
  BY DEF ArrayInv, ArrayTyped
<1>2. /\ abroken = "no" /\ acells' = acells /\ apointers' = apointers /\ aremoves' = aremoves
      /\ abroken' = abroken
      /\ IF n >= 0 /\ n < acount
         THEN acount' = n /\ adead' = IF aremoves THEN adead \cup A!Objects(n, acount) ELSE adead
         ELSE acount' = acount /\ adead' = adead
  BY Zenon DEF A!Truncate, A!Whole
<1>3. CASE ~(n >= 0 /\ n < acount)
  BY <1>2, <1>3, ArrayAnswers
<1>4. CASE n >= 0 /\ n < acount
  <2>1. acount' = n /\ adead' = IF aremoves THEN adead \cup A!Objects(n, acount) ELSE adead
    BY <1>2, <1>4
  <2>2. ArrayTyped'
    BY <1>1, <1>2, <1>4, <2>1 DEF ArrayInv, ArrayTyped
  <2>3. ASSUME aremoves PROVE ArrayLiving'
    <3>1. /\ apointers /\ \A j \in 1 .. acount : acells[j] \notin adead
          /\ \A j, k \in 1 .. acount : acells[j] = acells[k] => j = k
      BY <2>3 DEF ArrayInv, ArrayLiving
    <3>2. ASSUME NEW i \in 1 .. n PROVE acells'[i] \notin adead' /\ i \in 1 .. acount
      <4>1. i \in 1 .. acount /\ \A j \in n + 1 .. acount : j \in 1 .. acount /\ j # i
        BY <1>1, <1>4
      <4>2. \A j \in n + 1 .. acount : acells[j] # acells[i]
        BY <3>1, <4>1
      <4>3. acells[i] \notin A!Objects(n, acount)
        BY <4>2 DEF A!Objects
      <4> QED BY <1>2, <2>1, <3>1, <4>1, <4>3
    <3>3. \A i, j \in 1 .. n : acells'[i] = acells'[j] => i = j
      BY <1>2, <3>1, <3>2
    <3> QED BY <1>2, <2>1, <3>1, <3>2, <3>3, Zenon DEF ArrayLiving
  <2>4. ArrayLiving'
    BY <1>2, <2>3, Zenon DEF ArrayLiving
  <2>5. BrokenInFront'
    BY <1>2 DEF BrokenInFront
  <2> QED BY <2>2, <2>4, <2>5 DEF ArrayInv
<1> QED BY <1>3, <1>4

\* A call that keeps the data where it is, or ends the deleting.
LEMMA MovesKeepArray ==
  ASSUME ArrayInv, abroken = "no", abroken' = abroken, apointers' = apointers,
         acells' \in Seq(Cell), acount' \in 0 .. Len(acells'),
         \/ aremoves' = FALSE
         \/ /\ aremoves' = aremoves /\ acount' = acount /\ adead' = adead
            /\ \A i \in 1 .. acount : acells'[i] = acells[i]
  PROVE  ArrayInv'
<1>1. ArrayTyped'
  BY DEF ArrayInv, ArrayTyped
<1>2. BrokenInFront'
  BY DEF BrokenInFront
<1>3. CASE aremoves' = FALSE
  BY <1>1, <1>2, <1>3 DEF ArrayInv, ArrayLiving
<1>4. CASE /\ aremoves' = aremoves /\ acount' = acount /\ adead' = adead
           /\ \A i \in 1 .. acount : acells'[i] = acells[i]
  <2>1. ASSUME aremoves PROVE ArrayLiving'
    <3>1. /\ apointers /\ \A j \in 1 .. acount : acells[j] \notin adead
          /\ \A j, k \in 1 .. acount : acells[j] = acells[k] => j = k
      BY <2>1 DEF ArrayInv, ArrayLiving
    <3> QED BY <1>4, <3>1, Zenon DEF ArrayLiving
  <2>2. ArrayLiving'
    BY <1>4, <2>1, Zenon DEF ArrayLiving
  <2> QED BY <1>1, <1>2, <2>2 DEF ArrayInv
<1> QED BY <1>3, <1>4

LEMMA BufferKeepsArray ==
  ASSUME ArrayInv, NEW n \in Int,
         A!SetMinBufSize(n) \/ A!Copy(n) \/ A!SetSize(n, -1) \/ A!SetSize(n, MaxLen + 1)
  PROVE  ArrayInv'
<1>1. /\ ArrayTyped /\ acells \in Seq(Cell) /\ acount \in Nat /\ acount <= Len(acells)
      /\ Len(acells) \in Nat /\ apointers \in BOOLEAN /\ aremoves \in BOOLEAN
  BY DEF ArrayInv, ArrayTyped
<1>2. ASSUME A!SetMinBufSize(n) PROVE ArrayInv'
  <2>1. /\ A!Resized(n) \in Seq(Cell) /\ Len(A!Resized(n)) >= acount
        /\ \A i \in 1 .. acount : A!Resized(n)[i] = acells[i]
    BY <1>1, ResizedCells
  <2>2. /\ abroken = "no" /\ abroken' = abroken /\ apointers' = apointers /\ aremoves' = aremoves
        /\ acount' = acount /\ adead' = adead /\ acells' = A!Resized(n)
    BY <1>2 DEF A!SetMinBufSize, A!Whole
  <2>3. acells' \in Seq(Cell) /\ acount' \in 0 .. Len(acells')
    BY <1>1, <2>1, <2>2
  <2> QED BY <2>1, <2>2, <2>3, MovesKeepArray
<1>3. ASSUME A!Copy(n) PROVE ArrayInv'
  <2>1. /\ abroken = "no" /\ abroken' = abroken /\ apointers' = apointers /\ aremoves' = FALSE
        /\ acount' = acount
        /\ acells' = IF n = 0 THEN A!Content \o A!Fresh(Len(acells) - acount) ELSE A!Resized(n)
    BY <1>3 DEF A!Copy, A!Whole
  <2>2. CASE n = 0
    <3> DEFINE gap == Len(acells) - acount
               rest == A!Fresh(gap)
               data == A!Content
    <3>1. gap \in Int /\ gap >= 0
      BY <1>1
    <3> HIDE DEF gap
    <3>2. data \in Seq(Cell) /\ Len(data) = acount /\ rest \in Seq(Cell) /\ Len(rest) = gap
      BY <1>1, <3>1, ContentCells, FreshCells
    <3>3. acells' = data \o rest
      BY <2>1, <2>2 DEF gap
    <3> HIDE DEF data, rest
    <3>4. acells' \in Seq(Cell) /\ Len(acells') = Len(data) + Len(rest)
      <4>1. data \in Seq(Cell) /\ rest \in Seq(Cell)
        BY <3>2
      <4> QED BY ONLY <3>3, <4>1, Joined
    <3>5. acount' \in 0 .. Len(acells')
      BY <1>1, <2>1, <3>1, <3>2, <3>4
    <3> QED BY <2>1, <3>4, <3>5, MovesKeepArray
  <2>3. CASE n # 0
    <3>1. A!Resized(n) \in Seq(Cell) /\ Len(A!Resized(n)) >= acount
      BY <1>1, ResizedCells
    <3>2. acells' \in Seq(Cell) /\ acount' \in 0 .. Len(acells')
      BY <1>1, <2>1, <2>3, <3>1
    <3> QED BY <2>1, <3>2, MovesKeepArray
  <2> QED BY <2>2, <2>3
<1>4. ASSUME NEW buf \in Int, A!SetSize(n, buf) PROVE ArrayInv'
  <2>1. /\ abroken = "no" /\ abroken' = abroken /\ apointers' = apointers /\ aremoves' = aremoves
        /\ adead' = adead /\ ~apointers
        /\ IF n < 0 THEN acells' = acells /\ acount' = acount
           ELSE /\ acount' = n
                /\ acells' = IF buf >= 0 THEN A!Resized(IF buf < n THEN n ELSE buf)
                             ELSE IF n > Len(acells) THEN A!Resized(n) ELSE acells
    BY <1>4, Zenon DEF A!SetSize, A!Whole
  <2>2. aremoves' = FALSE
    BY <1>1, <2>1 DEF ArrayInv, ArrayLiving
  <2>3. CASE n < 0
    BY <1>1, <2>1, <2>2, <2>3, MovesKeepArray
  <2>4. CASE ~(n < 0)
    <3> DEFINE m == IF buf < n THEN n ELSE buf
    <3>1. m \in Int /\ m >= n
      OBVIOUS
    <3> HIDE DEF m
    <3>2. A!Resized(m) \in Seq(Cell) /\ Len(A!Resized(m)) >= m
      BY <1>1, <3>1, ResizedCells
    <3>3. A!Resized(n) \in Seq(Cell) /\ Len(A!Resized(n)) >= n
      BY <1>1, ResizedCells
    <3>4. /\ acount' = n
          /\ acells' = IF buf >= 0 THEN A!Resized(m) ELSE IF n > Len(acells) THEN A!Resized(n) ELSE acells
      BY <2>1, <2>4 DEF m
    <3>5. acells' \in Seq(Cell) /\ acount' \in 0 .. Len(acells')
      BY <1>1, <2>4, <3>1, <3>2, <3>3, <3>4
    <3> QED BY <2>1, <2>2, <3>5, MovesKeepArray
  <2> QED BY <2>3, <2>4
<1>5. -1 \in Int /\ MaxLen + 1 \in Int
  BY ContainersAssumption
<1> QED BY <1>2, <1>3, <1>4, <1>5

LEMMA AssignKeepsArray ==
  ASSUME ArrayInv, NEW data \in A!Data, NEW spare \in {0, 2}, A!Assign(data, spare)
  PROVE  ArrayInv'
<1> DEFINE rest == IF Len(acells) < Len(data) + spare THEN A!Fresh(spare)
                   ELSE SubSeq(acells, Len(data) + 1, Len(acells))
<1>1. acells \in Seq(Cell) /\ acount \in Nat /\ acount <= Len(acells) /\ Len(acells) \in Nat
  BY DEF ArrayInv, ArrayTyped
<1>2. data \in Seq(Cell) /\ Len(data) \in Nat
  <2>1. PICK n \in {0, 2} : data \in [1 .. n -> Cells]
    BY DEF A!Data
  <2>2. n \in Nat /\ data \in [1 .. n -> Cell]
    BY <2>1 DEF Cell
  <2> QED BY ONLY <2>2
<1>3. rest \in Seq(Cell) /\ Len(rest) \in Nat
  <2>1. CASE Len(acells) < Len(data) + spare
    BY <2>1, FreshCells
  <2>2. CASE ~(Len(acells) < Len(data) + spare)
    BY <1>1, <1>2, <2>2, SubSeqProperties
  <2> QED BY <2>1, <2>2
<1>4. /\ abroken = "no" /\ abroken' = abroken /\ apointers' = apointers /\ aremoves' = FALSE
      /\ acount' = Len(data)
  BY DEF A!Assign, A!Whole
<1>5. acells' = data \o rest
  BY Zenon DEF A!Assign
<1> HIDE DEF rest
<1>6. acells' \in Seq(Cell) /\ Len(acells') = Len(data) + Len(rest)
  <2>1. rest \in Seq(Cell)
    BY <1>3
  <2> QED BY ONLY <1>2, <1>5, <2>1, Joined
<1>7. acount' \in 0 .. Len(acells')
  BY <1>2, <1>3, <1>4, <1>6
<1> QED BY <1>4, <1>6, <1>7, MovesKeepArray

LEMMA ArrayKept == ArrayInv /\ [A!Next]_arrayvars => ArrayInv'
<1> SUFFICES ASSUME ArrayInv, [A!Next]_arrayvars
             PROVE  ArrayInv'
  OBVIOUS
<1>0. CASE UNCHANGED arrayvars
  BY <1>0, Zenon DEF arrayvars, ArrayInv, ArrayTyped, ArrayLiving, BrokenInFront
<1>1. ASSUME NEW i \in Int, A!Get(i) PROVE ArrayInv'
  BY <1>1, ArrayAnswers DEF A!Get, A!Whole
<1>2. ASSUME NEW i \in Int, A!RemoveOne(i) PROVE ArrayInv'
  BY <1>2, RemoveKeepsArray DEF A!RemoveOne
<1>3. ASSUME NEW i \in Int, A!Take(i) PROVE ArrayInv'
  BY <1>3, RemoveKeepsArray DEF A!Take
<1>4. ASSUME NEW i \in Int, NEW end \in Int, A!RemoveRange(i, end) PROVE ArrayInv'
  BY <1>4, RemoveKeepsArray DEF A!RemoveRange
<1>5. ASSUME NEW v \in Cells, NEW i \in Int, A!IndexOf(v, i) PROVE ArrayInv'
  BY <1>5, ArrayAnswers DEF A!IndexOf, A!Whole
<1>6. ASSUME NEW v \in Cells, A!LastIndexOf(v) PROVE ArrayInv'
  BY <1>6, ArrayAnswers DEF A!LastIndexOf, A!Whole
<1>7. /\ \A i \in -1 .. MaxLen + 1 : i \in Int
      /\ \A n \in A!Lengths : n \in Int
  BY ContainersAssumption DEF A!Lengths
<1>8. ASSUME A!Next PROVE ArrayInv'
  <2>1. ASSUME NEW i \in -1 .. MaxLen + 1,
               \/ A!Get(i) \/ A!RemoveOne(i) \/ A!Take(i) \/ A!Truncate(i)
               \/ \E end \in A!Lengths : A!RemoveRange(i, end)
               \/ \E v \in Cells : A!Put(i, v) \/ A!Insert(i, v) \/ A!IndexOf(v, i)
        PROVE  ArrayInv'
    BY ONLY ArrayInv, <1>1, <1>2, <1>3, <1>4, <1>5, <1>7, <2>1,
            TruncateKeepsArray, PutKeepsArray, InsertKeepsArray, Zenon
  <2>2. ASSUME NEW n \in A!Lengths,
               A!SetMinBufSize(n) \/ A!Copy(n) \/ A!SetSize(n, -1) \/ A!SetSize(n, MaxLen + 1)
        PROVE  ArrayInv'
    BY <1>7, <2>2, BufferKeepsArray, Zenon
  <2>3. ASSUME NEW data \in A!Data, NEW spare \in {0, 2}, A!Assign(data, spare) PROVE ArrayInv'
    BY <2>3, AssignKeepsArray, Zenon
  <2> QED BY <1>6, <1>8, <2>1, <2>2, <2>3, Zenon DEF A!Next
<1> QED BY <1>0, <1>8

-----------------------------------------------------------------------------
(* LinkedList *)

LinkTyped ==
  /\ lnext \in [Elems -> Elems \cup {None}] /\ lprev \in [Elems -> Elems \cup {None}]
  /\ lparent \in [Elems -> Lists \cup {None}]
  /\ lfirst \in [Lists -> Elems \cup {None}] /\ lfinal \in [Lists -> Elems \cup {None}]
  /\ lnum \in [Lists -> Int] /\ lorder \in [Lists -> Seq(Elems)]
  /\ llists \subseteq Lists /\ lelems \subseteq Elems

\* The element of a sequence at a place, or none.
Nth(s, i) == IF i \in 1 .. Len(s) THEN s[i] ELSE None

\* The ends, the count and the links of a list are those of its order, which
\* has each element once and only such as exist.
ListSound(l) ==
  /\ lfirst[l] = Nth(lorder[l], 1) /\ lfinal[l] = Nth(lorder[l], Len(lorder[l]))
  /\ lnum[l] = Len(lorder[l])
  /\ \A i \in 1 .. Len(lorder[l]) :
       /\ lparent[lorder[l][i]] = l /\ lorder[l][i] \in lelems
       /\ lnext[lorder[l][i]] = Nth(lorder[l], i + 1)
       /\ lprev[lorder[l][i]] = Nth(lorder[l], i - 1)
  /\ \A i, j \in 1 .. Len(lorder[l]) : lorder[l][i] = lorder[l][j] => i = j

\* An element that names a list, existing or not any more, is in that list.
Named ==
  \A e \in Elems : lparent[e] # None =>
    lparent[e] \in llists /\ \E i \in 1 .. Len(lorder[lparent[e]]) : lorder[lparent[e]][i] = e

LinkInv ==
  /\ LinkTyped /\ Named
  /\ \A l \in llists : ListSound(l)
  /\ \A l \in Lists \ llists : lorder[l] = <<>>

LEMMA LinkInvImplies == LinkInv => L!EndsMeet /\ L!NoDangling
<1> SUFFICES ASSUME LinkInv
             PROVE  L!EndsMeet /\ L!NoDangling
  OBVIOUS
<1>1. \A l \in Lists : lorder[l] \in Seq(Elems) /\ DOMAIN lorder[l] = 1 .. Len(lorder[l])
  BY DEF LinkInv, LinkTyped
<1>2. \A l \in Lists, i \in Int : L!At(l, i) = Nth(lorder[l], i)
  BY <1>1 DEF L!At, Nth
<1>3. ASSUME NEW l \in llists
      PROVE  /\ lfirst[l] = L!At(l, 1) /\ lfinal[l] = L!At(l, Len(lorder[l])) /\ lnum[l] = Len(lorder[l])
             /\ \A i \in DOMAIN lorder[l] :
                  LET e == lorder[l][i]
                  IN lparent[e] = l /\ lnext[e] = L!At(l, i + 1) /\ lprev[e] = L!At(l, i - 1)
             /\ L!ToSet(lorder[l]) \subseteq lelems
  <2>1. l \in Lists /\ Len(lorder[l]) \in Int /\ ListSound(l) /\ DOMAIN lorder[l] = 1 .. Len(lorder[l])
    BY <1>1 DEF LinkInv, LinkTyped
  <2>2. lfirst[l] = L!At(l, 1) /\ lfinal[l] = L!At(l, Len(lorder[l])) /\ lnum[l] = Len(lorder[l])
    BY <1>2, <2>1 DEF ListSound
  <2>3. ASSUME NEW i \in DOMAIN lorder[l]
        PROVE  LET e == lorder[l][i]
               IN lparent[e] = l /\ lnext[e] = L!At(l, i + 1) /\ lprev[e] = L!At(l, i - 1)
    <3>1. i \in Int /\ i + 1 \in Int /\ i - 1 \in Int /\ i \in 1 .. Len(lorder[l])
      BY <2>1
    <3> QED BY <1>2, <2>1, <3>1 DEF ListSound
  <2>4. L!ToSet(lorder[l]) \subseteq lelems
    BY <2>1 DEF ListSound, L!ToSet
  <2> QED BY <2>2, <2>3, <2>4
<1>4. ASSUME NEW e \in lelems, lparent[e] # None
      PROVE  lparent[e] \in llists /\ e \in L!ToSet(lorder[lparent[e]])
  <2>1. e \in Elems
    BY DEF LinkInv, LinkTyped
  <2>2. lparent[e] \in llists /\ lparent[e] \in Lists
        /\ \E i \in 1 .. Len(lorder[lparent[e]]) : lorder[lparent[e]][i] = e
    BY <1>4, <2>1 DEF LinkInv, LinkTyped, Named
  <2> QED BY <1>1, <2>2 DEF L!ToSet
<1> QED BY <1>3, <1>4, Zenon DEF L!EndsMeet, L!NoDangling

LEMMA LinkInitially == L!Init => LinkInv
<1> SUFFICES ASSUME L!Init
             PROVE  LinkInv
  OBVIOUS
<1>1. LinkTyped
  BY DEF L!Init, LinkTyped
<1>2. Named
  BY DEF L!Init, Named
<1>3. ASSUME NEW l \in llists PROVE ListSound(l)
  <2>1. lorder[l] = <<>> /\ lfirst[l] = None /\ lfinal[l] = None /\ lnum[l] = 0
    BY DEF L!Init
  <2> QED BY <2>1 DEF ListSound, Nth
<1> QED BY <1>1, <1>2, <1>3 DEF L!Init, LinkInv

\* A list whose elements keep their links stays as it was.
LEMMA ListStays ==
  ASSUME NEW l \in llists, ListSound(l),
         lfirst'[l] = lfirst[l], lfinal'[l] = lfinal[l], lnum'[l] = lnum[l], lorder'[l] = lorder[l],
         \A i \in 1 .. Len(lorder[l]) :
           /\ lparent'[lorder[l][i]] = lparent[lorder[l][i]]
           /\ lnext'[lorder[l][i]] = lnext[lorder[l][i]]
           /\ lprev'[lorder[l][i]] = lprev[lorder[l][i]]
           /\ lorder[l][i] \in lelems'
  PROVE  ListSound(l)'
<1> DEFINE s == lorder[l]
<1> HIDE DEF s
<1>0. lorder[l] = s /\ lorder'[l] = s
  BY DEF s
<1>1. lfirst'[l] = Nth(s, 1) /\ lfinal'[l] = Nth(s, Len(s)) /\ lnum'[l] = Len(s)
  BY <1>0 DEF ListSound
<1>2. ASSUME NEW i \in 1 .. Len(s)
      PROVE  /\ lparent'[s[i]] = l /\ s[i] \in lelems'
             /\ lnext'[s[i]] = Nth(s, i + 1) /\ lprev'[s[i]] = Nth(s, i - 1)
  BY <1>0 DEF ListSound
<1>3. \A i, j \in 1 .. Len(s) : s[i] = s[j] => i = j
  BY <1>0 DEF ListSound
<1> QED BY <1>0, <1>1, <1>2, <1>3 DEF ListSound

\* t is s with e put in at place k.
PutAt(s, k, e, t) ==
  /\ t \in Seq(Elems) /\ Len(t) = Len(s) + 1
  /\ \A i \in 1 .. Len(t) : t[i] = IF i < k THEN s[i] ELSE IF i = k THEN e ELSE s[i - 1]

\* An element that is in no list comes between the neighbours of its new place.
LEMMA LinkedBetween ==
  ASSUME LinkInv, NEW l \in llists, NEW e \in lelems, lparent[e] = None,
         NEW k \in 1 .. Len(lorder[l]) + 1, NEW t, PutAt(lorder[l], k, e, t),
         L!Between(l, Nth(lorder[l], k - 1), e, Nth(lorder[l], k)),
         lorder' = [lorder EXCEPT ![l] = t]
  PROVE  LinkInv'
<1> DEFINE s == lorder[l]
           before == Nth(s, k - 1)
           after == Nth(s, k)
<1> HIDE DEF s, before, after
<1>0. lorder[l] = s /\ Nth(lorder[l], k - 1) = before /\ Nth(lorder[l], k) = after
  BY DEF s, before, after
<1>1. LinkTyped /\ Named /\ l \in Lists /\ e \in Elems /\ l # None /\ ListSound(l)
  BY ContainersAssumption DEF LinkInv, LinkTyped
<1>2. s \in Seq(Elems) /\ Len(s) \in Nat /\ k \in 1 .. Len(s) + 1
      /\ (\A i \in 1 .. Len(s) : s[i] \in Elems /\ s[i] # None)
  BY <1>0, <1>1, ContainersAssumption DEF LinkTyped
<1>3. t \in Seq(Elems) /\ Len(t) = Len(s) + 1
      /\ \A i \in 1 .. Len(t) : t[i] = IF i < k THEN s[i] ELSE IF i = k THEN e ELSE s[i - 1]
  BY <1>0 DEF PutAt
<1>15. /\ t[k] = e /\ k \in 1 .. Len(t)
       /\ \A i \in 1 .. Len(s) : i < k => t[i] = s[i]
       /\ \A i \in 1 .. Len(s) : i >= k => t[i + 1] = s[i]
  BY <1>2, <1>3
<1>4. /\ lfirst[l] = Nth(s, 1) /\ lfinal[l] = Nth(s, Len(s)) /\ lnum[l] = Len(s)
      /\ \A i \in 1 .. Len(s) : lparent[s[i]] = l /\ s[i] \in lelems
           /\ lnext[s[i]] = Nth(s, i + 1) /\ lprev[s[i]] = Nth(s, i - 1)
      /\ \A i, j \in 1 .. Len(s) : s[i] = s[j] => i = j
  BY <1>0, <1>1 DEF ListSound
<1>5. \A i \in 1 .. Len(s) : s[i] # e
  BY <1>1, <1>4
<1>6. /\ lnext' = [x \in Elems |-> IF x = e THEN after ELSE IF x = before THEN e ELSE lnext[x]]
      /\ lprev' = [x \in Elems |-> IF x = e THEN before ELSE IF x = after THEN e ELSE lprev[x]]
      /\ lparent' = [lparent EXCEPT ![e] = l]
      /\ lfirst' = IF before = None THEN [lfirst EXCEPT ![l] = e] ELSE lfirst
      /\ lfinal' = IF after = None THEN [lfinal EXCEPT ![l] = e] ELSE lfinal
      /\ lnum' = [lnum EXCEPT ![l] = @ + 1]
      /\ llists' = llists /\ lelems' = lelems
  BY <1>0 DEF L!Between, L!modes
<1>7. /\ before = IF k = 1 THEN None ELSE s[k - 1]
      /\ after = IF k = Len(s) + 1 THEN None ELSE s[k]
      /\ before \in Elems \cup {None} /\ after \in Elems \cup {None}
      /\ before = None <=> k = 1
      /\ after = None <=> k = Len(s) + 1
      /\ before # None => lparent[before] = l
      /\ after # None => lparent[after] = l
  <2>1. before = IF k = 1 THEN None ELSE s[k - 1]
    BY <1>0, <1>2 DEF Nth
  <2>2. after = IF k = Len(s) + 1 THEN None ELSE s[k]
    BY <1>0, <1>2 DEF Nth
  <2>3. k # 1 => k - 1 \in 1 .. Len(s)
    BY <1>2
  <2>4. k # Len(s) + 1 => k \in 1 .. Len(s)
    BY <1>2
  <2> QED BY <1>2, <1>4, <2>1, <2>2, <2>3, <2>4
<1>8. e # None /\ (\A x \in Elems : x # None) /\ before # e /\ after # e
  BY <1>1, <1>2, <1>5, <1>7, ContainersAssumption
<1>9. LinkTyped'
  <2>1. lnext' \in [Elems -> Elems \cup {None}] /\ lprev' \in [Elems -> Elems \cup {None}]
    BY <1>1, <1>6, <1>7 DEF LinkTyped
  <2>2. lparent' \in [Elems -> Lists \cup {None}] /\ lnum' \in [Lists -> Int]
    BY <1>1, <1>6 DEF LinkTyped
  <2>3. lfirst' \in [Lists -> Elems \cup {None}] /\ lfinal' \in [Lists -> Elems \cup {None}]
    BY <1>1, <1>6 DEF LinkTyped
  <2>4. lorder' \in [Lists -> Seq(Elems)]
    BY <1>1, <1>3 DEF LinkTyped
  <2> QED BY <1>1, <1>6, <2>1, <2>2, <2>3, <2>4 DEF LinkTyped
<1>10. lorder'[l] = t /\ \A m \in Lists \ {l} : lorder'[m] = lorder[m]
  BY <1>1 DEF LinkTyped
<1>11. Named'
  <2> SUFFICES ASSUME NEW x \in Elems, lparent'[x] # None
               PROVE  lparent'[x] \in llists'
                      /\ \E i \in 1 .. Len(lorder'[lparent'[x]]) : lorder'[lparent'[x]][i] = x
    BY DEF Named
  <2>1. CASE x = e
    <3>1. lparent'[x] = l
      BY <1>1, <1>6, <2>1 DEF LinkTyped
    <3>2. k \in 1 .. Len(t) /\ t[k] = e
      BY <1>2, <1>3
    <3> QED BY <1>6, <1>10, <2>1, <3>1, <3>2
  <2>2. CASE x # e
    <3>1. lparent'[x] = lparent[x]
      BY <1>1, <1>6, <2>2 DEF LinkTyped
    <3>2. lparent[x] \in llists /\ lparent[x] \in Lists
      BY <1>1, <3>1 DEF Named, LinkTyped
    <3>3. PICK i \in 1 .. Len(lorder[lparent[x]]) : lorder[lparent[x]][i] = x
      BY <1>1, <3>1 DEF Named
    <3>4. CASE lparent[x] = l
      <4>1. i \in 1 .. Len(s) /\ s[i] = x
        BY <1>0, <3>3, <3>4
      <4>2. CASE i < k
        <5>1. i \in 1 .. Len(t) /\ t[i] = x
          BY <1>2, <1>3, <4>1, <4>2
        <5> QED BY <1>6, <1>10, <3>1, <3>4, <5>1
      <4>3. CASE ~(i < k)
        <5>1. i + 1 \in 1 .. Len(t) /\ t[i + 1] = x
          BY <1>2, <1>3, <4>1, <4>3
        <5> QED BY <1>6, <1>10, <3>1, <3>4, <5>1
      <4> QED BY <4>2, <4>3
    <3>5. CASE lparent[x] # l
      BY <1>6, <1>10, <3>1, <3>2, <3>3, <3>5
    <3> QED BY <3>4, <3>5
  <2> QED BY <2>1, <2>2
<1>12. ASSUME NEW m \in llists, m # l PROVE ListSound(m)'
  <2>1. m \in Lists /\ ListSound(m) /\ lorder[m] \in Seq(Elems)
    BY DEF LinkInv, LinkTyped
  <2>2. ASSUME NEW i \in 1 .. Len(lorder[m])
        PROVE  /\ lparent'[lorder[m][i]] = lparent[lorder[m][i]]
               /\ lnext'[lorder[m][i]] = lnext[lorder[m][i]]
               /\ lprev'[lorder[m][i]] = lprev[lorder[m][i]]
               /\ lorder[m][i] \in lelems'
    <3> DEFINE x == lorder[m][i]
    <3>1. x \in Elems /\ lparent[x] = m /\ x \in lelems /\ x # None
      BY <2>1, ContainersAssumption DEF ListSound
    <3>2. m # None
      BY <2>1, ContainersAssumption
    <3>3. x # e /\ x # before /\ x # after
      BY <1>7, <1>12, <3>1, <3>2
    <3> HIDE DEF x
    <3>4. lparent'[x] = lparent[x] /\ lnext'[x] = lnext[x] /\ lprev'[x] = lprev[x] /\ x \in lelems'
      BY <1>1, <1>6, <3>1, <3>3 DEF LinkTyped
    <3> QED BY <3>4 DEF x
  <2>3. lfirst'[m] = lfirst[m] /\ lfinal'[m] = lfinal[m] /\ lnum'[m] = lnum[m] /\ lorder'[m] = lorder[m]
    BY <1>1, <1>6, <1>10, <1>12, <2>1 DEF LinkTyped
  <2> QED BY <2>1, <2>2, <2>3, ListStays
<1>13. ListSound(l)'
  <2>1. lfirst'[l] = Nth(t, 1)
    <3>1. CASE k = 1
      <4>1. lfirst'[l] = e
        BY <1>1, <1>6, <1>7, <3>1 DEF LinkTyped
      <4> QED BY <1>15, <3>1, <4>1 DEF Nth
    <3>2. CASE k # 1
      <4>1. lfirst'[l] = Nth(s, 1)
        BY <1>4, <1>6, <1>7, <3>2
      <4>2. 1 \in 1 .. Len(s) /\ 1 < k /\ 1 \in 1 .. Len(t)
        BY <1>2, <1>3, <3>2
      <4> QED BY <1>15, <4>1, <4>2 DEF Nth
    <3> QED BY <3>1, <3>2
  <2>2. lfinal'[l] = Nth(t, Len(t))
    <3>1. CASE k = Len(s) + 1
      <4>1. lfinal'[l] = e
        BY <1>1, <1>6, <1>7, <3>1 DEF LinkTyped
      <4>2. k = Len(t)
        BY <1>3, <3>1
      <4> QED BY <1>15, <4>1, <4>2 DEF Nth
    <3>2. CASE k # Len(s) + 1
      <4>1. Len(s) \in 1 .. Len(s) /\ Len(s) >= k /\ Len(t) = Len(s) + 1 /\ Len(t) \in 1 .. Len(t)
        BY <1>2, <1>3, <3>2
      <4>2. Nth(t, Len(t)) = s[Len(s)] /\ Nth(s, Len(s)) = s[Len(s)]
        BY <1>15, <4>1 DEF Nth
      <4> QED BY <1>4, <1>6, <1>7, <3>2, <4>2
    <3> QED BY <3>1, <3>2
  <2>3. lnum'[l] = Len(t)
    BY <1>1, <1>3, <1>4, <1>6 DEF LinkTyped
  <2>4. ASSUME NEW i \in 1 .. Len(t)
        PROVE  /\ lparent'[t[i]] = l /\ t[i] \in lelems'
               /\ lnext'[t[i]] = Nth(t, i + 1)
               /\ lprev'[t[i]] = Nth(t, i - 1)
    <3>1. CASE i = k
      <4>1. t[i] = e
        BY <1>3, <3>1
      <4>2. lparent'[e] = l /\ lnext'[e] = after /\ lprev'[e] = before /\ e \in lelems'
        BY <1>1, <1>6 DEF LinkTyped
      <4>3. after = Nth(t, i + 1)
        BY <1>2, <1>3, <1>7, <3>1 DEF Nth
      <4>4. before = Nth(t, i - 1)
        BY <1>2, <1>3, <1>7, <3>1 DEF Nth
      <4> QED BY <4>1, <4>2, <4>3, <4>4
    <3>2. CASE i < k
      <4>1. t[i] = s[i] /\ i \in 1 .. Len(s)
        BY <1>2, <1>3, <3>2
      <4>2. s[i] \in Elems /\ s[i] # e /\ s[i] # after
        <5>1. after = None \/ (k \in 1 .. Len(s) /\ after = s[k] /\ i # k)
          BY <1>2, <1>7, <3>2
        <5> QED BY <1>2, <1>4, <1>5, <4>1, <5>1
      <4>3. lparent'[s[i]] = l /\ s[i] \in lelems' /\ lprev'[s[i]] = Nth(s, i - 1)
        BY <1>1, <1>4, <1>6, <4>1, <4>2 DEF LinkTyped
      <4>4. Nth(s, i - 1) = Nth(t, i - 1)
        BY <1>2, <1>3, <3>2 DEF Nth
      <4>5. lnext'[s[i]] = Nth(t, i + 1)
        <5>1. CASE i = k - 1
          <6>1. s[i] = before
            BY <1>2, <1>7, <4>1, <5>1
          <6>2. Nth(t, i + 1) = e
            BY <1>2, <1>3, <5>1 DEF Nth
          <6> QED BY <1>6, <4>2, <6>1, <6>2
        <5>2. CASE i # k - 1
          <6>1. s[i] # before
            <7>1. before = None \/ (k - 1 \in 1 .. Len(s) /\ before = s[k - 1] /\ i # k - 1)
              BY <1>2, <1>7, <5>2
            <7> QED BY <1>2, <1>4, <4>1, <7>1
          <6>2. Nth(t, i + 1) = Nth(s, i + 1)
            BY <1>2, <1>3, <3>2, <5>2 DEF Nth
          <6> QED BY <1>4, <1>6, <4>1, <4>2, <6>1, <6>2
        <5> QED BY <5>1, <5>2
      <4> QED BY <4>1, <4>3, <4>4, <4>5
    <3>3. CASE i > k
      <4> DEFINE j == i - 1
      <4>1. t[i] = s[j] /\ j \in 1 .. Len(s) /\ j >= k
        BY <1>2, <1>3, <3>3
      <4>2. s[j] \in Elems /\ s[j] # e /\ s[j] # before
        <5>1. before = None \/ (k - 1 \in 1 .. Len(s) /\ before = s[k - 1] /\ j # k - 1)
          BY <1>2, <1>7, <4>1
        <5> QED BY <1>2, <1>4, <1>5, <4>1, <5>1
      <4>3. lparent'[s[j]] = l /\ s[j] \in lelems' /\ lnext'[s[j]] = Nth(s, j + 1)
        BY <1>1, <1>4, <1>6, <4>1, <4>2 DEF LinkTyped
      <4>4. Nth(s, j + 1) = Nth(t, i + 1)
        <5>1. j + 1 = i /\ i \in Nat /\ i >= k
          BY <3>3
        <5>2. i \in 1 .. Len(s) <=> i + 1 \in 1 .. Len(t)
          BY <1>2, <1>3
        <5>3. i \in 1 .. Len(s) => t[i + 1] = s[i]
          BY <1>15, <5>1
        <5> HIDE DEF j
        <5> QED BY <5>1, <5>2, <5>3 DEF Nth
      <4>5. lprev'[s[j]] = Nth(t, i - 1)
        <5>1. CASE j = k
          <6>1. s[j] = after
            BY <1>2, <1>7, <4>1, <5>1
          <6>2. Nth(t, i - 1) = e
            BY <1>2, <1>3, <5>1 DEF Nth
          <6> QED BY <1>6, <4>2, <6>1, <6>2
        <5>2. CASE j # k
          <6>1. s[j] # after
            <7>1. after = None \/ (k \in 1 .. Len(s) /\ after = s[k] /\ j # k)
              BY <1>2, <1>7, <5>2
            <7> QED BY <1>2, <1>4, <4>1, <7>1
          <6>2. Nth(t, i - 1) = Nth(s, j - 1)
            BY <1>2, <1>3, <3>3, <5>2 DEF Nth
          <6> QED BY <1>4, <1>6, <4>1, <4>2, <6>1, <6>2
        <5> QED BY <5>1, <5>2
      <4> QED BY <4>1, <4>3, <4>4, <4>5
    <3> QED BY <1>2, <3>1, <3>2, <3>3
  <2>5. ASSUME NEW i \in 1 .. Len(t), NEW j \in 1 .. Len(t), t[i] = t[j]
        PROVE  i = j
    <3>0. k \in Int
      BY <1>2
    <3> DEFINE From(q) == IF q < k THEN q ELSE q - 1
    <3>1. ASSUME NEW q \in 1 .. Len(t), q # k
          PROVE  From(q) \in 1 .. Len(s) /\ t[q] = s[From(q)]
      BY <1>2, <1>3, <3>1
    <3>2. \A p, q \in 1 .. Len(t) : p # k /\ q # k /\ From(p) = From(q) => p = q
      BY ONLY <3>0
    <3> HIDE DEF From
    <3>5. ASSUME NEW q \in 1 .. Len(t), q # k PROVE t[q] # t[k]
      BY <1>5, <1>15, <3>1, <3>5
    <3>3. CASE i = k \/ j = k
      <4>1. CASE i = k
        BY <2>5, <3>5, <4>1
      <4>2. CASE j = k
        <5>1. t[i] = t[k]
          BY <2>5, <4>2
        <5> QED BY <3>5, <4>2, <5>1
      <4> QED BY <3>3, <4>1, <4>2
    <3>4. CASE i # k /\ j # k
      <4>1. From(i) \in 1 .. Len(s) /\ From(j) \in 1 .. Len(s) /\ s[From(i)] = s[From(j)]
        BY <2>5, <3>1, <3>4
      <4>2. From(i) = From(j)
        BY <1>4, <4>1
      <4> QED BY <3>2, <3>4, <4>2
    <3> QED BY <3>3, <3>4
  <2>6. lorder'[l] = t
    BY <1>10
  <2> HIDE DEF ListSound
  <2> QED BY ONLY <2>1, <2>2, <2>3, <2>4, <2>5, <2>6 DEF ListSound
<1>14. ASSUME NEW m \in Lists \ llists' PROVE lorder'[m] = <<>>
  <2>1. m # l /\ lorder[m] = <<>>
    BY <1>6 DEF LinkInv
  <2> QED BY <1>10, <2>1
<1> QED BY <1>6, <1>9, <1>11, <1>12, <1>13, <1>14 DEF LinkInv

\* Where the order of a list puts the element it is asked for.
LEMMA PlaceOf ==
  ASSUME LinkInv, NEW l \in llists, NEW pos \in Elems, lparent[pos] = l
  PROVE  \E k \in 1 .. Len(lorder[l]) :
           /\ lorder[l][k] = pos /\ {i \in 1 .. Len(lorder[l]) : lorder[l][i] = pos} = {k}
           /\ \A i \in 1 .. Len(lorder[l]) : lorder[l][i] = lorder[l][k] => i = k
           /\ lnext[pos] = Nth(lorder[l], k + 1) /\ lprev[pos] = Nth(lorder[l], k - 1)
<1>1. l \in Lists /\ l # None /\ ListSound(l) /\ Named /\ Len(lorder[l]) \in Nat
  BY ContainersAssumption DEF LinkInv, LinkTyped
<1>2. PICK k \in 1 .. Len(lorder[l]) : lorder[l][k] = pos
  BY <1>1 DEF Named
<1>3. \A i \in 1 .. Len(lorder[l]) : lorder[l][i] = lorder[l][k] => i = k
  BY <1>1 DEF ListSound
<1>4. {i \in 1 .. Len(lorder[l]) : lorder[l][i] = pos} = {k}
  BY <1>2, <1>3
<1>5. lnext[pos] = Nth(lorder[l], k + 1) /\ lprev[pos] = Nth(lorder[l], k - 1)
  BY <1>1, <1>2 DEF ListSound
<1> QED BY <1>2, <1>3, <1>4, <1>5

LEMMA InsertAtPuts ==
  ASSUME NEW s \in Seq(Elems), NEW e \in Elems, NEW k \in 1 .. Len(s) + 1
  PROVE  PutAt(s, k, e, L!InsertAt(s, k, e))
BY InsertedAt DEF PutAt

LEMMA InFrontPuts ==
  ASSUME NEW s \in Seq(Elems), NEW e \in Elems
  PROVE  PutAt(s, 1, e, <<e>> \o s)
<1> DEFINE u == <<e>>
           t == u \o s
<1>1. u \in Seq(Elems) /\ Len(u) = 1 /\ u[1] = e
  OBVIOUS
<1>2. t = u \o s
  OBVIOUS
<1> HIDE DEF u, t
<1>3. /\ t \in Seq(Elems) /\ Len(t) = Len(u) + Len(s)
      /\ \A i \in 1 .. Len(t) : t[i] = IF i <= Len(u) THEN u[i] ELSE s[i - Len(u)]
  <2>1. u \in Seq(Elems)
    BY <1>1
  <2> QED BY ONLY <1>2, <2>1, s \in Seq(Elems), Joined
<1>4. ASSUME NEW i \in 1 .. Len(t)
      PROVE  t[i] = IF i < 1 THEN s[i] ELSE IF i = 1 THEN e ELSE s[i - 1]
  BY <1>1, <1>3
<1>5. Len(t) = Len(s) + 1
  BY <1>1, <1>3
<1>6. PutAt(s, 1, e, t)
  BY <1>3, <1>4, <1>5 DEF PutAt
<1> QED BY <1>6, Zenon DEF t, u

LEMMA AddKeepsLinks ==
  ASSUME LinkInv, NEW l \in Lists, NEW e \in Elems, NEW pos \in Elems,
         L!Add(l, e) \/ L!AddFirst(l, e) \/ L!AddAfter(l, pos, e) \/ L!AddBefore(l, pos, e)
  PROVE  LinkInv'
<1> DEFINE s == lorder[l]
<1>1. l \in llists /\ e \in lelems /\ lparent[e] = None
  BY DEF L!Add, L!AddFirst, L!AddAfter, L!AddBefore, L!Addable
<1>2. s \in Seq(Elems) /\ Len(s) \in Nat /\ ListSound(l) /\ lorder \in [Lists -> Seq(Elems)]
  BY <1>1 DEF LinkInv, LinkTyped
<1>3. ASSUME L!Add(l, e) PROVE LinkInv'
  <2> DEFINE k == Len(s) + 1
             t == Append(s, e)
  <2>1. k \in 1 .. Len(s) + 1
    BY <1>2
  <2>2. PutAt(s, k, e, t)
    BY <1>2 DEF PutAt
  <2>3. Nth(s, k - 1) = lfinal[l] /\ Nth(s, k) = None
    <3>1. lfinal[l] = Nth(s, Len(s)) /\ k - 1 = Len(s) /\ k \notin 1 .. Len(s)
      BY <1>2 DEF ListSound
    <3> QED BY <3>1 DEF Nth
  <2>4. lorder' = [lorder EXCEPT ![l] = t]
    BY <1>3, Zenon DEF L!Add
  <2>5. L!Between(l, lfinal[l], e, None)
    BY <1>3, Zenon DEF L!Add
  <2> HIDE DEF k, t
  <2>6. L!Between(l, Nth(lorder[l], k - 1), e, Nth(lorder[l], k))
    BY <2>3, <2>5, Zenon
  <2> QED BY ONLY LinkInv, <1>1, <2>1, <2>2, <2>4, <2>6, LinkedBetween
<1>4. ASSUME L!AddFirst(l, e) PROVE LinkInv'
  <2> DEFINE t == <<e>> \o s
  <2>1. 1 \in 1 .. Len(s) + 1
    BY <1>2
  <2>2. PutAt(s, 1, e, t)
    BY <1>2, InFrontPuts
  <2>3. Nth(s, 1 - 1) = None /\ Nth(s, 1) = lfirst[l]
    BY <1>2 DEF ListSound, Nth
  <2>4. lorder' = [lorder EXCEPT ![l] = t]
    BY <1>4, Zenon DEF L!AddFirst
  <2>5. L!Between(l, None, e, lfirst[l])
    BY <1>4, Zenon DEF L!AddFirst
  <2> HIDE DEF t
  <2>6. L!Between(l, Nth(lorder[l], 1 - 1), e, Nth(lorder[l], 1))
    BY <2>3, <2>5, Zenon
  <2> QED BY ONLY LinkInv, <1>1, <2>1, <2>2, <2>4, <2>6, LinkedBetween
<1>5. ASSUME NEW k \in 1 .. Len(s) + 1, NEW before, NEW after,
             before = Nth(s, k - 1), after = Nth(s, k), L!Between(l, before, e, after),
             lorder' = [lorder EXCEPT ![l] = L!InsertAt(s, k, e)]
      PROVE  LinkInv'
  <2> DEFINE t == L!InsertAt(s, k, e)
  <2>1. PutAt(s, k, e, t)
    BY <1>2, InsertAtPuts
  <2>2. L!Between(l, Nth(lorder[l], k - 1), e, Nth(lorder[l], k))
    BY <1>5, Zenon
  <2>3. lorder' = [lorder EXCEPT ![l] = t]
    BY <1>5
  <2> HIDE DEF t
  <2> QED BY ONLY LinkInv, <1>1, <1>5, <2>1, <2>2, <2>3, LinkedBetween
<1>6. ASSUME L!AddAfter(l, pos, e) PROVE LinkInv'
  <2>1. lparent[pos] = l
    BY <1>6 DEF L!AddAfter
  <2>2. PICK k \in 1 .. Len(s) : /\ {i \in 1 .. Len(s) : s[i] = pos} = {k}
                                 /\ s[k] = pos /\ lnext[pos] = Nth(s, k + 1)
    BY <1>1, <2>1, PlaceOf
  <2>3. /\ L!Between(l, pos, e, lnext[pos])
        /\ lorder' = [lorder EXCEPT ![l] = L!InsertAt(s, k + 1, e)]
    <3>1. L!Min({k}) = k
      BY DEF L!Min
    <3> QED BY <1>6, <2>2, <3>1 DEF L!AddAfter, L!SelectInSeq
  <2>4. k + 1 \in 1 .. Len(s) + 1 /\ (k + 1) - 1 = k
    BY <1>2
  <2>5. pos = Nth(s, (k + 1) - 1)
    BY <2>2, <2>4 DEF Nth
  <2> QED BY <1>5, <2>2, <2>3, <2>4, <2>5, Zenon
<1>7. ASSUME L!AddBefore(l, pos, e) PROVE LinkInv'
  <2>1. lparent[pos] = l
    BY <1>7 DEF L!AddBefore
  <2>2. PICK k \in 1 .. Len(s) : /\ {i \in 1 .. Len(s) : s[i] = pos} = {k}
                                 /\ s[k] = pos /\ lprev[pos] = Nth(s, k - 1)
    BY <1>1, <2>1, PlaceOf
  <2>3. /\ L!Between(l, lprev[pos], e, pos)
        /\ lorder' = [lorder EXCEPT ![l] = L!InsertAt(s, k, e)]
    <3>1. L!Min({k}) = k
      BY DEF L!Min
    <3> QED BY <1>7, <2>2, <3>1 DEF L!AddBefore, L!SelectInSeq
  <2>4. k \in 1 .. Len(s) + 1 /\ pos = Nth(s, k)
    BY <1>2, <2>2 DEF Nth
  <2> QED BY <1>5, <2>2, <2>3, <2>4, Zenon
<1> QED BY <1>3, <1>4, <1>6, <1>7

\* The neighbours of an element that leaves are linked to each other.
LEMMA UnlinkedKeeps ==
  ASSUME LinkInv, NEW l \in llists, NEW e \in lelems, lparent[e] = l,
         L!Unlinked(l, e), llists' = llists, lelems' \in {lelems, lelems \ {e}}
  PROVE  LinkInv'
<1> DEFINE s == lorder[l]
           t == L!RemoveFirst(s, e)
           before == lprev[e]
           after == lnext[e]
<1>1. LinkTyped /\ Named /\ l \in Lists /\ e \in Elems /\ l # None /\ ListSound(l)
  BY ContainersAssumption DEF LinkInv, LinkTyped
<1>2. s \in Seq(Elems) /\ Len(s) \in Nat /\ (\A i \in 1 .. Len(s) : s[i] \in Elems /\ s[i] # None)
  BY <1>1, ContainersAssumption DEF LinkTyped
<1>3. PICK k \in 1 .. Len(s) : s[k] = e /\ (\A i \in 1 .. Len(s) : s[i] = s[k] => i = k)
                               /\ after = Nth(s, k + 1) /\ before = Nth(s, k - 1)
  BY <1>1, PlaceOf
<1>4. t = L!RemoveAt(s, k)
  <2>1. L!RemoveFirst(s, s[k]) = L!RemoveAt(s, k)
    BY <1>2, <1>3, RemovedFirst
  <2> QED BY <1>3, <2>1
<1>5. /\ lnext' = [x \in Elems |-> IF x = e THEN None ELSE IF x = before THEN after ELSE lnext[x]]
      /\ lprev' = [x \in Elems |-> IF x = e THEN None ELSE IF x = after THEN before ELSE lprev[x]]
      /\ lparent' = [lparent EXCEPT ![e] = None]
      /\ lfirst' = IF before = None THEN [lfirst EXCEPT ![l] = after] ELSE lfirst
      /\ lfinal' = IF after = None THEN [lfinal EXCEPT ![l] = before] ELSE lfinal
      /\ lnum' = [lnum EXCEPT ![l] = @ - 1]
      /\ lorder' = [lorder EXCEPT ![l] = t]
  BY Zenon DEF L!Unlinked
<1> HIDE DEF s, t, before, after
<1>0. lorder[l] = s
  BY DEF s
<1>6. t \in Seq(Elems) /\ Len(t) = Len(s) - 1
      /\ \A i \in 1 .. Len(t) : t[i] = IF i < k THEN s[i] ELSE s[i + 1]
  BY <1>2, <1>4, RemovedAt
<1>7. /\ lfirst[l] = Nth(s, 1) /\ lfinal[l] = Nth(s, Len(s)) /\ lnum[l] = Len(s)
      /\ \A i \in 1 .. Len(s) : lparent[s[i]] = l /\ s[i] \in lelems
           /\ lnext[s[i]] = Nth(s, i + 1) /\ lprev[s[i]] = Nth(s, i - 1)
  BY <1>0, <1>1 DEF ListSound
<1>8. \A i, j \in 1 .. Len(s) : s[i] = s[j] => i = j
  BY <1>0, <1>1 DEF ListSound
<1>9. /\ before = IF k = 1 THEN None ELSE s[k - 1]
      /\ after = IF k = Len(s) THEN None ELSE s[k + 1]
      /\ before \in Elems \cup {None} /\ after \in Elems \cup {None}
      /\ before = None <=> k = 1
      /\ after = None <=> k = Len(s)
      /\ before # None => lparent[before] = l /\ before # e
      /\ after # None => lparent[after] = l /\ after # e
  <2>1. before = IF k = 1 THEN None ELSE s[k - 1]
    BY <1>2, <1>3 DEF Nth
  <2>2. after = IF k = Len(s) THEN None ELSE s[k + 1]
    BY <1>2, <1>3 DEF Nth
  <2>3. k # 1 => k - 1 \in 1 .. Len(s) /\ k - 1 # k
    BY <1>2
  <2>4. k # Len(s) => k + 1 \in 1 .. Len(s) /\ k + 1 # k
    BY <1>2
  <2> QED BY <1>2, <1>3, <1>7, <2>1, <2>2, <2>3, <2>4
<1>10. /\ \A i \in 1 .. Len(s) : i < k => i \in 1 .. Len(t) /\ t[i] = s[i]
       /\ \A i \in 1 .. Len(s) : i > k => i - 1 \in 1 .. Len(t) /\ t[i - 1] = s[i]
  BY <1>2, <1>6
<1>11. lorder'[l] = t /\ \A m \in Lists \ {l} : lorder'[m] = lorder[m]
  BY <1>1, <1>5 DEF LinkTyped
<1>12. LinkTyped'
  <2>1. lnext' \in [Elems -> Elems \cup {None}] /\ lprev' \in [Elems -> Elems \cup {None}]
    BY <1>1, <1>5, <1>9 DEF LinkTyped
  <2>2. lparent' \in [Elems -> Lists \cup {None}] /\ lnum' \in [Lists -> Int]
    BY <1>1, <1>5 DEF LinkTyped
  <2>3. lfirst' \in [Lists -> Elems \cup {None}] /\ lfinal' \in [Lists -> Elems \cup {None}]
    BY <1>1, <1>5, <1>9 DEF LinkTyped
  <2>4. lorder' \in [Lists -> Seq(Elems)]
    BY <1>1, <1>5, <1>6 DEF LinkTyped
  <2>5. llists' \subseteq Lists /\ lelems' \subseteq Elems
    BY <1>1 DEF LinkTyped
  <2> QED BY <2>1, <2>2, <2>3, <2>4, <2>5 DEF LinkTyped
<1>13. Named'
  <2> SUFFICES ASSUME NEW x \in Elems, lparent'[x] # None
               PROVE  lparent'[x] \in llists'
                      /\ \E i \in 1 .. Len(lorder'[lparent'[x]]) : lorder'[lparent'[x]][i] = x
    BY DEF Named
  <2>1. x # e /\ lparent'[x] = lparent[x]
    BY <1>1, <1>5 DEF LinkTyped
  <2>2. lparent[x] \in llists /\ lparent[x] \in Lists
    BY <1>1, <2>1 DEF Named, LinkTyped
  <2>3. PICK i \in 1 .. Len(lorder[lparent[x]]) : lorder[lparent[x]][i] = x
    BY <1>1, <2>1 DEF Named
  <2>4. CASE lparent[x] = l
    <3>1. i \in 1 .. Len(s) /\ s[i] = x /\ i # k
      BY <1>0, <1>3, <2>1, <2>3, <2>4
    <3>2. \E j \in 1 .. Len(t) : t[j] = x
      <4>1. i < k \/ i > k
        BY <1>2, <3>1
      <4> QED BY <1>10, <3>1, <4>1
    <3> QED BY <1>11, <2>1, <2>4, <3>2
  <2>5. CASE lparent[x] # l
    BY <1>11, <2>1, <2>2, <2>3, <2>5
  <2> QED BY <2>4, <2>5
<1>14. ASSUME NEW m \in llists, m # l PROVE ListSound(m)'
  <2>1. m \in Lists /\ ListSound(m) /\ lorder[m] \in Seq(Elems)
    BY DEF LinkInv, LinkTyped
  <2>2. ASSUME NEW i \in 1 .. Len(lorder[m])
        PROVE  /\ lparent'[lorder[m][i]] = lparent[lorder[m][i]]
               /\ lnext'[lorder[m][i]] = lnext[lorder[m][i]]
               /\ lprev'[lorder[m][i]] = lprev[lorder[m][i]]
               /\ lorder[m][i] \in lelems'
    <3> DEFINE x == lorder[m][i]
    <3>1. x \in Elems /\ lparent[x] = m /\ x \in lelems /\ x # None
      BY <2>1, ContainersAssumption DEF ListSound
    <3>2. x # e /\ x # before /\ x # after
      BY <1>9, <1>14, <3>1
    <3> HIDE DEF x
    <3>3. lparent'[x] = lparent[x] /\ lnext'[x] = lnext[x] /\ lprev'[x] = lprev[x] /\ x \in lelems'
      BY <1>1, <1>5, <3>1, <3>2 DEF LinkTyped
    <3> QED BY <3>3 DEF x
  <2>3. lfirst'[m] = lfirst[m] /\ lfinal'[m] = lfinal[m] /\ lnum'[m] = lnum[m] /\ lorder'[m] = lorder[m]
    BY <1>1, <1>5, <1>11, <1>14, <2>1 DEF LinkTyped
  <2> QED BY <2>1, <2>2, <2>3, ListStays
<1>15. ListSound(l)'
  <2>1. lfirst'[l] = Nth(t, 1)
    <3>1. CASE k = 1
      <4>1. Nth(t, 1) = after
        BY <1>2, <1>6, <1>9, <3>1 DEF Nth
      <4> QED BY <1>1, <1>5, <1>9, <3>1, <4>1 DEF LinkTyped
    <3>2. CASE k # 1
      <4>1. Nth(t, 1) = Nth(s, 1)
        BY <1>2, <1>6, <3>2 DEF Nth
      <4> QED BY <1>5, <1>7, <1>9, <3>2, <4>1
    <3> QED BY <3>1, <3>2
  <2>2. lfinal'[l] = Nth(t, Len(t))
    <3>1. CASE k = Len(s)
      <4>1. Nth(t, Len(t)) = before
        BY <1>2, <1>6, <1>9, <3>1 DEF Nth
      <4> QED BY <1>1, <1>5, <1>9, <3>1, <4>1 DEF LinkTyped
    <3>2. CASE k # Len(s)
      <4>1. Len(s) \in 1 .. Len(s) /\ Len(s) > k /\ Len(t) = Len(s) - 1
        BY <1>2, <1>6, <3>2
      <4>2. Nth(t, Len(t)) = Nth(s, Len(s))
        BY <1>10, <4>1 DEF Nth
      <4> QED BY <1>5, <1>7, <1>9, <3>2, <4>2
    <3> QED BY <3>1, <3>2
  <2>3. lnum'[l] = Len(t)
    BY <1>1, <1>5, <1>6, <1>7 DEF LinkTyped
  <2>4. ASSUME NEW i \in 1 .. Len(s), i # k
        PROVE  s[i] # e /\ s[i] \in lelems' /\ lparent'[s[i]] = l
    <3>1. s[i] # e /\ s[i] \in Elems /\ s[i] \in lelems /\ lparent[s[i]] = l
      BY <1>2, <1>3, <1>7, <2>4
    <3> QED BY <1>1, <1>5, <3>1 DEF LinkTyped
  <2>5. ASSUME NEW i \in 1 .. Len(s), i # k
        PROVE  lnext'[s[i]] = IF i = k - 1 THEN after ELSE Nth(s, i + 1)
    <3>1. s[i] # e /\ s[i] \in Elems
      BY <1>2, <2>4, <2>5
    <3>2. s[i] = before <=> i = k - 1
      <4>1. k # 1 => k - 1 \in 1 .. Len(s)
        BY <1>2
      <4>2. k = 1 => i # k - 1
        OBVIOUS
      <4> QED BY <1>2, <1>8, <1>9, <4>1, <4>2
    <3> QED BY <1>5, <1>7, <3>1, <3>2
  <2>6. ASSUME NEW i \in 1 .. Len(s), i # k
        PROVE  lprev'[s[i]] = IF i = k + 1 THEN before ELSE Nth(s, i - 1)
    <3>1. s[i] # e /\ s[i] \in Elems
      BY <1>2, <2>4, <2>6
    <3>2. s[i] = after <=> i = k + 1
      <4>1. k # Len(s) => k + 1 \in 1 .. Len(s)
        BY <1>2
      <4>2. k = Len(s) => i # k + 1
        BY <1>2
      <4> QED BY <1>2, <1>8, <1>9, <4>1, <4>2
    <3> QED BY <1>5, <1>7, <3>1, <3>2
  <2>7. ASSUME NEW i \in 1 .. Len(t)
        PROVE  /\ lparent'[t[i]] = l /\ t[i] \in lelems'
               /\ lnext'[t[i]] = Nth(t, i + 1)
               /\ lprev'[t[i]] = Nth(t, i - 1)
    <3>1. CASE i < k
      <4>1. t[i] = s[i] /\ i \in 1 .. Len(s) /\ i # k /\ i # k + 1
        BY <1>2, <1>6, <3>1
      <4>2. lprev'[t[i]] = Nth(s, i - 1)
        BY <2>6, <4>1
      <4>3. Nth(s, i - 1) = Nth(t, i - 1)
        BY <1>2, <1>6, <3>1 DEF Nth
      <4>4. CASE i = k - 1
        <5>1. lnext'[t[i]] = after
          BY <2>5, <4>1, <4>4
        <5>2. after = Nth(t, i + 1)
          BY <1>2, <1>6, <1>9, <4>4 DEF Nth
        <5> QED BY <2>4, <4>1, <4>2, <4>3, <5>1, <5>2
      <4>5. CASE i # k - 1
        <5>1. lnext'[t[i]] = Nth(s, i + 1)
          BY <2>5, <4>1, <4>5
        <5>2. Nth(s, i + 1) = Nth(t, i + 1)
          BY <1>2, <1>6, <3>1, <4>5 DEF Nth
        <5> QED BY <2>4, <4>1, <4>2, <4>3, <5>1, <5>2
      <4> QED BY <4>4, <4>5
    <3>2. CASE i >= k
      <4> DEFINE j == i + 1
      <4>1. t[i] = s[j] /\ j \in 1 .. Len(s) /\ j # k /\ j # k - 1 /\ j - 1 = i
        BY <1>2, <1>6, <3>2
      <4>2. Nth(s, j + 1) = Nth(t, i + 1)
        <5>1. i + 1 \in 1 .. Len(t) => t[i + 1] = s[j + 1]
          BY <1>2, <1>6, <3>2
        <5>2. i + 1 \in 1 .. Len(t) <=> j + 1 \in 1 .. Len(s)
          BY <1>2, <1>6
        <5> HIDE DEF j
        <5> QED BY <5>1, <5>2 DEF Nth
      <4> HIDE DEF j
      <4>3. lnext'[t[i]] = Nth(s, j + 1)
        BY <2>5, <4>1
      <4>4. CASE i = k
        <5>1. lprev'[t[i]] = before
          <6>1. j = k + 1
            BY <4>1, <4>4
          <6> QED BY <2>6, <4>1, <6>1
        <5>2. before = Nth(t, i - 1)
          BY <1>2, <1>6, <1>9, <4>4 DEF Nth
        <5> QED BY <2>4, <4>1, <4>2, <4>3, <5>1, <5>2
      <4>5. CASE i # k
        <5>1. lprev'[t[i]] = Nth(s, i)
          <6>1. j # k + 1
            BY <4>1, <4>5
          <6> QED BY <2>6, <4>1, <6>1
        <5>2. Nth(s, i) = Nth(t, i - 1)
          <6>1. i \in 1 .. Len(s) /\ i > k
            BY <1>2, <1>6, <3>2, <4>5
          <6> QED BY <1>10, <6>1 DEF Nth
        <5> QED BY <2>4, <4>1, <4>2, <4>3, <5>1, <5>2
      <4> QED BY <4>4, <4>5
    <3> QED BY <1>2, <3>1, <3>2
  <2>8. ASSUME NEW i \in 1 .. Len(t), NEW j \in 1 .. Len(t), t[i] = t[j]
        PROVE  i = j
    <3> DEFINE From(q) == IF q < k THEN q ELSE q + 1
    <3>0. k \in Int
      OBVIOUS
    <3>1. ASSUME NEW q \in 1 .. Len(t)
          PROVE  From(q) \in 1 .. Len(s) /\ t[q] = s[From(q)]
      BY <1>2, <1>6
    <3>2. \A p, q \in 1 .. Len(t) : From(p) = From(q) => p = q
      BY ONLY <3>0
    <3> HIDE DEF From
    <3>3. From(i) \in 1 .. Len(s) /\ From(j) \in 1 .. Len(s) /\ s[From(i)] = s[From(j)]
      BY <2>8, <3>1
    <3>4. From(i) = From(j)
      BY <1>8, <3>3
    <3> QED BY <3>2, <3>4
  <2>9. lorder'[l] = t
    BY <1>11
  <2> QED BY ONLY <2>1, <2>2, <2>3, <2>7, <2>8, <2>9 DEF ListSound
<1>16. ASSUME NEW m \in Lists \ llists' PROVE lorder'[m] = <<>>
  <2>1. m # l /\ lorder[m] = <<>>
    BY DEF LinkInv
  <2> QED BY <1>11, <2>1
<1> QED BY <1>12, <1>13, <1>14, <1>15, <1>16 DEF LinkInv

\* The elements of a list that is emptied name none, those of others stay.
LEMMA EmptiedKeeps ==
  ASSUME LinkInv, NEW l \in llists, NEW gone \in {{}, L!In(l)}, L!Emptied(l, gone),
         llists' \in {llists, llists \ {l}}
  PROVE  LinkInv'
<1>1. LinkTyped /\ Named /\ l \in Lists
  BY DEF LinkInv, LinkTyped
<1>2. /\ lnext' = [e \in Elems |-> IF lparent[e] = l THEN None ELSE lnext[e]]
      /\ lprev' = [e \in Elems |-> IF lparent[e] = l THEN None ELSE lprev[e]]
      /\ lparent' = [e \in Elems |-> IF lparent[e] = l THEN None ELSE lparent[e]]
      /\ lfirst' = [lfirst EXCEPT ![l] = None] /\ lfinal' = [lfinal EXCEPT ![l] = None]
      /\ lnum' = [lnum EXCEPT ![l] = 0] /\ lorder' = [lorder EXCEPT ![l] = <<>>]
      /\ lelems' = lelems \ gone
  BY DEF L!Emptied, L!In
<1>3. lorder'[l] = <<>> /\ \A m \in Lists \ {l} : lorder'[m] = lorder[m]
  BY <1>1, <1>2 DEF LinkTyped
<1>4. LinkTyped'
  <2>1. lnext' \in [Elems -> Elems \cup {None}] /\ lprev' \in [Elems -> Elems \cup {None}]
    BY <1>1, <1>2 DEF LinkTyped
  <2>2. lparent' \in [Elems -> Lists \cup {None}] /\ lnum' \in [Lists -> Int]
    BY <1>1, <1>2 DEF LinkTyped
  <2>3. lfirst' \in [Lists -> Elems \cup {None}] /\ lfinal' \in [Lists -> Elems \cup {None}]
    BY <1>1, <1>2 DEF LinkTyped
  <2>4. lorder' \in [Lists -> Seq(Elems)] /\ llists' \subseteq Lists /\ lelems' \subseteq Elems
    BY <1>1, <1>2 DEF LinkTyped
  <2> QED BY <2>1, <2>2, <2>3, <2>4 DEF LinkTyped
<1>5. Named'
  <2> SUFFICES ASSUME NEW e \in Elems, lparent'[e] # None
               PROVE  lparent'[e] \in llists'
                      /\ \E i \in 1 .. Len(lorder'[lparent'[e]]) : lorder'[lparent'[e]][i] = e
    BY DEF Named
  <2>1. lparent'[e] = lparent[e] /\ lparent[e] # l
    BY <1>2
  <2>2. lparent[e] \in llists /\ lparent[e] \in Lists
        /\ \E i \in 1 .. Len(lorder[lparent[e]]) : lorder[lparent[e]][i] = e
    BY <1>1, <2>1 DEF Named, LinkTyped
  <2>3. lorder'[lparent[e]] = lorder[lparent[e]]
    BY <1>3, <2>1, <2>2
  <2> QED BY <2>1, <2>2, <2>3
<1>6. ASSUME NEW m \in llists, m # l PROVE ListSound(m)'
  <2>1. m \in Lists /\ ListSound(m) /\ lorder[m] \in Seq(Elems)
    BY DEF LinkInv, LinkTyped
  <2>2. ASSUME NEW i \in 1 .. Len(lorder[m])
        PROVE  /\ lparent'[lorder[m][i]] = lparent[lorder[m][i]]
               /\ lnext'[lorder[m][i]] = lnext[lorder[m][i]]
               /\ lprev'[lorder[m][i]] = lprev[lorder[m][i]]
               /\ lorder[m][i] \in lelems'
    <3> DEFINE x == lorder[m][i]
    <3>1. x \in Elems /\ lparent[x] = m /\ x \in lelems
      BY <2>1 DEF ListSound
    <3>2. lparent[x] # l
      BY <1>6, <3>1
    <3> HIDE DEF x
    <3>3. lparent'[x] = lparent[x] /\ lnext'[x] = lnext[x] /\ lprev'[x] = lprev[x]
      BY <1>2, <3>1, <3>2
    <3>4. x \in lelems'
      BY <1>2, <3>1, <3>2 DEF L!In
    <3> QED BY <3>3, <3>4 DEF x
  <2>3. lfirst'[m] = lfirst[m] /\ lfinal'[m] = lfinal[m] /\ lnum'[m] = lnum[m] /\ lorder'[m] = lorder[m]
    BY <1>1, <1>2, <1>3, <1>6, <2>1 DEF LinkTyped
  <2> QED BY <2>1, <2>2, <2>3, ListStays
<1>7. ListSound(l)'
  <2>1. lfirst'[l] = None /\ lfinal'[l] = None /\ lnum'[l] = 0
    BY <1>1, <1>2 DEF LinkTyped
  <2> QED BY <1>3, <2>1 DEF ListSound, Nth
<1>8. ASSUME NEW m \in Lists \ llists' PROVE lorder'[m] = <<>>
  <2>1. CASE m = l
    BY <1>3, <2>1
  <2>2. CASE m # l
    BY <1>3, <2>2 DEF LinkInv
  <2> QED BY <2>1, <2>2
<1> QED BY <1>4, <1>5, <1>6, <1>7, <1>8 DEF LinkInv

LEMMA NewElementKeeps ==
  ASSUME LinkInv, NEW e \in Elems, L!NewElement(e)
  PROVE  LinkInv'
<1>1. LinkTyped /\ Named
  BY DEF LinkInv
<1>2. /\ e \notin lelems /\ lelems' = lelems \cup {e}
      /\ lnext' = [lnext EXCEPT ![e] = None] /\ lprev' = [lprev EXCEPT ![e] = None]
      /\ lparent' = [lparent EXCEPT ![e] = None]
      /\ lfirst' = lfirst /\ lfinal' = lfinal /\ lnum' = lnum /\ llists' = llists /\ lorder' = lorder
  BY DEF L!NewElement, L!ends, L!modes
<1>3. LinkTyped'
  BY <1>1, <1>2 DEF LinkTyped
<1>4. Named'
  BY <1>1, <1>2 DEF Named, LinkTyped
<1>5. ASSUME NEW m \in llists PROVE ListSound(m)'
  <2>1. m \in Lists /\ ListSound(m) /\ lorder[m] \in Seq(Elems)
    BY DEF LinkInv, LinkTyped
  <2>2. ASSUME NEW i \in 1 .. Len(lorder[m])
        PROVE  /\ lparent'[lorder[m][i]] = lparent[lorder[m][i]]
               /\ lnext'[lorder[m][i]] = lnext[lorder[m][i]]
               /\ lprev'[lorder[m][i]] = lprev[lorder[m][i]]
               /\ lorder[m][i] \in lelems'
    <3> DEFINE x == lorder[m][i]
    <3>1. x \in Elems /\ x \in lelems /\ x # e
      BY <1>2, <2>1 DEF ListSound
    <3> HIDE DEF x
    <3>2. lparent'[x] = lparent[x] /\ lnext'[x] = lnext[x] /\ lprev'[x] = lprev[x] /\ x \in lelems'
      BY <1>1, <1>2, <3>1 DEF LinkTyped
    <3> QED BY <3>2 DEF x
  <2> QED BY <1>2, <2>1, <2>2, ListStays
<1> QED BY <1>2, <1>3, <1>4, <1>5 DEF LinkInv

LEMMA NewListKeeps ==
  ASSUME LinkInv, NEW l \in Lists, NEW remove, NEW destruct, L!NewList(l, remove, destruct)
  PROVE  LinkInv'
<1>1. LinkTyped /\ Named
  BY DEF LinkInv
<1>2. /\ l \notin llists /\ llists' = llists \cup {l}
      /\ lfirst' = [lfirst EXCEPT ![l] = None] /\ lfinal' = [lfinal EXCEPT ![l] = None]
      /\ lnum' = [lnum EXCEPT ![l] = 0]
      /\ lnext' = lnext /\ lprev' = lprev /\ lparent' = lparent /\ lelems' = lelems /\ lorder' = lorder
  BY DEF L!NewList, L!links
<1>3. LinkTyped'
  BY <1>1, <1>2 DEF LinkTyped
<1>4. Named'
  BY <1>1, <1>2 DEF Named
<1>5. ASSUME NEW m \in llists PROVE ListSound(m)'
  <2>1. m \in Lists /\ m # l /\ ListSound(m)
    BY <1>2 DEF LinkInv, LinkTyped
  <2>2. lfirst'[m] = lfirst[m] /\ lfinal'[m] = lfinal[m] /\ lnum'[m] = lnum[m]
    BY <1>1, <1>2, <2>1 DEF LinkTyped
  <2>3. \A i \in 1 .. Len(lorder[m]) : lorder[m][i] \in lelems
    BY <2>1 DEF ListSound
  <2> QED BY <1>2, <2>1, <2>2, <2>3, ListStays
<1>6. ListSound(l)'
  <2>1. lorder[l] = <<>> /\ lfirst'[l] = None /\ lfinal'[l] = None /\ lnum'[l] = 0
    BY <1>1, <1>2 DEF LinkInv, LinkTyped
  <2> QED BY <1>2, <2>1 DEF ListSound, Nth
<1>7. \A m \in Lists \ llists' : lorder'[m] = <<>>
  BY <1>2 DEF LinkInv
<1> QED BY <1>2, <1>3, <1>4, <1>5, <1>6, <1>7 DEF LinkInv

LEMMA LinksKept == LinkInv /\ [L!Next]_linkvars => LinkInv'
<1> SUFFICES ASSUME LinkInv, [L!Next]_linkvars
             PROVE  LinkInv'
  OBVIOUS
<1>0. CASE UNCHANGED linkvars
  <2>1. /\ lnext' = lnext /\ lprev' = lprev /\ lparent' = lparent
        /\ lfirst' = lfirst /\ lfinal' = lfinal /\ lnum' = lnum
        /\ lorder' = lorder /\ llists' = llists /\ lelems' = lelems
    BY <1>0 DEF linkvars
  <2>2. LinkTyped' /\ Named'
    BY <2>1 DEF LinkInv, LinkTyped, Named
  <2>3. \A m : ListSound(m)' <=> ListSound(m)
    BY <2>1 DEF ListSound
  <2> QED BY <2>1, <2>2, <2>3 DEF LinkInv
<1>1. ASSUME NEW e \in Elems, L!DeleteElement(e) PROVE LinkInv'
  <2>1. e \in lelems /\ lelems' = lelems \ {e} /\ llists' = llists
    BY <1>1 DEF L!DeleteElement, L!modes
  <2>2. CASE lparent[e] # None
    <3>1. lparent[e] \in llists
      BY <2>2 DEF LinkInv, Named
    <3>2. L!Unlinked(lparent[e], e)
      BY <1>1, <2>2, Zenon DEF L!DeleteElement
    <3> QED BY <2>1, <3>1, <3>2, UnlinkedKeeps
  <2>3. CASE lparent[e] = None
    <3>1. /\ lnext' = lnext /\ lprev' = lprev /\ lparent' = lparent
          /\ lfirst' = lfirst /\ lfinal' = lfinal /\ lnum' = lnum /\ lorder' = lorder
      BY <1>1, <2>3 DEF L!DeleteElement, L!links, L!ends
    <3>2. LinkTyped' /\ Named'
      BY <2>1, <3>1 DEF LinkInv, LinkTyped, Named
    <3>3. ASSUME NEW m \in llists PROVE ListSound(m)'
      <4>1. m \in Lists /\ m # None /\ ListSound(m)
        BY ContainersAssumption DEF LinkInv, LinkTyped
      <4>2. \A i \in 1 .. Len(lorder[m]) : lorder[m][i] \in lelems'
        BY <2>1, <2>3, <4>1 DEF ListSound
      <4> QED BY <3>1, <4>1, <4>2, ListStays
    <3> QED BY <2>1, <3>1, <3>2, <3>3 DEF LinkInv
  <2> QED BY <2>2, <2>3
<1>2. ASSUME NEW l \in Lists, NEW e \in Elems, L!RemoveElement(l, e) PROVE LinkInv'
  <2>1. /\ l \in llists /\ e \in lelems /\ lparent[e] = l /\ llists' = llists
        /\ lelems' \in {lelems, lelems \ {e}}
    BY <1>2 DEF L!RemoveElement
  <2>2. L!Unlinked(l, e)
    BY <1>2, Zenon DEF L!RemoveElement
  <2> QED BY <2>1, <2>2, UnlinkedKeeps
<1>3. ASSUME NEW l \in Lists, L!Clear(l) PROVE LinkInv'
  <2>1. l \in llists /\ llists' = llists
    BY <1>3 DEF L!Clear
  <2>2. L!Emptied(l, {}) \/ L!Emptied(l, L!In(l))
    BY <1>3, Zenon DEF L!Clear
  <2> QED BY <2>1, <2>2, EmptiedKeeps
<1>4. ASSUME NEW l \in Lists, L!DeleteList(l) PROVE LinkInv'
  <2>1. l \in llists /\ llists' = llists \ {l}
    BY <1>4 DEF L!DeleteList
  <2>2. L!Emptied(l, {}) \/ L!Emptied(l, L!In(l))
    BY <1>4, Zenon DEF L!DeleteList
  <2> QED BY <2>1, <2>2, EmptiedKeeps
<1>5. ASSUME L!Next PROVE LinkInv'
  <2>1. ASSUME NEW l \in Lists, NEW e \in Elems,
               L!Add(l, e) \/ L!AddFirst(l, e) \/ (\E pos \in Elems : L!AddAfter(l, pos, e) \/ L!AddBefore(l, pos, e))
        PROVE  LinkInv'
    BY <2>1, AddKeepsLinks, Zenon
  <2>2. ASSUME NEW e \in Elems, L!NewElement(e) PROVE LinkInv'
    BY <2>2, NewElementKeeps
  <2>3. ASSUME NEW l \in Lists, NEW remove \in BOOLEAN, NEW destruct \in BOOLEAN,
               L!NewList(l, remove, destruct)
        PROVE  LinkInv'
    BY <2>3, NewListKeeps
  <2> QED BY <1>1, <1>2, <1>3, <1>4, <1>5, <2>1, <2>2, <2>3, Zenon DEF L!Next
<1> QED BY <1>0, <1>5

-----------------------------------------------------------------------------
(* HashMap *)

\* A hash code and a value are at one place of one chain, and a hash code is in
\* its bucket.
Placed ==
  /\ \A b, c \in H!Buckets : \A i \in 1 .. Len(htable[b]), j \in 1 .. Len(htable[c]) :
       htable[b][i].key = htable[c][j].key => b = c /\ i = j
  /\ \A b, c \in H!Buckets : \A i \in 1 .. Len(htable[b]), j \in 1 .. Len(htable[c]) :
       htable[b][i].data = htable[c][j].data => b = c /\ i = j
  /\ \A b \in H!Buckets : \A i \in 1 .. Len(htable[b]) : htable[b][i].key % HashSize = b

Sized == IsFiniteSet(H!Stored) /\ hsize = Cardinality(H!Stored)

\* No value in the map is deleted; what a deleting map took is in it or deleted.
Living ==
  /\ \A b \in H!Buckets : \A i \in 1 .. Len(htable[b]) : htable[b][i].data \notin hfreed
  /\ hremoves => \A v \in htaken : v \in hfreed \/
       \E b \in H!Buckets : \E i \in 1 .. Len(htable[b]) : htable[b][i].data = v

Once(s, h) == \E i \in 1 .. Len(s) : s[i] = h /\ \A j \in 1 .. Len(s) : s[j] = h => j = i
Never(s, h) == \A j \in 1 .. Len(s) : s[j] # h

\* A walk goes through the buckets and through each chain in order.
Upto(b, i, c, j) == b < c \/ (b = c /\ i <= j)

\* A walk that was not cut has met each key that stayed, up to where it stands,
\* once, and none behind; when it stands nowhere, all of them.
Walked ==
  /\ \A k \in hstayed : \E b \in H!Buckets : \E i \in 1 .. Len(htable[b]) : htable[b][i].key = k
  /\ hcut = "no" /\ hcurrent = 0 => \A k \in hstayed : Once(hseen, k)
  /\ hcut = "no" /\ hcurrent # 0 =>
       \E c \in H!Buckets : \E j \in 1 .. Len(htable[c]) :
         /\ htable[c][j].key = hcurrent
         /\ \A b \in H!Buckets : \A i \in 1 .. Len(htable[b]) : htable[b][i].key \in hstayed =>
              IF Upto(b, i, c, j) THEN Once(hseen, htable[b][i].key) ELSE Never(hseen, htable[b][i].key)

\* nextKey() returns nothing only where the walk ends.
Ended == hlast.op = "nextKey" /\ hlast.result = None => hcurrent = 0

HashInv == H!TypeOK /\ Placed /\ Sized /\ Living /\ Walked /\ Ended

StoredOf(t) == UNION {H!ToSet(t[b]) : b \in H!Buckets}

LEMMA InStoredOf ==
  ASSUME NEW t \in [H!Buckets -> Seq(H!Elements)], NEW e
  PROVE  e \in StoredOf(t) <=> \E b \in H!Buckets : \E i \in 1 .. Len(t[b]) : t[b][i] = e
<1>1. \A b \in H!Buckets : DOMAIN t[b] = 1 .. Len(t[b])
  OBVIOUS
<1>2. e \in StoredOf(t) <=> \E b \in H!Buckets : e \in H!ToSet(t[b])
  BY DEF StoredOf
<1>3. ASSUME NEW b \in H!Buckets
      PROVE  e \in H!ToSet(t[b]) <=> \E i \in 1 .. Len(t[b]) : t[b][i] = e
  <2>1. e \in H!ToSet(t[b]) <=> \E i \in DOMAIN t[b] : t[b][i] = e
    BY DEF H!ToSet
  <2> QED BY <1>1, <2>1, Zenon
<1> QED BY <1>2, <1>3, Zenon

LEMMA SameCount == \A S : H!Cardinality(S) = Cardinality(S)
BY DEF H!Cardinality, Cardinality

LEMMA NumberKeys == H!Hashes = Keys /\ \A n \in Keys : NumberHash[n] = n
BY DEF H!Hashes, NumberHash

LEMMA HashInvImplies == HashInv => H!Chained /\ H!Owned /\ H!WalkComplete
<1> SUFFICES ASSUME HashInv
             PROVE  H!Chained /\ H!Owned /\ H!WalkComplete
  OBVIOUS
<1>1. htable \in [H!Buckets -> Seq(H!Elements)] /\ hseen \in Seq(Keys)
  BY NumberKeys DEF HashInv, H!TypeOK
<1>2. (\A b \in H!Buckets : DOMAIN htable[b] = 1 .. Len(htable[b])) /\ DOMAIN hseen = 1 .. Len(hseen)
  BY <1>1
<1>3. \A e : e \in H!Stored <=> \E b \in H!Buckets : \E i \in 1 .. Len(htable[b]) : htable[b][i] = e
  <2>1. H!Stored = StoredOf(htable)
    BY DEF StoredOf, H!Stored
  <2> QED BY <1>1, <2>1, InStoredOf
<1>4. H!Chained
  <2>1. ASSUME NEW b \in H!Buckets, NEW c \in H!Buckets,
               NEW i \in DOMAIN htable[b], NEW j \in DOMAIN htable[c], htable[b][i].key = htable[c][j].key
        PROVE  b = c /\ i = j
    <3>1. i \in 1 .. Len(htable[b]) /\ j \in 1 .. Len(htable[c])
      BY <1>2
    <3> QED BY <2>1, <3>1 DEF HashInv, Placed
  <2>2. \A b \in H!Buckets : \A i \in DOMAIN htable[b] : H!hashidx(htable[b][i].key) = b
    BY <1>2 DEF HashInv, Placed, H!hashidx
  <2>3. hsize = H!Cardinality(H!Stored)
    BY SameCount DEF HashInv, Sized
  <2> QED BY <2>1, <2>2, <2>3, Zenon DEF H!Chained, HashInv
<1>5. H!Owned
  <2>1. \A d, e \in H!Stored : d.data = e.data => d = e
    BY <1>3 DEF HashInv, Placed
  <2>2. \A v : v \in H!Held <=> \E b \in H!Buckets : \E i \in 1 .. Len(htable[b]) : htable[b][i].data = v
    BY <1>3 DEF H!Held
  <2>3. H!Held \cap hfreed = {}
    BY <2>2 DEF HashInv, Living
  <2>4. hremoves => htaken \subseteq H!Held \cup hfreed
    BY <2>2 DEF HashInv, Living
  <2> QED BY <2>1, <2>3, <2>4 DEF H!Owned
<1>6. H!WalkComplete
  <2> SUFFICES ASSUME hlast.op = "nextKey", hlast.result = None, hcut = "no", NEW h \in hstayed
               PROVE  \E i \in DOMAIN hseen : hseen[i] = h /\ \A j \in DOMAIN hseen : hseen[j] = h => j = i
    BY DEF H!WalkComplete
  <2>1. Once(hseen, h)
    BY DEF HashInv, Ended, Walked
  <2> QED BY <1>2, <2>1 DEF Once
<1> QED BY <1>4, <1>5, <1>6

LEMMA HashInitially == H!Init => HashInv
<1> SUFFICES ASSUME H!Init
             PROVE  HashInv
  OBVIOUS
<1>1. /\ htable = [b \in H!Buckets |-> <<>>] /\ hsize = 0 /\ hremoves \in BOOLEAN /\ hfreed = {} /\ htaken = {}
      /\ hlast = [op |-> "none", name |-> None, val |-> None, result |-> None]
      /\ hcurrent = 0 /\ hseen = <<>> /\ hstayed = {} /\ hcut = "no"
  BY DEF H!Init, H!Answer
<1>2. htable \in [H!Buckets -> Seq(H!Elements)] /\ \A b \in H!Buckets : Len(htable[b]) = 0
  BY <1>1
<1>3. H!TypeOK
  <2>1. hseen \in Seq(H!Hashes)
    BY <1>1
  <2>2. hlast.name = None /\ hlast.val = None
    BY <1>1
  <2> QED BY <1>1, <1>2, <2>1, <2>2 DEF H!TypeOK
<1>4. Placed /\ Living /\ Walked /\ Ended
  BY <1>1, <1>2 DEF Placed, Living, Walked, Ended
<1>5. Sized
  <2>1. H!Stored = {}
    <3>1. \A e : e \in StoredOf(htable) <=> \E b \in H!Buckets : \E i \in 1 .. Len(htable[b]) : htable[b][i] = e
      BY <1>2, InStoredOf
    <3>2. \A b \in H!Buckets : 1 .. Len(htable[b]) = {}
      BY <1>2
    <3>3. StoredOf(htable) = {}
      BY <3>1, <3>2
    <3> QED BY <3>3 DEF StoredOf, H!Stored
  <2> QED BY <1>1, <2>1, FS_EmptySet DEF Sized
<1> QED BY <1>3, <1>4, <1>5 DEF HashInv

LEMMA BucketOf ==
  ASSUME NEW h \in Keys
  PROVE  h % HashSize \in H!Buckets
BY ContainersAssumption DEF H!Buckets

LEMMA HashUnfolded ==
  ASSUME HashInv
  PROVE  /\ htable \in [H!Buckets -> Seq(H!Elements)] /\ hsize \in Nat
         /\ hremoves \in BOOLEAN /\ hfreed \in SUBSET Vals /\ htaken \in SUBSET Vals
         /\ hcut \in {"yes", "no"} /\ hcurrent \in Keys \cup {0}
         /\ hseen \in Seq(Keys) /\ hstayed \in SUBSET Keys
         /\ \A b \in H!Buckets : \A i \in 1 .. Len(htable[b]) :
              /\ htable[b][i].key \in Keys /\ htable[b][i].key # 0
              /\ htable[b][i].data \in Vals /\ htable[b][i] \in H!Elements
<1>1. /\ htable \in [H!Buckets -> Seq(H!Elements)] /\ hsize \in Nat
      /\ hremoves \in BOOLEAN /\ {hfreed, htaken} \subseteq SUBSET Vals
      /\ hcut \in {"yes", "no"} /\ hcurrent \in H!Hashes \cup {0}
      /\ hseen \in Seq(H!Hashes) /\ hstayed \subseteq H!Hashes
  BY Zenon DEF HashInv, H!TypeOK
<1>2. hfreed \in SUBSET Vals /\ htaken \in SUBSET Vals
  BY <1>1
<1>3. hcurrent \in Keys \cup {0} /\ hseen \in Seq(Keys) /\ hstayed \in SUBSET Keys
  BY <1>1, NumberKeys
<1>4. \A b \in H!Buckets : \A i \in 1 .. Len(htable[b]) : htable[b][i] \in H!Elements
  BY <1>1
<1>5. \A e \in H!Elements : e.key \in Keys /\ e.key # 0 /\ e.data \in Vals
  BY NumberKeys DEF H!Elements
<1> QED BY <1>1, <1>2, <1>3, <1>4, <1>5

\* A hash code that is found is at one place, in its bucket.
LEMMA AtOne ==
  ASSUME HashInv, NEW h \in Keys, H!At(h) # {}
  PROVE  /\ h # 0 /\ h % HashSize \in H!Buckets
         /\ \E i \in 1 .. Len(htable[h % HashSize]) :
              /\ H!At(h) = {i} /\ H!First(H!At(h)) = i /\ htable[h % HashSize][i].key = h
<1> DEFINE b == h % HashSize
<1>1. b \in H!Buckets
  BY BucketOf
<1>2. H!Chain(h) = htable[b] /\ DOMAIN htable[b] = 1 .. Len(htable[b])
  BY <1>1, HashUnfolded DEF H!Chain, H!hashidx
<1> HIDE DEF b
<1>3. H!At(h) = {i \in 1 .. Len(htable[b]) : h # 0 /\ htable[b][i].key = h}
  BY <1>2 DEF H!At
<1>4. PICK i \in 1 .. Len(htable[b]) : h # 0 /\ htable[b][i].key = h
  BY <1>3
<1>5. H!At(h) = {i}
  BY <1>1, <1>3, <1>4 DEF HashInv, Placed
<1>6. H!First({i}) = i
  BY DEF H!First
<1> QED BY <1>1, <1>4, <1>5, <1>6 DEF b

\* A hash code that is stored is found.
LEMMA AtSome ==
  ASSUME HashInv, NEW b \in H!Buckets, NEW i \in 1 .. Len(htable[b])
  PROVE  H!At(htable[b][i].key) # {}
<1> DEFINE h == htable[b][i].key
<1>1. h \in Keys /\ h # 0 /\ h % HashSize = b
  BY HashUnfolded DEF HashInv, Placed
<1>2. H!Chain(h) = htable[b] /\ DOMAIN htable[b] = 1 .. Len(htable[b])
  BY <1>1, HashUnfolded DEF H!Chain, H!hashidx
<1> QED BY <1>1, <1>2 DEF H!At

\* A set of buckets has a first one.
LEMMA FirstBucket ==
  ASSUME NEW F, F \subseteq H!Buckets, F # {}
  PROVE  H!First(F) \in F /\ \A c \in F : H!First(F) <= c
<1> DEFINE Below(f) == {g \in F : g < f}
           T == {Below(f) : f \in F}
<1>0. IsFiniteSet(H!Buckets) /\ H!Buckets \subseteq Nat
  BY FS_Interval, ContainersAssumption DEF H!Buckets
<1>1. T \subseteq FiniteSubsetsOf(H!Buckets) /\ T # {}
  <2>1. ASSUME NEW f \in F PROVE Below(f) \subseteq H!Buckets /\ IsFiniteSet(Below(f))
    BY <1>0, FS_Subset
  <2> QED BY <2>1 DEF FiniteSubsetsOf
<1>2. PICK b \in T : \A c \in T : ~(<<c, b>> \in StrictSubsetOrdering(H!Buckets))
  <2>1. IsWellFoundedOn(StrictSubsetOrdering(H!Buckets), FiniteSubsetsOf(H!Buckets))
    BY FS_StrictSubsetOrderingWellFounded
  <2> HIDE DEF T
  <2> QED BY <1>1, <2>1, WFMin, Zenon
<1>3. PICK f \in F : b = Below(f)
  BY <1>2
<1>4. ASSUME NEW g \in F, g < f PROVE FALSE
  <2>1. Below(g) \in T
    OBVIOUS
  <2>2. Below(g) \subseteq b /\ g \in b /\ g \notin Below(g)
    <3>1. \A h \in F : h \in Nat
      BY <1>0
    <3>2. \A h \in F : h < g => h < f
      BY <1>4, <3>1
    <3>3. ~(g < g)
      BY <3>1
    <3> QED BY <1>3, <1>4, <3>2, <3>3
  <2>3. <<Below(g), b>> \in StrictSubsetOrdering(H!Buckets)
    BY <1>3, <2>2 DEF StrictSubsetOrdering
  <2> QED BY <1>2, <2>1, <2>3
<1>5. \A c \in F : f <= c
  BY <1>0, <1>4
<1> QED BY <1>5 DEF H!First

\* The search for the next key gives the first key of the first chain from
\* bucket b on that has one.
LEMMA FirstFound ==
  ASSUME HashInv, NEW b \in Nat
  PROVE  \/ H!FirstFrom(b) = 0 /\ \A c \in H!Buckets : c >= b => Len(htable[c]) = 0
         \/ \E c \in H!Buckets :
              /\ c >= b /\ 1 \in 1 .. Len(htable[c]) /\ H!FirstFrom(b) = htable[c][1].key
              /\ \A d \in H!Buckets : d >= b /\ d < c => Len(htable[d]) = 0
<1> DEFINE full == {c \in H!Buckets : c >= b /\ htable[c] # <<>>}
<1>1. htable \in [H!Buckets -> Seq(H!Elements)] /\ H!Buckets \subseteq Nat
  BY HashUnfolded, ContainersAssumption DEF H!Buckets
<1>2. \A c \in H!Buckets : Len(htable[c]) \in Nat /\ (htable[c] = <<>> <=> Len(htable[c]) = 0)
  BY <1>1
<1>3. H!FirstFrom(b) = IF full = {} THEN 0 ELSE htable[H!First(full)][1].key
  BY DEF H!FirstFrom
<1>4. CASE full = {}
  BY <1>2, <1>3, <1>4
<1>5. CASE full # {}
  <2> DEFINE c == H!First(full)
  <2>1. c \in full /\ \A d \in full : c <= d
    BY <1>5, FirstBucket
  <2> HIDE DEF c
  <2>2. c \in H!Buckets /\ c >= b /\ 1 \in 1 .. Len(htable[c])
    BY <1>2, <2>1
  <2>3. ASSUME NEW d \in H!Buckets, d >= b, d < c PROVE Len(htable[d]) = 0
    BY <1>1, <1>2, <2>1, <2>2, <2>3
  <2>4. H!FirstFrom(b) = htable[c][1].key
    BY <1>3, <1>5 DEF c
  <2> QED BY <2>2, <2>3, <2>4
<1> QED BY <1>4, <1>5

\* A call that keeps the order of the chain the walk stands in keeps what the
\* walk has met.
LEMMA WalkMoves ==
  ASSUME HashInv, htable' \in [H!Buckets -> Seq(H!Elements)], Placed',
         hcurrent' = hcurrent, hseen' = hseen, hstayed' \subseteq hstayed,
         hcut' = "no" => hcut = "no",
         \A k \in hstayed' : \E b \in H!Buckets : \E i \in 1 .. Len(htable'[b]) : htable'[b][i].key = k,
         hcut' = "no" /\ hcurrent # 0 =>
           \E c \in H!Buckets : \E j \in 1 .. Len(htable'[c]) : htable'[c][j].key = hcurrent,
         hcut' = "no" /\ hcurrent # 0 =>
           \A b \in H!Buckets : \A i, j \in 1 .. Len(htable'[b]) :
             htable'[b][i].key \in hstayed' /\ htable'[b][j].key = hcurrent =>
             \E g, h \in 1 .. Len(htable[b]) :
               /\ htable[b][g].key = htable'[b][i].key /\ htable[b][h].key = hcurrent
               /\ i <= j <=> g <= h
  PROVE  Walked'
<1> DEFINE t == htable
           u == htable'
<1>1. t \in [H!Buckets -> Seq(H!Elements)] /\ H!Buckets \subseteq Nat
  BY HashUnfolded, ContainersAssumption DEF H!Buckets
<1>2. /\ \A b, c \in H!Buckets : \A i \in 1 .. Len(t[b]), j \in 1 .. Len(t[c]) :
           t[b][i].key = t[c][j].key => b = c /\ i = j
      /\ \A b \in H!Buckets : \A i \in 1 .. Len(t[b]) : t[b][i].key % HashSize = b
  BY DEF HashInv, Placed
<1>3. \A b \in H!Buckets : \A i \in 1 .. Len(u[b]) : u[b][i].key % HashSize = b
  BY DEF Placed
<1>5. ASSUME hcut' = "no", hcurrent' = 0, NEW k \in hstayed'
      PROVE  Once(hseen', k)
  BY <1>5 DEF HashInv, Walked
<1>6. ASSUME hcut' = "no", hcurrent' # 0
      PROVE  \E c \in H!Buckets : \E j \in 1 .. Len(u[c]) :
               /\ u[c][j].key = hcurrent'
               /\ \A b \in H!Buckets : \A i \in 1 .. Len(u[b]) : u[b][i].key \in hstayed' =>
                    IF Upto(b, i, c, j) THEN Once(hseen', u[b][i].key) ELSE Never(hseen', u[b][i].key)
  <2>1. hcut = "no" /\ hcurrent # 0
    BY <1>6
  <2>2. PICK c \in H!Buckets : \E j \in 1 .. Len(t[c]) :
          /\ t[c][j].key = hcurrent
          /\ \A b \in H!Buckets : \A i \in 1 .. Len(t[b]) : t[b][i].key \in hstayed =>
               IF Upto(b, i, c, j) THEN Once(hseen, t[b][i].key) ELSE Never(hseen, t[b][i].key)
    BY <2>1 DEF HashInv, Walked
  <2>3. PICK j \in 1 .. Len(t[c]) :
          /\ t[c][j].key = hcurrent
          /\ \A b \in H!Buckets : \A i \in 1 .. Len(t[b]) : t[b][i].key \in hstayed =>
               IF Upto(b, i, c, j) THEN Once(hseen, t[b][i].key) ELSE Never(hseen, t[b][i].key)
    BY <2>2
  <2>4. PICK m \in 1 .. Len(u[c]) : u[c][m].key = hcurrent
    <3>1. PICK d \in H!Buckets : \E m \in 1 .. Len(u[d]) : u[d][m].key = hcurrent
      BY <1>6, <2>1
    <3>2. d = hcurrent % HashSize /\ c = hcurrent % HashSize
      BY <1>2, <1>3, <2>3, <3>1
    <3> QED BY <3>1, <3>2
  <2>5. ASSUME NEW b \in H!Buckets, NEW i \in 1 .. Len(u[b]), u[b][i].key \in hstayed'
        PROVE  IF Upto(b, i, c, m) THEN Once(hseen, u[b][i].key) ELSE Never(hseen, u[b][i].key)
    <3> DEFINE k == u[b][i].key
    <3>1. PICK g \in 1 .. Len(t[b]) : t[b][g].key = k
      <4>1. k \in hstayed
        BY <2>5
      <4>2. PICK d \in H!Buckets : \E g \in 1 .. Len(t[d]) : t[d][g].key = k
        BY <4>1 DEF HashInv, Walked
      <4>3. d = k % HashSize /\ b = k % HashSize
        BY <1>2, <1>3, <4>2
      <4> QED BY <4>2, <4>3
    <3>2. k \in hstayed
      BY <2>5
    <3>3. CASE b # c
      <4>1. Upto(b, i, c, m) <=> Upto(b, g, c, j)
        BY <1>1, <3>3 DEF Upto
      <4> QED BY <2>3, <3>1, <3>2, <4>1
    <3>4. CASE b = c
      <4>0. \E p, q \in 1 .. Len(t[b]) :
              t[b][p].key = k /\ t[b][q].key = hcurrent /\ (i <= m <=> p <= q)
        <5>1. \A d \in H!Buckets : \A x, y \in 1 .. Len(u[d]) :
                u[d][x].key \in hstayed' /\ u[d][y].key = hcurrent =>
                  \E p, q \in 1 .. Len(t[d]) :
                    t[d][p].key = u[d][x].key /\ t[d][q].key = hcurrent /\ (x <= y <=> p <= q)
          BY <1>6, <2>1
        <5> DEFINE Met(d, x, y) == \E p, q \in 1 .. Len(t[d]) :
                    t[d][p].key = u[d][x].key /\ t[d][q].key = hcurrent /\ (x <= y <=> p <= q)
        <5>2. \A d \in H!Buckets : \A x, y \in 1 .. Len(u[d]) :
                u[d][x].key \in hstayed' /\ u[d][y].key = hcurrent => Met(d, x, y)
          BY <5>1
        <5> HIDE DEF t, u, Met
        <5>3. Met(b, i, m)
          BY <2>4, <2>5, <3>4, <5>2
        <5> QED BY <5>3 DEF Met
      <4>1. PICK p, q \in 1 .. Len(t[b]) :
              t[b][p].key = k /\ t[b][q].key = hcurrent /\ (i <= m <=> p <= q)
        BY <4>0
      <4>2. q = j
        BY <1>2, <2>3, <3>4, <4>1
      <4>3. Upto(b, i, c, m) <=> Upto(b, p, c, j)
        BY <1>1, <3>4, <4>1, <4>2 DEF Upto
      <4> QED BY <2>3, <3>2, <4>1, <4>3
    <3> QED BY <3>3, <3>4
  <2> QED BY <2>4, <2>5
<1> QED BY <1>5, <1>6 DEF Walked

LEMMA TypedAfter ==
  ASSUME htable' \in [H!Buckets -> Seq(H!Elements)], hsize' \in Nat, hremoves' \in BOOLEAN,
         hfreed' \in SUBSET Vals, htaken' \in SUBSET Vals, hcut' \in {"yes", "no"},
         hlast'.name \in Keys \cup {None}, hlast'.val \in Vals \cup {None},
         hcurrent' \in Keys \cup {0}, hseen' \in Seq(Keys), hstayed' \in SUBSET Keys
  PROVE  H!TypeOK'
<1>1. {hfreed', htaken'} \subseteq SUBSET Vals /\ hstayed' \subseteq H!Hashes
  BY NumberKeys
<1>2. hcurrent' \in H!Hashes \cup {0} /\ hseen' \in Seq(H!Hashes)
  BY NumberKeys
<1> QED BY <1>1, <1>2, Zenon DEF H!TypeOK

\* Who is stored, before and after.
LEMMA StoredBoth ==
  ASSUME HashInv, htable' \in [H!Buckets -> Seq(H!Elements)]
  PROVE  /\ \A e : e \in H!Stored <=> \E b \in H!Buckets : \E i \in 1 .. Len(htable[b]) : htable[b][i] = e
         /\ \A e : e \in H!Stored' <=> \E b \in H!Buckets : \E i \in 1 .. Len(htable'[b]) : htable'[b][i] = e
<1>1. H!Stored = StoredOf(htable) /\ H!Stored' = StoredOf(htable')
  BY DEF StoredOf, H!Stored
<1>2. htable \in [H!Buckets -> Seq(H!Elements)]
  BY HashUnfolded
<1> QED BY <1>1, <1>2, InStoredOf

LEMMA HeldPlaces ==
  ASSUME HashInv, NEW v
  PROVE  v \in H!Held <=> \E b \in H!Buckets : \E i \in 1 .. Len(htable[b]) : htable[b][i].data = v
<1>1. H!Stored = StoredOf(htable) /\ htable \in [H!Buckets -> Seq(H!Elements)]
  BY HashUnfolded DEF StoredOf, H!Stored
<1>2. \A e : e \in H!Stored <=> \E b \in H!Buckets : \E i \in 1 .. Len(htable[b]) : htable[b][i] = e
  BY <1>1, InStoredOf
<1> QED BY <1>2 DEF H!Held

\* The element of key k holds v; what a call puts in or takes out.
Holds(k, v) ==
  \E b \in H!Buckets : \E i \in 1 .. Len(htable[b]) : htable[b][i].key = k /\ htable[b][i].data = v
HoldsAfter(k, v) ==
  \E b \in H!Buckets : \E i \in 1 .. Len(htable'[b]) : htable'[b][i].key = k /\ htable'[b][i].data = v
PutsIn(n, v) ==
  \A k \in Keys, w \in Vals : HoldsAfter(k, w) <=> (k = n /\ w = v) \/ (k # n /\ Holds(k, w))
TakesOut(n) == \A k \in Keys, w \in Vals : HoldsAfter(k, w) <=> k # n /\ Holds(k, w)

LEMMA PutReplaceKeeps ==
  ASSUME HashInv, NEW n \in Keys, NEW v \in Vals, H!PutReplace(n, v)
  PROVE  HashInv' /\ PutsIn(n, v)
<1> DEFINE b == n % HashSize
           t == htable
           u == htable'
<1>0. NumberHash[n] = n
  BY NumberKeys
<1>1. H!At(n) # {}
  BY <1>0 DEF H!PutReplace
<1>2. n # 0 /\ b \in H!Buckets
  BY <1>1, AtOne
<1>3. PICK i \in 1 .. Len(t[b]) : H!First(H!At(n)) = i /\ t[b][i].key = n
  BY <1>1, AtOne
<1> DEFINE data == t[b][i].data
           e == t[b][i]
           e1 == [e EXCEPT !.data = v]
<1>4. t \in [H!Buckets -> Seq(H!Elements)]
  BY HashUnfolded
<1>5. /\ v \notin H!Held \/ v = data
      /\ u = [t EXCEPT ![b][i].data = v]
      /\ hfreed' = (hfreed \ {v}) \cup (IF v = data THEN {} ELSE H!Delete(data))
      /\ htaken' = htaken \cup {v}
  BY <1>0, <1>3, Zenon DEF H!PutReplace, H!Made, H!Chain, H!hashidx
<1>6. /\ hsize' = hsize /\ hremoves' = hremoves
      /\ hcurrent' = hcurrent /\ hseen' = hseen /\ hstayed' = hstayed /\ hcut' = hcut
      /\ hlast'.op = "put" /\ hlast'.name = n /\ hlast'.val = v
  BY DEF H!PutReplace, H!walk, H!Answer
<1> HIDE DEF b
<1>7. e \in H!Elements /\ e1 \in H!Elements /\ e1.key = n /\ e1.data = v /\ e.key = n
  BY <1>2, <1>3, HashUnfolded DEF H!Elements
<1>8. u[b] \in Seq(H!Elements) /\ Len(u[b]) = Len(t[b])
      /\ \A j \in 1 .. Len(t[b]) : u[b][j] = IF j = i THEN e1 ELSE t[b][j]
  BY <1>2, <1>4, <1>5, <1>7
<1>9. u \in [H!Buckets -> Seq(H!Elements)] /\ \A c \in H!Buckets : c # b => u[c] = t[c]
  BY <1>2, <1>4, <1>5, <1>8
<1>10. /\ \A c \in H!Buckets : Len(u[c]) = Len(t[c])
       /\ \A c \in H!Buckets : \A j \in 1 .. Len(t[c]) :
            u[c][j] = IF c = b /\ j = i THEN e1 ELSE t[c][j]
  BY <1>8, <1>9
<1> HIDE DEF t, u, e, e1, data
<1>11. \A c \in H!Buckets : \A j \in 1 .. Len(t[c]) :
          /\ u[c][j].key = t[c][j].key
          /\ u[c][j].data = IF c = b /\ j = i THEN v ELSE t[c][j].data
  BY <1>7, <1>10 DEF e
<1>12. /\ \A c, d \in H!Buckets : \A j \in 1 .. Len(t[c]), m \in 1 .. Len(t[d]) :
            t[c][j].key = t[d][m].key => c = d /\ j = m
       /\ \A c, d \in H!Buckets : \A j \in 1 .. Len(t[c]), m \in 1 .. Len(t[d]) :
            t[c][j].data = t[d][m].data => c = d /\ j = m
       /\ \A c \in H!Buckets : \A j \in 1 .. Len(t[c]) : t[c][j].key % HashSize = c
  BY DEF HashInv, Placed, t
<1>13. \A c \in H!Buckets : \A j \in 1 .. Len(t[c]) : t[c][j].data = v => c = b /\ j = i
  <2>1. CASE v = data
    BY <1>2, <1>3, <1>12, <2>1 DEF data, t
  <2>2. CASE v \notin H!Held
    BY <2>2, HeldPlaces DEF t
  <2> QED BY <1>5, <2>1, <2>2
<1>14. Placed'
  <2>1. ASSUME NEW c \in H!Buckets, NEW d \in H!Buckets, NEW j \in 1 .. Len(u[c]), NEW m \in 1 .. Len(u[d]),
               u[c][j].key = u[d][m].key
        PROVE  c = d /\ j = m
    <3>1. j \in 1 .. Len(t[c]) /\ m \in 1 .. Len(t[d])
      BY <1>10
    <3>2. t[c][j].key = t[d][m].key
      BY <1>11, <2>1, <3>1
    <3> QED BY <1>12, <3>1, <3>2
  <2>2. ASSUME NEW c \in H!Buckets, NEW d \in H!Buckets, NEW j \in 1 .. Len(u[c]), NEW m \in 1 .. Len(u[d]),
               u[c][j].data = u[d][m].data
        PROVE  c = d /\ j = m
    <3>1. j \in 1 .. Len(t[c]) /\ m \in 1 .. Len(t[d])
      BY <1>10
    <3>2. u[c][j].data = (IF c = b /\ j = i THEN v ELSE t[c][j].data)
      BY <1>11, <3>1
    <3>3. u[d][m].data = (IF d = b /\ m = i THEN v ELSE t[d][m].data)
      BY <1>11, <3>1
    <3>4. t[c][j].data = v => c = b /\ j = i
      BY <1>13, <3>1
    <3>5. t[d][m].data = v => d = b /\ m = i
      BY <1>13, <3>1
    <3>6. t[c][j].data = t[d][m].data => c = d /\ j = m
      BY <1>12, <3>1
    <3> QED BY <2>2, <3>2, <3>3, <3>4, <3>5, <3>6
  <2>3. \A c \in H!Buckets : \A j \in 1 .. Len(u[c]) : u[c][j].key % HashSize = c
    BY <1>10, <1>11, <1>12
  <2> QED BY <2>1, <2>2, <2>3 DEF Placed, u
<1>15. Sized'
  <2>1. H!Stored' = (H!Stored \ {e}) \cup {e1}
    <3>1. \A x : x \in H!Stored <=> \E c \in H!Buckets : \E j \in 1 .. Len(t[c]) : t[c][j] = x
      BY <1>9, StoredBoth DEF t, u
    <3>2. \A x : x \in H!Stored' <=> \E c \in H!Buckets : \E j \in 1 .. Len(u[c]) : u[c][j] = x
      BY <1>9, StoredBoth DEF t, u
    <3>3. ASSUME NEW x \in H!Stored' PROVE x \in (H!Stored \ {e}) \cup {e1}
      <4>0. PICK c \in H!Buckets : \E j \in 1 .. Len(t[c]) : u[c][j] = x
        BY <1>10, <3>2
      <4>1. PICK j \in 1 .. Len(t[c]) : u[c][j] = x
        BY <4>0
      <4>2. CASE c = b /\ j = i
        BY <1>10, <4>1, <4>2
      <4>3. CASE ~(c = b /\ j = i)
        <5>1. x = t[c][j] /\ x.key # n
          BY <1>2, <1>3, <1>10, <1>12, <4>1, <4>3 DEF t
        <5> QED BY <1>7, <3>1, <5>1
      <4> QED BY <4>2, <4>3
    <3>4. ASSUME NEW x \in (H!Stored \ {e}) \cup {e1} PROVE x \in H!Stored'
      <4>1. CASE x = e1
        BY <1>2, <1>3, <1>10, <3>2, <4>1 DEF t
      <4>2. CASE x # e1
        <5>0. PICK c \in H!Buckets : \E j \in 1 .. Len(t[c]) : t[c][j] = x
          BY <3>1, <3>4, <4>2
        <5>1. PICK j \in 1 .. Len(t[c]) : t[c][j] = x
          BY <5>0
        <5>2. ~(c = b /\ j = i)
          BY <3>4, <4>2, <5>1 DEF e, t
        <5>3. u[c][j] = x /\ j \in 1 .. Len(u[c])
          BY <1>10, <5>1, <5>2
        <5> QED BY <3>2, <5>3
      <4> QED BY <4>1, <4>2
    <3> QED BY <3>3, <3>4
  <2>2. e \in H!Stored
    BY <1>2, <1>3, <1>9, StoredBoth DEF e, t, u
  <2>3. e1 \notin H!Stored \ {e}
    <3>1. \A x \in H!Stored : x.key = n => x = e
      <4>1. \A x : x \in H!Stored <=> \E c \in H!Buckets : \E j \in 1 .. Len(t[c]) : t[c][j] = x
        BY <1>9, StoredBoth DEF t, u
      <4> QED BY <1>2, <1>3, <1>12, <4>1 DEF e, t
    <3> QED BY <1>7, <3>1
  <2>4. IsFiniteSet(H!Stored) /\ hsize = Cardinality(H!Stored) /\ hsize \in Nat
    BY HashUnfolded DEF HashInv, Sized
  <2> DEFINE rest == H!Stored \ {e}
  <2>5. IsFiniteSet(rest) /\ Cardinality(rest) = hsize - 1
    BY <2>2, <2>4, FS_RemoveElement
  <2> HIDE DEF rest
  <2>6. IsFiniteSet(rest \cup {e1}) /\ Cardinality(rest \cup {e1}) = hsize
    <3>1. e1 \notin rest
      BY <2>3 DEF rest
    <3>2. IsFiniteSet(rest \cup {e1}) /\ Cardinality(rest \cup {e1}) = Cardinality(rest) + 1
      BY <2>5, <3>1, FS_AddElement
    <3> QED BY <2>4, <2>5, <3>2
  <2> QED BY <1>6, <2>1, <2>6 DEF Sized, rest
<1>16. Living'
  <2>1. \A c \in H!Buckets : \A j \in 1 .. Len(t[c]) : t[c][j].data \notin hfreed
    BY DEF HashInv, Living, t
  <2>2. H!Delete(data) = IF hremoves THEN {data} ELSE {}
    BY DEF H!Delete
  <2>3. ASSUME NEW c \in H!Buckets, NEW j \in 1 .. Len(t[c]) PROVE u[c][j].data \notin hfreed'
    <3>1. CASE c = b /\ j = i
      <4>1. u[c][j].data = v
        BY <1>11, <3>1
      <4> QED BY <1>5, <2>2, <4>1
    <3>2. CASE ~(c = b /\ j = i)
      <4>1. u[c][j].data = t[c][j].data
        BY <1>11, <3>2
      <4>2. t[c][j].data # data
        BY <1>2, <1>3, <1>12, <3>2 DEF data, t
      <4> QED BY <1>5, <2>1, <2>2, <4>1, <4>2
    <3> QED BY <3>1, <3>2
  <2>4. ASSUME hremoves, NEW w \in htaken'
        PROVE  w \in hfreed' \/ \E c \in H!Buckets : \E j \in 1 .. Len(u[c]) : u[c][j].data = w
    <3>1. CASE w = v
      <4>1. i \in 1 .. Len(u[b]) /\ u[b][i].data = v
        BY <1>2, <1>3, <1>10, <1>11 DEF t
      <4> QED BY <1>2, <3>1, <4>1
    <3>2. CASE w # v
      <4>1. w \in htaken
        BY <1>5, <3>2
      <4>2. CASE w \in hfreed
        BY <1>5, <3>2, <4>2
      <4>3. CASE \E c \in H!Buckets : \E j \in 1 .. Len(t[c]) : t[c][j].data = w
        <5>0. PICK c \in H!Buckets : \E j \in 1 .. Len(t[c]) : t[c][j].data = w
          BY <4>3
        <5>1. PICK j \in 1 .. Len(t[c]) : t[c][j].data = w
          BY <5>0
        <5>2. CASE c = b /\ j = i
          BY <1>5, <2>2, <2>4, <3>2, <5>1, <5>2 DEF data, t
        <5>3. CASE ~(c = b /\ j = i)
          BY <1>10, <1>11, <5>1, <5>3
        <5> QED BY <5>2, <5>3
      <4> QED BY <2>4, <4>1, <4>2, <4>3 DEF HashInv, Living, t
    <3> QED BY <3>1, <3>2
  <2>5. \A c \in H!Buckets : \A j \in 1 .. Len(u[c]) : u[c][j].data \notin hfreed'
    BY <1>10, <2>3
  <2> QED BY <1>6, <2>4, <2>5 DEF Living, u
<1>17. Walked'
  <2>1. \A k : (\E c \in H!Buckets : \E j \in 1 .. Len(t[c]) : t[c][j].key = k) =>
               (\E c \in H!Buckets : \E j \in 1 .. Len(u[c]) : u[c][j].key = k)
    BY <1>10, <1>11
  <2>2. \A k \in hstayed' : \E c \in H!Buckets : \E j \in 1 .. Len(u[c]) : u[c][j].key = k
    <3>1. \A k \in hstayed : \E c \in H!Buckets : \E j \in 1 .. Len(t[c]) : t[c][j].key = k
      BY DEF HashInv, Walked, t
    <3> QED BY <1>6, <2>1, <3>1
  <2>3. hcut' = "no" /\ hcurrent # 0 => \E c \in H!Buckets : \E j \in 1 .. Len(u[c]) : u[c][j].key = hcurrent
    BY <1>6, <2>1 DEF HashInv, Walked, t
  <2>4. ASSUME NEW c \in H!Buckets, NEW j \in 1 .. Len(u[c]), NEW m \in 1 .. Len(u[c]),
               u[c][j].key \in hstayed' /\ u[c][m].key = hcurrent
        PROVE  \E g, h \in 1 .. Len(t[c]) :
                 t[c][g].key = u[c][j].key /\ t[c][h].key = hcurrent /\ (j <= m <=> g <= h)
    BY <1>10, <1>11, <2>4
  <2> QED BY <1>6, <1>9, <1>14, <2>2, <2>3, <2>4, WalkMoves DEF t, u
<1>18. Ended'
  BY <1>6 DEF Ended
<1>19. H!TypeOK'
  <2>1. hfreed' \in SUBSET Vals /\ htaken' \in SUBSET Vals
    <3>1. H!Delete(data) \subseteq Vals
      BY <1>2, <1>3, HashUnfolded DEF H!Delete, data, t
    <3> QED BY <1>5, <3>1, HashUnfolded
  <2> QED BY <1>6, <1>9, <2>1, HashUnfolded, TypedAfter DEF u
<1>20. PutsIn(n, v)
  <2> SUFFICES ASSUME NEW k \in Keys, NEW w \in Vals
               PROVE  HoldsAfter(k, w) <=> (k = n /\ w = v) \/ (k # n /\ Holds(k, w))
    BY DEF PutsIn
  <2>1. HoldsAfter(k, w) <=> \E c \in H!Buckets : \E j \in 1 .. Len(u[c]) : u[c][j].key = k /\ u[c][j].data = w
    BY DEF HoldsAfter, u
  <2>2. Holds(k, w) <=> \E c \in H!Buckets : \E j \in 1 .. Len(t[c]) : t[c][j].key = k /\ t[c][j].data = w
    BY DEF Holds, t
  <2>3. ASSUME NEW c \in H!Buckets, NEW j \in 1 .. Len(t[c])
        PROVE  /\ t[c][j].key = n <=> c = b /\ j = i
               /\ u[c][j].key = t[c][j].key
               /\ u[c][j].data = IF t[c][j].key = n THEN v ELSE t[c][j].data
    BY <1>2, <1>3, <1>11, <1>12 DEF t
  <2>4. i \in 1 .. Len(t[b]) /\ t[b][i].key = n
    BY <1>3 DEF t
  <2>5. \A c \in H!Buckets : Len(u[c]) = Len(t[c])
    BY <1>10
  <2>6. b \in H!Buckets
    BY <1>2
  <2>7. ASSUME HoldsAfter(k, w) PROVE (k = n /\ w = v) \/ (k # n /\ Holds(k, w))
    <3>1. PICK c \in H!Buckets : \E j \in 1 .. Len(u[c]) : u[c][j].key = k /\ u[c][j].data = w
      BY <2>1, <2>7
    <3>2. PICK j \in 1 .. Len(t[c]) : u[c][j].key = k /\ u[c][j].data = w
      BY <2>5, <3>1
    <3>3. t[c][j].key = k /\ w = IF k = n THEN v ELSE t[c][j].data
      BY <2>3, <3>2
    <3> QED BY <2>2, <3>3
  <2>8. HoldsAfter(n, v)
    <3>1. i \in 1 .. Len(u[b])
      BY <2>4, <2>5, <2>6
    <3>2. u[b][i].key = n /\ u[b][i].data = v
      BY <2>3, <2>4, <2>6
    <3> QED BY <2>6, <3>1, <3>2 DEF HoldsAfter, u
  <2>9. ASSUME k # n, Holds(k, w) PROVE HoldsAfter(k, w)
    <3>1. PICK c \in H!Buckets : \E j \in 1 .. Len(t[c]) : t[c][j].key = k /\ t[c][j].data = w
      BY <2>2, <2>9
    <3>2. PICK j \in 1 .. Len(t[c]) : t[c][j].key = k /\ t[c][j].data = w
      BY <3>1
    <3>3. j \in 1 .. Len(u[c]) /\ u[c][j].key = k /\ u[c][j].data = w
      BY <2>3, <2>5, <2>9, <3>2
    <3> QED BY <2>1, <3>3
  <2> QED BY <2>7, <2>8, <2>9
<1> QED BY <1>14, <1>15, <1>16, <1>17, <1>18, <1>19, <1>20 DEF HashInv

LEMMA PutInsertKeeps ==
  ASSUME HashInv, NEW n \in Keys, NEW v \in Vals, H!PutInsert(n, v)
  PROVE  HashInv' /\ PutsIn(n, v) /\ ~Holds(n, v)
<1> DEFINE b == n % HashSize
           t == htable
           u == htable'
           e1 == [key |-> n, str |-> None, data |-> v]
           New(c, j) == c = b /\ j = 1
           From(c, j) == IF c = b THEN j - 1 ELSE j
<1>1. b \in H!Buckets /\ t \in [H!Buckets -> Seq(H!Elements)]
  BY BucketOf, HashUnfolded
<1>2. /\ v \notin H!Held /\ n # 0 /\ H!At(n) = {}
      /\ u = [t EXCEPT ![b] = <<e1>> \o @]
      /\ hsize' = hsize + 1
      /\ hfreed' = hfreed \ {v} /\ htaken' = htaken \cup {v}
  BY NumberKeys, Zenon DEF H!PutInsert, H!Made, H!hashidx, H!Element
<1>3. /\ hremoves' = hremoves
      /\ hcurrent' = hcurrent /\ hseen' = hseen /\ hstayed' = hstayed /\ hcut' = hcut
      /\ hlast'.op = "put" /\ hlast'.name = n /\ hlast'.val = v
  BY DEF H!PutInsert, H!walk, H!Answer
<1>4. e1 \in H!Elements
  BY <1>2, NumberKeys DEF H!Elements
<1> HIDE DEF b
<1>5. e1.key = n /\ e1.data = v
  OBVIOUS
<1> HIDE DEF e1
<1>6. /\ u[b] \in Seq(H!Elements) /\ Len(u[b]) = Len(t[b]) + 1 /\ u[b][1] = e1
      /\ \A j \in 1 .. Len(t[b]) : u[b][j + 1] = t[b][j]
  <2>1. u[b] = <<e1>> \o t[b] /\ t[b] \in Seq(H!Elements)
    BY <1>1, <1>2
  <2> HIDE DEF t, u
  <2> QED BY <1>4, <2>1
<1>7. u \in [H!Buckets -> Seq(H!Elements)] /\ \A c \in H!Buckets : c # b => u[c] = t[c]
  BY <1>1, <1>2, <1>6
<1>8. \A c \in H!Buckets : Len(t[c]) \in Nat
  BY <1>1
<1> HIDE DEF t, u
<1>9. /\ 1 \in 1 .. Len(u[b])
      /\ \A c \in H!Buckets : \A j \in 1 .. Len(u[c]) :
           ~New(c, j) => From(c, j) \in 1 .. Len(t[c]) /\ u[c][j] = t[c][From(c, j)]
  <2>1. 1 \in 1 .. Len(u[b])
    BY <1>1, <1>6, <1>8
  <2>2. ASSUME NEW j \in 1 .. Len(u[b]), j # 1 PROVE j - 1 \in 1 .. Len(t[b]) /\ u[b][j] = t[b][j - 1]
    <3>1. j - 1 \in 1 .. Len(t[b])
      BY <1>1, <1>6, <1>8, <2>2
    <3>2. u[b][(j - 1) + 1] = t[b][j - 1]
      BY <1>6, <3>1
    <3>3. (j - 1) + 1 = j
      OBVIOUS
    <3> QED BY <3>1, <3>2, <3>3
  <2> QED BY <1>7, <2>1, <2>2
<1>10. \A c \in H!Buckets : \A m \in 1 .. Len(t[c]) :
         \E j \in 1 .. Len(u[c]) : ~New(c, j) /\ From(c, j) = m /\ u[c][j] = t[c][m]
  <2>1. ASSUME NEW m \in 1 .. Len(t[b]) PROVE m + 1 \in 1 .. Len(u[b]) /\ m + 1 # 1 /\ (m + 1) - 1 = m
    BY <1>1, <1>6, <1>8
  <2>2. ASSUME NEW c \in H!Buckets, NEW m \in 1 .. Len(t[c])
        PROVE  \E j \in 1 .. Len(u[c]) : ~New(c, j) /\ From(c, j) = m /\ u[c][j] = t[c][m]
    <3>1. CASE c = b
      BY <1>6, <2>1, <3>1
    <3>2. CASE c # b
      BY <1>7, <3>2
    <3> QED BY <3>1, <3>2
  <2> QED BY <2>2
<1>11. \A c : \A j, m \in Int : (From(c, j) = From(c, m) => j = m) /\ (From(c, j) <= From(c, m) <=> j <= m)
  OBVIOUS
<1> HIDE DEF From
<1>12. \A c \in H!Buckets : \A m \in 1 .. Len(t[c]) : t[c][m].key # n /\ t[c][m].data # v
  <2>1. \A c \in H!Buckets : \A m \in 1 .. Len(t[c]) : t[c][m].key # n
    BY <1>2, AtSome DEF t
  <2>2. \A c \in H!Buckets : \A m \in 1 .. Len(t[c]) : t[c][m].data # v
    BY <1>2, HeldPlaces DEF t
  <2> QED BY <2>1, <2>2
<1>13. /\ \A c, d \in H!Buckets : \A j \in 1 .. Len(t[c]), m \in 1 .. Len(t[d]) :
            t[c][j].key = t[d][m].key => c = d /\ j = m
       /\ \A c, d \in H!Buckets : \A j \in 1 .. Len(t[c]), m \in 1 .. Len(t[d]) :
            t[c][j].data = t[d][m].data => c = d /\ j = m
       /\ \A c \in H!Buckets : \A j \in 1 .. Len(t[c]) : t[c][j].key % HashSize = c
  BY DEF HashInv, Placed, t
<1>14. Placed'
  <2>1. ASSUME NEW c \in H!Buckets, NEW d \in H!Buckets, NEW j \in 1 .. Len(u[c]), NEW m \in 1 .. Len(u[d]),
               u[c][j].key = u[d][m].key \/ u[c][j].data = u[d][m].data
        PROVE  c = d /\ j = m
    <3>1. CASE New(c, j) \/ New(d, m)
      <4>1. ASSUME NEW a \in H!Buckets, NEW x \in 1 .. Len(u[a]), ~New(a, x)
            PROVE  u[a][x].key # n /\ u[a][x].data # v
        <5> DEFINE y == From(a, x)
        <5>1. y \in 1 .. Len(t[a]) /\ u[a][x] = t[a][y]
          BY <1>9, <4>1
        <5> HIDE DEF y
        <5> QED BY <1>12, <5>1
      <4>2. u[b][1].key = n /\ u[b][1].data = v
        BY <1>5, <1>6
      <4>3. New(c, j) /\ New(d, m)
        BY <2>1, <3>1, <4>1, <4>2
      <4> QED BY <4>3
    <3>2. CASE ~New(c, j) /\ ~New(d, m)
      <4>1. /\ From(c, j) \in 1 .. Len(t[c]) /\ u[c][j] = t[c][From(c, j)]
            /\ From(d, m) \in 1 .. Len(t[d]) /\ u[d][m] = t[d][From(d, m)]
        BY <1>9, <3>2
      <4>2. c = d /\ From(c, j) = From(d, m)
        <5>1. \/ t[c][From(c, j)].key = t[d][From(d, m)].key
              \/ t[c][From(c, j)].data = t[d][From(d, m)].data
          BY <2>1, <4>1
        <5> QED BY <1>13, <4>1, <5>1
      <4> QED BY <1>11, <4>2
    <3> QED BY <3>1, <3>2
  <2>2. ASSUME NEW c \in H!Buckets, NEW j \in 1 .. Len(u[c]) PROVE u[c][j].key % HashSize = c
    <3>1. CASE New(c, j)
      BY <1>5, <1>6, <3>1 DEF b
    <3>2. CASE ~New(c, j)
      BY <1>9, <1>13, <3>2
    <3> QED BY <3>1, <3>2
  <2>3. \A c, d \in H!Buckets : \A j \in 1 .. Len(u[c]), m \in 1 .. Len(u[d]) :
          u[c][j].key = u[d][m].key => c = d /\ j = m
    BY <2>1
  <2>4. \A c, d \in H!Buckets : \A j \in 1 .. Len(u[c]), m \in 1 .. Len(u[d]) :
          u[c][j].data = u[d][m].data => c = d /\ j = m
    BY <2>1
  <2> QED BY <2>2, <2>3, <2>4 DEF Placed, u
<1>15. Sized'
  <2>1. \A x : x \in H!Stored <=> \E c \in H!Buckets : \E j \in 1 .. Len(t[c]) : t[c][j] = x
    BY <1>7, StoredBoth DEF t, u
  <2>2. \A x : x \in H!Stored' <=> \E c \in H!Buckets : \E j \in 1 .. Len(u[c]) : u[c][j] = x
    BY <1>7, StoredBoth DEF t, u
  <2>3. H!Stored' = H!Stored \cup {e1}
    <3>1. ASSUME NEW x \in H!Stored' PROVE x \in H!Stored \cup {e1}
      <4>1. PICK c \in H!Buckets : \E j \in 1 .. Len(u[c]) : u[c][j] = x
        BY <2>2
      <4> QED BY <1>6, <1>9, <2>1, <4>1
    <3>2. ASSUME NEW x \in H!Stored \cup {e1} PROVE x \in H!Stored'
      <4>1. CASE x = e1
        BY <1>1, <1>6, <1>9, <2>2, <4>1
      <4>2. CASE x # e1
        <5>1. PICK c \in H!Buckets : \E m \in 1 .. Len(t[c]) : t[c][m] = x
          BY <2>1, <3>2, <4>2
        <5> QED BY <1>10, <2>2, <5>1
      <4> QED BY <4>1, <4>2
    <3> QED BY <3>1, <3>2
  <2>4. e1 \notin H!Stored
    BY <1>5, <1>12, <2>1
  <2>5. IsFiniteSet(H!Stored) /\ hsize = Cardinality(H!Stored)
    BY DEF HashInv, Sized
  <2>6. IsFiniteSet(H!Stored \cup {e1}) /\ Cardinality(H!Stored \cup {e1}) = Cardinality(H!Stored) + 1
    BY <2>4, <2>5, FS_AddElement
  <2> QED BY <1>2, <2>3, <2>5, <2>6 DEF Sized
<1>16. Living'
  <2>1. ASSUME NEW c \in H!Buckets, NEW j \in 1 .. Len(u[c]) PROVE u[c][j].data \notin hfreed'
    <3>1. CASE New(c, j)
      BY <1>2, <1>5, <1>6, <3>1
    <3>2. CASE ~New(c, j)
      <4>1. \A m \in 1 .. Len(t[c]) : t[c][m].data \notin hfreed
        BY DEF HashInv, Living, t
      <4>2. u[c][j].data \notin hfreed
        BY <1>9, <3>2, <4>1
      <4> QED BY <1>2, <4>2
    <3> QED BY <3>1, <3>2
  <2>2. ASSUME hremoves, NEW w \in htaken'
        PROVE  w \in hfreed' \/ \E c \in H!Buckets : \E j \in 1 .. Len(u[c]) : u[c][j].data = w
    <3>1. CASE w = v
      BY <1>1, <1>5, <1>6, <1>9, <3>1
    <3>2. CASE w # v
      <4>1. w \in hfreed \/ \E c \in H!Buckets : \E m \in 1 .. Len(t[c]) : t[c][m].data = w
        BY <1>2, <2>2, <3>2 DEF HashInv, Living, t
      <4>2. CASE w \in hfreed
        BY <1>2, <3>2, <4>2
      <4>3. CASE \E c \in H!Buckets : \E m \in 1 .. Len(t[c]) : t[c][m].data = w
        <5>1. \E c \in H!Buckets : \E j \in 1 .. Len(u[c]) : u[c][j].data = w
          BY <1>10, <4>3
        <5> QED BY <5>1
      <4> QED BY <4>1, <4>2, <4>3
    <3> QED BY <3>1, <3>2
  <2> QED BY <1>3, <2>1, <2>2 DEF Living, u
<1>17. Walked'
  <2>1. \A k : (\E c \in H!Buckets : \E m \in 1 .. Len(t[c]) : t[c][m].key = k) =>
               (\E c \in H!Buckets : \E j \in 1 .. Len(u[c]) : u[c][j].key = k)
    BY <1>10
  <2>2. \A k \in hstayed : \E c \in H!Buckets : \E j \in 1 .. Len(t[c]) : t[c][j].key = k
    BY DEF HashInv, Walked, t
  <2>3. hcut' = "no" /\ hcurrent # 0 => \E c \in H!Buckets : \E j \in 1 .. Len(t[c]) : t[c][j].key = hcurrent
    BY <1>3 DEF HashInv, Walked, t
  <2>4. ASSUME hcut' = "no" /\ hcurrent # 0,
               NEW c \in H!Buckets, NEW j \in 1 .. Len(u[c]), NEW m \in 1 .. Len(u[c]),
               u[c][j].key \in hstayed' /\ u[c][m].key = hcurrent
        PROVE  \E g, h \in 1 .. Len(t[c]) :
                 t[c][g].key = u[c][j].key /\ t[c][h].key = hcurrent /\ (j <= m <=> g <= h)
    <3>1. ~New(c, j) /\ ~New(c, m)
      <4>1. u[c][j].key # n
        BY <1>3, <1>12, <2>2, <2>4
      <4>2. u[c][m].key # n
        BY <1>12, <2>3, <2>4
      <4> QED BY <1>5, <1>6, <4>1, <4>2
    <3>2. /\ From(c, j) \in 1 .. Len(t[c]) /\ u[c][j] = t[c][From(c, j)]
          /\ From(c, m) \in 1 .. Len(t[c]) /\ u[c][m] = t[c][From(c, m)]
      BY <1>9, <3>1
    <3>3. j <= m <=> From(c, j) <= From(c, m)
      BY <1>11
    <3> QED BY <2>4, <3>2, <3>3
  <2>5. \A k \in hstayed' : \E c \in H!Buckets : \E j \in 1 .. Len(u[c]) : u[c][j].key = k
    BY <1>3, <2>1, <2>2
  <2>6. hcut' = "no" /\ hcurrent # 0 => \E c \in H!Buckets : \E j \in 1 .. Len(u[c]) : u[c][j].key = hcurrent
    BY <2>1, <2>3
  <2> QED BY <1>3, <1>7, <1>14, <2>4, <2>5, <2>6, WalkMoves DEF t, u
<1>18. Ended'
  BY <1>3 DEF Ended
<1>19. H!TypeOK'
  <2>1. hfreed' \in SUBSET Vals /\ htaken' \in SUBSET Vals /\ hsize' \in Nat
    BY <1>2, HashUnfolded
  <2> QED BY <1>3, <1>7, <2>1, HashUnfolded, TypedAfter DEF u
<1>20. PutsIn(n, v) /\ ~Holds(n, v)
  <2>1. \A k, w : HoldsAfter(k, w) <=> \E c \in H!Buckets : \E j \in 1 .. Len(u[c]) : u[c][j].key = k /\ u[c][j].data = w
    BY DEF HoldsAfter, u
  <2>2. \A k, w : Holds(k, w) <=> \E c \in H!Buckets : \E j \in 1 .. Len(t[c]) : t[c][j].key = k /\ t[c][j].data = w
    BY DEF Holds, t
  <2>3. ASSUME NEW k \in Keys, NEW w \in Vals, HoldsAfter(k, w)
        PROVE  (k = n /\ w = v) \/ (k # n /\ Holds(k, w))
    <3>0. PICK c \in H!Buckets : \E j \in 1 .. Len(u[c]) : u[c][j].key = k /\ u[c][j].data = w
      BY <2>1, <2>3
    <3>1. PICK j \in 1 .. Len(u[c]) : u[c][j].key = k /\ u[c][j].data = w
      BY <3>0
    <3>2. CASE New(c, j)
      BY <1>5, <1>6, <3>1, <3>2
    <3>3. CASE ~New(c, j)
      <4> DEFINE m == From(c, j)
      <4>1. m \in 1 .. Len(t[c]) /\ u[c][j] = t[c][m]
        BY <1>9, <3>3
      <4> HIDE DEF m
      <4> QED BY <1>12, <2>2, <3>1, <4>1
    <3> QED BY <3>2, <3>3
  <2>4. HoldsAfter(n, v)
    BY <1>1, <1>5, <1>6, <1>9, <2>1
  <2>5. ASSUME NEW k \in Keys, NEW w \in Vals, Holds(k, w) PROVE HoldsAfter(k, w)
    BY <1>10, <2>1, <2>2, <2>5
  <2>6. ~Holds(n, v)
    BY <1>12, <2>2
  <2> QED BY <2>3, <2>4, <2>5, <2>6 DEF PutsIn
<1> QED BY <1>14, <1>15, <1>16, <1>17, <1>18, <1>19, <1>20 DEF HashInv

\* A call that empties a place of the chain the walk stands on cuts the walk.
LEMMA RemoveKeyKeeps ==
  ASSUME HashInv, NEW n \in Keys, H!RemoveKey(n)
  PROVE  HashInv' /\ TakesOut(n)
<1> DEFINE b == n % HashSize
           t == htable
           u == htable'
<1>0. H!At(n) # {}
  BY NumberKeys DEF H!RemoveKey
<1>1. b \in H!Buckets /\ t \in [H!Buckets -> Seq(H!Elements)]
  BY BucketOf, HashUnfolded
<1>2. PICK i \in 1 .. Len(t[b]) : H!First(H!At(n)) = i /\ t[b][i].key = n
  BY <1>0, AtOne
<1> DEFINE e == t[b][i]
           From(c, j) == IF c = b /\ j >= i THEN j + 1 ELSE j
<1>3. /\ u = [t EXCEPT ![b] = H!RemoveAt(@, i)]
      /\ hfreed' = hfreed \cup H!Delete(e.data)
      /\ hstayed' = hstayed \ {n}
      /\ hcut' = IF n = hcurrent THEN "yes" ELSE hcut
  BY <1>2, NumberKeys, Zenon DEF H!RemoveKey, H!hashidx, H!Chain
<1>4. /\ hsize > 0 /\ hsize' = hsize - 1 /\ hremoves' = hremoves /\ htaken' = htaken
      /\ hcurrent' = hcurrent /\ hseen' = hseen
      /\ hlast'.op = "remove" /\ hlast'.name = n /\ hlast'.val = None
  BY DEF H!RemoveKey, H!Answer
<1> HIDE DEF b
<1>5. /\ u[b] \in Seq(H!Elements) /\ Len(u[b]) = Len(t[b]) - 1
      /\ \A j \in 1 .. Len(u[b]) : u[b][j] = IF j < i THEN t[b][j] ELSE t[b][j + 1]
  <2>1. u[b] = L!RemoveAt(t[b], i) /\ t[b] \in Seq(H!Elements)
    <3>1. H!RemoveAt(t[b], i) = L!RemoveAt(t[b], i)
      BY Zenon DEF H!RemoveAt, L!RemoveAt
    <3> QED BY <1>1, <1>3, <3>1
  <2> HIDE DEF t, u
  <2> QED BY <2>1, RemovedAt, Zenon
<1>6. u \in [H!Buckets -> Seq(H!Elements)] /\ \A c \in H!Buckets : c # b => u[c] = t[c]
  BY <1>1, <1>3, <1>5
<1>7. (\A c \in H!Buckets : Len(t[c]) \in Nat) /\ i \in Int
  BY <1>1
<1> HIDE DEF t, u, e
<1>8. \A c \in H!Buckets : \A j \in 1 .. Len(u[c]) :
        /\ From(c, j) \in 1 .. Len(t[c]) /\ ~(c = b /\ From(c, j) = i)
        /\ u[c][j] = t[c][From(c, j)]
  BY <1>1, <1>2, <1>5, <1>6, <1>7
<1>9. \A c \in H!Buckets : \A m \in 1 .. Len(t[c]) : ~(c = b /\ m = i) =>
        \E j \in 1 .. Len(u[c]) : From(c, j) = m /\ u[c][j] = t[c][m]
  <2>1. ASSUME NEW m \in 1 .. Len(t[b]), m # i
        PROVE  \E j \in 1 .. Len(u[b]) : From(b, j) = m /\ u[b][j] = t[b][m]
    <3>1. CASE m < i
      <4>1. m \in 1 .. Len(u[b]) /\ From(b, m) = m
        BY <1>1, <1>2, <1>5, <1>7, <3>1
      <4> QED BY <1>5, <3>1, <4>1
    <3>2. CASE m > i
      <4>1. m - 1 \in 1 .. Len(u[b]) /\ From(b, m - 1) = m /\ ~(m - 1 < i) /\ (m - 1) + 1 = m
        BY <1>1, <1>2, <1>5, <1>7, <3>2
      <4> QED BY <1>5, <4>1
    <3> QED BY <2>1, <3>1, <3>2
  <2> QED BY <1>6, <2>1
<1>10. \A c : \A j, m \in Int : (From(c, j) = From(c, m) => j = m) /\ (From(c, j) <= From(c, m) <=> j <= m)
  BY ONLY <1>7
<1> HIDE DEF From
<1>11. e.key = n /\ e.data \in Vals
  BY <1>1, <1>2, HashUnfolded DEF e, t
<1>12. /\ \A c, d \in H!Buckets : \A j \in 1 .. Len(t[c]), m \in 1 .. Len(t[d]) :
            t[c][j].key = t[d][m].key => c = d /\ j = m
       /\ \A c, d \in H!Buckets : \A j \in 1 .. Len(t[c]), m \in 1 .. Len(t[d]) :
            t[c][j].data = t[d][m].data => c = d /\ j = m
       /\ \A c \in H!Buckets : \A j \in 1 .. Len(t[c]) : t[c][j].key % HashSize = c
  BY DEF HashInv, Placed, t
<1>13. \A c \in H!Buckets : \A m \in 1 .. Len(t[c]) :
         t[c][m].key = n \/ t[c][m].data = e.data \/ t[c][m] = e => c = b /\ m = i
  BY <1>1, <1>2, <1>11, <1>12 DEF e
<1>14. Placed'
  <2>1. ASSUME NEW c \in H!Buckets, NEW d \in H!Buckets, NEW j \in 1 .. Len(u[c]), NEW m \in 1 .. Len(u[d]),
               u[c][j].key = u[d][m].key \/ u[c][j].data = u[d][m].data
        PROVE  c = d /\ j = m
    <3>1. /\ From(c, j) \in 1 .. Len(t[c]) /\ u[c][j] = t[c][From(c, j)]
          /\ From(d, m) \in 1 .. Len(t[d]) /\ u[d][m] = t[d][From(d, m)]
      BY <1>8
    <3>2. c = d /\ From(c, j) = From(d, m)
      <4>1. \/ t[c][From(c, j)].key = t[d][From(d, m)].key
            \/ t[c][From(c, j)].data = t[d][From(d, m)].data
        BY <2>1, <3>1
      <4> QED BY <1>12, <3>1, <4>1
    <3> QED BY <1>10, <3>2
  <2>2. \A c, d \in H!Buckets : \A j \in 1 .. Len(u[c]), m \in 1 .. Len(u[d]) :
          u[c][j].key = u[d][m].key => c = d /\ j = m
    BY <2>1
  <2>3. \A c, d \in H!Buckets : \A j \in 1 .. Len(u[c]), m \in 1 .. Len(u[d]) :
          u[c][j].data = u[d][m].data => c = d /\ j = m
    BY <2>1
  <2>4. \A c \in H!Buckets : \A j \in 1 .. Len(u[c]) : u[c][j].key % HashSize = c
    BY <1>8, <1>12
  <2> QED BY <2>2, <2>3, <2>4 DEF Placed, u
<1>15. Sized'
  <2>1. \A x : x \in H!Stored <=> \E c \in H!Buckets : \E j \in 1 .. Len(t[c]) : t[c][j] = x
    BY <1>6, StoredBoth DEF t, u
  <2>2. \A x : x \in H!Stored' <=> \E c \in H!Buckets : \E j \in 1 .. Len(u[c]) : u[c][j] = x
    BY <1>6, StoredBoth DEF t, u
  <2>3. H!Stored' = H!Stored \ {e}
    <3>1. ASSUME NEW x \in H!Stored' PROVE x \in H!Stored /\ x # e
      <4>1. PICK c \in H!Buckets : \E j \in 1 .. Len(u[c]) : u[c][j] = x
        BY <2>2
      <4>2. PICK j \in 1 .. Len(u[c]) : u[c][j] = x
        BY <4>1
      <4>3. From(c, j) \in 1 .. Len(t[c]) /\ t[c][From(c, j)] = x /\ ~(c = b /\ From(c, j) = i)
        BY <1>8, <4>2
      <4> QED BY <1>13, <2>1, <4>3
    <3>2. ASSUME NEW x \in H!Stored \ {e} PROVE x \in H!Stored'
      <4>1. PICK c \in H!Buckets : \E m \in 1 .. Len(t[c]) : t[c][m] = x
        BY <2>1, <3>2
      <4>2. PICK m \in 1 .. Len(t[c]) : t[c][m] = x
        BY <4>1
      <4>3. ~(c = b /\ m = i)
        BY <3>2, <4>2 DEF e
      <4> QED BY <1>9, <2>2, <4>2, <4>3
    <3> QED BY <3>1, <3>2
  <2>4. e \in H!Stored
    BY <1>1, <1>2, <2>1 DEF e
  <2>5. IsFiniteSet(H!Stored) /\ hsize = Cardinality(H!Stored)
    BY DEF HashInv, Sized
  <2>6. IsFiniteSet(H!Stored \ {e}) /\ Cardinality(H!Stored \ {e}) = Cardinality(H!Stored) - 1
    BY <2>4, <2>5, FS_RemoveElement
  <2> QED BY <1>4, <2>3, <2>5, <2>6 DEF Sized
<1>16. Living'
  <2>1. H!Delete(e.data) = IF hremoves THEN {e.data} ELSE {}
    BY DEF H!Delete
  <2>2. ASSUME NEW c \in H!Buckets, NEW j \in 1 .. Len(u[c]) PROVE u[c][j].data \notin hfreed'
    <3>1. \A m \in 1 .. Len(t[c]) : t[c][m].data \notin hfreed
      BY DEF HashInv, Living, t
    <3>2. u[c][j].data \notin hfreed /\ u[c][j].data # e.data
      <4> DEFINE g == From(c, j)
      <4>1. g \in 1 .. Len(t[c]) /\ ~(c = b /\ g = i) /\ u[c][j] = t[c][g]
        BY <1>8
      <4> HIDE DEF g
      <4> QED BY <1>13, <3>1, <4>1
    <3> QED BY <1>3, <2>1, <3>2
  <2>3. ASSUME hremoves, NEW w \in htaken'
        PROVE  w \in hfreed' \/ \E c \in H!Buckets : \E j \in 1 .. Len(u[c]) : u[c][j].data = w
    <3>1. w \in hfreed \/ \E c \in H!Buckets : \E m \in 1 .. Len(t[c]) : t[c][m].data = w
      BY <1>4, <2>3 DEF HashInv, Living, t
    <3>2. CASE w \in hfreed
      BY <1>3, <3>2
    <3>3. CASE w = e.data
      BY <1>3, <2>1, <2>3, <3>3
    <3>4. CASE w # e.data /\ \E c \in H!Buckets : \E m \in 1 .. Len(t[c]) : t[c][m].data = w
      <4>1. PICK c \in H!Buckets : \E m \in 1 .. Len(t[c]) : t[c][m].data = w
        BY <3>4
      <4>2. PICK m \in 1 .. Len(t[c]) : t[c][m].data = w
        BY <4>1
      <4>3. ~(c = b /\ m = i)
        BY <3>4, <4>2 DEF e
      <4>4. \E j \in 1 .. Len(u[c]) : u[c][j].data = w
        BY <1>9, <4>2, <4>3
      <4> QED BY <4>4
    <3> QED BY <3>1, <3>2, <3>3, <3>4
  <2>4. \A c \in H!Buckets : \A j \in 1 .. Len(u[c]) : u[c][j].data \notin hfreed'
    BY <2>2
  <2> QED BY <1>4, <2>3, <2>4 DEF Living, u
<1>17. Walked'
  <2>1. ASSUME NEW k, k # n, \E c \in H!Buckets : \E m \in 1 .. Len(t[c]) : t[c][m].key = k
        PROVE  \E c \in H!Buckets : \E j \in 1 .. Len(u[c]) : u[c][j].key = k
    <3>1. PICK c \in H!Buckets : \E m \in 1 .. Len(t[c]) : t[c][m].key = k
      BY <2>1
    <3>2. PICK m \in 1 .. Len(t[c]) : t[c][m].key = k
      BY <3>1
    <3>3. ~(c = b /\ m = i)
      BY <1>2, <2>1, <3>2 DEF t
    <3>4. \E j \in 1 .. Len(u[c]) : u[c][j].key = k
      BY <1>9, <3>2, <3>3
    <3> QED BY <3>4
  <2>2. \A k \in hstayed' : \E c \in H!Buckets : \E j \in 1 .. Len(u[c]) : u[c][j].key = k
    <3>1. \A k \in hstayed : \E c \in H!Buckets : \E m \in 1 .. Len(t[c]) : t[c][m].key = k
      BY DEF HashInv, Walked, t
    <3> QED BY <1>3, <2>1, <3>1
  <2>3. hcut' = "no" => hcut = "no" /\ hcurrent # n
    BY <1>3
  <2>4. hcut' = "no" /\ hcurrent # 0 => \E c \in H!Buckets : \E j \in 1 .. Len(u[c]) : u[c][j].key = hcurrent
    <3>1. hcut = "no" /\ hcurrent # 0 => \E c \in H!Buckets : \E m \in 1 .. Len(t[c]) : t[c][m].key = hcurrent
      BY DEF HashInv, Walked, t
    <3> QED BY <2>1, <2>3, <3>1
  <2>5. ASSUME NEW c \in H!Buckets, NEW j \in 1 .. Len(u[c]), NEW m \in 1 .. Len(u[c]),
               u[c][j].key \in hstayed' /\ u[c][m].key = hcurrent
        PROVE  \E g, h \in 1 .. Len(t[c]) :
                 t[c][g].key = u[c][j].key /\ t[c][h].key = hcurrent /\ (j <= m <=> g <= h)
    <3>1. /\ From(c, j) \in 1 .. Len(t[c]) /\ u[c][j] = t[c][From(c, j)]
          /\ From(c, m) \in 1 .. Len(t[c]) /\ u[c][m] = t[c][From(c, m)]
      BY <1>8
    <3>2. j <= m <=> From(c, j) <= From(c, m)
      BY <1>10
    <3> QED BY <2>5, <3>1, <3>2
  <2>6. hstayed' \subseteq hstayed
    BY <1>3
  <2> QED BY <1>4, <1>6, <1>14, <2>2, <2>3, <2>4, <2>5, <2>6, WalkMoves DEF t, u
<1>18. Ended'
  BY <1>4 DEF Ended
<1>19. H!TypeOK'
  <2>1. hfreed' \in SUBSET Vals
    <3>1. H!Delete(e.data) \subseteq Vals
      BY <1>11 DEF H!Delete
    <3> QED BY <1>3, <3>1, HashUnfolded
  <2>2. hsize' \in Nat /\ hcut' \in {"yes", "no"} /\ hstayed' \in SUBSET Keys
    BY <1>3, <1>4, HashUnfolded
  <2> QED BY <1>4, <1>6, <2>1, <2>2, HashUnfolded, TypedAfter DEF u
<1>20. TakesOut(n)
  <2>1. \A k, w : HoldsAfter(k, w) <=> \E c \in H!Buckets : \E j \in 1 .. Len(u[c]) : u[c][j].key = k /\ u[c][j].data = w
    BY DEF HoldsAfter, u
  <2>2. \A k, w : Holds(k, w) <=> \E c \in H!Buckets : \E j \in 1 .. Len(t[c]) : t[c][j].key = k /\ t[c][j].data = w
    BY DEF Holds, t
  <2>3. ASSUME NEW k \in Keys, NEW w \in Vals, HoldsAfter(k, w) PROVE k # n /\ Holds(k, w)
    <3>0. PICK c \in H!Buckets : \E j \in 1 .. Len(u[c]) : u[c][j].key = k /\ u[c][j].data = w
      BY <2>1, <2>3
    <3>1. PICK j \in 1 .. Len(u[c]) : u[c][j].key = k /\ u[c][j].data = w
      BY <3>0
    <3> DEFINE m == From(c, j)
    <3>2. m \in 1 .. Len(t[c]) /\ ~(c = b /\ m = i) /\ u[c][j] = t[c][m]
      BY <1>8
    <3> HIDE DEF m
    <3> QED BY <1>13, <2>2, <3>1, <3>2
  <2>4. ASSUME NEW k \in Keys, NEW w \in Vals, k # n, Holds(k, w) PROVE HoldsAfter(k, w)
    <3>0. PICK c \in H!Buckets : \E m \in 1 .. Len(t[c]) : t[c][m].key = k /\ t[c][m].data = w
      BY <2>2, <2>4
    <3>1. PICK m \in 1 .. Len(t[c]) : t[c][m].key = k /\ t[c][m].data = w
      BY <3>0
    <3>2. t[b][i].key = n
      BY <1>2 DEF t
    <3>3. ~(c = b /\ m = i)
      BY <2>4, <3>1, <3>2
    <3> QED BY <1>9, <2>1, <3>1, <3>3
  <2> QED BY <2>3, <2>4 DEF TakesOut
<1> QED BY <1>14, <1>15, <1>16, <1>17, <1>18, <1>19, <1>20 DEF HashInv

LEMMA ClearKeeps ==
  ASSUME HashInv, H!Clear
  PROVE  HashInv'
<1>1. /\ htable' = [b \in H!Buckets |-> <<>>] /\ hsize' = 0
      /\ hfreed' = hfreed \cup UNION {H!Delete(v) : v \in H!Held}
      /\ hstayed' = {} /\ hcut' = IF hcurrent # 0 THEN "yes" ELSE hcut
      /\ hremoves' = hremoves /\ hcurrent' = hcurrent /\ hseen' = hseen /\ htaken' = htaken
      /\ hlast'.op = "clear" /\ hlast'.name = None /\ hlast'.val = None
  BY DEF H!Clear, H!Answer
<1>2. htable' \in [H!Buckets -> Seq(H!Elements)] /\ \A b \in H!Buckets : 1 .. Len(htable'[b]) = {}
  BY <1>1
<1>3. Placed' /\ Walked' /\ Ended'
  BY <1>1, <1>2 DEF Placed, Walked, Ended
<1>4. Sized'
  <2>1. H!Stored' = {}
    <3>1. \A e : e \in H!Stored' <=> \E b \in H!Buckets : \E i \in 1 .. Len(htable'[b]) : htable'[b][i] = e
      BY <1>2, StoredBoth
    <3> QED BY <1>2, <3>1
  <2> QED BY <1>1, <2>1, FS_EmptySet DEF Sized
<1>5. Living'
  <2>1. ASSUME hremoves, NEW w \in htaken PROVE w \in hfreed'
    <3>1. CASE w \in hfreed
      BY <1>1, <3>1
    <3>2. CASE w \in H!Held
      BY <1>1, <2>1, <3>2 DEF H!Delete
    <3>3. w \in hfreed \/ w \in H!Held
      BY <2>1, HeldPlaces DEF HashInv, Living
    <3> QED BY <3>1, <3>2, <3>3
  <2> QED BY <1>1, <1>2, <2>1 DEF Living
<1>6. H!TypeOK'
  <2>1. hfreed' \in SUBSET Vals
    <3>1. \A v \in H!Held : H!Delete(v) \subseteq Vals
      <4>1. \A v \in H!Held : v \in Vals
        BY HeldPlaces, HashUnfolded
      <4> QED BY <4>1 DEF H!Delete
    <3> QED BY <1>1, <3>1, HashUnfolded
  <2>2. hsize' \in Nat /\ hcut' \in {"yes", "no"} /\ hstayed' \in SUBSET Keys
    BY <1>1, HashUnfolded
  <2> QED BY <1>1, <1>2, <2>1, <2>2, HashUnfolded, TypedAfter
<1> QED BY <1>3, <1>4, <1>5, <1>6 DEF HashInv

\* What depends on the chains only stays when they do.
LEMMA ChainsSame ==
  ASSUME HashInv, htable' = htable, hsize' = hsize, hremoves' = hremoves, hfreed' = hfreed, htaken' = htaken
  PROVE  Placed' /\ Sized' /\ Living'
<1>1. Placed' /\ Living'
  BY DEF HashInv, Placed, Living
<1>2. H!Stored' = H!Stored
  BY DEF H!Stored
<1> QED BY <1>1, <1>2 DEF HashInv, Sized

LEMMA AnswerKeeps ==
  ASSUME HashInv, H!Kept,
         hlast' = hlast \/ (/\ hlast'.op # "nextKey"
                            /\ hlast'.name \in Keys \cup {None} /\ hlast'.val \in Vals \cup {None})
  PROVE  HashInv'
<1>1. /\ htable' = htable /\ hsize' = hsize /\ hremoves' = hremoves /\ hfreed' = hfreed /\ htaken' = htaken
      /\ hcurrent' = hcurrent /\ hseen' = hseen /\ hstayed' = hstayed /\ hcut' = hcut
  BY DEF H!Kept, H!walk
<1>2. Placed' /\ Sized' /\ Living'
  BY <1>1, ChainsSame
<1>3. Walked' /\ Ended'
  <2>1. Walked'
    BY <1>1 DEF HashInv, Walked
  <2> QED BY <1>1, <2>1 DEF HashInv, Ended
<1>4. H!TypeOK'
  <2>1. hlast'.name \in Keys \cup {None} /\ hlast'.val \in Vals \cup {None}
    BY DEF HashInv, H!TypeOK
  <2> QED BY <1>1, <2>1, HashUnfolded, TypedAfter
<1> QED BY <1>2, <1>3, <1>4 DEF HashInv

\* nextKey() returns a key where it stands on one.
LEMMA NameGiven ==
  ASSUME NEW h \in Keys, h # 0
  PROVE  H!NameOf(h) \in Keys /\ H!NameOf(h) # None
<1>1. H!NameOf(h) = CHOOSE n \in Keys : NumberHash[n] = h
  BY DEF H!NameOf
<1>2. \E n \in Keys : NumberHash[n] = h
  BY NumberKeys
<1> QED BY <1>1, <1>2, ContainersAssumption

LEMMA SizeZero == HashInv /\ hsize = 0 => \A b \in H!Buckets : Len(htable[b]) = 0
<1> SUFFICES ASSUME HashInv, hsize = 0, NEW b \in H!Buckets, Len(htable[b]) # 0
             PROVE  FALSE
  OBVIOUS
<1>1. htable[b] \in Seq(H!Elements)
  BY HashUnfolded
<1>2. 1 \in 1 .. Len(htable[b])
  BY <1>1
<1>3. htable[b][1] \in H!Stored
  <2>1. H!Stored = StoredOf(htable) /\ htable \in [H!Buckets -> Seq(H!Elements)]
    BY HashUnfolded DEF StoredOf, H!Stored
  <2> QED BY <1>2, <2>1, InStoredOf
<1>4. IsFiniteSet(H!Stored) /\ Cardinality(H!Stored) = 0
  BY DEF HashInv, Sized
<1>5. H!Stored = {}
  BY <1>4, FS_EmptySet
<1> QED BY <1>3, <1>5

LEMMA AppendedOnce ==
  ASSUME NEW s \in Seq(Keys), NEW h \in Keys, NEW k \in Keys
  PROVE  /\ k # h => (Once(s, k) => Once(Append(s, h), k)) /\ (Never(s, k) => Never(Append(s, h), k))
         /\ Never(s, h) => Once(Append(s, h), h)
<1> DEFINE t == Append(s, h)
           n == Len(s)
<1>1. n \in Nat /\ Len(t) = n + 1 /\ t[n + 1] = h /\ \A i \in 1 .. n : t[i] = s[i]
  OBVIOUS
<1> HIDE DEF t, n
<1>2. \A i \in 1 .. Len(t) : (i \in 1 .. n /\ t[i] = s[i]) \/ (i = n + 1 /\ t[i] = h)
  <2>0. n \in Nat /\ Len(t) = n + 1
    BY <1>1
  <2>1. \A i \in 1 .. Len(t) : i \in 1 .. n \/ i = n + 1
    BY ONLY <2>0
  <2> QED BY <1>1, <2>1
<1>3. ASSUME k # h, Once(s, k) PROVE Once(t, k)
  <2>1. PICK i \in 1 .. n : s[i] = k /\ \A j \in 1 .. n : s[j] = k => j = i
    BY <1>3 DEF Once, n
  <2>2. i \in 1 .. Len(t) /\ t[i] = k
    BY <1>1, <2>1
  <2>3. \A j \in 1 .. Len(t) : t[j] = k => j = i
    BY <1>2, <1>3, <2>1
  <2> QED BY <2>2, <2>3 DEF Once
<1>4. ASSUME k # h, Never(s, k) PROVE Never(t, k)
  BY <1>2, <1>4 DEF Never, n
<1>5. ASSUME Never(s, h) PROVE Once(t, h)
  <2>1. n + 1 \in 1 .. Len(t) /\ t[n + 1] = h
    BY <1>1
  <2>2. \A j \in 1 .. Len(t) : t[j] = h => j = n + 1
    BY <1>2, <1>5 DEF Never, n
  <2> QED BY <2>1, <2>2 DEF Once
<1> QED BY <1>3, <1>4, <1>5 DEF t

LEMMA FirstKeyKeeps ==
  ASSUME HashInv, H!FirstKey
  PROVE  HashInv'
<1> DEFINE h == IF hsize = 0 THEN 0 ELSE H!FirstFrom(0)
<1>1. /\ htable' = htable /\ hsize' = hsize /\ hremoves' = hremoves /\ hfreed' = hfreed /\ htaken' = htaken
      /\ hcurrent' = h /\ hseen' = (IF h = 0 THEN <<>> ELSE <<h>>) /\ hstayed' = H!KeysIn /\ hcut' = "no"
      /\ hlast' = [op |-> "nextKey", name |-> None, val |-> None, result |-> H!NameOf(h)]
  BY DEF H!FirstKey, H!Given, H!Answer
<1>2. H!Buckets \subseteq Nat /\ \A b \in H!Buckets : Len(htable[b]) \in Nat
  BY HashUnfolded, ContainersAssumption DEF H!Buckets
<1>3. \/ h = 0 /\ \A b \in H!Buckets : Len(htable[b]) = 0
      \/ \E c \in H!Buckets : /\ 1 \in 1 .. Len(htable[c]) /\ h = htable[c][1].key
                              /\ \A d \in H!Buckets : d < c => Len(htable[d]) = 0
  <2>1. CASE hsize = 0
    BY <2>1, SizeZero
  <2>2. CASE hsize # 0
    <3>1. \/ h = 0 /\ \A c \in H!Buckets : c >= 0 => Len(htable[c]) = 0
          \/ \E c \in H!Buckets :
               /\ c >= 0 /\ 1 \in 1 .. Len(htable[c]) /\ h = htable[c][1].key
               /\ \A d \in H!Buckets : d >= 0 /\ d < c => Len(htable[d]) = 0
      BY <2>2, FirstFound
    <3> HIDE DEF h
    <3> QED BY <1>2, <3>1
  <2> QED BY <2>1, <2>2
<1> HIDE DEF h
<1>4. h \in Keys \cup {0}
  BY <1>3, HashUnfolded
<1>5. \A k : k \in hstayed' <=> \E b \in H!Buckets : \E i \in 1 .. Len(htable[b]) : htable[b][i].key = k
  <2>1. \A e : e \in H!Stored <=> \E b \in H!Buckets : \E i \in 1 .. Len(htable[b]) : htable[b][i] = e
    <3>1. H!Stored = StoredOf(htable) /\ htable \in [H!Buckets -> Seq(H!Elements)]
      BY HashUnfolded DEF StoredOf, H!Stored
    <3> QED BY <3>1, InStoredOf
  <2> QED BY <1>1, <2>1 DEF H!KeysIn
<1>6. Walked'
  <2>1. CASE h = 0
    <3>1. \A b \in H!Buckets : Len(htable[b]) = 0
      BY <1>3, <2>1, HashUnfolded
    <3>2. hstayed' = {}
      BY <1>5, <3>1
    <3> QED BY <1>1, <2>1, <3>2 DEF Walked
  <2>2. CASE h # 0
    <3>1. PICK c \in H!Buckets : /\ 1 \in 1 .. Len(htable[c]) /\ h = htable[c][1].key
                                 /\ \A d \in H!Buckets : d < c => Len(htable[d]) = 0
      BY <1>3, <2>2
    <3>2. ASSUME NEW b \in H!Buckets, NEW i \in 1 .. Len(htable[b])
          PROVE  IF Upto(b, i, c, 1) THEN Once(hseen', htable[b][i].key) ELSE Never(hseen', htable[b][i].key)
      <4>1. hseen' = <<h>> /\ Len(<<h>>) = 1 /\ <<h>>[1] = h
        BY <1>1, <2>2
      <4>2. Upto(b, i, c, 1) => b = c /\ i = 1
        BY <1>2, <3>1 DEF Upto
      <4>3. ~Upto(b, i, c, 1) => htable[b][i].key # h
        BY <1>2, <3>1 DEF HashInv, Placed, Upto
      <4> QED BY <3>1, <4>1, <4>2, <4>3 DEF Once, Never
    <3> QED BY <1>1, <1>5, <2>2, <3>1, <3>2 DEF Walked
  <2> QED BY <2>1, <2>2
<1>7. Ended'
  BY <1>1, <1>4, NameGiven DEF Ended
<1>8. H!TypeOK'
  <2>1. hseen' \in Seq(Keys)
    BY <1>1, <1>4
  <2>2. hstayed' \in SUBSET Keys
    BY <1>5, HashUnfolded
  <2> QED BY <1>1, <1>4, <2>1, <2>2, HashUnfolded, TypedAfter
<1>9. Placed' /\ Sized' /\ Living'
  BY <1>1, ChainsSame
<1> QED BY <1>6, <1>7, <1>8, <1>9 DEF HashInv

\* From a key that is stored the search goes to the next place of the walk.
LEMMA AfterPlace ==
  ASSUME HashInv, NEW c \in H!Buckets, NEW j \in 1 .. Len(htable[c])
  PROVE  LET h == H!After(htable[c][j].key)
         IN \/ /\ h = 0
               /\ \A b \in H!Buckets : \A i \in 1 .. Len(htable[b]) : Upto(b, i, c, j)
            \/ \E d \in H!Buckets : \E m \in 1 .. Len(htable[d]) :
                 /\ h = htable[d][m].key /\ ~Upto(d, m, c, j)
                 /\ \A b \in H!Buckets : \A i \in 1 .. Len(htable[b]) :
                      Upto(b, i, d, m) <=> Upto(b, i, c, j) \/ (b = d /\ i = m)
<1> DEFINE k == htable[c][j].key
           h == H!After(k)
<1>1. H!Buckets \subseteq Nat /\ \A b \in H!Buckets : Len(htable[b]) \in Nat
  BY HashUnfolded, ContainersAssumption DEF H!Buckets
<1>2. k \in Keys /\ H!At(k) # {} /\ k % HashSize = c
  BY AtSome, HashUnfolded DEF HashInv, Placed
<1>3. H!First(H!At(k)) = j
  <2>1. PICK i \in 1 .. Len(htable[c]) : H!First(H!At(k)) = i /\ htable[c][i].key = k
    BY <1>2, AtOne
  <2> QED BY <2>1 DEF HashInv, Placed
<1>4. H!Chain(k) = htable[c] /\ H!hashidx(k) = c
  BY <1>2 DEF H!Chain, H!hashidx
<1>5. h = IF j < Len(htable[c]) THEN htable[c][j + 1].key ELSE H!FirstFrom(c + 1)
  BY <1>2, <1>3, <1>4 DEF H!After
<1> HIDE DEF h, k
<1>6. CASE j < Len(htable[c])
  <2>1. j + 1 \in 1 .. Len(htable[c]) /\ h = htable[c][j + 1].key
    BY <1>1, <1>5, <1>6
  <2>2. ~Upto(c, j + 1, c, j)
    BY <1>1 DEF Upto
  <2>3. \A b \in H!Buckets : \A i \in 1 .. Len(htable[b]) :
          Upto(b, i, c, j + 1) <=> Upto(b, i, c, j) \/ (b = c /\ i = j + 1)
    BY <1>1 DEF Upto
  <2> QED BY <2>1, <2>2, <2>3 DEF h, k
<1>7. CASE ~(j < Len(htable[c]))
  <2>0. j = Len(htable[c]) /\ h = H!FirstFrom(c + 1) /\ c + 1 \in Nat
    BY <1>1, <1>5, <1>7
  <2>1. \/ h = 0 /\ \A d \in H!Buckets : d >= c + 1 => Len(htable[d]) = 0
        \/ \E d \in H!Buckets :
             /\ d >= c + 1 /\ 1 \in 1 .. Len(htable[d]) /\ h = htable[d][1].key
             /\ \A b \in H!Buckets : b >= c + 1 /\ b < d => Len(htable[b]) = 0
    BY <2>0, FirstFound
  <2>2. CASE h = 0 /\ \A d \in H!Buckets : d >= c + 1 => Len(htable[d]) = 0
    <3>1. \A b \in H!Buckets : \A i \in 1 .. Len(htable[b]) : Upto(b, i, c, j)
      BY <1>1, <2>0, <2>2 DEF Upto
    <3> QED BY <2>2, <3>1 DEF h, k
  <2>3. ASSUME NEW d \in H!Buckets, d >= c + 1, 1 \in 1 .. Len(htable[d]), h = htable[d][1].key,
               \A b \in H!Buckets : b >= c + 1 /\ b < d => Len(htable[b]) = 0
        PROVE  /\ ~Upto(d, 1, c, j)
               /\ \A b \in H!Buckets : \A i \in 1 .. Len(htable[b]) :
                    Upto(b, i, d, 1) <=> Upto(b, i, c, j) \/ (b = d /\ i = 1)
    <3>1. ~Upto(d, 1, c, j)
      BY <1>1, <2>3 DEF Upto
    <3>2. ASSUME NEW b \in H!Buckets, NEW i \in 1 .. Len(htable[b])
          PROVE  Upto(b, i, d, 1) <=> Upto(b, i, c, j) \/ (b = d /\ i = 1)
      <4>1. b < d => b <= c
        BY <1>1, <2>3
      <4>2. b = c => i <= j
        BY <2>0
      <4> QED BY <1>1, <2>3, <4>1, <4>2 DEF Upto
    <3> QED BY <3>1, <3>2
  <2> QED BY <2>1, <2>2, <2>3 DEF h, k
<1> QED BY <1>6, <1>7

LEMMA NextKeyKeeps ==
  ASSUME HashInv, H!NextKey
  PROVE  HashInv'
<1> DEFINE h == IF hsize = 0 THEN 0 ELSE H!After(hcurrent)
<1>1. /\ htable' = htable /\ hsize' = hsize /\ hremoves' = hremoves /\ hfreed' = hfreed /\ htaken' = htaken
      /\ hcurrent # 0 /\ hcurrent' = h /\ hstayed' = hstayed /\ hcut' = hcut
      /\ hseen' = IF hcut = "yes" THEN <<>> ELSE IF h = 0 THEN hseen ELSE Append(hseen, h)
      /\ hlast' = [op |-> "nextKey", name |-> None, val |-> None, result |-> H!NameOf(h)]
  BY DEF H!NextKey, H!Given, H!Answer
<1>2. hcurrent \in Keys /\ hseen \in Seq(Keys) /\ hstayed \in SUBSET Keys
  BY <1>1, HashUnfolded
<1>3. h \in Keys \cup {0}
  <2>1. CASE hsize = 0 \/ H!At(hcurrent) = {}
    BY <2>1 DEF H!After
  <2>2. CASE hsize # 0 /\ H!At(hcurrent) # {}
    <3>1. PICK c \in H!Buckets : \E j \in 1 .. Len(htable[c]) : htable[c][j].key = hcurrent
      BY <1>2, <2>2, AtOne
    <3>2. PICK j \in 1 .. Len(htable[c]) : htable[c][j].key = hcurrent
      BY <3>1
    <3>3. h = H!After(htable[c][j].key)
      BY <2>2, <3>2
    <3> HIDE DEF h
    <3>4. h = 0 \/ \E d \in H!Buckets : \E m \in 1 .. Len(htable[d]) : h = htable[d][m].key
      <4>1. LET a == H!After(htable[c][j].key)
            IN a = 0 \/ \E d \in H!Buckets : \E m \in 1 .. Len(htable[d]) : a = htable[d][m].key
        BY AfterPlace
      <4> QED BY <3>3, <4>1
    <3> QED BY <3>4, HashUnfolded
  <2> QED BY <2>1, <2>2
<1>4. Walked'
  <2>1. \A k \in hstayed : \E b \in H!Buckets : \E i \in 1 .. Len(htable[b]) : htable[b][i].key = k
    BY DEF HashInv, Walked
  <2>2. CASE hcut = "yes"
    BY <1>1, <2>1, <2>2 DEF Walked
  <2>3. CASE hcut = "no"
    <3>1. PICK c \in H!Buckets : \E j \in 1 .. Len(htable[c]) :
            /\ htable[c][j].key = hcurrent
            /\ \A b \in H!Buckets : \A i \in 1 .. Len(htable[b]) : htable[b][i].key \in hstayed =>
                 IF Upto(b, i, c, j) THEN Once(hseen, htable[b][i].key) ELSE Never(hseen, htable[b][i].key)
      BY <1>1, <2>3 DEF HashInv, Walked
    <3>2. PICK j \in 1 .. Len(htable[c]) :
            /\ htable[c][j].key = hcurrent
            /\ \A b \in H!Buckets : \A i \in 1 .. Len(htable[b]) : htable[b][i].key \in hstayed =>
                 IF Upto(b, i, c, j) THEN Once(hseen, htable[b][i].key) ELSE Never(hseen, htable[b][i].key)
      BY <3>1
    <3>3. h = H!After(htable[c][j].key)
      <4>1. hsize # 0
        BY SizeZero
      <4> QED BY <3>2, <4>1
    <3> HIDE DEF h
    <3>4. CASE h = 0 /\ \A b \in H!Buckets : \A i \in 1 .. Len(htable[b]) : Upto(b, i, c, j)
      <4>1. \A k \in hstayed : Once(hseen, k)
        BY <2>1, <3>2, <3>4
      <4> QED BY <1>1, <2>1, <2>3, <3>4, <4>1 DEF Walked
    <3>5. ASSUME NEW d \in H!Buckets, NEW m \in 1 .. Len(htable[d]), h = htable[d][m].key, ~Upto(d, m, c, j),
                 \A b \in H!Buckets : \A i \in 1 .. Len(htable[b]) :
                   Upto(b, i, d, m) <=> Upto(b, i, c, j) \/ (b = d /\ i = m)
          PROVE  Walked'
      <4>1. h # 0 /\ h \in Keys
        BY <3>5, HashUnfolded
      <4>2. hseen' = Append(hseen, h)
        BY <1>1, <2>3, <4>1
      <4>3. ASSUME NEW b \in H!Buckets, NEW i \in 1 .. Len(htable[b]), htable[b][i].key \in hstayed
            PROVE  IF Upto(b, i, d, m) THEN Once(hseen', htable[b][i].key) ELSE Never(hseen', htable[b][i].key)
        <5> DEFINE k == htable[b][i].key
        <5>1. k \in Keys
          BY <1>2, <4>3
        <5>2. IF Upto(b, i, c, j) THEN Once(hseen, k) ELSE Never(hseen, k)
          BY <3>2, <4>3
        <5>3. CASE b = d /\ i = m
          <6>1. k = h /\ Upto(b, i, d, m) /\ Never(hseen, h)
            BY <3>5, <5>2, <5>3
          <6>2. Once(Append(hseen, h), h)
            BY <1>2, <4>1, <6>1, AppendedOnce
          <6> QED BY <4>2, <6>1, <6>2
        <5>4. CASE ~(b = d /\ i = m)
          <6>1. k # h
            BY <3>5, <5>4 DEF HashInv, Placed
          <6>2. Upto(b, i, d, m) <=> Upto(b, i, c, j)
            BY <3>5, <5>4
          <6> HIDE DEF k
          <6>3. /\ Once(hseen, k) => Once(Append(hseen, h), k)
                /\ Never(hseen, k) => Never(Append(hseen, h), k)
            BY <1>2, <4>1, <5>1, <6>1, AppendedOnce
          <6>4. IF Upto(b, i, d, m) THEN Once(hseen', k) ELSE Never(hseen', k)
            BY <4>2, <5>2, <6>2, <6>3
          <6> QED BY <6>4 DEF k
        <5> QED BY <5>3, <5>4
      <4>4. \A k \in hstayed' : \E b \in H!Buckets : \E i \in 1 .. Len(htable'[b]) : htable'[b][i].key = k
        BY <1>1, <2>1
      <4>5. hcurrent' # 0 /\ htable'[d][m].key = hcurrent' /\ m \in 1 .. Len(htable'[d])
        BY <1>1, <3>5, <4>1
      <4>6. \A b \in H!Buckets : \A i \in 1 .. Len(htable'[b]) : htable'[b][i].key \in hstayed' =>
              IF Upto(b, i, d, m) THEN Once(hseen', htable'[b][i].key) ELSE Never(hseen', htable'[b][i].key)
        BY <1>1, <4>3
      <4> QED BY <4>4, <4>5, <4>6 DEF Walked
    <3>6. \/ h = 0 /\ \A b \in H!Buckets : \A i \in 1 .. Len(htable[b]) : Upto(b, i, c, j)
          \/ \E d \in H!Buckets : \E m \in 1 .. Len(htable[d]) :
               /\ h = htable[d][m].key /\ ~Upto(d, m, c, j)
               /\ \A b \in H!Buckets : \A i \in 1 .. Len(htable[b]) :
                    Upto(b, i, d, m) <=> Upto(b, i, c, j) \/ (b = d /\ i = m)
      <4>1. LET a == H!After(htable[c][j].key)
            IN \/ a = 0 /\ \A b \in H!Buckets : \A i \in 1 .. Len(htable[b]) : Upto(b, i, c, j)
               \/ \E d \in H!Buckets : \E m \in 1 .. Len(htable[d]) :
                    /\ a = htable[d][m].key /\ ~Upto(d, m, c, j)
                    /\ \A b \in H!Buckets : \A i \in 1 .. Len(htable[b]) :
                         Upto(b, i, d, m) <=> Upto(b, i, c, j) \/ (b = d /\ i = m)
        BY AfterPlace
      <4> QED BY <3>3, <4>1
    <3> QED BY <3>4, <3>5, <3>6
  <2> QED BY <2>2, <2>3, HashUnfolded
<1> HIDE DEF h
<1>5. Ended'
  BY <1>1, <1>3, NameGiven DEF Ended
<1>6. H!TypeOK'
  <2>1. hseen' \in Seq(Keys)
    BY <1>1, <1>2, <1>3
  <2> QED BY <1>1, <1>3, <2>1, HashUnfolded, TypedAfter
<1>7. Placed' /\ Sized' /\ Living'
  BY <1>1, ChainsSame
<1> QED BY <1>4, <1>5, <1>6, <1>7 DEF HashInv

LEMMA HashKept == HashInv /\ [H!Next]_mapvars => HashInv'
<1> SUFFICES ASSUME HashInv, [H!Next]_mapvars
             PROVE  HashInv'
  OBVIOUS
<1>1. CASE UNCHANGED mapvars
  BY <1>1, AnswerKeeps DEF mapvars, H!Kept, H!walk
<1>2. ASSUME NEW n \in Keys, H!Get(n) \/ H!ContainsKey(n) \/ H!RemoveNothing(n) PROVE HashInv'
  BY <1>2, AnswerKeeps DEF H!Get, H!ContainsKey, H!RemoveNothing, H!Answer
<1>3. ASSUME NEW n \in Keys, NEW v \in Vals, H!PutNothing(n, v) PROVE HashInv'
  BY <1>3, AnswerKeeps DEF H!PutNothing, H!Answer
<1> QED BY <1>1, <1>2, <1>3, RemoveKeyKeeps, PutReplaceKeeps, PutInsertKeeps,
           ClearKeeps, FirstKeyKeeps, NextKeyKeeps, Zenon DEF H!Next

-----------------------------------------------------------------------------
(* The containers side by side *)

ContainersInv == ArrayInv /\ LinkInv /\ HashInv

LEMMA ContainersInitially == MCInit => ContainersInv
BY ArrayInitially, LinkInitially, HashInitially DEF MCInit, ContainersInv

LEMMA ContainersKept == ContainersInv /\ [MCNext]_allvars => ContainersInv'
<1> SUFFICES ASSUME ContainersInv, [MCNext]_allvars
             PROVE  ContainersInv'
  OBVIOUS
<1>1. [A!Next]_arrayvars /\ [L!Next]_linkvars /\ [H!Next]_mapvars
  BY Zenon DEF MCNext, ArrayStep, LinkStep, MapStep, allvars
<1> QED BY <1>1, ArrayKept, LinksKept, HashKept DEF ContainersInv

(* Whatever is put in or taken out, and for every size of them: the array  *)
(* keeps its data in the buffer, the list reaches the same elements from   *)
(* both ends, a hash code is in its bucket, once, and none of them holds   *)
(* an object it has deleted (Array.h, LinkedList.h, HashMap.h, HashMapP.h).*)
THEOREM StructuresSoundHolds == MCSpec => []StructuresSound
<1>1. ContainersInv => StructuresSound
  BY ArrayInvImplies, LinkInvImplies, HashInvImplies DEF ContainersInv, StructuresSound
<1> QED BY <1>1, ContainersInitially, ContainersKept, PTL DEF MCSpec

(* A walk by nextKey() that ends has met each key that was in the map all  *)
(* the time once, whatever else came and went meanwhile, unless the key it *)
(* stood on was removed (HashMap.h:322-371).                               *)
THEOREM WalkCompleteHolds == MCSpec => []WalkComplete
<1>1. ContainersInv => WalkComplete
  BY HashInvImplies DEF ContainersInv, WalkComplete
<1> QED BY <1>1, ContainersInitially, ContainersKept, PTL DEF MCSpec

-----------------------------------------------------------------------------
(* The array as a sequence *)

LEMMA SameSequence ==
  ASSUME NEW S, NEW s \in Seq(S), NEW t \in Seq(S), Len(s) = Len(t),
         \A i \in 1 .. Len(s) : s[i] = t[i]
  PROVE  s = t
OBVIOUS

LEMMA Beginning ==
  ASSUME NEW S, NEW s \in Seq(S), NEW n \in Nat, n <= Len(s)
  PROVE  /\ SubSeq(s, 1, n) \in Seq(S) /\ Len(SubSeq(s, 1, n)) = n
         /\ \A i \in 1 .. n : SubSeq(s, 1, n)[i] = s[i]
BY SubSeqProperties

\* What the content is, known by its length and its elements.
LEMMA ContentNow ==
  ASSUME ArrayTyped', NEW t \in Seq(Cell), Len(t) = acount',
         \A i \in 1 .. acount' : acells'[i] = t[i]
  PROVE  A!Content' = t
<1>1. acells' \in Seq(Cell) /\ acount' \in Nat /\ acount' <= Len(acells')
  BY DEF ArrayTyped
<1> DEFINE u == SubSeq(acells', 1, acount')
<1>2. u \in Seq(Cell) /\ Len(u) = acount' /\ \A i \in 1 .. acount' : u[i] = acells'[i]
  BY <1>1, Beginning
<1>3. A!Content' = u
  BY DEF A!Content
<1> HIDE DEF u
<1>4. u = t
  <2>1. \A i \in 1 .. Len(u) : u[i] = t[i]
    BY <1>2
  <2> QED BY <1>2, <2>1, SameSequence
<1> QED BY <1>3, <1>4

\* What is left without the elements behind start up to stop.
Without(s, start, stop) == SubSeq(s, 1, start) \o SubSeq(s, stop + 1, Len(s))

Shortened(c, s, start, stop) ==
  /\ c \in Seq(Cell) /\ Len(c) = Len(s) - (stop - start)
  /\ \A i \in 1 .. Len(s) - (stop - start) :
       (i <= start => c[i] = s[i]) /\ (i > start => c[i] = s[i + stop - start])

LEMMA CutIs ==
  ASSUME NEW s \in Seq(Cell), NEW start \in Nat, NEW stop \in Nat, start <= stop, stop <= Len(s),
         NEW c, c = Without(s, start, stop)
  PROVE  Shortened(c, s, start, stop)
<1> DEFINE a == SubSeq(s, 1, start)
           b == SubSeq(s, stop + 1, Len(s))
           m == Len(s) - (stop - start)
<1>1. a \in Seq(Cell) /\ Len(a) = start /\ \A i \in 1 .. start : a[i] = s[i]
  BY SubSeqProperties
<1>2. b \in Seq(Cell) /\ Len(b) = Len(s) - stop /\ \A i \in 1 .. Len(s) - stop : b[i] = s[stop + i]
  BY SubSeqProperties
<1>3. c = a \o b
  BY DEF Without
<1> HIDE DEF a, b
<1>4. /\ c \in Seq(Cell) /\ Len(c) = Len(a) + Len(b)
      /\ \A i \in 1 .. Len(c) : c[i] = IF i <= Len(a) THEN a[i] ELSE b[i - Len(a)]
  <2>1. a \in Seq(Cell) /\ b \in Seq(Cell)
    BY <1>1, <1>2
  <2> QED BY ONLY <1>3, <2>1, Joined
<1>0. Len(s) \in Nat /\ start \in Nat /\ stop \in Nat /\ start <= stop /\ stop <= Len(s)
  OBVIOUS
<1>5. Len(c) = m
  BY ONLY <1>0, <1>1, <1>2, <1>4
<1>6. ASSUME NEW i \in 1 .. m, i <= start PROVE c[i] = s[i]
  <2>1. i \in 1 .. start /\ i \in 1 .. Len(c) /\ i <= Len(a)
    BY ONLY i \in 1 .. m, <1>0, <1>1, <1>5, <1>6
  <2> QED BY ONLY <1>1, <1>4, <2>1
<1>7. ASSUME NEW i \in 1 .. m, i > start PROVE c[i] = s[i + stop - start]
  <2>1. i - start \in 1 .. Len(s) - stop /\ stop + (i - start) = i + stop - start
    BY ONLY i \in 1 .. m, <1>0, <1>7
  <2>2. c[i] = b[i - start]
    BY ONLY i \in 1 .. m, <1>0, <1>1, <1>4, <1>5, <1>7
  <2> QED BY ONLY <1>2, <2>1, <2>2
<1> QED BY ONLY <1>4, <1>5, <1>6, <1>7 DEF m, Shortened

\* A step is the call that the answer names.
LEMMA SequenceStep ==
  ASSUME NEW op, NEW i, NEW v, NEW result, alast' = A!Answer(op, i, v, result),
         \/ Sequence!LsGet(i) \/ Sequence!LsRemove(i) \/ Sequence!LsTake(i)
         \/ Sequence!LsTruncate(i) \/ Sequence!LsSetSize(i) \/ Sequence!LsRemoveRange(i, v)
         \/ Sequence!LsPut(i, v) \/ Sequence!LsInsert(i, v)
         \/ Sequence!LsIndexOf(v, i) \/ Sequence!LsLastIndexOf(v)
         \/ Sequence!LsAssign(A!Content')
  PROVE  Sequence!LsNext
<1>1. alast'.index = i /\ alast'.value = v
  BY DEF A!Answer
<1> QED BY <1>1, Zenon DEF Sequence!LsNext

LEMMA ArrayFacts ==
  ASSUME ArrayInv
  PROVE  /\ ArrayTyped /\ acells \in Seq(Cell) /\ acount \in Nat /\ Len(acells) \in Nat
         /\ acount <= Len(acells)
         /\ A!Content \in Seq(Cell) /\ Len(A!Content) = acount
         /\ \A i \in 1 .. acount : A!Content[i] = acells[i]
         /\ Sequence!Indices = 0 .. acount - 1
<1>1. ArrayTyped /\ acells \in Seq(Cell) /\ acount \in Nat /\ Len(acells) \in Nat /\ acount <= Len(acells)
  BY DEF ArrayInv, ArrayTyped
<1>2. A!Content \in Seq(Cell) /\ Len(A!Content) = acount /\ \A i \in 1 .. acount : A!Content[i] = acells[i]
  BY <1>1, ContentCells
<1> QED BY <1>1, <1>2 DEF Sequence!Indices

LEMMA GetPutAre ==
  ASSUME ArrayInv, ArrayInv', NEW i \in Int
  PROVE  /\ A!Get(i) => Sequence!LsNext
         /\ \A v \in Cells : A!Put(i, v) => Sequence!LsNext
<1> DEFINE s == A!Content
<1>1. /\ s \in Seq(Cell) /\ Len(s) = acount /\ acount \in Nat /\ \A j \in 1 .. acount : s[j] = acells[j]
      /\ Sequence!Indices = 0 .. acount - 1
  BY ArrayFacts
<1>2. ASSUME A!Get(i) PROVE Sequence!LsNext
  <2>1. i \in Sequence!Indices /\ i + 1 \in 1 .. acount
    BY <1>1, <1>2 DEF A!Get, A!Index
  <2>2. alast' = A!Answer("get", i, None, s[i + 1]) /\ s' = s
    BY <1>1, <1>2, <2>1 DEF A!Get, A!Content
  <2>3. Sequence!LsGet(i)
    BY <2>1, <2>2 DEF Sequence!LsGet, Sequence!Answer, A!Answer
  <2> QED BY <2>2, <2>3, SequenceStep
<1>3. ASSUME NEW v \in Cells, A!Put(i, v) PROVE Sequence!LsNext
  <2>1. i \in Sequence!Indices /\ i + 1 \in 1 .. acount
    BY <1>1, <1>3 DEF A!Put, A!Index
  <2>2. /\ alast' = A!Answer("put", i, v, None)
        /\ acells' = [acells EXCEPT ![i + 1] = v] /\ acount' = acount
    BY <1>3 DEF A!Put, A!ReplaceAt
  <2> DEFINE t == [s EXCEPT ![i + 1] = v]
  <2>3. /\ t \in Seq(Cell) /\ Len(t) = acount
        /\ \A j \in 1 .. acount : t[j] = IF j = i + 1 THEN v ELSE acells[j]
    <3>1. v \in Cell
      BY DEF Cell
    <3> HIDE DEF s
    <3> QED BY <1>1, <2>1, <3>1
  <2>4. \A j \in 1 .. acount : acells'[j] = IF j = i + 1 THEN v ELSE acells[j]
    BY <2>2, ArrayFacts
  <2> HIDE DEF t
  <2>5. s' = t
    <3>1. ArrayTyped' /\ Len(t) = acount' /\ \A j \in 1 .. acount' : acells'[j] = t[j]
      BY <2>2, <2>3, <2>4 DEF ArrayInv
    <3> QED BY <2>3, <3>1, ContentNow
  <2>6. Sequence!LsPut(i, v)
    BY <2>1, <2>2, <2>5 DEF t, Sequence!LsPut, Sequence!Answer, Sequence!ReplaceAt, A!Answer
  <2> QED BY <2>2, <2>6, SequenceStep
<1> QED BY <1>2, <1>3

LEMMA InsertIs ==
  ASSUME ArrayInv, ArrayInv', NEW i \in Int, NEW v \in Cells, A!Insert(i, v)
  PROVE  Sequence!LsNext
<1> DEFINE s == A!Content
           k == (IF i < 0 THEN 0 ELSE IF i >= acount THEN acount ELSE i) + 1
           t == L!InsertAt(s, k, v)
<1>1. s \in Seq(Cell) /\ Len(s) = acount /\ acount \in Nat /\ \A j \in 1 .. acount : s[j] = acells[j]
  BY ArrayFacts
<1>2. /\ k \in 1 .. acount + 1
      /\ \A j \in 1 .. acount + 1 :
           acells'[j] = IF j < k THEN acells[j] ELSE IF j = k THEN v ELSE acells[j - 1]
  BY InsertedCells
<1>3. alast' = A!Answer("insert", i, v, None) /\ acount' = acount + 1
  BY DEF A!Insert
<1>4. k = (IF i < 0 THEN 0 ELSE IF i > Len(s) THEN Len(s) ELSE i) + 1
  BY <1>1
<1>5. t = Sequence!InsertAt(s, k, v)
  BY DEF L!InsertAt, Sequence!InsertAt
<1> HIDE DEF k, s
<1>6. /\ t \in Seq(Cell) /\ Len(t) = Len(s) + 1
      /\ \A j \in 1 .. Len(t) : t[j] = IF j < k THEN s[j] ELSE IF j = k THEN v ELSE s[j - 1]
  <2>1. s \in Seq(Cell) /\ v \in Cell /\ k \in 1 .. Len(s) + 1 /\ t = L!InsertAt(s, k, v)
    BY <1>1, <1>2 DEF Cell
  <2> HIDE DEF t
  <2> QED BY ONLY <2>1, InsertedAt
<1> HIDE DEF t
<1>7. ASSUME NEW j \in 1 .. acount' PROVE acells'[j] = t[j]
  <2>1. j \in 1 .. acount + 1 /\ j \in 1 .. Len(t)
    BY <1>1, <1>3, <1>6
  <2>2. /\ acells'[j] = IF j < k THEN acells[j] ELSE IF j = k THEN v ELSE acells[j - 1]
        /\ t[j] = IF j < k THEN s[j] ELSE IF j = k THEN v ELSE s[j - 1]
    BY <1>2, <1>6, <2>1
  <2>3. (j < k => j \in 1 .. acount) /\ (~(j < k) /\ j # k => j - 1 \in 1 .. acount)
    BY <1>1, <1>2, <2>1
  <2> QED BY <1>1, <2>2, <2>3
<1>8. A!Content' = t
  <2>1. ArrayTyped' /\ Len(t) = acount'
    BY <1>1, <1>3, <1>6 DEF ArrayInv
  <2> QED BY <1>6, <1>7, <2>1, ContentNow
<1>9. Sequence!LsInsert(i, v)
  BY <1>3, <1>4, <1>5, <1>8 DEF s, Sequence!LsInsert, Sequence!Answer, A!Answer
<1> QED BY <1>3, <1>9, SequenceStep

\* The elements that remove(start, end) leaves.
LEMMA RemovedContent ==
  ASSUME ArrayInv, ArrayInv', NEW start \in Int, NEW end \in Int,
         NEW op \in {"remove", "range", "take"}, NEW result,
         op = "take" => start \in A!Index,
         A!RemoveCells(start, end, op, result),
         NEW stop, stop = IF end < 0 \/ end > acount THEN acount ELSE end
  PROVE  A!Content' = IF start \in A!Index /\ start < stop
                      THEN Without(A!Content, start, stop) ELSE A!Content
<1> DEFINE none == stop <= start \/ (apointers /\ op # "take" /\ start \notin A!Index)
           s == A!Content
           t == Without(s, start, stop)
<1>1. /\ s \in Seq(Cell) /\ Len(s) = acount /\ acount \in Nat /\ \A j \in 1 .. acount : s[j] = acells[j]
      /\ ArrayTyped /\ ArrayTyped'
  BY ArrayFacts DEF ArrayInv
<1>2. stop \in Int /\ stop <= acount
  BY <1>1
<1>3. IF none THEN acells' = acells /\ acount' = acount
      ELSE IF start < 0 THEN acells' = acells /\ acount' = acount
      ELSE acells' = A!Closed(start, stop) /\ acount' = acount - (stop - start)
  BY Zenon DEF A!RemoveCells
<1>4. CASE start \in A!Index /\ start < stop
  <2>1. start \in Nat /\ ~(start < 0) /\ ~none /\ stop \in Nat
    BY <1>1, <1>2, <1>4 DEF A!Index
  <2>2. acells' = A!Closed(start, stop) /\ acount' = acount - (stop - start)
    BY <1>3, <2>1
  <2>3. \A j \in 1 .. acount - (stop - start) :
          acells'[j] = acells[IF j > start THEN j + stop - start ELSE j]
    BY <1>1, <1>2, <1>4, <2>1, <2>2, ClosedCells
  <2>4. /\ t \in Seq(Cell) /\ Len(t) = Len(s) - (stop - start)
        /\ \A j \in 1 .. Len(s) - (stop - start) :
             (j <= start => t[j] = s[j]) /\ (j > start => t[j] = s[j + stop - start])
    <3>1. /\ s \in Seq(Cell) /\ start \in Nat /\ stop \in Nat /\ start <= stop /\ stop <= Len(s)
          /\ t = Without(s, start, stop)
      BY <1>1, <1>2, <1>4, <2>1
    <3> HIDE DEF s, t
    <3>2. Shortened(t, s, start, stop)
      BY ONLY <3>1, CutIs
    <3> QED BY <3>2 DEF Shortened
  <2> HIDE DEF s, t
  <2>5. ASSUME NEW j \in 1 .. acount' PROVE acells'[j] = t[j]
    <3>1. CASE j <= start
      <4>1. j \in 1 .. acount /\ j \in 1 .. acount - (stop - start) /\ j \in 1 .. Len(s) - (stop - start)
        BY <1>1, <1>2, <1>4, <2>1, <2>2, <3>1
      <4>2. ~(j > start)
        BY <2>1, <3>1, <4>1
      <4>3. acells'[j] = acells[j]
        BY <2>3, <4>1, <4>2
      <4>4. t[j] = s[j]
        BY <2>4, <3>1, <4>1
      <4>5. s[j] = acells[j]
        BY <1>1, <4>1
      <4> QED BY <4>3, <4>4, <4>5
    <3>2. CASE j > start
      <4>1. /\ j + stop - start \in 1 .. acount /\ j \in 1 .. acount - (stop - start)
            /\ j \in 1 .. Len(s) - (stop - start)
        BY <1>1, <1>2, <1>4, <2>1, <2>2, <3>2
      <4> DEFINE past == j + stop - start
      <4>2. acells'[j] = acells[past]
        BY <2>3, <3>2, <4>1
      <4>3. t[j] = s[past]
        BY <2>4, <3>2, <4>1
      <4>4. s[past] = acells[past]
        BY <1>1, <4>1
      <4> QED BY <4>2, <4>3, <4>4
    <3>3. j \in Int
      BY <1>1, <1>2, <2>1, <2>2
    <3> QED BY <2>1, <3>1, <3>2, <3>3
  <2>6. A!Content' = t
    BY <1>1, <2>1, <2>2, <2>4, <2>5, ContentNow
  <2> QED BY <1>4, <2>6 DEF s, t
<1>5. CASE ~(start \in A!Index /\ start < stop)
  <2>1. none \/ start < 0
    BY <1>1, <1>2, <1>5 DEF A!Index
  <2>2. acells' = acells /\ acount' = acount
    BY <1>3, <2>1
  <2> QED BY <1>5, <2>2 DEF A!Content
<1> QED BY <1>4, <1>5

LEMMA RemovesAre ==
  ASSUME ArrayInv, ArrayInv', NEW i \in Int
  PROVE  /\ A!RemoveOne(i) \/ A!Take(i) => Sequence!LsNext
         /\ \A end \in Int : A!RemoveRange(i, end) => Sequence!LsNext
<1> DEFINE s == A!Content
<1>1. /\ s \in Seq(Cell) /\ Len(s) = acount /\ acount \in Nat /\ \A j \in 1 .. acount : s[j] = acells[j]
      /\ Sequence!Indices = 0 .. acount - 1 /\ A!Index = 0 .. acount - 1
  BY ArrayFacts DEF A!Index
<1>2. i \in A!Index => Sequence!RemoveAt(s, i + 1) = Without(s, i, i + 1)
  <2>1. (i + 1) - 1 = i
    OBVIOUS
  <2> HIDE DEF s
  <2> QED BY <1>1, <2>1, Zenon DEF Sequence!RemoveAt, Without
<1> DEFINE stop == IF i + 1 < 0 \/ i + 1 > acount THEN acount ELSE i + 1
<1>3. /\ i \in A!Index => stop = i + 1 /\ i < stop
      /\ i \notin A!Index => ~(i \in A!Index /\ i < stop)
  BY <1>1
<1> HIDE DEF stop
<1> DEFINE left == IF i \in A!Index THEN Sequence!RemoveAt(s, i + 1) ELSE s
<1>4. (IF i \in A!Index /\ i < stop THEN Without(s, i, stop) ELSE s) = left
  <2> HIDE DEF s
  <2> QED BY <1>2, <1>3, Zenon
<1>8. stop = IF i + 1 < 0 \/ i + 1 > acount THEN acount ELSE i + 1
  BY DEF stop
<1>5. ASSUME A!RemoveOne(i) PROVE Sequence!LsNext
  <2>1. A!RemoveCells(i, i + 1, "remove", None) /\ alast' = A!Answer("remove", i, None, None)
    BY <1>5 DEF A!RemoveOne, A!RemoveCells
  <2>2. s' = left
    BY <1>4, <1>8, <2>1, RemovedContent
  <2>3. Sequence!LsRemove(i)
    BY <1>1, <2>1, <2>2 DEF Sequence!LsRemove, Sequence!Answer, A!Answer
  <2> QED BY <2>1, <2>3, SequenceStep
<1>6. ASSUME A!Take(i) PROVE Sequence!LsNext
  <2>1. /\ i \in A!Index /\ A!RemoveCells(i, i + 1, "take", None)
        /\ alast' = A!Answer("take", i, None, acells[i + 1])
    BY <1>6 DEF A!Take, A!RemoveCells
  <2>2. s' = left
    BY <1>4, <1>8, <2>1, RemovedContent
  <2>3. s[i + 1] = acells[i + 1]
    <3>1. i + 1 \in 1 .. acount
      BY <1>1, <2>1
    <3> QED BY <1>1, <3>1
  <2>4. Sequence!LsTake(i)
    BY <1>1, <2>1, <2>2, <2>3 DEF Sequence!LsTake, Sequence!Answer, A!Answer
  <2> QED BY <2>1, <2>4, SequenceStep
<1>7. ASSUME NEW end \in Int, A!RemoveRange(i, end) PROVE Sequence!LsNext
  <2>1. A!RemoveCells(i, end, "range", end) /\ alast' = A!Answer("range", i, end, None)
    BY <1>7 DEF A!RemoveRange, A!RemoveCells
  <2> DEFINE last == IF end \in 0 .. acount THEN end ELSE acount
  <2>2. last = IF end < 0 \/ end > acount THEN acount ELSE end
    BY <1>1
  <2>3. s' = IF i \in A!Index /\ i < last THEN Without(s, i, last) ELSE s
    <3> HIDE DEF last
    <3> QED BY <2>1, <2>2, RemovedContent
  <2>4. Sequence!LsRemoveRange(i, end)
    BY <1>1, <2>1, <2>3 DEF Without, Sequence!LsRemoveRange, Sequence!Answer, A!Answer
  <2> QED BY <2>1, <2>4, SequenceStep
<1> QED BY <1>5, <1>6, <1>7

LEMMA TruncateIs ==
  ASSUME ArrayInv, ArrayInv', NEW n \in Int, A!Truncate(n)
  PROVE  Sequence!LsNext
<1> DEFINE s == A!Content
<1>1. /\ acount \in Nat /\ acount <= Len(acells) /\ acells \in Seq(Cell)
      /\ s \in Seq(Cell) /\ Len(s) = acount /\ \A j \in 1 .. acount : s[j] = acells[j]
      /\ Sequence!Indices = 0 .. acount - 1 /\ ArrayTyped'
  BY ArrayFacts DEF ArrayInv
<1>2. /\ alast' = A!Answer("truncate", n, None, None) /\ acells' = acells
      /\ acount' = IF n >= 0 /\ n < acount THEN n ELSE acount
  BY DEF A!Truncate
<1>3. s' = IF n \in Sequence!Indices THEN SubSeq(s, 1, n) ELSE s
  <2>1. CASE n \in Sequence!Indices
    <3>1. n \in Nat /\ n <= Len(s) /\ acount' = n
      BY <1>1, <1>2, <2>1
    <3> DEFINE t == SubSeq(s, 1, n)
    <3>2. t \in Seq(Cell) /\ Len(t) = n /\ \A j \in 1 .. n : t[j] = s[j]
      <4> HIDE DEF s
      <4> QED BY <1>1, <3>1, Beginning
    <3>3. \A j \in 1 .. n : j \in 1 .. acount
      BY <1>1, <3>1
    <3> HIDE DEF s, t
    <3>4. \A j \in 1 .. acount' : acells'[j] = t[j]
      BY <1>1, <1>2, <3>1, <3>2, <3>3
    <3>5. A!Content' = t
      BY <1>1, <3>1, <3>2, <3>4, ContentNow
    <3> QED BY <2>1, <3>5 DEF s, t
  <2>2. CASE n \notin Sequence!Indices
    <3>1. acount' = acount
      BY <1>1, <1>2, <2>2
    <3> QED BY <1>2, <2>2, <3>1 DEF A!Content
  <2> QED BY <2>1, <2>2
<1>4. Sequence!LsTruncate(n)
  BY <1>2, <1>3 DEF Sequence!LsTruncate, Sequence!Answer, A!Answer
<1> QED BY <1>2, <1>4, SequenceStep

\* setSize() keeps what it does not cut off, and takes more cells as they are.
LEMMA SetSizeIs ==
  ASSUME ArrayInv, ArrayInv', NEW n \in Int, NEW buf \in Int, A!SetSize(n, buf)
  PROVE  Sequence!LsNext
<1> DEFINE s == A!Content
           m == IF buf < n THEN n ELSE buf
<1>1. /\ acount \in Nat /\ acount <= Len(acells) /\ acells \in Seq(Cell) /\ ArrayTyped
      /\ s \in Seq(Cell) /\ Len(s) = acount /\ \A j \in 1 .. acount : s[j] = acells[j]
  BY ArrayFacts
<1>2. /\ alast' = A!Answer("setSize", n, None, None)
      /\ IF n < 0 THEN acells' = acells /\ acount' = acount
         ELSE /\ acount' = n
              /\ acells' = IF buf >= 0 THEN A!Resized(m)
                           ELSE IF n > Len(acells) THEN A!Resized(n) ELSE acells
  BY Zenon DEF A!SetSize
<1>3. m \in Int
  OBVIOUS
<1> HIDE DEF m
<1>4. \A j \in 1 .. acount : A!Resized(m)[j] = acells[j] /\ A!Resized(n)[j] = acells[j]
  BY <1>1, <1>3, ResizedCells
<1>5. ~(n < 0) => acount' = n /\ \A j \in 1 .. acount : acells'[j] = s[j]
  BY <1>1, <1>2, <1>4
<1>6. ArrayTyped' /\ acells' \in Seq(Cell) /\ acount' \in Nat /\ acount' <= Len(acells')
  BY DEF ArrayInv, ArrayTyped
<1>7. CASE n < 0
  <2>1. s' = s
    BY <1>2, <1>7 DEF A!Content
  <2> QED BY <1>2, <1>7, <2>1, SequenceStep DEF Sequence!LsSetSize, Sequence!Answer, A!Answer
<1>8. CASE ~(n < 0) /\ n <= acount
  <2> DEFINE t == SubSeq(s, 1, n)
  <2>1. n \in Nat /\ n <= Len(s) /\ \A j \in 1 .. n : j \in 1 .. acount
    BY <1>1, <1>8
  <2> HIDE DEF s
  <2>2. t \in Seq(Cell) /\ Len(t) = n /\ \A j \in 1 .. n : t[j] = s[j]
    BY <1>1, <2>1, Beginning
  <2> HIDE DEF t
  <2>3. A!Content' = t
    BY <1>5, <1>6, <1>8, <2>1, <2>2, ContentNow
  <2>4. Sequence!LsSetSize(n)
    BY <1>1, <1>2, <1>8, <2>3 DEF s, t, Sequence!LsSetSize, Sequence!Answer, A!Answer
  <2> QED BY <1>2, <2>4, SequenceStep
<1>9. CASE n > acount
  <2> DEFINE more == [j \in 1 .. n - acount |-> acells'[acount + j]]
             t == s \o more
  <2>1. ~(n < 0) /\ acount' = n /\ \A j \in 1 .. acount : acells'[j] = s[j]
    BY <1>1, <1>5, <1>9
  <2>2. \A j \in 1 .. n - acount : acount + j \in 1 .. Len(acells')
    BY <1>1, <1>6, <2>1
  <2>3. more \in [1 .. n - acount -> Cell]
    BY <1>6, <2>2
  <2>4. n - acount \in Nat
    BY <1>1, <1>9
  <2>5. \A j \in 1 .. n - acount : more[j] = acells'[acount + j]
    OBVIOUS
  <2> HIDE DEF s, more
  <2>6. more \in Seq(Cell) /\ Len(more) = n - acount
    BY ONLY <2>3, <2>4
  <2>7. t = s \o more
    OBVIOUS
  <2> HIDE DEF t
  <2>8. /\ t \in Seq(Cell) /\ Len(t) = Len(s) + Len(more)
        /\ \A j \in 1 .. Len(t) : t[j] = IF j <= Len(s) THEN s[j] ELSE more[j - Len(s)]
    <3>1. s \in Seq(Cell) /\ more \in Seq(Cell)
      BY <1>1, <2>6
    <3> QED BY ONLY <2>7, <3>1, Joined
  <2>9. ASSUME NEW j \in 1 .. acount' PROVE acells'[j] = t[j]
    <3>1. j \in 1 .. Len(t) /\ Len(t) = n
      BY <1>1, <1>9, <2>1, <2>6, <2>8
    <3>2. CASE j <= acount
      BY <1>1, <2>1, <2>8, <3>1, <3>2
    <3>3. CASE j > acount
      <4>1. j - acount \in 1 .. n - acount /\ acount + (j - acount) = j
        BY <1>1, <3>1, <3>3
      <4>2. t[j] = more[j - acount]
        BY <1>1, <2>8, <3>1, <3>3
      <4> QED BY <2>5, <4>1, <4>2
    <3> QED BY <1>1, <3>1, <3>2, <3>3
  <2>10. A!Content' = t
    <3>1. Len(t) = acount'
      BY <1>1, <2>1, <2>6, <2>8
    <3> QED BY <1>6, <2>8, <2>9, <3>1, ContentNow
  <2>11. Sequence!LsSetSize(n)
    <3>1. ~(n <= Len(s)) /\ more \in [1 .. n - Len(s) -> Cell]
      BY <1>1, <1>9, <2>3
    <3> QED BY <1>2, <2>1, <2>7, <2>10, <3>1
            DEF s, Cell, Sequence!LsSetSize, Sequence!Answer, A!Answer
  <2> QED BY <1>2, <2>11, SequenceStep
<1> QED BY <1>1, <1>7, <1>8, <1>9

LEMMA SearchesAre ==
  ASSUME ArrayInv, NEW v \in Cells, NEW i \in Int
  PROVE  A!IndexOf(v, i) \/ A!LastIndexOf(v) => Sequence!LsNext
<1> DEFINE s == A!Content
<1>1. /\ acount \in Nat /\ \A j \in 1 .. acount : s[j] = acells[j]
      /\ Sequence!Indices = 0 .. acount - 1 /\ A!Index = 0 .. acount - 1
  BY ArrayFacts DEF A!Index
<1>2. ASSUME NEW start \in Int PROVE A!Found(v, start) = Sequence!Hits(v, start)
  <2>1. \A j \in 0 .. acount - 1 : s[j + 1] = acells[j + 1]
    <3>1. \A j \in 0 .. acount - 1 : j + 1 \in 1 .. acount
      BY <1>1
    <3> QED BY <1>1, <3>1
  <2> QED BY <1>1, <2>1 DEF A!Found, Sequence!Hits
<1>3. ASSUME A!IndexOf(v, i) PROVE Sequence!LsNext
  <2> DEFINE found == Sequence!Hits(v, i)
  <2>1. /\ s' = s
        /\ alast' = A!Answer("indexOf", i, v, A!Min(found \cup (IF found = {} THEN {-1} ELSE {})))
    BY <1>2, <1>3 DEF A!IndexOf, A!Content
  <2>2. A!Min(found \cup (IF found = {} THEN {-1} ELSE {})) = IF found = {} THEN -1 ELSE Sequence!Min(found)
    <3> HIDE DEF found
    <3>1. CASE found = {}
      <4>1. found \cup {-1} = {-1}
        BY <3>1
      <4>2. A!Min({-1}) = -1
        BY DEF A!Min
      <4> QED BY <3>1, <4>1, <4>2
    <3>2. CASE found # {}
      <4>1. found \cup {} = found
        OBVIOUS
      <4>2. A!Min(found) = Sequence!Min(found)
        BY DEF A!Min, Sequence!Min
      <4> QED BY <3>2, <4>1, <4>2
    <3> QED BY <3>1, <3>2
  <2>3. Sequence!LsIndexOf(v, i)
    BY <2>1, <2>2 DEF Sequence!LsIndexOf, Sequence!Answer, A!Answer
  <2> QED BY <2>1, <2>3, SequenceStep
<1>4. ASSUME A!LastIndexOf(v) PROVE Sequence!LsNext
  <2>1. s' = s /\ alast' = A!Answer("lastIndexOf", 0, v, Sequence!Max(Sequence!Hits(v, 0) \cup {-1}))
    <3>1. A!Found(v, 0) = Sequence!Hits(v, 0)
      BY <1>2
    <3>2. \A S : A!Max(S) = Sequence!Max(S)
      BY DEF A!Max, Sequence!Max
    <3>3. s' = s /\ alast' = A!Answer("lastIndexOf", 0, v, A!Max(A!Found(v, 0) \cup {-1}))
      BY <1>4 DEF A!LastIndexOf, A!Content
    <3> QED BY <3>1, <3>2, <3>3
  <2>2. Sequence!LsLastIndexOf(v)
    BY <2>1 DEF Sequence!LsLastIndexOf, Sequence!Answer, A!Answer
  <2> QED BY <2>1, <2>2, SequenceStep
<1> QED BY <1>3, <1>4

\* Moving the data to another buffer changes nothing.
LEMMA BuffersAre ==
  ASSUME ArrayInv, ArrayInv', NEW n \in Int, A!SetMinBufSize(n) \/ A!Copy(n)
  PROVE  UNCHANGED Sequence!lsVars
<1> DEFINE s == A!Content
<1>1. /\ acount \in Nat /\ acount <= Len(acells) /\ acells \in Seq(Cell) /\ ArrayTyped /\ ArrayTyped'
      /\ s \in Seq(Cell) /\ Len(s) = acount /\ \A j \in 1 .. acount : s[j] = acells[j]
  BY ArrayFacts DEF ArrayInv
<1> DEFINE gap == Len(acells) - acount
           rest == A!Fresh(gap)
<1>2. alast' = alast /\ acount' = acount /\ (acells' = A!Resized(n) \/ acells' = s \o rest)
  BY DEF A!SetMinBufSize, A!Copy
<1>3. rest \in Seq(Cell)
  BY <1>1, FreshCells
<1> HIDE DEF rest
<1>4. \A j \in 1 .. acount : A!Resized(n)[j] = acells[j]
  BY <1>1, ResizedCells
<1>5. \A j \in 1 .. acount : (s \o rest)[j] = s[j]
  <2> HIDE DEF s
  <2> QED BY <1>1, <1>3, FollowedBy
<1> HIDE DEF s
<1>6. \A j \in 1 .. acount' : acells'[j] = s[j]
  <2>1. CASE acells' = A!Resized(n)
    BY <1>1, <1>2, <1>4, <2>1
  <2>2. CASE acells' = s \o rest
    BY <1>2, <1>5, <2>2
  <2> QED BY <1>2, <2>1, <2>2
<1>7. A!Content' = s
  BY <1>1, <1>2, <1>6, ContentNow
<1> QED BY <1>2, <1>7 DEF s, Sequence!lsVars

LEMMA AssignIs ==
  ASSUME ArrayInv', NEW data \in A!Data, NEW spare \in {0, 2}, A!Assign(data, spare)
  PROVE  Sequence!LsNext
<1>1. alast' = A!Answer("assign", acount', None, None)
  BY Zenon DEF A!Assign
<1>2. Len(A!Content') = acount'
  <2>1. acells' \in Seq(Cell) /\ acount' \in Nat /\ acount' <= Len(acells')
    BY DEF ArrayInv, ArrayTyped
  <2>2. A!Content' = SubSeq(acells', 1, acount')
    BY DEF A!Content
  <2>3. Len(SubSeq(acells', 1, acount')) = acount'
    BY <2>1, Beginning
  <2> QED BY <2>2, <2>3
<1>3. Sequence!LsAssign(A!Content')
  BY <1>1, <1>2 DEF Sequence!LsAssign, Sequence!Answer, A!Answer
<1> QED BY <1>1, <1>3, SequenceStep

LEMMA ArraySteps ==
  ArrayInv /\ ArrayInv' /\ [A!Next]_arrayvars => [Sequence!LsNext]_(Sequence!lsVars)
<1> SUFFICES ASSUME ArrayInv, ArrayInv', [A!Next]_arrayvars
             PROVE  Sequence!LsNext \/ UNCHANGED Sequence!lsVars
  OBVIOUS
<1>1. CASE UNCHANGED arrayvars
  BY <1>1 DEF arrayvars, A!Content, Sequence!lsVars
<1>2. /\ \A i \in -1 .. MaxLen + 1 : i \in Int
      /\ \A n \in A!Lengths : n \in Int
      /\ -1 \in Int /\ MaxLen + 1 \in Int
  BY ContainersAssumption DEF A!Lengths
<1>3. ASSUME NEW i \in -1 .. MaxLen + 1,
             \/ A!Get(i) \/ A!RemoveOne(i) \/ A!Take(i) \/ A!Truncate(i)
             \/ \E end \in A!Lengths : A!RemoveRange(i, end)
             \/ \E v \in Cells : A!Put(i, v) \/ A!Insert(i, v) \/ A!IndexOf(v, i)
      PROVE  Sequence!LsNext
  BY ONLY ArrayInv, ArrayInv', <1>2, <1>3,
          GetPutAre, RemovesAre, TruncateIs, InsertIs, SearchesAre, Zenon
<1>4. ASSUME NEW v \in Cells, A!LastIndexOf(v) PROVE Sequence!LsNext
  BY <1>4, 0 \in Int, SearchesAre
<1>5. ASSUME NEW n \in A!Lengths,
             A!SetMinBufSize(n) \/ A!Copy(n) \/ A!SetSize(n, -1) \/ A!SetSize(n, MaxLen + 1)
      PROVE  Sequence!LsNext \/ UNCHANGED Sequence!lsVars
  BY <1>2, <1>5, BuffersAre, SetSizeIs
<1> QED BY <1>1, <1>3, <1>4, <1>5, AssignIs, Zenon DEF A!Next

LEMMA ArrayStarts == A!Init => Sequence!LsInit
<1> SUFFICES ASSUME A!Init
             PROVE  Sequence!LsInit
  OBVIOUS
<1>1. acount \in {0, 2} /\ alast = A!Answer("none", 0, None, None)
  BY DEF A!Init
<1>2. A!Content \in Seq(Cell) /\ Len(A!Content) = acount
  BY ArrayInitially, ArrayFacts
<1>3. A!Content \in [1 .. acount -> Cell]
  <2> DEFINE s == A!Content
  <2> HIDE DEF s
  <2>1. s \in Seq(Cell) /\ Len(s) = acount
    BY <1>2 DEF s
  <2>2. s \in [1 .. acount -> Cell]
    BY ONLY <2>1
  <2> QED BY <2>2 DEF s
<1>4. acount \in 0 .. 2
  BY <1>1
<1>5. A!Content \in Sequence!Starts
  BY <1>3, <1>4, Zenon DEF Sequence!Starts, Cell
<1> QED BY <1>1, <1>5 DEF Sequence!LsInit, Sequence!Answer, A!Answer

(* Refinement: every call of tmb::Array does to its elements and returns   *)
(* what the same call does to a sequence, for any elements, growth of the  *)
(* buffer and length, whatever the cells past the size hold (Array.h).     *)
THEOREM IsArrayHolds == MCSpec => IsArray
<1>1. MCInit => ContainersInv /\ Sequence!LsInit
  BY ContainersInitially, ArrayStarts DEF MCInit
<1>2. ContainersInv /\ [MCNext]_allvars => ContainersInv' /\ [Sequence!LsNext]_(Sequence!lsVars)
  <2> SUFFICES ASSUME ContainersInv, [MCNext]_allvars
               PROVE  ContainersInv' /\ [Sequence!LsNext]_(Sequence!lsVars)
    OBVIOUS
  <2>1. ContainersInv'
    BY ContainersKept
  <2>2. [A!Next]_arrayvars
    BY Zenon DEF MCNext, ArrayStep, LinkStep, MapStep, allvars
  <2> QED BY <2>1, <2>2, ArraySteps DEF ContainersInv
<1> QED BY <1>1, <1>2, PTL DEF MCSpec, IsArray, Sequence!LsSpec

-----------------------------------------------------------------------------
(* The map as a function *)

MapIs ==
  /\ DOMAIN MapContents = {n \in Keys : H!At(n) # {}}
  /\ \A n \in Keys : n \in DOMAIN MapContents <=> \E v \in Vals : Holds(n, v)
  /\ \A n \in Keys, v \in Vals : Holds(n, v) => MapContents[n] = v
  /\ \A n \in DOMAIN MapContents : n # 0 /\ Holds(n, MapContents[n]) /\ MapContents[n] \in Vals

LEMMA MapIsSo == HashInv => MapIs
<1> SUFFICES ASSUME HashInv
             PROVE  MapIs
  OBVIOUS
<1>1. \A n \in Keys : H!Matching(n) = H!At(n) /\ NumberHash[n] = n
  BY NumberKeys DEF H!Matching
<1>2. DOMAIN MapContents = {n \in Keys : H!At(n) # {}}
  BY <1>1, Zenon DEF MapContents
<1>3. ASSUME NEW n \in Keys, H!At(n) # {}
      PROVE  /\ Holds(n, MapContents[n]) /\ MapContents[n] \in Vals /\ n # 0
             /\ \A v : Holds(n, v) => MapContents[n] = v
  <2>1. PICK i \in 1 .. Len(htable[n % HashSize]) :
          /\ H!At(n) = {i} /\ H!First(H!At(n)) = i /\ htable[n % HashSize][i].key = n
    BY <1>3, AtOne
  <2>2. n % HashSize \in H!Buckets
    BY BucketOf
  <2>3. htable[n % HashSize][i].data \in Vals
    BY <2>2, HashUnfolded
  <2>4. MapContents[n] = H!Found(n)
    BY <1>1, <1>3, Zenon DEF MapContents
  <2>5. H!Found(n) = htable[n % HashSize][i].data
    BY <1>1, <1>3, <2>1 DEF H!Found, H!Chain, H!hashidx
  <2>6. ASSUME NEW c \in H!Buckets, NEW j \in 1 .. Len(htable[c]), htable[c][j].key = n
        PROVE  c = n % HashSize /\ j = i
    BY <2>1, <2>2, <2>6 DEF HashInv, Placed
  <2>7. \A v : Holds(n, v) => MapContents[n] = v
    BY <2>4, <2>5, <2>6 DEF Holds
  <2>8. Holds(n, htable[n % HashSize][i].data)
    BY <2>1, <2>2 DEF Holds
  <2> QED BY <1>3, <2>3, <2>4, <2>5, <2>7, <2>8, AtOne
<1>4. ASSUME NEW n \in Keys, NEW v, Holds(n, v) PROVE H!At(n) # {}
  BY <1>4, AtSome DEF Holds
<1> QED BY <1>2, <1>3, <1>4, Zenon DEF MapIs

\* The map after a call, known by what its elements hold.
LEMMA MapNow ==
  ASSUME MapIs', NEW f, DOMAIN f \subseteq Keys, f = [n \in DOMAIN f |-> f[n]],
         \A n \in Keys : (\E v \in Vals : HoldsAfter(n, v)) => n \in DOMAIN f,
         \A n \in DOMAIN f : f[n] \in Vals /\ HoldsAfter(n, f[n])
  PROVE  MapContents' = f
<1>0. \A n, v : Holds(n, v)' <=> HoldsAfter(n, v)
  BY DEF Holds, HoldsAfter
<1>6. /\ \A n \in Keys : n \in DOMAIN MapContents' <=> \E v \in Vals : HoldsAfter(n, v)
      /\ \A n \in Keys, v \in Vals : HoldsAfter(n, v) => MapContents'[n] = v
      /\ DOMAIN MapContents' \subseteq Keys
  BY <1>0 DEF MapIs
<1>1. \A n \in Keys : n \in DOMAIN MapContents' <=> n \in DOMAIN f
  BY <1>6
<1>2. DOMAIN MapContents' \subseteq Keys
  BY <1>6
<1>3. DOMAIN MapContents' = DOMAIN f
  BY <1>1, <1>2
<1>4. \A n \in DOMAIN f : MapContents'[n] = f[n]
  BY <1>6
<1>5. MapContents' = [n \in DOMAIN MapContents' |-> MapContents'[n]]
  BY DEF MapContents
<1> QED BY <1>3, <1>4, <1>5

LEMMA MapCall ==
  ASSUME NEW op, NEW n, NEW v, NEW result, hlast' = H!Answer(op, n, v, result),
         \/ Map!MsGet(n) \/ Map!MsContains(n) \/ Map!MsRemove(n) \/ Map!MsPut(n, v)
         \/ Map!MsClear \/ Map!MsNextKey
  PROVE  Map!MsNext
<1>1. hlast'.name = n /\ hlast'.val = v
  BY DEF H!Answer
<1> QED BY <1>1, Zenon DEF Map!MsNext

LEMMA SameMap == ASSUME htable' = htable PROVE MapContents' = MapContents
BY DEF MapContents, H!Matching, H!Found, H!At, H!Chain

LEMMA QuestionsAre ==
  ASSUME HashInv, NEW n \in Keys, H!Get(n) \/ H!ContainsKey(n) \/ H!RemoveNothing(n)
  PROVE  Map!MsNext
<1>1. MapIs /\ H!Matching(n) = H!At(n) /\ NumberHash[n] = n
  BY MapIsSo, NumberKeys DEF H!Matching
<1>2. n \in DOMAIN MapContents <=> H!At(n) # {}
  BY <1>1 DEF MapIs
<1>3. MapContents' = MapContents
  BY SameMap DEF H!Get, H!ContainsKey, H!RemoveNothing, H!Kept
<1>4. hsize = 0 => H!At(n) = {}
  BY SizeZero, AtOne
<1>5. CASE H!Get(n)
  <2>1. hlast' = H!Answer("get", n, None, H!Found(n))
    BY <1>5 DEF H!Get, H!Found
  <2>2. n \in DOMAIN MapContents => MapContents[n] = H!Found(n)
    BY Zenon DEF MapContents
  <2>3. n \notin DOMAIN MapContents => H!Found(n) = None
    BY <1>1, <1>2 DEF H!Found
  <2>4. Map!MsGet(n)
    BY <1>3, <2>1, <2>2, <2>3 DEF Map!MsGet, Map!Answer, H!Answer
  <2> QED BY <2>1, <2>4, MapCall
<1>6. CASE H!ContainsKey(n)
  <2>1. hlast' = H!Answer("contains", n, None, n \in DOMAIN MapContents)
    <3>1. (hsize # 0 /\ H!Matching(n) # {}) = (n \in DOMAIN MapContents)
      BY <1>1, <1>2, <1>4
    <3> QED BY <1>6, <3>1 DEF H!ContainsKey
  <2>2. Map!MsContains(n)
    BY <1>3, <2>1 DEF Map!MsContains, Map!Answer, H!Answer
  <2> QED BY <2>1, <2>2, MapCall
<1>7. CASE H!RemoveNothing(n)
  <2>1. n \notin DOMAIN MapContents /\ hlast' = H!Answer("remove", n, None, n \in DOMAIN MapContents)
    <3>1. n \notin DOMAIN MapContents
      BY <1>1, <1>2, <1>4, <1>7 DEF H!RemoveNothing
    <3>2. hlast' = H!Answer("remove", n, None, FALSE)
      BY <1>7 DEF H!RemoveNothing
    <3>3. (n \in DOMAIN MapContents) = FALSE
      BY <3>1
    <3> QED BY <3>1, <3>2, <3>3, Zenon
  <2>2. Map!Restrict(MapContents, DOMAIN MapContents \ {n}) = MapContents
    <3>1. MapContents = [k \in DOMAIN MapContents |-> MapContents[k]]
      BY DEF MapContents
    <3>2. DOMAIN MapContents \ {n} = DOMAIN MapContents
      BY <2>1
    <3> QED BY <3>1, <3>2, Zenon DEF Map!Restrict
  <2>3. Map!MsRemove(n)
    BY <1>3, <2>1, <2>2 DEF Map!MsRemove, Map!Answer, H!Answer
  <2> QED BY <2>1, <2>3, MapCall
<1> QED BY <1>5, <1>6, <1>7

\* A map with one key more or its value replaced, and with one key less.
LEMMA PutMap ==
  ASSUME MapIs, MapIs', NEW n \in Keys, NEW v \in Vals, PutsIn(n, v)
  PROVE  MapContents' = [k \in DOMAIN MapContents \cup {n} |-> IF k = n THEN v ELSE MapContents[k]]
<1> DEFINE f == [k \in DOMAIN MapContents \cup {n} |-> IF k = n THEN v ELSE MapContents[k]]
<1>1. DOMAIN MapContents \subseteq Keys
  BY DEF MapIs
<1>2. /\ DOMAIN f \subseteq Keys /\ f = [k \in DOMAIN f |-> f[k]]
      /\ DOMAIN f = DOMAIN MapContents \cup {n}
      /\ f[n] = v /\ \A k \in DOMAIN MapContents : k # n => f[k] = MapContents[k]
  BY <1>1
<1> HIDE DEF f
<1>3. ASSUME NEW k \in Keys, \E w \in Vals : HoldsAfter(k, w) PROVE k \in DOMAIN f
  <2>1. PICK w \in Vals : HoldsAfter(k, w)
    BY <1>3
  <2>2. k # n => Holds(k, w)
    BY <2>1 DEF PutsIn
  <2> QED BY <1>2, <2>2 DEF MapIs
<1>4. ASSUME NEW k \in DOMAIN f PROVE f[k] \in Vals /\ HoldsAfter(k, f[k])
  <2>1. CASE k = n
    BY <1>2, <2>1 DEF PutsIn
  <2>2. CASE k # n
    <3>1. k \in DOMAIN MapContents /\ f[k] = MapContents[k] /\ k \in Keys
      BY <1>2, <2>2
    <3>2. Holds(k, f[k]) /\ f[k] \in Vals
      BY <3>1 DEF MapIs
    <3> QED BY <2>2, <3>1, <3>2 DEF PutsIn
  <2> QED BY <2>1, <2>2
<1>5. MapContents' = f
  BY <1>2, <1>3, <1>4, MapNow
<1> QED BY <1>5 DEF f

LEMMA TakeMap ==
  ASSUME MapIs, MapIs', NEW n \in Keys, TakesOut(n)
  PROVE  MapContents' = Map!Restrict(MapContents, DOMAIN MapContents \ {n})
<1> DEFINE f == [k \in DOMAIN MapContents \ {n} |-> MapContents[k]]
<1>1. DOMAIN MapContents \subseteq Keys
  BY DEF MapIs
<1>2. /\ DOMAIN f \subseteq Keys /\ f = [k \in DOMAIN f |-> f[k]]
      /\ DOMAIN f = DOMAIN MapContents \ {n} /\ \A k \in DOMAIN f : f[k] = MapContents[k]
  BY <1>1
<1> HIDE DEF f
<1>3. ASSUME NEW k \in Keys, \E w \in Vals : HoldsAfter(k, w) PROVE k \in DOMAIN f
  <2>1. PICK w \in Vals : HoldsAfter(k, w)
    BY <1>3
  <2>2. k # n /\ Holds(k, w)
    BY <2>1 DEF TakesOut
  <2> QED BY <1>2, <2>2 DEF MapIs
<1>4. ASSUME NEW k \in DOMAIN f PROVE f[k] \in Vals /\ HoldsAfter(k, f[k])
  <2>1. k \in DOMAIN MapContents /\ k # n /\ f[k] = MapContents[k] /\ k \in Keys
    BY <1>2
  <2>2. Holds(k, f[k]) /\ f[k] \in Vals
    BY <2>1 DEF MapIs
  <2> QED BY <2>1, <2>2 DEF TakesOut
<1>5. MapContents' = f
  BY <1>2, <1>3, <1>4, MapNow
<1> QED BY <1>5 DEF f, Map!Restrict

LEMMA PutsAre ==
  ASSUME HashInv, HashInv', NEW n \in Keys, NEW v \in Vals,
         H!PutNothing(n, v) \/ H!PutReplace(n, v) \/ H!PutInsert(n, v)
  PROVE  Map!MsNext
<1>1. MapIs /\ MapIs' /\ NumberHash[n] = n
  <2>1. HashInv' => MapIs'
    BY MapIsSo, PTL
  <2> QED BY <2>1, MapIsSo, NumberKeys
<1>2. (n \in DOMAIN MapContents <=> H!At(n) # {}) /\ (n \in DOMAIN MapContents => n # 0)
  BY <1>1 DEF MapIs
<1>3. hlast' = H!Answer("put", n, v, n \in DOMAIN MapContents)
  <2>1. CASE H!PutNothing(n, v) \/ H!PutInsert(n, v)
    <3>1. n \notin DOMAIN MapContents /\ hlast' = H!Answer("put", n, v, FALSE)
      BY <1>1, <1>2, <2>1 DEF H!PutNothing, H!PutInsert
    <3>2. (n \in DOMAIN MapContents) = FALSE
      BY <3>1
    <3> QED BY <3>1, <3>2, Zenon
  <2>2. CASE H!PutReplace(n, v)
    <3>1. n \in DOMAIN MapContents /\ hlast' = H!Answer("put", n, v, TRUE)
      BY <1>1, <1>2, <2>2 DEF H!PutReplace
    <3>2. (n \in DOMAIN MapContents) = TRUE
      BY <3>1
    <3> QED BY <3>1, <3>2, Zenon
  <2> QED BY <2>1, <2>2
<1>4. MapContents' = IF n = 0 THEN MapContents
                     ELSE [k \in DOMAIN MapContents \cup {n} |-> IF k = n THEN v ELSE MapContents[k]]
  <2>1. CASE H!PutNothing(n, v)
    BY <1>1, <2>1, SameMap DEF H!PutNothing, H!Kept
  <2>2. CASE H!PutReplace(n, v)
    BY <1>1, <1>2, <2>2, PutReplaceKeeps, PutMap DEF H!PutReplace
  <2>3. CASE H!PutInsert(n, v)
    BY <1>1, <2>3, PutInsertKeeps, PutMap DEF H!PutInsert
  <2> QED BY <2>1, <2>2, <2>3
<1>5. Map!MsPut(n, v)
  BY <1>3, <1>4 DEF Map!MsPut, Map!Answer, H!Answer
<1> QED BY <1>3, <1>5, MapCall

LEMMA RemoveKeyIs ==
  ASSUME HashInv, HashInv', NEW n \in Keys, H!RemoveKey(n)
  PROVE  Map!MsNext
<1>1. MapIs /\ MapIs' /\ NumberHash[n] = n
  <2>1. HashInv' => MapIs'
    BY MapIsSo, PTL
  <2> QED BY <2>1, MapIsSo, NumberKeys
<1>2. hlast' = H!Answer("remove", n, None, n \in DOMAIN MapContents)
  <2>1. n \in DOMAIN MapContents /\ hlast' = H!Answer("remove", n, None, TRUE)
    BY <1>1 DEF H!RemoveKey, MapIs
  <2>2. (n \in DOMAIN MapContents) = TRUE
    BY <2>1
  <2> QED BY <2>1, <2>2, Zenon
<1>3. MapContents' = Map!Restrict(MapContents, DOMAIN MapContents \ {n})
  BY <1>1, RemoveKeyKeeps, TakeMap
<1>4. Map!MsRemove(n)
  BY <1>2, <1>3 DEF Map!MsRemove, Map!Answer, H!Answer
<1> QED BY <1>2, <1>4, MapCall

LEMMA ClearIs ==
  ASSUME HashInv', H!Clear
  PROVE  Map!MsNext
<1>1. MapIs'
  BY MapIsSo, PTL
<1>2. htable' = [b \in H!Buckets |-> <<>>] /\ hlast' = H!Answer("clear", None, None, None)
  BY DEF H!Clear
<1>3. \A b \in H!Buckets : Len(htable'[b]) = 0
  BY <1>2
<1>4. \A n \in Keys, w \in Vals : ~HoldsAfter(n, w)
  BY <1>3 DEF HoldsAfter
<1>5. DOMAIN MapContents' = {}
  BY <1>1, <1>4 DEF MapIs, Holds, HoldsAfter
<1>6. MapContents' = <<>>
  <2>1. MapContents' = [n \in DOMAIN MapContents' |-> MapContents'[n]]
    BY DEF MapContents
  <2> QED BY <1>5, <2>1
<1>7. Map!MsClear
  BY <1>2, <1>6 DEF Map!MsClear, Map!Answer, H!Answer
<1> QED BY <1>2, <1>7, MapCall

\* A walk gives the key of an element, or none.
LEMMA WalksAre ==
  ASSUME HashInv, H!FirstKey \/ H!NextKey
  PROVE  Map!MsNext
<1>1. MapIs
  BY MapIsSo
<1>2. PICK h : /\ h = 0 \/ \E c \in H!Buckets : \E j \in 1 .. Len(htable[c]) : htable[c][j].key = h
               /\ hlast' = H!Answer("nextKey", None, None, H!NameOf(h)) /\ htable' = htable
  <2>1. CASE H!FirstKey
    <3> DEFINE h == IF hsize = 0 THEN 0 ELSE H!FirstFrom(0)
    <3>1. hlast' = H!Answer("nextKey", None, None, H!NameOf(h)) /\ htable' = htable
      BY <2>1 DEF H!FirstKey, H!Given
    <3>2. h = 0 \/ \E c \in H!Buckets : \E j \in 1 .. Len(htable[c]) : htable[c][j].key = h
      BY FirstFound
    <3> HIDE DEF h
    <3> QED BY <3>1, <3>2
  <2>2. CASE H!NextKey
    <3> DEFINE h == IF hsize = 0 THEN 0 ELSE H!After(hcurrent)
    <3>1. hlast' = H!Answer("nextKey", None, None, H!NameOf(h)) /\ htable' = htable /\ hcurrent # 0
      BY <2>2 DEF H!NextKey, H!Given
    <3>2. h = 0 \/ \E c \in H!Buckets : \E j \in 1 .. Len(htable[c]) : htable[c][j].key = h
      <4>1. CASE H!At(hcurrent) = {}
        BY <4>1 DEF H!After
      <4>2. CASE H!At(hcurrent) # {}
        <5>1. hcurrent \in Keys
          BY <3>1, HashUnfolded
        <5>2. PICK c \in H!Buckets : \E j \in 1 .. Len(htable[c]) : htable[c][j].key = hcurrent
          BY <4>2, <5>1, AtOne
        <5>3. PICK j \in 1 .. Len(htable[c]) : htable[c][j].key = hcurrent
          BY <5>2
        <5> QED BY <5>3, AfterPlace
      <4> QED BY <4>1, <4>2
    <3> HIDE DEF h
    <3> QED BY <3>1, <3>2
  <2> QED BY <2>1, <2>2
<1>3. MapContents' = MapContents
  BY <1>2, SameMap
<1>4. H!NameOf(h) \in DOMAIN MapContents \cup {None}
  <2>1. CASE h = 0
    BY <2>1 DEF H!NameOf
  <2>2. CASE h # 0
    <3>1. h \in Keys /\ H!At(h) # {}
      BY <1>2, <2>2, HashUnfolded, AtSome
    <3>2. H!NameOf(h) = CHOOSE n \in Keys : NumberHash[n] = h
      BY <2>2 DEF H!NameOf
    <3>3. H!NameOf(h) = h
      BY <3>1, <3>2, NumberKeys
    <3> QED BY <1>1, <3>1, <3>3 DEF MapIs
  <2> QED BY <2>1, <2>2
<1>5. Map!MsNextKey
  BY <1>2, <1>3, <1>4 DEF Map!MsNextKey, Map!Answer, H!Answer
<1> QED BY <1>2, <1>5, MapCall

LEMMA MapSteps ==
  HashInv /\ HashInv' /\ [H!Next]_mapvars => [Map!MsNext]_(Map!msVars)
<1> SUFFICES ASSUME HashInv, HashInv', [H!Next]_mapvars
             PROVE  Map!MsNext \/ UNCHANGED Map!msVars
  OBVIOUS
<1>1. CASE UNCHANGED mapvars
  <2>1. hlast' = hlast /\ htable' = htable
    BY <1>1 DEF mapvars
  <2> QED BY <2>1, SameMap DEF Map!msVars
<1> QED BY <1>1, QuestionsAre, PutsAre, RemoveKeyIs, ClearIs, WalksAre, Zenon DEF H!Next

LEMMA MapStarts == H!Init => Map!MsInit
<1> SUFFICES ASSUME H!Init
             PROVE  Map!MsInit
  OBVIOUS
<1>1. MapIs /\ htable = [b \in H!Buckets |-> <<>>] /\ hlast = H!Answer("none", None, None, None)
  BY HashInitially, MapIsSo DEF H!Init
<1>2. \A n \in Keys, w \in Vals : ~Holds(n, w)
  <2>1. \A b \in H!Buckets : Len(htable[b]) = 0
    BY <1>1
  <2> QED BY <2>1 DEF Holds
<1>3. DOMAIN MapContents = {}
  BY <1>1, <1>2 DEF MapIs
<1>4. MapContents = <<>>
  <2>1. MapContents = [n \in DOMAIN MapContents |-> MapContents[n]]
    BY DEF MapContents
  <2> QED BY <1>3, <2>1
<1> QED BY <1>1, <1>4 DEF Map!MsInit, Map!Answer, H!Answer

(* Refinement: every put, remove, get and clear of tmb::HashMap does to    *)
(* the map of number keys what it does to a function, and a walk gives     *)
(* keys of it, whichever keys share a bucket, for any keys, values and     *)
(* number of buckets (HashMap.h:126-371).                                  *)
THEOREM IsMapHolds == MCSpec => IsMap
<1>1. MCInit => ContainersInv /\ Map!MsInit
  BY ContainersInitially, MapStarts DEF MCInit
<1>2. ContainersInv /\ [MCNext]_allvars => ContainersInv' /\ [Map!MsNext]_(Map!msVars)
  <2> SUFFICES ASSUME ContainersInv, [MCNext]_allvars
               PROVE  ContainersInv' /\ [Map!MsNext]_(Map!msVars)
    OBVIOUS
  <2>1. ContainersInv'
    BY ContainersKept
  <2>2. [H!Next]_mapvars
    BY Zenon DEF MCNext, ArrayStep, LinkStep, MapStep, allvars
  <2> QED BY <2>1, <2>2, MapSteps DEF ContainersInv
<1> QED BY <1>1, <1>2, PTL DEF MCSpec, IsMap, Map!MsSpec
=============================================================================
