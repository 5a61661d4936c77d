-------------------------------- MODULE MapSpec --------------------------------
(***************************************************************************)
(* What tmb::HashMap promises: a map from keys to values.  last is the     *)
(* last call, with its arguments and its result.  A key in NoKeys is not   *)
(* stored: 0, which nextKey() uses for the end.                            *)
(***************************************************************************)
EXTENDS Functions

CONSTANTS Names, NoKeys, Vals, None

VARIABLES map, last

msVars == <<map, last>>

Answer(op, n, v, result) == [op |-> op, name |-> n, val |-> v, result |-> result]

MsInit == map = <<>> /\ last = Answer("none", None, None, None)

MsPut(n, v) ==
  /\ n \in Names /\ v \in Vals
  /\ last' = Answer("put", n, v, n \in DOMAIN map)
  /\ map' = IF n \in NoKeys THEN map
            ELSE [k \in DOMAIN map \cup {n} |-> IF k = n THEN v ELSE map[k]]

MsGet(n) ==
  /\ n \in Names
  /\ last' = Answer("get", n, None, IF n \in DOMAIN map THEN map[n] ELSE None)
  /\ UNCHANGED map

MsContains(n) ==
  /\ n \in Names
  /\ last' = Answer("contains", n, None, n \in DOMAIN map)
  /\ UNCHANGED map

MsRemove(n) ==
  /\ n \in Names
  /\ last' = Answer("remove", n, None, n \in DOMAIN map)
  /\ map' = Restrict(map, DOMAIN map \ {n})

MsClear == map' = <<>> /\ last' = Answer("clear", None, None, None)

(* A walk gives keys of the map, or None at its end.                       *)
MsNextKey ==
  /\ \E k \in DOMAIN map \cup {None} : last' = Answer("nextKey", None, None, k)
  /\ UNCHANGED map

(* A step is the call that last names, with the arguments it names.        *)
MsNext ==
  LET n == last'.name
  IN \/ MsGet(n) \/ MsContains(n) \/ MsRemove(n) \/ MsPut(n, last'.val)
     \/ MsClear \/ MsNextKey

MsSpec == MsInit /\ [][MsNext]_msVars
=============================================================================
