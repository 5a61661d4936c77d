---------------------------- MODULE MCSharedString ----------------------------
EXTENDS SharedString, TLC

Symmetry == Permutations(Threads) \cup Permutations(Objects) \cup Permutations(Buffers)

(* An object in a call still has the value it had when the call began. *)
Shown == [x \in Objects |->
  IF \E t \in Threads : Obj(t) = x
    THEN LET t == CHOOSE u \in Threads : Obj(u) = x IN was[t]
    ELSE IF data[x] = None THEN None ELSE content[data[x]]]

(* Strings that share their data behave as strings that each have a value  *)
(* of their own, whatever other threads do to the strings they share it    *)
(* with: a change is never seen through another object, and a copy is of a *)
(* whole value (String.h:168-172, 347-355; String.cpp:172-200, 611-627).   *)
Owned == INSTANCE StringValue WITH
           value <- Shown, doing <- req, Empty <- 0,
           Changed <- LAMBDA v : Half(Half(v))
IsValue == Owned!SvSpec
=============================================================================
