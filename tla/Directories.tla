---------------------------- MODULE Directories -----------------------------
(***************************************************************************)
(* The names of tmb::File and the directories it makes                     *)
(* (src/tmb/io/File.cpp): setFileName() splits a name at its last          *)
(* separator, mkdir(true) makes the directories above first, calling       *)
(* itself.  Other processes make and remove directories at any time.       *)
(***************************************************************************)
EXTENDS Text, FiniteSets

CONSTANTS
  DirNames,   \* the file names that are used, without a separator at the end
  MaxStack,   \* the calls of mkdir() that fit on the stack
  MaxChanges  \* bound: what other processes do during a call

VARIABLES
  dirs,     \* the names that exist
  stack,    \* the calls of mkdir(true) under way, the innermost last
  outcome,  \* of the last call: "made", "thrown" or, without a result, "overflow"
  called,   \* history: that call's name, and whether it existed,
  changes   \*   and what other processes did since

dirvars == <<dirs, stack, outcome, called, changes>>

Separator == "/"

\* setFileName(): c_path; without a separator it is the whole name.
PathOf(name) == Substring(name, 0, LastIndexOfChar(name, Separator))

(* Where the system makes a directory (external): below the root or the     *)
(* current directory, or below one that exists.                             *)
Above(name) == Cut(name, 0, LastIndexOfChar(name, Separator))
HasRoom(name) ==
  \/ LastIndexOfChar(name, Separator) <= 0
  \/ Above(name) \in dirs

NoCall == [name |-> <<>>, existed |-> FALSE]
DirInit == dirs = {} /\ stack = <<>> /\ outcome = "none" /\ called = NoCall /\ changes = 0

-----------------------------------------------------------------------------
MkdirCall(name) ==
  /\ stack = <<>> /\ outcome # "overflow"
  /\ stack' = <<[name |-> name, tested |-> FALSE]>>
  /\ called' = [name |-> name, existed |-> name \in dirs]
  /\ outcome' = "none" /\ changes' = 0
  /\ UNCHANGED dirs

Top == stack[Len(stack)]
Rest == SubSeq(stack, 1, Len(stack) - 1)
Tested == Append(Rest, [Top EXCEPT !.tested = TRUE])
Testing == stack # <<>> /\ ~Top.tested

\* The directory above is there, or the name has none.
ParentExists ==
  /\ Testing /\ (PathOf(Top.name) = <<>> \/ PathOf(Top.name) \in dirs)
  /\ stack' = Tested
  /\ UNCHANGED <<dirs, outcome, called, changes>>

\* Mutant of ParentMissing: the directory above is made without those above it.
ParentMissingOnce ==
  /\ Testing /\ PathOf(Top.name) # <<>> /\ PathOf(Top.name) \notin dirs
  /\ stack' = Append(Tested, [name |-> PathOf(Top.name), tested |-> TRUE])
  /\ UNCHANGED <<dirs, outcome, called, changes>>

\* parent.mkdir(true)
ParentMissing ==
  /\ Testing /\ PathOf(Top.name) # <<>> /\ PathOf(Top.name) \notin dirs
  /\ IF Len(stack) < MaxStack
       THEN /\ stack' = Append(Tested, [name |-> PathOf(Top.name), tested |-> FALSE])
            /\ UNCHANGED outcome
       ELSE stack' = <<>> /\ outcome' = "overflow"
  /\ UNCHANGED <<dirs, called, changes>>

\* mkdir(2), and the return to the call before.
Make ==
  /\ stack # <<>> /\ Top.tested /\ HasRoom(Top.name) /\ Top.name \notin dirs
  /\ dirs' = dirs \cup {Top.name}
  /\ stack' = Rest
  /\ outcome' = IF Len(stack) = 1 THEN "made" ELSE outcome
  /\ UNCHANGED <<called, changes>>

\* IOException, which ends all the calls.
MakeFails ==
  /\ stack # <<>> /\ Top.tested /\ (~HasRoom(Top.name) \/ Top.name \in dirs)
  /\ stack' = <<>> /\ outcome' = "thrown"
  /\ UNCHANGED <<dirs, called, changes>>

OtherMakes(name) ==
  /\ changes < MaxChanges /\ HasRoom(name)
  /\ dirs' = dirs \cup {name} /\ changes' = changes + 1
  /\ UNCHANGED <<stack, outcome, called>>

OtherRemoves(name) ==
  /\ changes < MaxChanges /\ name \in dirs
  /\ \A d \in dirs : LastIndexOfChar(d, Separator) > 0 => Above(d) # name
  /\ dirs' = dirs \ {name} /\ changes' = changes + 1
  /\ UNCHANGED <<stack, outcome, called>>

DirNext ==
  \/ \E name \in DirNames : MkdirCall(name) \/ OtherMakes(name) \/ OtherRemoves(name)
  \/ ParentExists \/ ParentMissing \/ Make \/ MakeFails

DirSpec == DirInit /\ [][DirNext]_dirvars

-----------------------------------------------------------------------------
Absolute(name) == name[1] = Separator

(* From a name that begins at the root, a call that nobody disturbs makes  *)
(* the directory and each missing one above it, or throws because it was   *)
(* there (File.cpp:246-260).  A name without a separator is its own path,  *)
(* so from one that begins in the current directory, where the first part  *)
(* of it is missing, mkdir(true) calls itself until the stack overflows.   *)
MkdirMakes ==
  outcome # "none" /\ Absolute(called.name) /\ changes = 0 =>
    /\ outcome = IF called.existed THEN "thrown" ELSE "made"
    /\ called.name \in dirs
=============================================================================
