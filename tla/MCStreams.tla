------------------------------ MODULE MCStreams -------------------------------
(***************************************************************************)
(* What goes through streams and files as text, side by side: the two ends *)
(* of a buffered stream, the block behind a String, Properties and their   *)
(* file, and the directories File makes.  A behaviour is that of one of    *)
(* them, the others stay as they began.                                    *)
(***************************************************************************)
EXTENDS StreamPipe

CONSTANTS
  Junk, Arguments, MaxText, MaxBuf, FormatSize,   \* TextBlock
  PropKeys, PropValues, HandFiles, MaxProps,      \* Properties
  DirNames, MaxStack, MaxChanges                  \* Directories

VARIABLES
  part,
  data, shared, btorn, want,
  props, file, threw, saved, complete, before,
  dirs, stack, outcome, called, changes

Block == INSTANCE TextBlock WITH copied <- shared, torn <- btorn
Prop == INSTANCE Properties WITH whole <- complete
Dir == INSTANCE Directories

blockvars == <<data, shared, btorn, want>>
propvars == <<props, file, threw, saved, complete, before>>
dirvars == <<dirs, stack, outcome, called, changes>>

MCInit ==
  /\ part \in {"streams", "block", "properties", "directories"}
  /\ Init /\ Block!BlockInit /\ Prop!PropInit /\ Dir!DirInit
  /\ part # "streams" => ~direct
  /\ part # "properties" => file = CHOOSE f \in HandFiles : TRUE

StreamStep == part = "streams" /\ Next /\ UNCHANGED <<part, blockvars, propvars, dirvars>>
BlockStep == part = "block" /\ Block!BlockNext /\ UNCHANGED <<part, vars, propvars, dirvars>>
PropStep == part = "properties" /\ Prop!PropNext /\ UNCHANGED <<part, vars, blockvars, dirvars>>
DirStep == part = "directories" /\ Dir!DirNext /\ UNCHANGED <<part, vars, blockvars, propvars>>

MCNext == StreamStep \/ BlockStep \/ PropStep \/ DirStep

MCSpec == MCInit /\ [][MCNext]_<<part, vars, blockvars, propvars, dirvars>>

-----------------------------------------------------------------------------
\* Texts to insert, to replace and to look for, one of which overlaps itself.
MCArguments == {<<>>, <<"a">>, <<" ">>, <<"a", "a">>, <<"A", " ">>}

\* Keys and values with the characters of comments, escapes and quotes; files
\* with an escape at the end, two values in a line, an open quote.
MCPropKeys == {<<"a">>, <<"#", " ">>}
MCPropValues == {<<"\\", "'">>, <<"=", "#">>, <<"\"">>}
MCHandFiles == {
  <<"#", "=", "\n", "a", "=", "\\", "n", "\\">>,
  <<"a", "=", "a", "\n", "a", "=", "a", " ", "a">>,
  <<"'", "a", "\r", "\n", "=", "a">> }

\* Names from the root and from the current directory.
MCDirNames ==
  {<<"a">>, <<"a", "/", "a">>, <<"/", "a">>, <<"/", "a", "/", "a">>, <<"/", "a", "/", "a", "/", "a">>}

(* A String's text is that which the calls on it ask for, and its searches *)
(* from both ends agree on where a text is (String.cpp:172-200, 521-860).  *)
TextIsMeant == Block!BlockHolds /\ Block!SearchesAgree

(* What save() wrote, load() brings back (Properties.cpp:71-112); see      *)
(* Properties.                                                             *)
FileIsReadBack == Prop!FileIsReadBack

(* An undisturbed mkdir(true) of a name from the root makes the directory  *)
(* and those above it, or throws because it was there (File.cpp:246-260).  *)
MkdirMakes == Dir!MkdirMakes
=============================================================================
