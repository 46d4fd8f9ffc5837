------------------------------- MODULE MCRuntime -------------------------------
(* Runtime on small instances; and, each explored from a start of its own, *)
(* the parts that work on the text of a program.                           *)
EXTENDS Runtime, TLC

VARIABLES pattern, way, body, program, situation, expression, function

(* Functions that call one function at most; one that promises something   *)
(* needs nothing.                                                          *)
MCWritten ==
  {f \in [promises : {{}, {"p"}}, needs : {{}, {"c"}}, callees : {{}, {"f"}, {"g"}}] :
     f.promises = {} \/ f.needs = {}}

(* Two arenas with room for one tensor each, and one directory.            *)
MCTensors == {[bytes |-> 1, value |-> 0], [bytes |-> 1, value |-> 1]}

(* Files of the program's directory and of one in it.                      *)
Let(n) == [do |-> "let", name |-> n]
Import(how, dir, n, name) == [do |-> "import", how |-> how, to |-> <<dir, n>>, name |-> name]
MCSources ==
  {<<Let("x")>>,
   <<Import("names", ".", "b", ""), Let("x")>>,
   <<Import("alias", "lib", "a", "x"), Import("names", "..", "b", "")>>,
   <<Import("attempted", ".", "a", ""), Let("y")>>,
   <<Let("y"), [do |-> "fail"]>>,
   <<Import("names", "lib", "a", ""), Import("names", ".", "a", "")>>}
MCDisk == [{<<"root", "a">>, <<"root", "b">>, <<"lib", "a">>} -> MCSources]

R == INSTANCE Regex WITH
  Tokens <- {"a", "[^a]", "^", "(", "(?:", ")", "|", "*", "{0,2}"}, Letters <- {"a", "b"},
  MaxPattern <- 5, MaxSubject <- 3
E == INSTANCE MCEngines
F == INSTANCE MCFormatter
X == INSTANCE MCExpressions
P == INSTANCE MCVerifier

languageVars == <<pattern, way, body, program, situation, expression, function>>

Languages == {"regex", "engines", "formatter", "expressions", "verifier"}

MCInit ==
  /\ part \in Parts \cup Languages
  /\ PartsInit
  /\ R!Init /\ E!Init /\ F!Init /\ X!Init /\ P!Init
  /\ part # "arenas" => where["left"] = Missing /\ where["right"] = Missing
  /\ part # "window" => policy = "none"
  /\ part # "snapshots" => known = {}
  /\ part # "modules" => allowRedeclare = FALSE /\ disk = CHOOSE d \in Disk : TRUE
  /\ part # "engines" => way = "program"
  /\ part # "expressions" => X!Resting

MCNext ==
  \/ Next /\ UNCHANGED languageVars
  \/ /\ UNCHANGED <<part, stateVars>>
     /\ \/ part = "regex" /\ R!Next /\ UNCHANGED <<way, body, program, situation, expression, function>>
        \/ part = "engines" /\ E!Next /\ UNCHANGED <<pattern, program, situation, expression, function>>
        \/ part = "formatter" /\ F!Next /\ UNCHANGED <<pattern, way, body, situation, expression, function>>
        \/ part = "expressions" /\ X!Next /\ UNCHANGED <<pattern, way, body, program, function>>
        \/ part = "verifier" /\ P!Next /\ UNCHANGED <<pattern, way, body, program, situation, expression>>

MCSpec == MCInit /\ [][MCNext]_<<part, stateVars, languageVars>>

(* The machine finds the match a backtracker would.                        *)
MatchesAsBacktracking == [][part = "regex" => R!MatchesAs(pattern')]_pattern
(* Both engines do the same with a program, but for what is known.         *)
EnginesAgreeOtherwise == [][part = "engines" => E!AgreeOtherwise(way, body')]_body
(* Both engines evaluate an expression to the same, in the same order.     *)
ExpressionsAgree == [][part = "expressions" => X!SameValue(situation, expression'.e)]_expression
(* What is formatted means what it meant, but for what is known.           *)
FormatsFaithfullyOtherwise == [][part = "formatter" => F!KeptOtherwise(program')]_program
(* What is proved of a function holds of its calls, but for what is known. *)
VerdictsHoldOtherwise == [][part = "verifier" => P!HoldsOtherwise(function')]_function
=============================================================================
