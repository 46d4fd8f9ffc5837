----------------------------- MODULE Unwinding ------------------------------
(***************************************************************************)
(* How a block is left early.                                              *)
(*                                                                         *)
(* Failures and `return`, `break`, `continue` are JavaScript exceptions    *)
(* here, and so is an exhausted budget.  A block construct sees what comes *)
(* out of its body and does one of three things: lets it pass, ends it, or *)
(* turns it into something else.  This module says which; the modules that *)
(* keep state per block say what each does to that state on the way out.   *)
(*                                                                         *)
(* The compiled engine signals return, break and continue by value inside  *)
(* compiled code, and turns them into the same exceptions around every     *)
(* construct it leaves to the tree-walker.                                 *)
(***************************************************************************)

(* What a body can raise.  "none" is a body that runs to its end.          *)
Signals == {"return", "break", "continue"}
Raised  == Signals \cup {"error", "budget"}

(* A block that turns failures into values, a loop, and a function call.   *)
CatchingKinds == {"attempt", "loop", "call"}

(* Does a block of this kind end r?                                        *)
Ends(kind, r) ==
  \/ kind = "attempt" /\ r = "error"
  \/ kind = "loop" /\ r \in {"break", "continue"}
  \/ kind = "call" /\ r = "return"

(* What goes on past a block that does not end r.  A `break` that finds no *)
(* loop inside a function body must not be caught by a loop of the caller. *)
Past(kind, r) ==
  IF kind = "call" /\ r \in {"break", "continue"} THEN "error" ELSE r

(* `continue` ends the pass and not the loop, whose block stays open.      *)
Stays(kind, r) == kind = "loop" /\ r = "continue"
=============================================================================
