-------------------------------- MODULE Modules --------------------------------
(***************************************************************************)
(* Importing modules (importModule in src/src/interpreter.js) from a       *)
(* program or, line after line, from the REPL of src/bin/smarsh.mjs.       *)
(*                                                                         *)
(* A file is a sequence of statements, and stands for its own SHA-256      *)
(* digest.  A value is the number of the load whose `let` made it, 0 for   *)
(* the program's own.                                                      *)
(***************************************************************************)
EXTENDS Naturals, Sequences, SequencesExt, FiniteSets, Functions

CONSTANTS
  Disk,     \* the files a directory may hold, by <<directory, name>>: a set of functions
  Sources,  \* what can be typed, and what a file can be edited to
  None,     \* a file that is not there
  MaxRuns,  \* how many lines are typed in a session
  MaxEdits  \* how many edits are made between them

VARIABLES
  disk,
  allowRedeclare, \* at the REPL
  frames,         \* fileStack, with each file's scope and what is left of it
  failing,        \* an exception is on its way up
  moduleLoading, moduleCache,
  globals,        \* the program's own scope, which the REPL keeps
  loads, runs, edits

vars == <<disk, allowRedeclare, frames, failing, moduleLoading, moduleCache, globals, loads, runs, edits>>

Outside == <<"outside", "">>

(* What an import names, from the directory of the file on top of          *)
(* fileStack.  "root" is the program's directory and "lib" is in it.       *)
Resolved(dir, to) ==
  CASE to[1] = "std" -> <<"std", to[2]>>
    [] to[1] = "." /\ dir # "std" -> <<dir, to[2]>>
    [] to[1] = "lib" /\ dir = "root" -> <<"lib", to[2]>>
    [] to[1] = ".." /\ dir = "lib" -> <<"root", to[2]>>
    [] to[1] = "lib" /\ dir = "lib" -> <<"lib/lib", to[2]>>
    [] OTHER -> Outside

(* A scope or the cache with one thing more.                               *)
Having(f, x, v) == [y \in DOMAIN f \union {x} |-> IF y = x THEN v ELSE f[y]]

Source(path) == IF path \in DOMAIN disk THEN disk[path] ELSE None

Top == Last(frames)
Statement == Head(Top.left)
Path == Resolved(Top.path[1], Statement.to)

Init ==
  /\ disk \in Disk
  /\ allowRedeclare \in BOOLEAN
  /\ frames = <<>> /\ failing = FALSE
  /\ moduleLoading = {} /\ moduleCache = <<>>
  /\ globals = <<>> /\ loads = 0 /\ runs = 0 /\ edits = 0

(* run: the entry is a file of the program's directory, and is not among   *)
(* the modules being loaded.                                               *)
Run(source) ==
  /\ frames = <<>>
  /\ runs < IF allowRedeclare THEN MaxRuns ELSE 1
  /\ frames' = <<[path |-> <<"root", "entry">>, source |-> source, load |-> 0, left |-> source, scope |-> globals]>>
  /\ runs' = runs + 1
  /\ UNCHANGED <<disk, allowRedeclare, failing, moduleLoading, moduleCache, globals, loads, edits>>

(* Between two lines a file is edited, made or taken away.                 *)
Edit(path, source) ==
  /\ frames = <<>> /\ runs \in 1 .. MaxRuns - 1 /\ allowRedeclare
  /\ edits < MaxEdits
  /\ disk' = [disk EXCEPT ![path] = source]
  /\ edits' = edits + 1
  /\ UNCHANGED <<allowRedeclare, frames, failing, moduleLoading, moduleCache, globals, loads, runs>>

Executes(do) == frames # <<>> /\ ~failing /\ Top.left # <<>> /\ Statement.do = do

(* A frame with its statement done and the scope as given; and after an    *)
(* import that may have failed.                                            *)
Stepped(frame, scope) == [frame EXCEPT !.left = Tail(@), !.scope = scope]
Imported(frame, bound) ==
  IF bound.failed THEN [frame EXCEPT !.scope = bound.scope] ELSE Stepped(frame, bound.scope)
OnTop(frame) == [frames EXCEPT ![Len(frames)] = frame]

(* declare, after redeclareIfAllowed: refused where the name is there.     *)
Let ==
  /\ Executes("let")
  /\ IF Statement.name \in DOMAIN Top.scope /\ ~allowRedeclare
       THEN failing' = TRUE /\ UNCHANGED frames
       ELSE /\ frames' = OnTop(Stepped(Top, Having(Top.scope, Statement.name, Top.load)))
            /\ UNCHANGED failing
  /\ UNCHANGED <<disk, allowRedeclare, moduleLoading, moduleCache, globals, loads, runs, edits>>

Fail ==
  /\ Executes("fail")
  /\ failing' = TRUE
  /\ UNCHANGED <<disk, allowRedeclare, frames, moduleLoading, moduleCache, globals, loads, runs, edits>>

(* What an import has put into the importing scope, and whether it failed. *)
(* Names are copied one after the other, in some order: those before the   *)
(* one that is there already stay.  An import in an `attempt` has the      *)
(* block's own scope.                                                      *)
Bound(statement, scope, module) ==
  LET taken == DOMAIN module.exports \intersect DOMAIN scope
      into(names) == [n \in DOMAIN scope \union names |->
                        IF n \in names THEN module.exports[n] ELSE scope[n]]
  IN  CASE statement.how = "attempted" -> {[scope |-> scope, failed |-> FALSE]}
        [] statement.how = "alias" ->
             IF statement.name \notin DOMAIN scope \/ allowRedeclare
               THEN {[scope |-> Having(scope, statement.name, module.load), failed |-> FALSE]}
               ELSE {[scope |-> scope, failed |-> TRUE]}
        [] OTHER ->
             {[scope |-> into(names), failed |-> taken # {}] :
                names \in IF taken = {} THEN {DOMAIN module.exports}
                                       ELSE SUBSET (DOMAIN module.exports \ taken)}

(* A file beside the import, readable, and not up the chain.               *)
Importable ==
  /\ Path # Outside
  /\ Source(Path) # None
  /\ Source(Path) \notin moduleLoading

ImportRefused ==
  /\ Executes("import") /\ ~Importable
  /\ failing' = TRUE
  /\ UNCHANGED <<disk, allowRedeclare, frames, moduleLoading, moduleCache, globals, loads, runs, edits>>

(* What is cached is bound, whatever path it was found at.                 *)
ImportCached ==
  /\ Executes("import") /\ Importable
  /\ Source(Path) \in DOMAIN moduleCache
  /\ moduleCache' = [moduleCache EXCEPT ![Source(Path)].paths = @ \union {Path}]
  /\ \E bound \in Bound(Statement, Top.scope, moduleCache[Source(Path)]) :
       /\ failing' = bound.failed
       /\ frames' = OnTop(Imported(Top, bound))
  /\ UNCHANGED <<disk, allowRedeclare, moduleLoading, globals, loads, runs, edits>>

(* What is not is run first, in a scope of its own.                        *)
ImportLoads ==
  /\ Executes("import") /\ Importable
  /\ Source(Path) \notin DOMAIN moduleCache
  /\ moduleLoading' = moduleLoading \union {Source(Path)}
  /\ loads' = loads + 1
  /\ frames' = Append(frames, [path |-> Path, source |-> Source(Path), load |-> loads + 1,
                               left |-> Source(Path), scope |-> <<>>])
  /\ UNCHANGED <<disk, allowRedeclare, failing, moduleCache, globals, runs, edits>>

UnloadedOnSuccess(loading, source) == IF failing THEN loading ELSE loading \ {source}

(* The `finally` of a load.                                                *)
Unloaded(loading, source) == loading \ {source}

(* A module has run: it is cached, and the import it ran for goes on.      *)
Loaded ==
  /\ Len(frames) > 1 /\ ~failing /\ Top.left = <<>>
  /\ LET importer == frames[Len(frames) - 1]
         module == [load |-> Top.load, exports |-> Top.scope, paths |-> {Top.path}]
     IN  /\ moduleCache' = Having(moduleCache, Top.source, module)
         /\ moduleLoading' = Unloaded(moduleLoading, Top.source)
         /\ \E bound \in Bound(Head(importer.left), importer.scope, module) :
              /\ failing' = bound.failed
              /\ frames' = Append(SubSeq(frames, 1, Len(frames) - 2), Imported(importer, bound))
  /\ UNCHANGED <<disk, allowRedeclare, globals, loads, runs, edits>>

(* An exception ends the file it passes through, unless the import was     *)
(* attempted; it leaves the program's scope as it got.                     *)
Unwind ==
  /\ failing
  /\ IF Statement.do = "import" /\ Statement.how = "attempted"
       THEN /\ failing' = FALSE
            /\ frames' = OnTop(Stepped(Top, Top.scope))
            /\ UNCHANGED <<moduleLoading, globals>>
       ELSE /\ frames' = Front(frames)
            /\ failing' = (Len(frames) > 1)
            /\ moduleLoading' = IF Len(frames) > 1 THEN Unloaded(moduleLoading, Top.source) ELSE moduleLoading
            /\ globals' = IF Len(frames) > 1 THEN globals ELSE Top.scope
  /\ UNCHANGED <<disk, allowRedeclare, moduleCache, loads, runs, edits>>

Ended ==
  /\ Len(frames) = 1 /\ ~failing /\ Top.left = <<>>
  /\ frames' = <<>>
  /\ globals' = Top.scope
  /\ UNCHANGED <<disk, allowRedeclare, failing, moduleLoading, moduleCache, loads, runs, edits>>

Next ==
  \/ \E source \in Sources : Run(source)
  \/ \E path \in DOMAIN disk, source \in Sources \union {None} : Edit(path, source)
  \/ Let
  \/ Fail
  \/ ImportRefused
  \/ ImportCached
  \/ ImportLoads
  \/ Loaded
  \/ Unwind
  \/ Ended

-----------------------------------------------------------------------------
Cached == {moduleCache[source].load : source \in DOMAIN moduleCache}

(* One source is one module with one instance, however its loading went    *)
(* before: what is refused as a cycle is just what the files now running   *)
(* were read from, none of them twice and none of them finished; and no    *)
(* scope, cached, running or left at the prompt, has got hold of anything  *)
(* from a load that failed.                                                *)
OneInstance ==
  /\ moduleLoading = {frames[i].source : i \in 2 .. Len(frames)}
  /\ Cardinality(moduleLoading) = IF frames = <<>> THEN 0 ELSE Len(frames) - 1
  /\ moduleLoading \intersect DOMAIN moduleCache = {}
  /\ \A source \in DOMAIN moduleCache : Range(moduleCache[source].exports) \subseteq Cached
  /\ \A i \in DOMAIN frames : Range(frames[i].scope) \subseteq Cached \union {frames[i].load}
  /\ Range(globals) \subseteq Cached \union {0}
=============================================================================
