------------------------------- MODULE MCScopes -------------------------------
(* m makes functions; g is made in m, in blocks and in loops, and makes    *)
(* none.                                                                   *)
EXTENDS Scopes, TLC

MCNamed == <<"m">>
MCParams == "m" :> <<"x">> @@ "g" :> <<"x">>
MCDeclared == "top" :> {"y"} @@ "block" :> {} @@ "loop" :> {"y"} @@ "m" :> {} @@ "g" :> {"y"}

(* What can still be reached: scopes and Envs nothing refers to, and what  *)
(* the last read gave, do not change what can happen next.                 *)
LiveScopes ==
  LET up[s \in 0 .. MaxScopes] == IF s = 0 THEN {} ELSE {s} \cup up[scopes[s].parent]
  IN UNION ({up[stack[d].scope] : d \in DOMAIN stack} \cup {up[closures[c].scope] : c \in DOMAIN closures})
LiveEnvs ==
  UNION ({Outwards(stack[d].env) : d \in DOMAIN stack}
         \cup {Outwards(closures[c].env) : c \in DOMAIN closures}
         \cup {{pool[d].envs[depth] : depth \in DOMAIN pool[d].envs} : d \in Decls})
LiveCells ==
  UNION {IF envs[e].big THEN Range(envs[e].map) ELSE Range(envs[e].slots) : e \in LiveEnvs}
    \cup {stack[d].home : d \in DOMAIN stack}

MCView == <<[s \in LiveScopes |-> scopes[s]], [e \in LiveEnvs |-> envs[e]],
            [s \in LiveCells \cap DOMAIN cells |-> cells[s]],
            [n \in Names |-> IF cache[n].env \in LiveEnvs THEN cache[n] ELSE Cold],
            Len(scopes), Len(envs), Len(cells), stack, closures, writes, pool, escapes, simple>>
=============================================================================
