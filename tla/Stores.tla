-------------------------------- MODULE Stores --------------------------------
(***************************************************************************)
(* Stores with a budget: arenas of tensors that spill to disk, weight      *)
(* files read row by row, and context windows (devices.js, values.js,      *)
(* builtins.js).                                                           *)
(*                                                                         *)
(* An arena writes a spilled tensor to a file named after the tensor alone, *)
(* so two arenas with one directory share their files.  Tensors are told   *)
(* apart by their size and a value; the files are the file system's.       *)
(***************************************************************************)
EXTENDS Naturals, Sequences, FiniteSets, SequencesExt, FiniteSetsExt

CONSTANTS
  Arenas, Keys, ArenaBudget,
  Tensors,                 \* [bytes, value]; the ones that would never fit left out
  Directories,             \* that an arena can be given; None is no directory
  None,
  Rows, CacheRows,         \* of a weight file, and how many its cache holds
  Pieces, WindowBudget,    \* token counts of texts, and a window's budget
  MaxPushes                \* bound

StoresAssumption ==
  /\ ArenaBudget \in Nat /\ CacheRows \in Nat
  /\ IsFiniteSet(Keys)
  /\ None \notin Tensors /\ None \notin Directories
  /\ \A t \in Tensors : t = [bytes |-> t.bytes, value |-> t.value] /\ t.bytes \in 0 .. ArenaBudget

VARIABLES
  where,    \* per arena, the directory it spills to
  held,     \* per arena, its entries: [tensor, meant, filed]
  recency,  \* per arena, the keys it holds, least recently used first
  files,    \* what is in each directory, per key
  misread,  \* history: a get gave another tensor than the one held
  wrote,    \* history: which arena wrote or removed the file of which key
  cache,    \* rows in memory, least recently used first
  asked,    \* history: rows asked for, the last time each
  open,     \* the weight file
  window,   \* [tokens, pinned, number] of each text kept
  policy, pushes

arenaVars == <<where, held, recency, files, misread, wrote>>
weightVars == <<cache, asked, open>>
windowVars == <<window, policy, pushes>>
vars == <<arenaVars, weightVars, windowVars>>

Init ==
  /\ where \in [Arenas -> Directories \cup {None}]
  /\ held = [a \in Arenas |-> <<>>]
  /\ recency = [a \in Arenas |-> <<>>]
  /\ files = [d \in Directories |-> <<>>]
  /\ misread = FALSE
  /\ wrote = {}
  /\ cache = <<>> /\ asked = <<>> /\ open = TRUE
  /\ window = <<>> /\ pushes = 0
  /\ policy \in {"fifo", "none"}

(* A sequence of distinct members with one moved, or put, to its end.      *)
Refresh(seq, x) ==
  IF x \in ToSet(seq) THEN Append(RemoveAt(seq, CHOOSE i \in DOMAIN seq : seq[i] = x), x)
                      ELSE Append(seq, x)
Without(seq, gone) ==
  LET left[n \in 0 .. Len(seq)] ==
        IF n = 0 THEN <<>>
        ELSE IF seq[n] \in gone THEN left[n - 1] ELSE Append(left[n - 1], seq[n])
  IN left[Len(seq)]

-----------------------------------------------------------------------------
(* Arena.                                                                  *)

resident(entries) == MapThenSumSet(LAMBDA k : entries[k].meant.bytes,
                                   {k \in DOMAIN entries : entries[k].tensor # None})
Keep(entries, spilt) ==
  [k \in DOMAIN entries |-> IF k \in spilt THEN [entries[k] EXCEPT !.tensor = None, !.filed = TRUE]
                                           ELSE entries[k]]

(* The least recently used go, until the rest fit.  Without a directory    *)
(* nothing goes, and the caller is told.                                   *)
evicted(entries, order) ==
  LET first(n) == {k \in {order[i] : i \in 1 .. n} : entries[k].tensor # None}
  IN first(Min({n \in 0 .. Len(order) : resident(Keep(entries, first(n))) <= ArenaBudget}))

(* Mutant: a file that is there already is taken for the tensor's.         *)
writeOnce(a, entries, spilt) ==
  [k \in DOMAIN files[where[a]] \cup spilt |->
     IF k \in DOMAIN files[where[a]] THEN files[where[a]][k] ELSE entries[k].tensor]

write(a, entries, spilt) ==
  [k \in DOMAIN files[where[a]] \cup spilt |->
     IF k \in spilt THEN entries[k].tensor ELSE files[where[a]][k]]

evict(a, entries) ==
  IF where[a] = None
    THEN /\ held' = [held EXCEPT ![a] = entries]
         /\ UNCHANGED <<files, wrote>>
    ELSE LET spilt == evicted(entries, recency'[a])
         IN /\ held' = [held EXCEPT ![a] = Keep(entries, spilt)]
            /\ files' = [files EXCEPT ![where[a]] = write(a, entries, spilt)]
            /\ wrote' = wrote \cup {<<a, k>> : k \in spilt}

(* An entry made afresh does not know the file of the one it replaces.  It *)
(* stays also when eviction fails.                                         *)
hold(a, k, t) ==
  /\ recency' = [recency EXCEPT ![a] = Refresh(@, k)]
  /\ evict(a, [j \in DOMAIN held[a] \cup {k} |->
                 IF j = k THEN [tensor |-> t, meant |-> t, filed |-> FALSE] ELSE held[a][j]])
  /\ UNCHANGED <<where, misread>>

used(a, k) == Refresh(recency[a], k)

(* No other arena has had its hands on a's file for k.                     *)
Alone(a, k) == \A b \in Arenas \ {a} : where[b] = where[a] => <<b, k>> \notin wrote

(* A file that is gone or too short fails the get after it counted as a    *)
(* use; one that is too long is read as far as the tensor goes.            *)
get(a, k) ==
  LET e == held[a][k]
      there == k \in DOMAIN files[where[a]]
  IN /\ k \in DOMAIN held[a]
     /\ recency' = [recency EXCEPT ![a] = used(a, k)]
     /\ \/ /\ e.tensor # None
           /\ UNCHANGED <<held, files, misread, wrote>>
        \/ /\ e.tensor = None
           /\ IF there /\ files[where[a]][k].bytes >= e.meant.bytes
                THEN LET read == [e.meant EXCEPT !.value = files[where[a]][k].value]
                     IN /\ evict(a, [held[a] EXCEPT ![k].tensor = read])
                        /\ misread' = (misread \/ (Alone(a, k) /\ held'[a][k].tensor # e.meant))
                ELSE UNCHANGED <<held, files, misread, wrote>>
     /\ UNCHANGED where

(* reclaim releases every key it was not told to keep.                     *)
release(a, keys) ==
  LET unlinked == {k \in keys : held[a][k].filed}
  IN /\ keys \subseteq DOMAIN held[a] /\ keys # {}
     /\ held' = [held EXCEPT ![a] = [k \in DOMAIN @ \ keys |-> @[k]]]
     /\ recency' = [recency EXCEPT ![a] = Without(@, keys)]
     /\ IF where[a] = None THEN UNCHANGED <<files, wrote>>
        ELSE /\ files' = [files EXCEPT ![where[a]] = [k \in DOMAIN @ \ unlinked |-> @[k]]]
             /\ wrote' = wrote \cup {<<a, k>> : k \in unlinked}
     /\ UNCHANGED <<where, misread>>

ArenaNext ==
  /\ \E a \in Arenas, k \in Keys :
       \/ \E t \in Tensors : hold(a, k, t)
       \/ get(a, k)
       \/ \E keys \in SUBSET Keys : k \in keys /\ release(a, keys)
  /\ UNCHANGED <<weightVars, windowVars>>

-----------------------------------------------------------------------------
(* Weights.  A row that is asked for is read and cached, the oldest makes  *)
(* room; once the file is closed only cached rows are to be had.           *)

row(i) ==
  LET order == Refresh(cache, i)
  IN /\ i \in ToSet(cache) \/ open
     /\ cache' = IF Len(order) > CacheRows THEN Tail(order) ELSE order
     /\ asked' = Refresh(asked, i)
     /\ UNCHANGED open

close == open /\ open' = FALSE /\ UNCHANGED <<cache, asked>>

WeightsNext == ((\E i \in Rows : row(i)) \/ close) /\ UNCHANGED <<arenaVars, windowVars>>

-----------------------------------------------------------------------------
(* ContextWindow.                                                          *)

tokens(w) == FoldLeft(LAMBDA sum, e : sum + e.tokens, 0, w)

(* Mutant: the newest text that is not pinned makes room.                  *)
VictimNewest(w) == Max({i \in DOMAIN w : ~w[i].pinned})
Victim(w) == Min({i \in DOMAIN w : ~w[i].pinned})

(* Texts go, the oldest first, until the rest fit or all are pinned.       *)
Fits(w) == tokens(w) <= WindowBudget \/ \A i \in DOMAIN w : w[i].pinned
Fitted(w) ==
  LET step[n \in 0 .. Len(w)] ==
        IF n = 0 THEN w
        ELSE IF Fits(step[n - 1]) THEN step[n - 1] ELSE RemoveAt(step[n - 1], Victim(step[n - 1]))
  IN step[Len(w)]

push(n, pinned) ==
  /\ pushes < MaxPushes
  /\ pushes' = pushes + 1
  /\ LET entries == Append(window, [tokens |-> n, pinned |-> pinned, number |-> pushes'])
     IN window' = IF policy = "none" THEN entries ELSE Fitted(entries)
  /\ UNCHANGED policy

clear == window # <<>> /\ window' = <<>> /\ UNCHANGED <<policy, pushes>>

WindowNext ==
  /\ (\E n \in Pieces, pinned \in BOOLEAN : push(n, pinned)) \/ clear
  /\ UNCHANGED <<arenaVars, weightVars>>

Next == ArenaNext \/ WeightsNext \/ WindowNext
Spec == Init /\ [][Next]_vars

-----------------------------------------------------------------------------
(* Properties.                                                             *)

(* What an arena was last given under a name is what it gives back, from   *)
(* memory or from disk, however often it was spilled, restored, replaced   *)
(* and released, as long as no other arena used the same file.             *)
HeldComesBack ==
  /\ \A a \in Arenas : \A k \in DOMAIN held[a] : Alone(a, k) =>
       LET e == held[a][k]
       IN IF e.tensor = None THEN k \in DOMAIN files[where[a]] /\ files[where[a]][k] = e.meant
                             ELSE e.tensor = e.meant
  /\ ~misread

(* No store holds more than it was given room for, except an arena that    *)
(* has nowhere to spill to and a window without a policy or with pinned    *)
(* texts alone; and what makes room is what was used, or pushed, longest   *)
(* ago.                                                                    *)
StoresWithin ==
  /\ \A a \in Arenas : where[a] # None => resident(held[a]) <= ArenaBudget
  /\ cache = SubSeq(asked, Len(asked) - Len(cache) + 1, Len(asked))
  /\ Len(cache) = IF Len(asked) < CacheRows THEN Len(asked) ELSE CacheRows
  /\ policy = "none" \/ Fits(window)
  /\ \A i, j \in DOMAIN window : i < j => window[i].number < window[j].number

(* A text that makes room is older than every text kept that is not        *)
(* pinned.                                                                 *)
OldestGoes ==
  [][\A i, j \in DOMAIN window :
       ~window[i].pinned /\ ~window[j].pinned /\ i < j /\ window' # <<>> =>
         (window[i] \in ToSet(window') => window[j] \in ToSet(window'))]_windowVars
=============================================================================
