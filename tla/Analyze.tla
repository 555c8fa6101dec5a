------------------------------ MODULE Analyze ------------------------------
(***************************************************************************)
(* The typed analysis of analysis.rs: parse every source, order them so    *)
(* that imports come first, infer them in that order while the interfaces  *)
(* accumulate.  Sources are the indices of the vector `parsed`.            *)
(***************************************************************************)
EXTENDS Integers, Sequences

CONSTANTS N,      \* number of sources handed to analyze()
          Paths   \* module paths, the prelude `gleam` excluded

ASSUME SourceCount == N \in Nat

Sources == 0..N-1
NoSource == -1

VARIABLES
  path,        \* input: module path of each source
  active,      \* input: paths it imports in definitions active on this target
  dropped,     \* input: paths it imports only under @target(javascript)
  phase,       \* where analyze() stands, or how it ended
  cursor,      \* loop index of the current phase
  order, done, depsOf, before,   \* locals of the topological sort
  interfaces,  \* path -> the source whose interface was inserted last
  out          \* analyzed source -> what each of its imports resolved to

input == <<path, active, dropped>>
sorting == <<order, done, depsOf, before>>
vars == <<input, phase, cursor, sorting, interfaces, out>>

Terminal == {"done", "parse_error", "cycle", "unknown_module", "type_error"}

(* Edges of the sort: imports of any target, to the last source of a path. *)
IsIndexed(d) == \A j \in Sources : j > d => path[j] # path[d]
DepsVia(i, imports) == {d \in Sources : path[d] \in imports /\ IsIndexed(d)}
Deps(i) == DepsVia(i, active[i] \cup dropped[i])

Init ==
  /\ path \in [Sources -> Paths]
  /\ active \in [Sources -> SUBSET Paths]
  /\ dropped \in [Sources -> SUBSET Paths]
  /\ phase = "parse" /\ cursor = 0
  /\ order = <<>> /\ done = {} /\ before = 0
  /\ depsOf = [i \in Sources |-> {}]
  /\ interfaces = [p \in Paths |-> NoSource]
  /\ out = [i \in {} |-> <<>>]

Parse ==
  /\ phase = "parse" /\ cursor < N
  /\ cursor' = cursor + 1
  /\ UNCHANGED <<input, phase, sorting, interfaces, out>>

(* Any source may be malformed: the diagnostic is printed and exit(1).     *)
ParseError ==
  /\ phase = "parse" /\ cursor < N
  /\ phase' = "parse_error"
  /\ UNCHANGED <<input, cursor, sorting, interfaces, out>>

BuildGraph ==
  /\ phase = "parse" /\ cursor = N
  /\ depsOf' = [i \in Sources |-> Deps(i)]
  /\ phase' = "rounds"
  /\ UNCHANGED <<input, cursor, order, done, before, interfaces, out>>

StartRound ==
  /\ phase = "rounds" /\ Len(order) < N
  /\ before' = Len(order)
  /\ cursor' = 0
  /\ phase' = "scan"
  /\ UNCHANGED <<input, order, done, depsOf, interfaces, out>>

(* Mutant of Ready: a source is taken before the ones it imports.          *)
Ready_IgnoresImports(i) == i \notin done

Ready(i) == i \notin done /\ depsOf[i] \subseteq done

Push ==
  /\ phase = "scan" /\ cursor < N /\ Ready(cursor)
  /\ order' = Append(order, cursor)
  /\ done' = done \cup {cursor}
  /\ depsOf' = [depsOf EXCEPT ![cursor] = {}]
  /\ cursor' = cursor + 1
  /\ UNCHANGED <<input, phase, before, interfaces, out>>

Skip ==
  /\ phase = "scan" /\ cursor < N /\ ~Ready(cursor)
  /\ cursor' = cursor + 1
  /\ UNCHANGED <<input, phase, sorting, interfaces, out>>

(* Mutants of EndRound: a round that left something is already stuck; a    *)
(* round without progress is followed by another one.                      *)
EndRound_GivesUpEarly ==
  /\ phase = "scan" /\ cursor = N
  /\ phase' = IF Len(order) < N THEN "cycle" ELSE "rounds"
  /\ UNCHANGED <<input, cursor, sorting, interfaces, out>>
EndRound_NeverStuck ==
  /\ phase = "scan" /\ cursor = N
  /\ phase' = "rounds"
  /\ UNCHANGED <<input, cursor, sorting, interfaces, out>>

(* A round that pushed nothing cannot make progress: panic.                *)
EndRound ==
  /\ phase = "scan" /\ cursor = N
  /\ phase' = IF Len(order) = before THEN "cycle" ELSE "rounds"
  /\ UNCHANGED <<input, cursor, sorting, interfaces, out>>

StartInfer ==
  /\ phase = "rounds" /\ Len(order) >= N
  /\ phase' = "infer" /\ cursor' = 0
  /\ UNCHANGED <<input, sorting, interfaces, out>>

Current == order[cursor + 1]
(* Mutant of Resolves: an import without an interface goes unnoticed.      *)
Resolves_Anyway(i) == i \in Sources

Resolves(i) == \A p \in active[i] : interfaces[p] # NoSource

(* Mutants of Infer: the interface is not recorded, or is recorded under   *)
(* the path of the source the loop counter names.                          *)
Infer_NotRecorded ==
  /\ phase = "infer" /\ cursor < Len(order) /\ Resolves(Current)
  /\ out' = [i \in DOMAIN out \cup {Current} |->
               IF i = Current THEN [p \in active[i] |-> interfaces[p]] ELSE out[i]]
  /\ cursor' = cursor + 1
  /\ UNCHANGED <<input, phase, sorting, interfaces>>
Infer_WrongPath ==
  /\ phase = "infer" /\ cursor < Len(order) /\ Resolves(Current)
  /\ out' = [i \in DOMAIN out \cup {Current} |->
               IF i = Current THEN [p \in active[i] |-> interfaces[p]] ELSE out[i]]
  /\ interfaces' = [interfaces EXCEPT ![path[cursor]] = Current]
  /\ cursor' = cursor + 1
  /\ UNCHANGED <<input, phase, sorting>>

(* infer_module sees the interfaces inserted so far, and adds its own.     *)
Infer ==
  /\ phase = "infer" /\ cursor < Len(order) /\ Resolves(Current)
  /\ out' = [i \in DOMAIN out \cup {Current} |->
               IF i = Current THEN [p \in active[i] |-> interfaces[p]] ELSE out[i]]
  /\ interfaces' = [interfaces EXCEPT ![path[Current]] = Current]
  /\ cursor' = cursor + 1
  /\ UNCHANGED <<input, phase, sorting>>

UnknownModule ==
  /\ phase = "infer" /\ cursor < Len(order) /\ ~Resolves(Current)
  /\ phase' = "unknown_module"
  /\ UNCHANGED <<input, cursor, sorting, interfaces, out>>

(* Any source may be ill-typed, or have an ill-formed call graph.          *)
TypeError ==
  /\ phase = "infer" /\ cursor < Len(order) /\ Resolves(Current)
  /\ phase' = "type_error"
  /\ UNCHANGED <<input, cursor, sorting, interfaces, out>>

Finish ==
  /\ phase = "infer" /\ cursor = Len(order)
  /\ phase' = "done"
  /\ UNCHANGED <<input, cursor, sorting, interfaces, out>>

Ended == phase \in Terminal /\ UNCHANGED vars

Step == \/ Parse \/ ParseError \/ BuildGraph
        \/ StartRound \/ Push \/ Skip \/ EndRound
        \/ StartInfer \/ Infer \/ UnknownModule \/ TypeError \/ Finish
Next == Step \/ Ended

Spec == Init /\ [][Next]_vars
FairSpec == Spec /\ WF_vars(Step)

-----------------------------------------------------------------------------
(* Each variable stays in the range its Rust type and the loops give it.   *)
TypeOK ==
  /\ path \in [Sources -> Paths]
  /\ active \in [Sources -> SUBSET Paths]
  /\ dropped \in [Sources -> SUBSET Paths]
  /\ phase \in {"parse", "rounds", "scan", "infer"} \cup Terminal
  /\ cursor \in 0..N
  /\ order \in Seq(Sources) /\ done \subseteq Sources
  /\ depsOf \in [Sources -> SUBSET Sources]
  /\ before \in 0..N
  /\ interfaces \in [Paths -> Sources \cup {NoSource}]
  /\ DOMAIN out \subseteq Sources
  /\ \A i \in DOMAIN out : out[i] \in [active[i] -> Sources]

(* `order` lists each source once, after every source it imports: `done`   *)
(* is its range, so no module is inferred twice or before its interfaces.  *)
DependenciesFirst ==
  /\ done = {order[k] : k \in 1..Len(order)}
  /\ \A j, k \in 1..Len(order) : order[j] = order[k] => j = k
  /\ \A k \in 1..Len(order) : \A d \in Deps(order[k]) :
        \E j \in 1..k-1 : order[j] = d

(* The sort gives up only on a real cycle: some source is left, and every  *)
(* one left imports another one left.                                      *)
StuckMeansCycle ==
  phase = "cycle" =>
    /\ Sources \ done # {}
    /\ \A i \in Sources \ done : Deps(i) \ done # {}

(* Inference reports an unknown module only when no source has its path:   *)
(* the order never makes a module that is there look missing.              *)
UnknownMeansMissing ==
  phase = "unknown_module" =>
    \E p \in active[Current] : \A i \in Sources : path[i] # p

(* Whatever an analyzed module imports was typed against a source that    *)
(* has the imported path and was itself analyzed before.                   *)
TypedAgainstItsImports ==
  \A i \in DOMAIN out : \A p \in active[i] :
     out[i][p] \in DOMAIN out /\ path[out[i][p]] = p

(* analyze() always returns, panics or exits: the rounds cannot spin.      *)
Terminates == <>(phase \in Terminal)
=============================================================================
