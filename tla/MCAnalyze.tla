----------------------------- MODULE MCAnalyze -----------------------------
(* Every set of N sources up to a renaming of the paths (source i has one  *)
(* of the first i + 1), duplicates of a path and imports of a path nobody  *)
(* has included; only source 0 has a javascript-only import, at most one.  *)
EXTENDS Analyze

MCPaths == 1..N
MCInit ==
  /\ Init
  /\ \A i \in Sources : path[i] <= i + 1
  /\ \A p, q \in dropped[0] : p = q
  /\ \A i \in Sources : i # 0 => dropped[i] = {}
MCSpec == MCInit /\ [][Next]_vars /\ WF_vars(Step)
=============================================================================
