----------------------------- MODULE OutputDir -----------------------------
(***************************************************************************)
(* What a build promises to those who load from the output directory: it   *)
(* changes only by writing modules of one set of sources that fit together *)
(* and each of them once.  A build may be given up at any time; what it    *)
(* was writing then may be torn.                                           *)
(***************************************************************************)
EXTENDS FiniteSets

CONSTANTS Modules, Texts, None, Torn

VARIABLES
  out,    \* the module in each file of the directory
  job,    \* the sources being compiled, None when there are none
  todo    \* the modules that are still to be written

vars == <<out, job, todo>>

(* A set of sources fits together when no text is flawed, all imports are  *)
(* there, and no modules import each other in a ring.                      *)
Fits(src) ==
  /\ \A m \in DOMAIN src : src[m].flaw \notin {"malformed", "ill-typed"}
  /\ \A m \in DOMAIN src : src[m].imports \subseteq DOMAIN src
  /\ \A S \in SUBSET DOMAIN src : S # {} => \E m \in S : src[m].imports \cap S = {}

(* A module as it is written: its text, and what its imports were.         *)
Entry(src, m) == [text |-> src[m], against |-> [d \in src[m].imports |-> src[d]]]

Init == out = [m \in Modules |-> None] /\ job = None /\ todo = {}

Accept ==
  /\ job = None
  /\ \E S \in SUBSET Modules : job' \in [S -> Texts] /\ todo' \in SUBSET S
  /\ Fits(job')
  /\ UNCHANGED out

Write(m) ==
  /\ m \in todo
  /\ out' = [out EXCEPT ![m] = Entry(job, m)]
  /\ todo' = todo \ {m}
  /\ UNCHANGED job

End == job' = None /\ todo' = {}
Tear(m) == m \in todo /\ out' = [out EXCEPT ![m] = Torn] /\ End
Leave == End /\ UNCHANGED out

Next == Accept \/ Leave \/ \E m \in Modules : Write(m) \/ Tear(m)
Spec == Init /\ [][Next]_vars
=============================================================================
