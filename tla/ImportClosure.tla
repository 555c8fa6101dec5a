--------------------------- MODULE ImportClosure ---------------------------
(***************************************************************************)
(* What collecting the modules of a program promises: starting from the    *)
(* roots, only imports of collected modules join, and the collection ends  *)
(* when it is closed under import, or fails on an import that nobody has.  *)
(***************************************************************************)
VARIABLES roots,      \* fixed: modules collected from the start
          available,  \* fixed: modules that can be found
          importsOf,  \* fixed: module -> the modules its source imports
          collected, outcome

vars == <<roots, available, importsOf, collected, outcome>>

Init == collected = roots /\ outcome = "open"

Wanted == (UNION {importsOf[m] : m \in collected}) \ collected

(* One file is read: some of what is missing joins the collection.         *)
Collect ==
  /\ outcome = "open"
  /\ \E S \in SUBSET (Wanted \cap available) :
       S # {} /\ collected' = collected \cup S
  /\ UNCHANGED <<roots, available, importsOf, outcome>>

Close ==
  /\ outcome = "open" /\ Wanted = {}
  /\ outcome' = "closed"
  /\ UNCHANGED <<roots, available, importsOf, collected>>

Missing ==
  /\ outcome = "open" /\ Wanted \ available # {}
  /\ outcome' = "missing"
  /\ UNCHANGED <<roots, available, importsOf, collected>>

Next == Collect \/ Close \/ Missing
Spec == Init /\ [][Next]_vars
=============================================================================
