------------------------------- MODULE Build -------------------------------
(***************************************************************************)
(* The commands of main.rs from their start to what they leave in the      *)
(* output directory.  A source is read twice, to follow its imports        *)
(* (gather_typed_sources, in detail in Gather) and to be analyzed, and     *)
(* modules are written one by one in the order they were gathered; the     *)
(* user may save, create or delete files meanwhile, and the process may    *)
(* panic or be killed between any two steps.  analyze() is one step here.  *)
(***************************************************************************)
EXTENDS Integers, Sequences, SequencesExt, FiniteSets

CONSTANTS
  Modules,
  Library, Project,  \* subsets of Modules; the others come from packages
  Texts,             \* records [id, imports, flaw]
  TextsOf(_),        \* the texts a module may have
  None, Torn,
  MaxRuns, MaxEdits  \* bounds

ASSUME KindsAssumption ==
  IsFiniteSet(Modules) /\ Library \cap Project = {} /\ Library \cup Project \subseteq Modules
ASSUME TextsAssumption ==
  /\ None \notin Texts
  /\ \A t \in Texts : t.imports \subseteq Modules
  /\ \A m \in Modules : TextsOf(m) \subseteq Texts \cup {None}

VARIABLES
  disk,               \* module -> text, None when there is no file
  externals,          \* clojure-externals.txt: "absent", "complete" or "malformed"
  out,                \* the output directory
  phase, command, result,
  target,             \* the input of a single-file command
  files, queue,       \* locals of gather_typed_sources
  src, k,             \* the sources that were read, and the index of the loop
  runs, edits, edited \* commands and edits so far; whether one came during this command

user == <<disk, externals, edits>>
gathering == <<files, queue>>
call == <<command, target>>
vars == <<user, out, phase, result, call, gathering, src, k, runs, edited>>

Exists(m) == disk[m] # None
Listed(kind) == SetToSeqs({m \in kind : Exists(m)})

Init ==
  /\ disk \in [Modules -> Texts \cup {None}] /\ \A m \in Modules : disk[m] \in TextsOf(m)
  /\ externals \in {"absent", "complete", "malformed"}
  /\ out = [m \in Modules |-> None]
  /\ phase = "idle" /\ command = "none" /\ result = "none" /\ target = None
  /\ files = <<>> /\ queue = <<>> /\ src = [m \in {} |-> None] /\ k = 1
  /\ runs = 0 /\ edits = 0 /\ edited = FALSE

(* build and typecheck list the library and the project; the single-file   *)
(* command takes the library and its input, and follows no imports.        *)
Start ==
  /\ phase = "idle" /\ runs < MaxRuns
  /\ command' \in {"build", "typecheck", "typed"}
  /\ \E lib \in Listed(Library), own \in Listed(Project) :
       IF command' = "typed"
         THEN target' \in Project /\ files' = Append(lib, target') /\ phase' = "read" /\ queue' = <<>>
         ELSE target' = None /\ files' = lib \o own /\ phase' = "gather" /\ queue' = files'
  /\ src' = [m \in {} |-> None] /\ k' = 1
  /\ result' = "none" /\ edited' = FALSE /\ runs' = runs + 1
  /\ UNCHANGED <<user, out>>

Ends(how) == phase' = "idle" /\ result' = how

(* The imports of the last file queued, if it parses, that are not known   *)
(* yet must be in a package.                                               *)
Wanted(m) == IF disk[m].flaw = "malformed" THEN {} ELSE disk[m].imports \ ToSet(files)
Found(m) == Exists(m) /\ m \notin Library \cup Project
Queued == phase = "gather" /\ queue # <<>>

(* Mutants of Follow: what is found is not followed in its turn; the file  *)
(* stays on the queue.                                                     *)
Follow_NotQueued ==
  /\ Queued /\ Exists(Last(queue)) /\ \A d \in Wanted(Last(queue)) : Found(d)
  /\ \E new \in SetToSeqs(Wanted(Last(queue))) : files' = files \o new /\ queue' = Front(queue)
  /\ UNCHANGED <<user, out, phase, result, call, src, k, runs, edited>>
Follow_Peeks ==
  /\ Queued /\ Exists(Last(queue)) /\ \A d \in Wanted(Last(queue)) : Found(d)
  /\ \E new \in SetToSeqs(Wanted(Last(queue))) : files' = files \o new /\ queue' = queue \o new
  /\ UNCHANGED <<user, out, phase, result, call, src, k, runs, edited>>

Follow ==
  /\ Queued /\ Exists(Last(queue)) /\ \A d \in Wanted(Last(queue)) : Found(d)
  /\ \E new \in SetToSeqs(Wanted(Last(queue))) :
       files' = files \o new /\ queue' = Front(queue) \o new
  /\ UNCHANGED <<user, out, phase, result, call, src, k, runs, edited>>

(* "module not found", or a file that is gone when it is read.             *)
GatherPanic ==
  /\ Queued /\ (Exists(Last(queue)) => \E d \in Wanted(Last(queue)) : ~Found(d))
  /\ Ends("panic")
  /\ UNCHANGED <<user, out, call, gathering, src, k, runs, edited>>

EndGather ==
  /\ phase = "gather" /\ queue = <<>> /\ phase' = "read"
  /\ UNCHANGED <<user, out, result, call, gathering, src, k, runs, edited>>

More == k <= Len(files)
Current == files[k]

(* Each source is read again for the analysis.                             *)
Read ==
  /\ phase = "read" /\ More /\ Exists(Current)
  /\ src' = [d \in DOMAIN src \cup {Current} |-> IF d = Current THEN disk[d] ELSE src[d]]
  /\ k' = k + 1
  /\ UNCHANGED <<user, out, phase, result, call, gathering, runs, edited>>
ReadPanic ==
  /\ phase = "read" /\ More /\ ~Exists(Current)
  /\ Ends("panic")
  /\ UNCHANGED <<user, out, call, gathering, src, k, runs, edited>>

(* What analyze() makes sure of before it returns, and ends the process    *)
(* otherwise: there is an order for the imports, and each is found.        *)
Typed(s) == \A m \in DOMAIN s : s[m].flaw \notin {"malformed", "ill-typed"}
Sorted(s) ==
  \E rank \in [DOMAIN s -> 1..Cardinality(DOMAIN s)] :
    \A m \in DOMAIN s : \A d \in s[m].imports \cap DOMAIN s : rank[d] < rank[m]
Resolved(s) == \A m \in DOMAIN s : s[m].imports \subseteq DOMAIN s

(* Mutant of Accepted: an import that was not gathered goes unnoticed.     *)
Accepted_Unresolved(s) == Typed(s) /\ Sorted(s)

Accepted(s) == Typed(s) /\ Sorted(s) /\ Resolved(s)

(* typecheck stops here; build reads the externals before it writes.       *)
Analyze ==
  /\ phase = "read" /\ ~More /\ Accepted(src)
  /\ CASE command = "typecheck" -> Ends("ok") /\ UNCHANGED k
       [] command = "build" /\ externals = "malformed" -> Ends("panic") /\ UNCHANGED k
       [] OTHER -> phase' = "write" /\ k' = 1 /\ UNCHANGED result
  /\ UNCHANGED <<user, out, call, gathering, src, runs, edited>>
Reject ==
  /\ phase = "read" /\ ~More /\ ~Accepted(src)
  /\ Ends("rejected")
  /\ UNCHANGED <<user, out, call, gathering, src, k, runs, edited>>

(* The emit flag: all but the library, or the input of the single file.    *)
IsEmitted(m) == IF command = "typed" THEN m = target ELSE m \notin Library
Pending == {m \in {files[i] : i \in k..Len(files)} : IsEmitted(m)}
Writing == phase = "write"
O == INSTANCE OutputDir WITH job <- IF Writing THEN src ELSE None,
                             todo <- IF Writing THEN Pending ELSE {}

(* A function without a body needs an external; a single file has none.    *)
Panics(text) == text.flaw = "native" /\ (command = "typed" \/ externals # "complete")
Emits == Writing /\ More /\ IsEmitted(Current) /\ ~Panics(src[Current])

Skip ==
  /\ Writing /\ More /\ ~IsEmitted(Current)
  /\ k' = k + 1
  /\ UNCHANGED <<user, out, phase, result, call, gathering, src, runs, edited>>

(* Mutant of WriteModule: the source is read once more when it is written. *)
WriteModule_ReadsAgain ==
  /\ Emits /\ Exists(Current)
  /\ out' = [out EXCEPT ![Current] = [O!Entry(src, Current) EXCEPT !.text = disk[Current]]]
  /\ k' = k + 1
  /\ UNCHANGED <<user, phase, result, call, gathering, src, runs, edited>>

WriteModule ==
  /\ Emits
  /\ out' = [out EXCEPT ![Current] = O!Entry(src, Current)]
  /\ k' = k + 1
  /\ UNCHANGED <<user, phase, result, call, gathering, src, runs, edited>>
EmitPanic ==
  /\ Writing /\ More /\ IsEmitted(Current) /\ Panics(src[Current])
  /\ Ends("panic")
  /\ UNCHANGED <<user, out, call, gathering, src, k, runs, edited>>
Finish ==
  /\ Writing /\ ~More /\ Ends("ok")
  /\ UNCHANGED <<user, out, call, gathering, src, k, runs, edited>>

Running ==
  \/ Follow \/ GatherPanic \/ EndGather \/ Read \/ ReadPanic \/ Analyze \/ Reject
  \/ Skip \/ WriteModule \/ EmitPanic \/ Finish

(* fs::write truncates the file before it writes it.                       *)
Kill ==
  /\ phase # "idle" /\ Ends("killed")
  /\ UNCHANGED out \/ (Emits /\ out' = [out EXCEPT ![Current] = Torn])
  /\ UNCHANGED <<user, call, gathering, src, k, runs, edited>>

Edit ==
  /\ edits < MaxEdits /\ edits' = edits + 1 /\ edited' = TRUE
  /\ \E m \in Modules \ Library : \E t \in TextsOf(m) \ {disk[m]} : disk' = [disk EXCEPT ![m] = t]
  /\ UNCHANGED <<externals, out, phase, result, call, gathering, src, k, runs>>

(* A command in progress can always go on; without one nothing need happen.*)
Idle == phase = "idle" /\ UNCHANGED vars

Next == Start \/ Running \/ Kill \/ Edit \/ Idle
Spec == Init /\ [][Next]_vars /\ WF_vars(Running)
-----------------------------------------------------------------------------
(* Every local stays in the range main.rs gives it.                        *)
TypeOK ==
  /\ disk \in [Modules -> Texts \cup {None}] /\ DOMAIN out = Modules
  /\ phase \in {"idle", "gather", "read", "write"}
  /\ command \in {"none", "build", "typecheck", "typed"} /\ target \in Modules \cup {None}
  /\ files \in Seq(Modules) /\ queue \in Seq(Modules) /\ k \in 1..Len(files)+1
  /\ DOMAIN src \subseteq Modules /\ src \in [DOMAIN src -> Texts]

(* A command that is not killed, during which nothing was saved, fails     *)
(* only for what is wrong with the files: no set of existing files has     *)
(* those that are listed and all their imports, parses, types and has no   *)
(* cycle (and, to be written, the externals it needs).                     *)
Fine(S) ==
  LET s == [m \in S |-> disk[m]] IN
  /\ O!Fits(s)
  /\ command = "typecheck" \/ \A m \in S : IsEmitted(m) => ~Panics(s[m])
FailsForACause ==
  phase = "idle" /\ result \in {"rejected", "panic"} /\ ~edited =>
    \/ command = "build" /\ externals = "malformed"
    \/ LET start == {m \in Library : Exists(m)} \cup
                      (IF command = "typed" THEN {target} ELSE {m \in Project : Exists(m)})
           more == IF command = "typed" THEN {} ELSE Modules
       IN ~\E S \in SUBSET {m \in Modules : Exists(m)} : start \subseteq S /\ S \subseteq start \cup more /\ Fine(S)

(* After a command that says it wrote everything, the modules it wrote     *)
(* have been typed against the very texts their imports were written from, *)
(* the imports are written too, and if nothing was saved meanwhile these   *)
(* are the files on disk: a torn file or one of an earlier command is gone.*)
OutputIsOneVersion ==
  phase = "idle" /\ result = "ok" /\ command # "typecheck" =>
    \A m \in {d \in DOMAIN src : IsEmitted(d)} :
      /\ out[m] = O!Entry(src, m)
      /\ \A d \in out[m].text.imports \ Library : out[d].text = out[m].against[d]
      /\ edited \/ out[m].text = disk[m]

(* Whatever is edited, killed or panics, the directory only changes to     *)
(* modules of one set of sources that fit together, each written once.     *)
WritesAccepted == O!Spec

(* A command ends, although files change while it follows them.            *)
Terminates == phase # "idle" ~> phase = "idle"
=============================================================================
