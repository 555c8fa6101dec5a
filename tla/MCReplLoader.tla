---------------------------- MODULE MCReplLoader ----------------------------
(* Small projects for ReplLoader.  A file is <<directory, name>>; texts    *)
(* are named for their module: a1 and a2 are versions of a, which imports  *)
(* nothing; b and c import a.                                              *)
EXTENDS ReplLoader

MCImports ==
  [x \in Texts |-> CASE x \in {"b1", "c1"} -> <<"a">>
                     [] x = "d1" -> <<"c", "n/b">>
                     [] x = "e1" -> <<"n/b", "a">>
                     [] x = "aCycle" -> <<"c">>
                     [] OTHER -> <<>>]

(* In src an import of "n/b" means n/b.gleam, the file b of directory n;   *)
(* in another directory it means a file that is never there.               *)
MCFiles == {"src", "n", "tmp"} \X Modules \ {<<"src", "n/b">>}
MCStem == [f \in MCFiles |-> f[2]]
MCResolve ==
  [f \in MCFiles |-> [m \in Modules |->
     IF f[1] = "src" /\ m = "n/b" THEN <<"n", "b">> ELSE <<f[1], m>>]]
Disk(at) == [f \in MCFiles |-> IF f \in DOMAIN at THEN at[f] ELSE NoFile]

(* One session: versions only move forward, through an ill-typed one, one  *)
(* that throws while it loads and an import cycle.  d imports c and n/b,   *)
(* which both import a: n/b finds it because c has found it before.        *)
(* Snippets share the name s, or are called c like a file of the project.  *)
SessionTexts == {"a1", "a2", "aIll", "aThrows", "aCycle", "b1", "c1", "d1", "s1", "s2", "sIll"}
SessionDisk == Disk(<<"src", "a">> :> "a1" @@ <<"src", "c">> :> "c1"
                    @@ <<"n", "b">> :> "b1" @@ <<"src", "d">> :> "d1")
SessionEdits == {<<<<"src", "a">>, "a1", x>> : x \in {"aIll", "aThrows", "aCycle"}}
                \cup {<<<<"src", "a">>, x, "a2">> : x \in {"aIll", "aThrows", "aCycle"}}
SessionSnippets == {<<<<"tmp", "c">>, "s1">>}
                   \cup {<<<<"tmp", "s">>, x>> : x \in {"s1", "s2", "sIll"}}
SessionEntries == {<<"src", "a">>, <<"src", "c">>, <<"n", "b">>, <<"src", "d">>}

(* Two threads, while a dependency changes, is deleted and comes back      *)
(* broken.  e imports n/b and a, n/b the a of its own directory: the       *)
(* closure has two files called a, and the later one is built.             *)
ThreadTexts == {"a1", "aThrows", "b1", "e1"}
ThreadDisk == Disk(<<"src", "a">> :> "a1" @@ <<"n", "a">> :> "a1"
                   @@ <<"n", "b">> :> "b1" @@ <<"src", "e">> :> "e1")
ThreadEdits == {<<<<"src", "a">>, "a1", NoFile>>, <<<<"src", "a">>, NoFile, "aThrows">>,
                <<<<"src", "a">>, "aThrows", "a1">>}
ThreadEntries == {<<"src", "a">>, <<"src", "e">>}
ThreadSymmetry == Permutations(Threads)

(* An edit and its undo.                                                   *)
RevertTexts == {"a1", "a2"}
RevertDisk == Disk(<<"src", "a">> :> "a1")
RevertEdits == {<<<<"src", "a">>, "a1", "a2">>, <<<<"src", "a">>, "a2", "a1">>}
RevertEntries == {<<"src", "a">>}

NoSnippets == {}
=============================================================================
