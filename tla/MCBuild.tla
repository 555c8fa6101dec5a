------------------------------ MODULE MCBuild ------------------------------
(* A library, a project of one module and two modules of packages that it  *)
(* and each other may import: a chain that an edit makes or breaks, a      *)
(* cycle, texts that do not parse, type or have a body, missing files.     *)
EXTENDS Build

Text(id, imports, flaw) == [id |-> id, imports |-> imports, flaw |-> flaw]
MCModules == {"lib", "app", "util", "pkg"}
MCTextsOf(m) ==
  CASE m = "lib" -> {Text(1, {}, "none")}
    [] m = "app" -> {Text(1, {"util", "lib"}, "none"), Text(2, {"util", "pkg"}, "none"), Text(3, {"lib"}, "native")}
    [] m = "util" -> {Text(1, {}, "none"), Text(2, {"pkg"}, "none"), Text(3, {"app"}, "none"), None}
    [] m = "pkg" -> {Text(1, {"lib"}, "none"), Text(2, {"util"}, "malformed"), Text(3, {}, "ill-typed"), None}
MCTexts == (UNION {MCTextsOf(m) : m \in MCModules}) \ {None}
=============================================================================
