# A TLA+ model of gleam-clj

gleam-clj compiles Gleam to Clojure: a Rust compiler (`gleam-to-clj/src`), a
Clojure runtime and loader (`src/`), and tools around them. This directory holds
TLA+ modules for the parts of it that carry its logic, TLC configurations that
check them on small instances, and proofs about them that TLAPS checks.

Line references are to the repository; `src/gleam-to-clj/src/emit.rs:343` is
written `emit.rs:343`, `src/src/gleam_clj/load.clj:128` is `load.clj:128`.

## 1. The system

```
 .gleam files ──► gather_typed_sources ──► analyze ──► emit_module ──► .clj files
 (project, library, build/packages)  parse/sort/infer   one per module      │
        ▲                                                                   ▼
        │ copy of the closure in a temporary project              Clojure / JVM
 gleam-clj.load ◄─ require-gleam, eval-gleam ◄─ threads of a session   + runtime
        └─────────────────── load-file of the output ──────────────► namespaces
```

| Component | State it keeps | Operations | What is hard | What makes it correct |
|---|---|---|---|---|
| Source gathering, `main.rs` | `files`, `seen`, a stack `queue` | list roots, pop a file and follow its imports, panic | order of directories and definitions, loops between packages, duplicated modules | collects exactly the import closure; a package file joins once, on demand; what is emitted finds what it requires |
| Typed analysis, `analysis.rs` | parsed sources, `order`, `done`, `deps_of`, the map of interfaces | parse, rounds of the sort, infer, exit or panic | duplicated paths, imports for another target, a sort that stops making progress | dependency order, real cycles only, each module typed against sources that were analyzed |
| Types of a module, `emit.rs` | blocks, forward declarations | one block per type, `local_cycle`, `type_pred_schema` | types that refer to each other, in file order, with colliding names | building a schema ends, payloads stay checked, names resolve |
| Definitions of a module, `emit.rs` | `reachable`, `frontier`, output forms | reachability, dependency order, `declare` | two walks that must agree, mutual recursion, constants that hold functions | resolves top to bottom, interface complete, dropped means dead |
| Bit-array patterns, `emit.rs` | offset so far, tests, bindings | one arm per segment, length test | sizes read from the subject, negative or too large; tests run before bindings | same matches and bindings as Gleam, no exception |
| Expressions, `emit.rs` | subjects, branches, bindings, the text so far | `emit_case`, `emit_guard`, `order_binds`, `emit_body`, `emit_use`, `merged_let`, tail calls | tests run before bindings; simultaneous bindings become sequential ones; lets are merged by looking at their text; made up names | the clause, the bindings and the scopes are Gleam's; a branch is one form; recur only in tail position |
| Command line, `main.rs` | the output directory | build, typecheck and single-file mode, one file written after the other | a panic or a kill half-way, a source that changes between two reads | only modules of one accepted set of sources are written; after success the output is complete and of one version |
| REPL loader, `load.clj` | the cache `loaded`, temporary projects, the namespaces, snippet files | closure walk, lookup, build, load each file, publish, clean up | threads, edits between two reads, failure half-way through a load, a stale cache | coherent namespaces after a load, a hit only for what is live, no files left |
| Runtime and FFI, `prelude`, `gleam_*_ffi.clj` | none | integer parsing, slices, bytes, JSON, regexp, splitter | widths, boundaries, UTF-16 | agrees with Gleam's library |
| Test runner, corpus harness, build scripts | result files | run and compare | a ratchet, partial failures | development tools |

The compiler runs in one thread and keeps everything in memory until it writes;
its hard parts are orders and cycles. The loader runs in the threads of a
Clojure session, next to a user who edits the files it reads; its hard parts are
interleavings, failures and a cache. `PROJECT.json` lists every hazard with its
line and the properties that cover it, or the reason why none does.

`gleam_core` (the parser, the type checker and the call graph of the Gleam
project) is a dependency and not part of the sources. It is modelled by what
the code relies on: a source is malformed or not, ill-typed or not, and
`dependency_order` returns groups in dependency order.

## 2. The modules

| Module | Models | Used by |
|---|---|---|
| `Analyze` | `analyze()` | `MCAnalyze`, `Analyze_proofs` |
| `ImportClosure` | abstract: what collecting modules promises | `Gather` (refinement) |
| `Gather` | `gather_typed_sources` | `MCGather`, `Gather_proofs` |
| `TypeBlocks` | custom types: `local_type_deps`, `local_cycle`, `malli_type_in`, `type_pred_schema`, forward declarations | `EmitModule`, `EmitModule_proofs` |
| `Definitions` | functions and constants: reachability, `dependency_order`, `declare` | `EmitModule`, `Definitions_proofs` |
| `EmitModule` | `emit_module`, which composes the two | `MCEmitModule`, `EmitModule_proofs` |
| `BitPattern` | `bit_array_pattern`, `ba_size_val`, the prelude's accessors | `MCBitPattern`, `Expressions_proofs` |
| `Case` | `emit_case`: subjects, tests, guards, bindings | `Branch` |
| `Body` | `emit_body` and what it calls: statements to forms | `Branch`, `Expressions_proofs` |
| `Branch` | `emit_branch_body`, which composes the two | `MCBranch` |
| `OutputDir` | abstract: what a build promises about the output directory | `Build` (refinement) |
| `Build` | the commands of `main.rs`, from start to output | `MCBuild`, `Build_proofs` |
| `ReplLoader` | `gleam-clj.load` | `MCReplLoader`, `ReplLoader_proofs` |
| `SequenceLemmas` | nothing of the code: facts about listings, pushing, popping and least indices | the modules with proofs |

An operator named `<Definition>_<Something>` under a comment that says "Mutant
of" is a plausible wrong version of the definition that follows it. It is part
of no specification; substituting it for the definition makes a run fail, which
shows what the property of that run is sensitive to.

### Analyze

A source is an index into `parsed`. The inputs are its path, the paths it
imports in definitions that are active on this target (`active`) and those it
imports only in `@target(javascript)` definitions (`dropped`): `deps_of` looks at
both (analysis.rs:93), inference at the first. When two sources have one path
the index keeps the last (`IsIndexed`). `Parse`, `ParseError` and `BuildGraph`
are the code before the sort; `StartRound`, `Push`, `Skip`, `EndRound` are the
`while` loop with the `for` loop in it, one action per iteration, with the panic
of a round that pushed nothing; `StartInfer`, `Infer`, `UnknownModule`,
`TypeError`, `Finish` are the last loop. `interfaces` remembers which source
inserted the interface of a path last and `out` what every import of a source
was typed against, so that a wrong order or a wrong key shows as a wrong type.

### Gather and ImportClosure

`Init` is the state after the roots are listed: the library, then src/ and test/
unless the library itself is being built, each in any directory order. `Pop`
reads the file on top of the stack, finds each import that is not seen in the
first package that has it, and appends and queues them; a file that does not
parse is skipped. `NotFoundPanic` is the import nobody has. The whole body of a
`while` iteration is one action: nothing runs beside it.

`ImportClosure` says what this is for, without files, stacks or packages: a set
of collected modules grows by imports of collected modules until it is closed,
or something is missing. `CollectsClosure` is the refinement: `seen` is the set,
a module's imports are those of all its files, as src/ and test/ may both have it.

### TypeBlocks, Definitions, EmitModule

`TypeBlocks` has one step per block, per field and per iteration of
`local_cycle`. The inputs are the references between the module's types and the
three facts about names that decide between a predicate of the variants, a
marker interface and `<Type>?`: one variant or a variant of that name
(`single`), a java.lang name (`javaLang`), a name that a variant of another type
has (`claimed`). `calls` and `preds` record what the blocks refer to. Which
types occur only in the arguments of a type is not an input: when a field is
reduced, any set of other fields may go with it (`Cut`).

`Definitions` computes the functions that public functions and constants reach,
then writes each group of `dependency_order`, with a `declare` before a group of
several names. The references of a definition are split by the walk that finds
them: `walked` by `visit_exprs`, `unwalked` only by the emission of guards,
messages and bit-array sizes. `EmitModule` runs one after the other.

### BitPattern

The state is that of the loop over the segments. The emitted tests and bindings
are modelled by the values they have on the chosen subject, `Crash` standing for
an exception; `Verdict` evaluates `(and ...)` from the left and then the
bindings. `Reading` is the reference: what Gleam has taken off the subject, in bits
and from left to right, after so many segments; `End` and `GleamMatches` are what
comes out. A byte is a digit below `Base`. Three assumptions describe what the
compiler is given: `PatternsAssumption` (what Gleam's checker enforces: names bound
once, constant sizes that are no less than 0, strings without a size), `BytesAssumption`,
and `CrashAssumption`, that an exception is no value. The patterns include the sized
`:bits` segments and `unit(8)` variables that the code compiles though its doc does
not list them; the two properties speak of the others (`Listed`, `Documented`).

### Case, Body, Branch

`Case` translates a case expression clause by clause. An accessor is a variable
and the steps down from it, so that what it yields depends on the let it is
evaluated in; a test is modelled by its value on the subjects that were chosen.
`Subject` names the subjects that are calls, `EmitClause` expands alternatives,
tests the guard with accessors in place of names and keeps the bindings the body
is seen to use, `Take` is the `if` or `cond`. `OrderBinds` is the stable sort of
`order_binds`. Its `Mentions` is the code's search for "name " or "name)" in an
accessor's text: each word of the text counts that ends with the name, so `h` is
mentioned by `(nth x 0)`. Which words end with which names is the constant
`Endings`; a word ends with itself in any case. A clause has two sets of names: what
its body reads (`reads`) and what `expr_uses_var` finds (`seen`), which looks into no
message, nested guard or bit-array size (emit.rs:2251). A binding is kept by the
second. The reference is Gleam: the first clause with a row that matches and whose
guard holds, all its names bound at once (`GleamClause`, `GleamEnv`).

`Body` builds the text of a body from its last statement to its first, as the
recursion of `emit_body` does, one action per kind of statement. A text is a
sequence of tokens: what opens, what is evaluated, what closes. `MergedLet` looks
at the first token only, as the code looks at a prefix of the text; that is what
makes the difference between "the rest is a let" and "the rest begins with a
let". `Trace` is what Clojure evaluates, each evaluation with the variables it
sees, `GleamFrom` what Gleam does. Every statement is taken to read every
variable, so a wrong scope cannot stay unnoticed. A call of the function itself
may stand anywhere; `Recurs` says where it becomes `recur`: `emit_body` hands `tail`
to the last statement only, `emit_use` to none of its callback. `BodySpec` is a body
alone, with any names bound around it, which is what the proofs are about.

`Branch` extends `Body` and runs `Case` before it: `prefix`, the names the branch
binds, is set by `EmitCase` when a branch is taken. It puts the body of the taken
branch into the let of its bindings, or leaves out the case and takes the body as
that of a function or a block.

### OutputDir and Build

`Build` runs the commands one after the other on a tree of files that the user
edits at any time. It has the stack and the files of `Gather`, with one root
instead of several, and then what comes after: `Read` reads each file a second
time, `Analyze` and `Reject` are the outcome of `analyze()` (several steps in
`Analyze`), and `Skip`, `WriteModule` and `EmitPanic` are the loop that emits, in
the order in which the files were gathered. `Kill` ends the process between any
two steps, or inside `fs::write`, which leaves a torn file. A single-file command
starts with `Read`.

An output file holds the text it was made from and the texts its imports had
then (`against`): code that refers to the records and functions of another module
is right only for the version it was typed against.

`OutputDir` knows no files, commands or edits: a set of sources that fit together
is accepted, its modules are written, each once and in any order, and this may
end at any time, possibly with a torn file. In `Build`, `job` is the sources that
were read while they are being written, `todo` what the loop has still before it
(`Pending`); everything before the first write stutters. A write from a second
reading, or of a set of sources in which an import is missing, is not a step of
`OutputDir`.

### ReplLoader

One action per read of the file system or access to shared state, so that other
threads and the user come in between:

| Actions | Code |
|---|---|
| `Require`, `Eval`, `Copy` | entry points; the snippet is written to `<tmpdir>/<name>.gleam` |
| `Visit`, `Slurp`, `Descend`, `Complete` | `closure`: `.exists`, `slurp`, recursion in import order, `conj` after the imports |
| `Lookup` | the key, the cache, and the staged temporary project on a miss |
| `Build`, `Reject`, `BinaryFails` | the compiler's answers |
| `Load`, `LoadThrows`, `NothingBuilt` | `load-file` for each entry |
| `Publish`, `Cleanup`, `Return` | cache the key, `finally`, return (and delete a snippet) |
| `Edit` | the user saves, creates or deletes a file |

A file is its canonical path, a module is a name, and several files may have one.
`closure` names its entry after the file's own name (`Stem`) and an import as it is
written, and looks for the import beside the file that names it (`Resolve`); it
knows files apart by path (`seen`), while the staged project, the namespaces and
the cache know names. Of two files of one name in a closure the later one is
built (`Project`), and each of the two entries then loads it.

A key is a hash of the names and the sources of the closure, in its order, and is
modelled as just these (`Key`): paths are not in it. `live`
holds for a namespace the text it was loaded from and the imports that were
loaded again since (`stale`): the importer then refers to classes of records that
no longer are those the new namespace makes. A load that throws leaves the
namespace `Torn`.

`eval-gleam` writes a snippet to `<tmpdir>/<name>.gleam` and deletes it afterwards,
whatever was there. `SnippetsAssumption` is that the user keeps no file at such a
path; the name itself may be that of any module of the project. In `ReplSession` a
snippet is called `c` like a file of the diamond.

## 3. The runs

Bounds are in the `MC*` modules and the `.cfg` files.

| Run | What it checks | Instance and why it is enough |
|---|---|---|
| `Analyze` | `DependenciesFirst`, `StuckMeansCycle`, `UnknownMeansMissing`, `TypedAgainstItsImports`, `Terminates` | every import graph of three sources: cycles of length 1 to 3, duplicated paths, missing modules, a JavaScript-only import. The safety part is proved for any number |
| `Gather` | `PackagesOnDemand`, `RequiresProvided`, `Terminates`, `CollectsClosure` | a project with a test (or a duplicate of its module), a library, two packages that share a module, a loop of imports inside a package, a missing module, a malformed file, all orders of directories and definitions |
| `EmitModule` | `SchemaBuildEnds`, `CutsOnlyCycles`, `NamesResolve`, `ResolvesInOrder`, `ConstantsHoldFunctions`, `InterfaceEmitted`, `Terminates` | every reference graph of three types (every shape of cycle next to a type outside it) and of three definitions with every valid grouping; odd type names on each pair of types |
| `Branch` | `SameClause`, `SameBindings`, `RunsLikeGleam`, `OneForm`, `RecurInTail` | small bodies under cases of one or two subjects, nested, listed and aliased patterns whose names and fields are those of variables in scope, guards, alternatives, a word that ends with a bound name, a name that the body reads without being seen to, and every value that tells them apart; every body of up to three statements (four in a function) of ten kinds, alone and under two cases: long enough for a let, a form that begins with a let, and something after it. 0.8 million states |
| `BitPattern` | `AgreesWithGleam`, `CrashHasACause` | every pattern of up to three segments over every subject of up to three bytes: a length, a payload and a rest, with sizes that fit, fall short, exceed and are negative, and segments that the doc does not list. 1.2 million states |
| `ReplSession` | `RequiresAreLoaded`, `LoadedIsCoherent`, `HitIsCurrent`, `EvalRunsItsSource`, `SnippetsDeleted`, `CallsReturn` | one thread, the files `a`, `c` and `d` and, in a directory of its own, `n/b`: `d` imports `c` and `n/b`, and each of these an `a` that it looks for beside itself; `a` goes through ill-typed, throwing and cyclic versions; snippets called `s`, and `c` like one of the files. 0.4 million states |
| `ReplThreads` | `TempsOwned`, `RequiresAreLoaded`, `CachedWasLoaded` | two threads; `e` imports `n/b` and `a`, `n/b` the `a` of its own directory, so that the closure has two files called `a`, of which one is deleted and comes back broken; threads are symmetric. 0.8 million states |
| `Build` | `FailsForACause`, `OutputIsOneVersion`, `WritesAccepted`, `Terminates` | a library, a project of one module and two modules of packages, with chains and rings of imports, missing, malformed, ill-typed and bodiless modules and three states of the externals; two commands and two edits, so that a file may change between its two reads, two files in one command, and a second command meets what a first one left |

`CHECK_DEADLOCK` is on everywhere: an analysis or a translation that has ended
stutters by an action of its own, and so does `Build` without a command.

Four more runs show where the code does not do what its documentation says. Each
checks one property, and TLC finds a counterexample.

| Run | Property | What the counterexample shows |
|---|---|---|
| `EmitDropped` | `DroppedIsDead` | a private function referred to only in a guard, a message or a bit-array size is dropped while its caller is emitted (emit.rs:375). The namespace does not compile, or, when the function was in a declared group as in TLC's trace, the call fails |
| `CaseOrder` | `ShadowsComeLast` | a binding that hides a variable comes before an accessor that reads it (emit.rs:1270, against emit.rs:1263). There are three ways: a bare accessor is no mention for `order_binds`, so `case x, y { y, x -> ... }` becomes `(let [y x x y] ...)`; a field or function whose name ends with the name is one, so in `case x { #(x, h) -> f(x, h) }` both names sort late and `h` is read from the new `x`; bindings that hide each other's variables stay as they are |
| `BodySplice` | `LetHoldsItsBody` | after `let x = ...`, a case on a call whose value is not used, or a `let assert` that binds nothing, closes the let of `x` before the statements that follow (emit.rs:1277, against emit.rs:1274) |
| `ReplRevert` | `HitIsCurrent` | load, edit, load, undo, load: the last call is a cache hit while the namespace runs the edited text (load.clj:128). The divergences below name another way to the same line |

The passing runs of the same modules state what holds nevertheless.

* `SameBindings` holds when the order can be found (`Orderable`): at most one name is
  both bound and read, a bare read of it stands before it, and an accessor that
  mentions a name reads it. Each of the three is needed. It is about the names that
  are bound at all: those the body is not seen to read are excepted (`Lost`).
* `RunsLikeGleam` and `OneForm` except bodies in which a let is spliced into one
  that ends early (`Spliced`); `OneForm` also excepts a first statement that is such
  a let, spliced or not (`ShortLet(1)`): the code takes it for the whole body and
  two forms come out, as the divergences say. `RunsLikeGleam` says nothing of the value of a body that ends in a
  `let` or in a `let assert` that binds nothing.
* `SameClause`, `SameBindings` and `RunsLikeGleam` except variables called like a
  name the emitter makes up (`NoCapture`, `Captured`).
* `AgreesWithGleam` and `CrashHasACause` are about the segments the doc lists
  (`Documented`). The second says that a crash is never in place of a match and has
  one of two causes: a size read from the subject, or an integer literal that lies
  beyond the subject's end and is tested before a negative size. All other negative
  sizes are a mismatch.
* `HitIsCurrent` is about module names that one file only may have (`Sole`). It
  holds in `ReplSession`, where a file never returns to a text it had before, and
  is proved under that hypothesis (section 4).
* `ResolvesInOrder` is about the references the walk sees, with `main` excepted
  where `GLEAM_CLJ_NO_MAIN` removes it.

### Other divergences

Met while modelling, each with the definition that shows it; no run of its own
reports them.

* Two modules that import each other only in `@target(javascript)` definitions end
  in "import cycle among modules" (analysis.rs:93, `Deps` of `Analyze`), though
  `active_defs` says that such definitions are dropped (main.rs:80).
* `type_pred_schema` uses `<Type>?` when none of the type's own variants has its
  name (emit.rs:707), while the predicate is defined only when no variant of the
  module has it (emit.rs:321): a reduced field is then tested for the other type's
  variant. A java.lang name that an earlier block reduces refers to an interface
  not yet defined, which cannot be declared ahead (`Test`, `Declarable`).
* `<<n, data:bytes-size(n), rest:bits>>` raises on the empty bit array
  (emit.rs:1723, `LengthTest`): the length test reads the size out of the subject,
  though its comment says that it guards every access (emit.rs:1716).
* `<<1, x:bytes-size(n)>>` raises on the empty bit array when n is -1: the length test
  `(= (count s) (+ 1 n))` holds, and `(nth s 0)` comes before `(<= 0 n)`. The comment
  says "A negative runtime size is a match failure, not a crash." (emit.rs:1639);
  `SizeIsNegative` of `CrashHasACause` is this case.
* Sizes of `:bits` segments are taken in bytes and `unit(8)` variables are bound to
  vectors (emit.rs:1586, `BytesUnit`), though the doc says that everything it does
  not list panics loudly (emit.rs:1547). Such patterns match other subjects than
  Gleam's or bind other values; `Documented` keeps them out of the two properties.
* A name of a pattern that a branch reads only in the message of a panic, todo or
  assert, in a nested guard or in a bit-array size is not bound (emit.rs:2251, `Lost`):
  the walk that looks for it, `visit_exprs`, is the one of `EmitDropped`.
* A body of several statements that begins with a `let assert` that binds nothing, or
  a case on a call, begins with "(let " and is taken for one form (emit.rs:1948,
  `ShortLet`): two forms come out in the branch of an `if` or `cond`.
* The key of the cache has no paths (load.clj:124, `Key`). Require src/util.gleam, then
  `eval-gleam` with `:module "util"`, or require the util.gleam of another directory,
  then require src/util.gleam again: the last call is a hit, while the namespace runs
  the other text, though no file has changed (`Sole`).
* An import is looked for in the directory of the file that names it (load.clj:80),
  not from the root. If main imports "sub/y" and then "p", and sub/y imports "p", the
  walk does not find sub/p and puts sub/y before p: the compiler, which sees one
  project, accepts it, and the `(:require p)` of sub/y fails when it is loaded, though
  the docstring says "load them in dependency order" (load.clj:119). With a sub/p.gleam
  beside it, the closure has two files for one module: the last one staged is built,
  and loaded twice, so that the importer between the two has the old classes.
* A variable called `subject`, `s0` or `v` is hidden by the name the emitter makes
  up (emit.rs:2218, emit.rs:1249; `NoCapture`, `Captured`), and another value is read
  silently.
* A body that ends in `let` yields nil, and one that ends in a `let assert` that
  binds nothing too, where Gleam yields the value (`Rest`, `TestAssert`).
* A subject whose text has no space, as a call without arguments, is evaluated
  again by every test and accessor (emit.rs:2217).
* Modules are written in the order in which they were gathered, importers usually
  before what they import (main.rs:220, analysis.rs:236): after a panic or a kill
  the directory may hold a module without its imports.
* Integer division and remainder become `quot` and `rem`, which throw on zero
  where Gleam yields 0 (emit.rs:1816). Arithmetic is not modelled.

### Fairness

* `Analyze`, `Gather`, `EmitModule`: weak fairness of `Step`. They are loops of a
  sequential program that nothing blocks.
* `ReplLoader`: weak fairness of each thread's `Running`, so `CallsReturn` is
  about calls that started. It rests on the JVM scheduling its threads and the
  compiler process exiting. Neither calls nor edits are fair: nobody has to use
  the session, and a call returns whatever is edited while it runs.
* `Build`: weak fairness of `Running`, the steps of the process. Edits, kills and
  starts are not fair; `Terminates` holds whatever is edited while a command
  follows files, as a module is queued once.
* `Case`, `Body`, `Branch`, `BitPattern`: none, as no liveness is claimed.

## 4. The proofs

`Analyze_proofs` proves, for every number of sources `N \in Nat` and every set of
paths, the safety properties of the `Analyze` run:

| Theorem | Statement |
|---|---|
| `TypeCorrect` | `Spec => []TypeOK` |
| `OrderIsTopological` | `Spec => []DependenciesFirst` |
| `CycleIsReal` | `Spec => []StuckMeansCycle` |
| `ImportsAreTyped` | `Spec => []TypedAgainstItsImports` |
| `UnknownIsReal` | `Spec => []UnknownMeansMissing` |

The only assumption is `SourceCount == N \in Nat`; paths may be any set.

None of these is inductive alone. The invariant `Inv` is their conjunction with:

* `CountInv`: `Len(order)` counts `done`. The sort ends on `Len(order) >= N`, a
  length, while everything else speaks of the set `done`; without it a sort that
  ended might have left a source out. It makes the end of the sort mean "all done".
* `EdgesInv`: `depsOf` holds the graph's edges for every source that is not done.
  `Push` empties the edges of the source it takes, so the equation with `Deps`
  holds only outside `done`; `Ready` tests `depsOf`, while `DependenciesFirst`
  is about `Deps`.
* `RoundInv`: within a scan, what the loop index has passed and did not push was
  not ready, as long as nothing was pushed in this round. This is what makes a
  round without progress mean a cycle, and the reason `before` is kept.
* `InferInv`: an interface that is there belongs to an analyzed source of its
  path; during inference the order is complete and the paths of its first `cursor`
  sources have interfaces; `unknown_module` stands at a source that does not resolve.

`Analyze_proofs` shows that `Inv` holds initially and is preserved, one step per
action and one per conjunct. The unknown-module theorem needs the last source of
a path to exist (`LastSourceOfAPath`): the index keeps the last, and edges go
only to it. It is the greatest element of a finite set of numbers, obtained as
the least of the distances to `N` from the well-founded order on the naturals.

`ReplLoader_proofs` proves, for any texts, edits, entries and snippets, what the
runs `ReplThreads` and `ReplSession` show on two small projects:

| Theorem | Statement | Threads | Further hypotheses |
|---|---|---|---|
| `TypeCorrect` | `Spec => []TypeOK` | any | |
| `NoTempLeaks` | `Spec => []TempsOwned` | any | |
| `CacheIsHonest` | `Spec => []CachedWasLoaded` | any | |
| `NoSnippetStays` | `Spec => []SnippetsDeleted` | any | |
| `ImportsComeFirst` | `Spec => []RequiresAreLoaded` | any | `NoImportAppears`, `OneDirectory` |
| `SnippetsRun` | `Spec => []EvalRunsItsSource` | one | |
| `LoadIsCoherent` | `Spec => []LoadedIsCoherent` | one | `NoImportAppears`, `OneDirectory` |
| `HitsAreLoaded` | `Spec => []HitIsCurrent` | one | `Raises(rank)` |

The assumptions are `TextsAssumption`, which gives the constants the types of
their comments, `FilesAssumption` (a file is what an import of its own name means in
its directory, and two names mean two files) and `SnippetsAssumption`: the user has
no files at the paths where snippets are written. A snippet may have the name of any
module. The hypotheses of the last column are there because the properties are
false without them.

* `NoImportAppears`: while calls run, no file that some text imports comes into
  being. A dependency that is absent when one import is visited and there when
  the next is puts a file before what it requires (load.clj:75).
* `OneDirectory`: a file that another imports lies in the same directory, and so
  looks for its own imports there. Otherwise one import may be two files, one of
  which is missing (load.clj:80), as the divergences say.
* One thread (`Alone`): two threads redefine each other's namespaces, and two that
  evaluate a snippet of one name share its file.
* `Raises(rank)`: the texts of each file have ranks that its edits raise, so that
  no file goes back to a text it had. The run `ReplRevert` is what happens otherwise.
  `HitIsCurrent` itself leaves out the names that two files may have.

The runs go beyond what is proved: `ReplSession` and `ReplThreads` have a nested
directory, and in `ReplThreads` a file that is imported comes back.

* `TypeOK` is inductive only with `Walking`: what `closure` is about to look at is
  a file, so the text it reads is a text.
* `TempsOwned` is inductive next to `TypeOK`: each path out of a call removes its
  own project and no other.
* `CachedWasLoaded` needs `Progressing`: while a thread loads, its closure was
  accepted, and the files the index has passed do not throw and their namespaces
  exist; and before the load the index is 1. That other threads do not break it
  is `LiveStep`: no step removes a namespace, a load that throws included.
* `SnippetsDeleted` needs to say who will delete a file: `SnippetsHeld`, a snippet's
  file exists only while a call that wrote it is under way. Another call of the
  same name may delete it earlier, never later.
* `RequiresAreLoaded` is about the index of the load, and comes from the walk.
  `Readings`: no file is read twice, and `seen` is what was read. `Directories`: all of
  it lies in the directory of the entry, so that a name means one file. `Closures`: what
  a complete file imports stands before it, or is absent, or some of the files
  read import one another in a ring (`Sorted`); the imports of an open file are
  still to come or have been looked at (`Handled`); each open file imports the next
  (`Chained`), which is where a ring is found, when a file that is complete
  imports one that is still open. The compiler refuses absent imports and rings,
  so what is loaded is in order (`Ordered`).
* `EvalRunsItsSource` needs `Evaluating`, which follows an accepted snippet through
  its call: its file is what was copied until it is read, the walk finds it and
  nothing else, `:reload` keeps the cache out, the load cannot throw.
* `LoadedIsCoherent` needs `Coherent`: what the index has passed is loaded from the
  text read and has no stale import. A later load leaves it so because of
  `Ordered` and of `Readings`: the file it redefines is none that was loaded before,
  and none that an earlier one imports.
* `HitIsCurrent` relates the cache to the disk. A name that one file only may have
  was read from that file whenever it was read: `Stored` and `Placing` say that what
  was read is a text its file may have, under a name the file may be given. `Dated`: a cached file is what its
  namespace was loaded from, or its file has changed since. `Dating`: what a walk
  has read is no older than what is cached, and what of it is cached is loaded,
  until the call itself loads something. A load that throws leaves a torn
  namespace; the cached text of that file is then an older one, for the cached
  one does not throw (`CachedWasLoaded`). `Answered` carries this to the return.

`Build_proofs` proves, for any finite set of modules, any texts, and any number of
commands, edits and kills, what the `Build` run shows for a few:

| Theorem | Statement |
|---|---|
| `TypeCorrect` | `Spec => []TypeOK` |
| `WrittenVersion` | `Spec => []OutputIsOneVersion` |
| `BuildImplementsOutputDir` | `Spec => WritesAccepted`, the refinement of `OutputDir` |
| `FailureHasACause` | `Spec => []FailsForACause` |

The assumptions are `KindsAssumption` (finitely many modules; the library and the
project are disjoint) and `TextsAssumption` (texts import modules; `None` is no
text). The invariant `Inv` is `TypeOK` with

* `GatheredOnce`: a file is in `files` once, and in single-file mode what is there
  is the library or the target. A write then takes exactly one module off what
  is pending, and no later write replaces an entry already made.
* `ReadInOrder`: `src` has the files the loop has passed, and all of them after it.
* `Checked`: what is being written, or was, has been accepted, and so fits together.
  `Accepted` asks for a rank of the modules below their importers and `Fits` for no
  ring; `SortedHasNoRing` takes a module of least rank out of any set of them.
* `ReadFromDisk`: without an edit, what was read is what is on disk.
* `WrittenInOrder`: the entries of the files the loop has passed are in `out`.

`StepRefines` takes the steps of a command to those of `OutputDir`: analysis that
lets writing begin is `Accept`, a written file is `Write`, a kill is `Tear` or
`Leave`, and everything else stutters.

`FailsForACause` says that a command fails only if no set of files would do. Its
invariant compares gathering with every such set: while nothing is edited, what
was gathered is inside each set that contains the start, has its imports and
compiles (`Gathered`, `Sound`), and no import of a file that was followed is left
out. A panic while files are followed then means that no set is sound; a rejected
set of sources is itself one that is closed under imports, so that each sound
set contains it, and a ring, a missing import or an ill-typed file in it is one of
all of them (`SoundPasses`). That an accepted order exists when there is no ring
is `NoRingIsSorted`: a largest part that can be ordered is everything.
`Blamed` keeps the verdict until the next edit.

`Gather_proofs` proves, for any finite tree of files and packages, any imports and
malformed files and any order of directories and definitions:

| Theorem | Statement |
|---|---|
| `TypeCorrect` | `Spec => []TypeOK` |
| `JoinsOnDemand` | `Spec => []PackagesOnDemand` |
| `GatheredIsProvided` | `Spec => []RequiresProvided` |
| `ImplementsClosure` | `Spec => CollectsClosure`, the refinement of `ImportClosure` |

The assumptions are `GleeunitAssumption` (the test shim is a module) and
`RootsAssumption` (finitely many modules and packages, and no package is a root).
The invariant `Inv` says what joined and why (`AllProvided`: a root's file, or the
one the lookup finds for a module no root has), that `seen` is the modules of
`files` (`SeenAreFiles`), and that a file was followed or is still queued
(`QueuedOrFollowed`), without which an empty worklist would not mean a closed set.
`StepCollects` takes each step to one of `ImportClosure` or to a stutter: `Pop` is
one growing step for all the modules it adds.

`EmitModule_proofs` proves the safety properties of the `EmitModule` run, for any
vector of types, any references and names of theirs, any definitions and any
grouping of these that is a dependency order:

| Theorem | Statement | About |
|---|---|---|
| `TypeCorrect` | `Spec => []TypeOK` | both halves |
| `SchemasEnd` | `Spec => []SchemaBuildEnds` | types |
| `CutsAreCycles` | `Spec => []CutsOnlyCycles` | types |
| `BlocksResolve` | `Spec => []NamesResolve` | types |
| `NamesInOrder` | `Spec => []ResolvesInOrder` | definitions |
| `ConstantsAreBound` | `Spec => []ConstantsHoldFunctions` | definitions |
| `InterfaceIsComplete` | `Spec => []InterfaceEmitted` | definitions |

The hypothesis is `EmitAssumption`, the assumption of `EmitModule`: the types are
listed without repetition, and `main` is one of the names. `T` is the types half and
is proved about here, step by step (`Invariance`); `DP` is the definitions half, whose
theorems `Definitions_proofs` has. `TypesRun` and `DefinitionsRun` show that
`EmitModule` implements each half, so that what is proved of a half holds of the
whole.

* The types. `Searching`: all the search has met can be reached from the field's
  type and is not the current type, and what a type it is done with refers to, it
  has met. When the search ends without the current type, what it met is a set
  closed under references that leaves it out, so the field's type cannot come back
  (`Separated`) and the call is safe: `CallsLeave`. Along a call the set of types
  that can be reached gets smaller, hence no set of schema functions calls
  itself (`CallsEnd`, by the least cardinality of such a set).
* The definitions. `Reachability`: when the pass is over, what a kept name calls is
  kept. `WrittenInTurn` and `WrittenOnce`: the definitions written are those whose
  turn has come, once each, but for what is left out. `GroupDeclared`: the names of
  a group of several are declared while it is written. A reference then is to an
  earlier group, whose turn has come, or to the current group, which is declared
  or is a single function that refers to itself (`UsedIsAbove`). A constant is
  alone in its group (`ConstantAlone`), so what it holds is defined.

`Expressions_proofs` proves, for any pattern, subject and size, what the run
`BitPattern` shows for patterns of a few segments, and for a body of any length three
of the properties that `Branch` shows for at most four statements:

| Theorem | Statement |
|---|---|
| `Invariance` | `Spec => []IInv`, of which `TypeOK` is a part |
| `Agreement` | `Spec => []AgreesWithGleam`, about patterns of documented segments |
| `CrashesHaveACause` | `Spec => []CrashHasACause`, about the same patterns |
| `BranchIsOneForm` | `BodySpec => []OneForm`, but for a spliced let and a body that begins with a let that ends before it does |
| `RecursInTailPosition` | `BodySpec => []RecurInTail` |
| `BodyRunsLikeGleam` | `BodySpec => []RunsLikeGleam` |

The assumptions are the three of `BitPattern` and, about bodies, `NamesAssumption`:
`v` and `subject`, the names the emitter makes up, are names.

* Patterns. `Follows` compares the loop with Gleam's reading of the segments the loop
  has passed. Either Gleam still matches: then the emitted offset is where Gleam
  stands, every test is true and the bindings are Gleam's. Or it does not: then some
  test is not true, or the offset is beyond the subject's end, or it is a crash or a
  rest has begun, and what follows keeps it so (`ArmFollows`). It rests on
  `TakeIsFits` (when Gleam takes a segment, in terms of the offset), `ValueIs` (the
  accessor then yields the same bytes) and `PushedIs` (the tests of the segment then
  hold, and only then). `BoundBefore` says that a size that is inlined was bound by an
  earlier segment, and `RestIsLast` that nothing follows a rest. `VerdictRight`
  reads the verdict off this, with the length test as the last comparison.
* A crash needs `Contained`, an invariant where neither of the two causes is there
  (`NoCause`). Either a test that is false stands before every test that crashes
  (`FailsEarly`), as that of a negative size does (`NegativeIsTold`); or the offset
  has only grown (`Inwards`), so that what crashes lies beyond the subject's end, and
  the length test, which stands first and compares the subject with just that
  offset, is false.
* The two readings go through the segments by recursion. What they compute after k
  segments is defined by an equation for each k; that the equations have one
  solution is `FoldExists` and `SameFold`, by the least k where it fails.
* Bodies. `Good` says of every text, finished or not, that its parentheses match,
  that a recur is followed by nothing but closing ones and that no text has both a
  recur and a use. Putting texts beside one another, into parentheses or into the
  let they begin with leaves it so (`GoodBeside`, `GoodWrap`, `GoodMerge`). `Whole` is a
  text that is one form. `Growing` is what makes `OneForm` inductive: the text begins
  with a let or a with-use as its first statement's kind says, and it is whole if
  that is the last statement, a use, a binding `let assert`, or a `let` without a splice.
  A let that is merged with the text is then merged with all of it, except where
  `Spliced` says otherwise, and that is the exception the property makes.
* What a body does. `RunsTo` is what a text does wherever it stands: it adds to the
  events and leaves the environments around it as they were. An environment is one
  that `Sees` what Gleam has before a statement if it has the value of each variable in
  scope there; it may have more, such as the temporaries of earlier statements.
  `Running`, the invariant, says of the text so far that in every such environment
  it does what Gleam does from its first statement on (`Reads`); a body is translated
  backwards, so that each step puts one statement in front and the whole text has
  to work in the environments that the statement leaves. Where a let is merged with
  the text it is not enough that the text runs: `OpenRuns` says that it begins with a
  let or with-use whose bindings come first and whose end is the text's end, so that
  more bindings in front do what they would do around it (`MergedRuns`). That a text
  which begins with a let is such a text is where `Spliced` is needed. A statement
  that makes up a name gives it a value in that environment, and what follows still
  sees Gleam's variables because `Captured` says that the name is none of them.
  `Ended` says what the text yields, which merging and parentheses leave as it is.
  Environments are functions on all names, and Gleam's scope and its events are again
  defined by an equation for each statement (`ScopeIs`, `GleamIs`). As `Reads` ranges
  over all environments TLC does not evaluate `RunInv`; it checks `RunsLikeGleam`.

What the five liveness properties rest on, other than fairness, are action
properties, proved for all constants as well:

| Theorem | Module | What goes down at each step |
|---|---|---|
| `AnalysisIsBounded` | `Analyze_proofs` | a number that starts at (N + 1)(N + 4) + 1: a round is N + 2 steps, and each but the last pushes a source |
| `EachStepCounts` | `Gather_proofs` | by exactly one, the modules not seen, the files queued and the end |
| `CommandsGoDown` | `Build_proofs` | the stage; modules not gathered and files queued; files ahead of the loop |
| `CallsGoDown` | `ReplLoader_proofs` | the stage; modules not seen; open files; imports of the innermost one; the look at one; namespaces to load |
| `ModuleGoesDown` | `EmitModule_proofs` | blocks, fields, the search, types not seen, the stack; then functions not reached or followed, groups, names |

The last three are lexicographic orders on tuples of naturals: a walk may push any
number of imports when it has seen one more module. `LowerEnds` (`SequenceLemmas`)
proves from the library's theorem on such products that no sequence goes down in
them for ever. `CallsGoDown` and `CommandsGoDown` also say that edits, and other
threads, leave what a call or command has left as it is, which is where a walk
that looks at changing files could have been sent back. `CallsGoDown` assumes
finitely many modules, `ModuleGoesDown` finitely many names.

Only model-checked:

* Liveness (`Terminates`, `CallsReturn`) holds under fairness, which the provers
  do not handle: that the next step is taken stays with TLC. That there is no
  endless sequence of steps is proved, as above.
* `SameClause` and `SameBindings`: `Case` is recursive over the patterns of the
  program, trees of any depth, and the prover has no use of recursive operators.
  The theorems about bodies are for this reason about `BodySpec`, in which what a
  branch binds before the body is any sequence of bindings and stays as it is.

## 5. What is not modelled, and simplifications

* The grammar, the type checker and the text of what is emitted: names, orders
  and references are kept, layout is not. Of expressions, `case`, blocks, `use`,
  `let` and tail calls are modelled; pipelines, records, arithmetic, closures and
  destructuring outside `case` are left out: each translates one node and keeps
  no state, except for the temporaries, which `Body` has.
* The library functions written in Clojure, other than the accessors of
  bit-array patterns, wrap one JVM call each or are string functions. Those with
  boundaries worth checking are in the plan.
* The test runner, the corpus harness, the build scripts and the benchmark are
  tools; two hazards of theirs are listed without a property.
* `Gather` reads a file once; the second read, for analysis, is in `Build`.
* `Build` has no two files of one module path, and no library that builds itself;
  both are in `Gather`. The externals file does not change during a run. Nothing
  deletes old output, in the code as in the model, so `OutputIsOneVersion` is about
  the modules the command wrote and not about what else is in the directory.
* `analyze()` is one step in `Build`: it reads no file and writes none.
* A closure's key is compared exactly: collisions of `hash` are left out.
* Two threads that evaluate snippets of one name share a file and can read each
  other's text. The code makes no promise about threads, so `EvalRunsItsSource`
  is checked for one.
* `RequiresAreLoaded` does not hold on a diamond whose shared dependency is
  missing on one path of the walk and back on the other; the runs combine
  deletions only with a closure that has none such, and the hazard is listed at
  load.clj:75. Neither does it where an import is found beside one importer and not
  beside another that comes first.
* A snippet's file overwrites what is at `<tmpdir>/<name>.gleam` and is then deleted:
  that the user keeps nothing there is assumed (`SnippetsAssumption`).
* `emit_module` ends with a `-main` form when the module has a public `main`
  (emit.rs:469); it refers to `main` only and is left out of `Definitions`.
* Importers outside the closure that is loaded keep the old classes of what is
  redefined, as `load-file` has it; `LoadedIsCoherent` is about the closure.

## 6. Plan

All safety properties of the runs `Analyze`, `Gather`, `EmitModule`, `Build`,
`BitPattern`, `ReplSession` and `ReplThreads` are theorems, three of the five of
`Branch` are, and so are both refinements. In this order:

1. `ImportsComeFirst` under weaker hypotheses than `NoImportAppears` and
   `OneDirectory`: files may appear, and lie in other directories, if none of them
   is imported by two files of one closure.
2. `Runtime`: integer parsing, slices, string prefixes and the splitter, against
   reference definitions over bounded inputs.
