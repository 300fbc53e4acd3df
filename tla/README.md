# TLA+ models of btidor/syntax

This directory holds TLA+ specifications of the `btidor/syntax` Dockerfile
frontend, TLC configurations that model-check them, and TLAPS proofs. The
repository is a fork of BuildKit's Dockerfile frontend. Its own logic is the
`ADD --apt` package extension
(`src/dockerfile/dockerfile2llb/convert_package.go`). It also carries a copy of
the instruction parser (`src/tests/Dockerfile.pre`, which is
`instructions/parse.go` behind a separator) and the build-tag-selected RUN
hooks.

## 1. The system

| Part | Source | State it changes | Operations |
|---|---|---|---|
| Package extension (`ADD --apt`) | `convert_package.go` | stage root `d.state`, image history, step counter `d.cmdIndex`, `dopt.rawBuildContext`, the LLB graph | `NewPackageInvocation`, `Dispatch` (update exec, download exec, `ReadFile` solve and read-back, `ParseURIs`, `DownloadFiles`, install exec), `Run` (exec plus `commitToHistory`) |
| Stage dispatcher (`convert.go`, not under `src/`) | spec §4.D | the same `dispatchState` | `prefixCommand`, `commitToHistory`, the other dispatchers (`dispatchRun`, `dispatchEnv`, ...) |
| Instruction parser | `tests/Dockerfile.pre` lines 20-927 | the parse request's flag set and the instruction's side-channel values | `Parse`, `ParseInstructionWithLinter`, `parseAdd` (the `--apt` branch), `parseFrom`, `parseArg`, `parseRun` with its pre- and post-hook chains, `parseHealthcheck` |
| RUN `--network` hooks | `dockerfile/go.mod` lines 1259-1321 | the `networkState` attached to a RUN | `runNetworkPreHook`, `runNetworkPostHook` |
| RUN `--device` and `--security` | `unnamed/part_000`, `part_001`, `convert_norunsecurity.go` | none | pure maps from a command to run options or an error |
| Linter tests, version, CI, Makefiles | the rest | none | none |

**How the parts interact.** The parser produces a `PackageCommand` for
`ADD --apt`. The dispatcher meets that command while it walks a stage in source
order, and calls `NewPackageInvocation` and then `Dispatch`.

`NewPackageInvocation` calls `prefixCommand` three times, so it takes the next
three step numbers up front.

`Dispatch` then emits two execs over the stage root:

- `apt-get update`, with the apt state directory on the cache volume
  `btidor.syntax`, which is shared by every build on the engine;
- `apt-get install --print-uris`, which writes the URI listing.

Both execs go to history without a layer. `ReadFile` then blocks on a solve of
the graph so far by the build engine, and reads the listing back. `ParseURIs`
parses the listing and `DownloadFiles` turns it into one File node of HTTP
copies. Last comes the install exec. It runs over the *original* root, with
that File node mounted. It becomes the new stage root and is the one history
entry with a layer.

**What is hard to test here.** These are the hazards PROJECT.json lists:

- The step names are computed before the solve and used after it.
- The history/layer bookkeeping spans three execs, two of which are thrown
  away.
- A failure in the middle of an invocation leaves history entries behind.
- The line order and checksums of the listing must survive into the File node.
- An empty listing yields a File node with no action.
- Concurrent builds share the apt cache volume.
- Two downloads may have the same file name.
- `ReadFile` writes to the build options mid-compile.
- `Parse` splits meta-ARGs from stages.

## 2. Modules

### PackageInvocation (convert_package.go, with the dispatcher parts it touches)

It models one stage being dispatched. The stage is a sequence of `RUN`, `ENV`
and `APT` commands, drawn from the constant `StageCmds`. `RUN` and `ENV` stand
for the other dispatchers. They touch the same three things `ADD --apt`
touches: the root, the history and the step counter. Those two actions, and
`Init`, `StepTotal` and `StageDone`, are modelled from the spec because
`convert.go` is not in `src/`. PROJECT.json marks them `spec_modelled`.

**State.**

| Variable | Code |
|---|---|
| `graph` | the LLB nodes built so far. Each is a record: operation, label, step, root input, mount, cache flag, HTTP copies, and the number of filesystem layers of its result. |
| `root` | `d.state` |
| `history` | `d.image.History` (label, step, `EmptyLayer`) |
| `cmdIndex`, `cmdTotal` | the step counter and the step total |
| `inv` | the `PackageInvocation` in flight: original root, temporary image, step names |
| `readBack` | the bytes `ReadFile` returned |
| `pc` | where `Dispatch` is: dispatching, blocked in `ReadFile`, done, failed |

**Actions.**

| Action | Code |
|---|---|
| `PackageStart` | `NewPackageInvocation` and `Dispatch` up to the solve: lines 48-60, 62-90 |
| `PackageSolveFailed` | any error of `ReadFile` (lines 137-171), returned by `Dispatch` at line 92 |
| `PackageParseFailed` | a listing `ParseURIs` rejects (lines 95-98) |
| `PackageInstall` | `ParseURIs` accepts the listing, then `DownloadFiles` and the install exec (lines 99-114) |

`ParseURIs` is an operator, written without recursion. The parsed listing is a
function from the number of the line it came from to the download, which keeps
the line order. Whether a line is blank, fails `aptRegex`, has a size that
`strconv.Atoi` rejects, or has a SHA256 group is a field of an abstract line
record (`Line`). The regex itself is not interpreted character by character.

**Properties.**

- `TypeOK`.
- `HistoryMatchesLayers`: the image history claims exactly as many layers as
  the stage root has.
- `StepNumbering`: history step numbers run 2, 3, ... in order. None exceeds the
  announced total, and a finished stage used exactly that total.
- `AptRoundTrip`, an action property: every File node a step adds holds exactly
  one copy per non-blank line of the listing read in that step, in line order,
  with that line's digest. This is spec §8.6.
- `ImageRefined`: the dispatch implements the abstract image `StageImage`
  (below), under the mapping `layers <- graph[root].layers`,
  `total <- cmdTotal`, `done <- (pc = "done")`, with `history` the history
  itself.
- `ZeroURIsRejected`: spec §7. It is checked by a violation run.

### StageImage (what a stage promises of its image)

An abstract specification, with no graph, no invocation and no `ReadFile`. Its
state is the history, the root's layer count, the announced total and a done
flag. Its steps:

- `Commit(label, withLayer)`: one entry with the next step number, and one layer
  more exactly when the entry has a layer;
- `CommitEmptyPair`: two consecutive entries without a layer (update and
  download);
- `Finish`: allowed only once the last announced step has been committed.

Every step number stays within the total. `PackageInvocation` maps onto it as
follows:

- `DispatchEnv`, `DispatchRun` and `PackageInstall` are each a `Commit`;
- `PackageStart` is `CommitEmptyPair`;
- `StageDone` is `Finish`;
- the two failure actions and `Terminated` are stutters.

### MCPackageInvocation

The model-checking instance. It has two URIs, two file names and one digest.
The listings are:

- one with a hashed line, a blank line and an unhashed line;
- one with a non-SHA256 hash;
- an empty listing;
- an all-blank listing;
- one with a garbled line;
- one with an oversized `size`.

The stages are `APT`, `RUN APT ENV APT`, `ENV APT RUN` and `APT APT APT`.
These bounds are enough for every path through `Dispatch` to happen:

- every kind of `ParseURIs` rejection;
- acceptance with and without checksums;
- two and three `ADD --apt` in one stage, with RUN and ENV between them, so
  the step counter and the layer count are carried across invocations;
- failure of the solve while history already holds the update and download
  entries.

### AptCacheMount (convert_package.go lines 68-87, across builds)

It models several builds on one engine, each running the ADD --apt update
exec. The exec is one shell line over a cache mount that every build shares:
`mkdir`, `apt-get update`, `cp -r state backup`. The download exec then moves
the backup back into place (lines 83-87). `apt-get update` takes the lists lock
(`state/lists/lock`, on the shared volume because of `Dir::State`) without
waiting. It moves each verified index file into `lists/`, and releases the lock
when it exits. The contents of an index file are abstracted to the generation
of the archive it was fetched from. The archive publishes new generations on
its own (`Publish`).

| Variable | Code |
|---|---|
| `lists` | the shared `/btidor.syntax/state/lists`, per file: its generation |
| `lock` | the owner of the lists lock |
| `pc`, `gen`, `pending`, `toCopy` | per build: the place in the script, the generation its update fetched, the index files not yet moved, and those not yet copied |
| `backup` | per build: `/btidor.syntax/backup/lists`, in that build's own image |

| Action | Code |
|---|---|
| `UpdateLock` | `mkdir` and `apt-get update` finding the lock free (lines 68-71) |
| `UpdateLockBusy` | `apt-get update` finding it held: `&&` (line 124) skips `cp -r`, the exec and so `Dispatch` fail (lines 68-79) |
| `MoveIndex` | apt moving one index file into the shared `lists/` |
| `UpdateDone` | apt exits and releases the lock; `&&` goes on to `cp -r` |
| `CopyIndex` | `cp -r` copying one file of the shared `lists/` to the backup (line 72) |
| `Download` | the download exec resolving from the backup (lines 83-87) |

**Properties.**

- `BackupFromOwnUpdate` (spec §5): a build that resolves its packages did
  fetch indexes itself, and no file of its backup is older than the generation
  its own update fetched. Two parts of the code make this hold. The `&&` of
  `Run` runs `cp -r` only after a successful `apt-get update`. The lists lock
  keeps an update that fetched an older generation from overwriting a newer
  one. The backup can still be torn (see `BackupConsistent`), but only towards
  newer files. Two mutants break the property. The script joined with `;`
  lets a failed update go on to the copy. An unchecked lock lets an older
  fetch overwrite a newer one while another build copies.
- `BackupConsistent`: a build resolves from a backup of one generation. It is
  checked by a violation run.

### InstructionParse (tests/Dockerfile.pre = instructions/parse.go, and go.mod = the RUN network hooks)

It models the loop of `Parse`, one step per AST child:

| Action | Code (Dockerfile.pre) |
|---|---|
| `ParseFailed` | an instruction fails to parse; `Parse` returns nil results (206-209) |
| `ParseMetaArg` | an ARG while there is no stage yet (210-216) |
| `ParseStage` | a FROM appends a stage (217-219) |
| `ParseCommand` | any other command goes to `CurrentStage` (220-225) |
| `ParseNoStage` | `CurrentStage` finds no stage (221-224) |
| `ParseDone` | `Parse` returns (229-231) |

A node is a record with three fields: its keyword, its arguments (words of a
small set) and its flags (name and value, in order).
`ParseInstruction` dispatches to four parsers:

- `ParseFrom`, with `StageNameOK` for `parseBuildStageName`;
- `ParseArg`;
- `ParseAdd`, whose `--apt` branch comes after the flag parse and before the
  destination check;
- `ParseRun`, whose pre-hook registers `--network` with its default, and whose
  post-hook `RunNetworkPostHook` checks the value against `allowedNetwork`.

`BFlags.Parse` is in `instructions/bflag.go`, which is not under `src/`. It is
modelled from the spec's flag grammar as `FlagError` and `FlagValue`, marked
`spec_modelled`. `strings.ToLower` and the stage-name regex are constants over
the word set. Only FROM, ARG, ADD and RUN are parsed. The other keywords reach
the loop only as success or error, which ADD and RUN already cover.

**Properties.**

- `TypeOK`.
- `ParseMatchesReference`: `Parse` returns an error exactly when an
  instruction fails or a non-ARG command precedes the first FROM, and then no
  partial result. Otherwise the meta-ARGs are exactly the ARGs before the first
  FROM, and each stage holds exactly the commands up to the next FROM. The
  reference (`RefError`, `RefMeta`, `RefStages`) is closed form, computed from
  the positions of the FROMs.
- `AptYieldsPackage` (spec §4.A): an `ADD --apt` with well-formed flags yields
  a Package of all its arguments, whatever its argument count and other flags.
  It can only fail `Parse` by coming before any FROM.
- `RunNetworkMode`: a RUN with well-formed flags whose `--network` is absent
  or allowed fails `Parse` only when no FROM comes before it. Every RUN
  returned has an allowed network mode, the one its `--network` flag gave or
  `default`. The first half catches a pre-hook default that is not an allowed
  mode: a flagless RUN would then fail to parse. The second half catches a
  post-hook that does not check the mode.

`MCInstructionParse` parses every Dockerfile of at most three instructions
drawn from twelve: three FROMs (one argument, a valid and an invalid `AS`
name), an ARG, five ADDs and three RUNs. The ADDs are `--apt` with one
argument, `--apt --link`, `--apt` with an unknown flag, `--apt=false`, and a
plain ADD without a destination. The RUNs have no network flag, `host`, and an
invalid mode. Three instructions are enough for an ARG after a FROM, a command
before every FROM, two stages, and an error after a successful prefix.

## 3. Runs

| Run | Config | Checks | Result |
|---|---|---|---|
| `pkg_dispatch` | `MCPackageInvocation.cfg` | `TypeOK`, `HistoryMatchesLayers`, `StepNumbering`, `ImageRefined`, `AptRoundTrip` | passes, 232 distinct states |
| `pkg_zero_uris` | `MCPackageInvocationZero.cfg` | `ZeroURIsRejected` | violated |
| `apt_cache_shared` | `MCAptCacheMount.cfg` | `BackupFromOwnUpdate` | passes, 48,255 distinct states |
| `apt_backup_torn` | `MCAptCacheMountBackup.cfg` | `BackupConsistent` | violated |
| `parse_dockerfiles` | `MCInstructionParse.cfg` | `TypeOK`, `ParseMatchesReference`, `AptYieldsPackage`, `RunNetworkMode` | passes, 4,635 distinct states |

In `pkg_zero_uris`, an empty or all-blank listing goes through `ParseURIs`
without error. `DownloadFiles` then builds `base.File(nil)` and the install
runs. The spec says "apt produced no URIs" is a `PackageResolutionError`. This
is recorded as a spec/code divergence in PROJECT.json.

In `apt_backup_torn`, build b1 runs its update and releases the lock. It copies
`Release`. Meanwhile the archive publishes, and b2's update moves a new
`Packages` into the shared `lists/`. b1's `cp -r` then copies that. b1 resolves
its packages from a `Release` of one generation and a `Packages` of the next.
Spec §5 says the compiler must not rely on the shared volume's contents, and
copies to a backup for that reason. The copy itself is taken without the lock.
PROJECT.json records this as a code bug.

`MCAptCacheMount` has three builds, two index files (`Release`, `Packages`)
and three archive generations. That is enough for an update to publish while
another build copies, and for a third build to fail on the lock.

**Fairness.** No run checks liveness, and no `Spec` assumes fairness. The
update script is straight-line shell with no waits: `apt-get update` fails at
once on a held lock instead of waiting. The lock is released when apt exits,
by the kernel, whatever the compiler does. A liveness property about the lock
would therefore say nothing about this code.

Every property of a passing run has a mutant of the code that TLC catches:

| Mutant | Property that catches it |
|---|---|
| a stale `PackageStepCount` of 2 | `StepNumbering` |
| `NewPackageInvocation` reusing the current step number for the update | `ImageRefined` |
| the checksum option dropped in `DownloadFiles` | `AptRoundTrip` |
| `EmptyLayer` not negated in `commitToHistory` | `HistoryMatchesLayers` |
| the whole `(\s+SHA256:...)` group taken for the digest | `TypeOK` |
| the update script joined with `;` instead of `&&`, so a failed update goes on to `cp -r` | `BackupFromOwnUpdate` |
| the `isArg` assertion dropped, any command before a FROM becomes a meta-ARG | `TypeOK` (of `InstructionParse`) |
| every ARG taken as a meta-ARG, also after a FROM | `ParseMatchesReference` |
| `parseAdd` checking the destination before the `--apt` branch | `AptYieldsPackage` |
| `runNetworkPreHook` registering `--network` with an empty default | `RunNetworkMode` |

Deadlock is checked. `Terminated` is the stuttering step of a finished or
failed compile, so a deadlock would be a state where the dispatcher is stuck in
the middle of a stage. `PackageInvocation` claims no liveness: `Dispatch` is sequential, and
the only wait is on the external engine, which the model lets fail.

## 4. Proofs

`PackageInvocationProofs` proves `THEOREM TypeCorrect == Spec => []TypeOK` for
every value of the constants. The constants are constrained only by the named
assumptions in `PackageInvocation`: the listings are sequences of `Line`, at
most `MaxLines` long, and `""` is not a digest.

`TypeOK` alone is not inductive. `PackageInstall` reads `graph[inv.orig]`,
`graph[inv.tmp]` and `inv.steps[3]`, so while `Dispatch` is blocked in
`ReadFile` these must be nodes of the graph and three numbers. That fact is
`InvocationOK`, and the inductive invariant is `IInv == TypeOK /\ InvocationOK`.

The proof of `IInv /\ [Next]_vars => IInv'` has one step per action. It rests
on these lemmas:

- `StepTotalType`: the step total is a natural number.
- `DownloadCopiesType`: the copies built from any accepted listing are a
  line-keyed map of copies.
- `ExecNodeType`: an exec node over a node is a node.
- `PairSeq`, `ConcatPair` and `TripleSeq`: facts about sequences.

Some things stay with TLC only:

- liveness;
- `ENABLED`;
- what a recursive definition computes for every input;
- `AptRoundTrip` of `PackageInvocation`. It equates `InLineOrder` of the
  line-keyed copies with a `SelectSeq` of the listing. That is a statement
  about a recursive definition for every listing, so it needs induction over
  the data;
- `BackupConsistent` of `AptCacheMount`, which is a violation run, so there is
  nothing to prove.

`THEOREM LayersMatch == Spec => []HistoryMatchesLayers` is proved from the
inductive invariant `LInv == IInv /\ RootOK /\ HistoryMatchesLayers`.

`RootOK` says that while `Dispatch` is blocked in `ReadFile`, the root the
invocation saved is still `d.state`. This is what lets the install exec, which
runs over the saved root, add exactly one layer to the current root.

The step lemmas count the positions of layer-claiming entries as a finite set:

- `LayerEntriesAppend`: appending an entry adds one position exactly when the
  entry is not an empty layer (`FS_AddElement`).
- `LayerEntriesEmptyPair`: the two empty entries of update and download add
  none.

For each action the proof then compares that count with the `layers` of the
new root: `DispatchRun` and `PackageInstall` add one, and every other action
leaves both unchanged.

`THEOREM StepsNumbered == Spec => []StepNumbering` is proved from the
inductive invariant `IInv /\ StepInv`. `StepNumbering` alone is not
inductive. The step number an entry gets is read from `cmdIndex`, and the bound
comes from `cmdTotal`. So `StepInv` says how far `cmdIndex` has advanced:

- `cmdIndex = ip + 2 * #AptBefore(ip)`, plus 3 while an ADD --apt is in
  flight (`pc` is `solving` or `failed`). Each command takes one step, and an
  ADD --apt takes three.
- The stage's history holds `cmdIndex - 1` entries past the base layers, or
  `cmdIndex - 2` in flight, because the install entry is still to come.
- In flight, `ip` is an ADD --apt and `inv.steps[3] = cmdIndex`. This is what
  `PackageInstall` needs to number its entry.
- `Numbered(history)`: the base layers have step 0, and the stage's entries
  have 2, 3, ... in order.

The lemmas behind it:

- `AptBeforeFinite`;
- `AptBeforeNext`: the count grows by one exactly past an APT;
- `StepsWithinTotal`: `j + 2 * #AptBefore(j) <= StepTotal(cmds)`;
- `NumberedAppend` and `NumberedPair`: appending the next entries keeps the
  numbering;
- `StepInvBound`: the step numbers in the history stay within `cmdTotal`, and
  a finished stage has `cmdIndex = cmdTotal`.

An earlier version of `PackageInvocationProofs` had a line of `=` signs in the
middle, where a separator was meant. That line ended the module, so the
provers never saw `LayersMatch` or anything after it. It is now a `-`
separator, and all of those proofs are checked.

`InstructionParseProofs` proves three theorems for every Dockerfile of the
node grammar:

- `ParseTypeCorrect == Spec => []TypeOK`;
- `RunNetworkCorrect == Spec => []RunNetworkMode`;
- `AptPackageCorrect == Spec => []AptYieldsPackage`.

They rest on the loop invariant `LoopInv`:

- Every command in a stage is `ParseInstruction` of its own line (`CmdsParsed`).
- The meta args are all ARGs.
- While no stage exists, no FROM has been seen.
- An error stops at a line that failed to parse or came before every FROM.

The lemma `StageCmd` turns the first of these into what the properties need:
a stage command is the parsed form of its line, so its kind, network mode and
package names are the ones the parsers give.
The error halves of `RunNetworkMode` and `AptYieldsPackage` also use
`LoopInv`'s last conjunct. By the lemmas `ParsedRunNode` and `ParsedApt`, a
well-formed RUN or ADD --apt parses. An error at such a line must therefore
come from a missing FROM.

`ParseCommand` appends to the last stage's command list. It is written as a
whole-record update of that stage, `[line |-> @.line, cmds |-> Append(@.cmds,
...)]`, rather than a nested record EXCEPT, which the provers do not handle.
The two forms mean the same thing, and the run's state count is unchanged.

`InstructionParseReference` proves `THEOREM ParseReferenceCorrect == Spec =>
[]ParseMatchesReference` for every Dockerfile of the node grammar: `Parse`
returns exactly the closed-form reference. `ParseMatchesReference` speaks of
the finished loop through `CHOOSE` and cardinalities, so the inductive
invariant `RefInv` describes the prefix of children `1..i-1` without them:

- `LoopInv`;
- `PrefixOK`: every child before `i` parsed, and a child with no FROM up to it
  is an ARG;
- `StageLines`: the stages open at FROM lines before `i`, in strictly
  increasing order, and every such FROM opens one;
- `StageCmdsExact`: stage `s` holds the parses of the children strictly
  between its FROM and its end (the next stage's FROM, or `i`);
- `MetaExact`: the meta-ARGs are the parses of the children before the first
  stage (or before `i`);
- `ErrorExact`: an error leaves nothing, at a child that failed, or at a
  command other than ARG with no FROM up to it;
- a finished loop has `i = Len(ast) + 1`.

`RefInv` was checked by TLC on the `parse_dockerfiles` instance before it was
proved. `InitRefInv` and `NextRefInv` prove it inductive, with one step per
action and one sub-step per conjunct. `RefInvMatches` then turns it into the
reference, with these steps:

- `DoneFroms`: at the end, `FromLines` is the set of the stages' lines. Its
  cardinality is the number of stages, and `NthFrom(t)` is the `t`-th stage's
  line. The cardinalities come from `IncreasingCard`: a strictly increasing map
  of `1..n` is a bijection onto its image (`FS_Bijection`).
- `DoneFirstFrom`: `FirstFrom` is the first stage's line, or `Len(ast) + 1`.
  The `CHOOSE` of `FirstFrom` picks the least FROM. It exists by `FirstFromMin`,
  which uses `WFMin` over the well-founded `<` on `Nat`.
- `ErrorMatches`: the child `Parse` stopped at is a witness of `RefError`.

`PackageInvocationRefinement` proves `THEOREM ImplementsImage == Spec =>
ImageRefined`, the refinement of `StageImage`. The invariant is `RInv ==
LInv /\ StepInv`, the invariants of `LayersMatch` and `StepsNumbered`. Its
lemmas:

- `InitRefines`: the base history and the base layers are `StageImage`'s
  initial state, with `total = cmdTotal \in Nat`.
- `StepRefines`: every step maps to the abstract step listed under
  `StageImage` above, or to a stutter.
- `StepRoom`: the guards `NextStep <= total` (one step) and
  `NextStep + 1 <= total` (the update/download pair) follow from `StepInv`.
  At each dispatch there is room for the command at `ip`. An APT needs
  three steps. `StageDone` comes exactly at `cmdIndex = cmdTotal`, which is
  `Finish`'s guard.

`AptCacheMountProofs` proves `THEOREM BackupFresh == Spec =>
[]BackupFromOwnUpdate` for any number of builds, index files and generations.
It assumes only that `NoBuild` is not a build and that `MaxGen` is positive.
The property speaks of resolved builds only, and is not inductive. The
inductive invariant `IInv` adds four conjuncts to `TypeOK`:

- `LockHeldByUpdater`: the lock holder is in the fetch phase, and a build in
  the fetch phase holds the lock.
- `ListsWrittenByHolder`: every file the holder has moved is the generation it
  fetched. So when `UpdateDone` fires, all of `lists/` is that generation.
- `GenerationsOrdered`: no build fetched beyond what the archive serves, and a
  build that fetched has a non-zero generation. The holder's generation is at
  least that of every build whose update is over: it took the lock later, from
  an archive that only grows.
- `CopiesFresh`: for a build whose update is over, every file of the shared
  `lists/` and every file it has copied is at least its own generation, and a
  resolved build has copied everything.

`MoveIndex` keeps `CopiesFresh` because of `GenerationsOrdered`. `CopyIndex`
keeps it because the file it reads is in the shared `lists/`.
`UpdateLockBusy` sends the build to `failed`, which no conjunct constrains.
That step is where the `&&` of the script enters the proof.

## 5. Not modelled, and why

- **Linter tests, the version constant, CI and Makefiles.** They have no state
  a model can explore.
- **RUN `--device` and `--security`.** These are pure functions with no state.
  `dispatchRun`, their only caller, is in `convert.go`, outside `src/`. With
  the default build tags, `dispatchRunSecurity` returns `nil, nil`.
- **The rest of the parser.** ENV, COPY, HEALTHCHECK and the other keywords,
  heredocs, `parseShellDependentCommand` and the linter calls are per-node
  argument checks. They meet the `Parse` loop only through success or error,
  which the modelled keywords already cover.
- **The LLB wire format, content addressing and the engine itself.** They are
  outside this repository. The engine is modelled only by the outcomes of
  `ReadFile`: an error, or a listing from `AptOutputs`.
- **Two downloads with one file name** (convert_package.go:216). The File
  node is kept as copies by line, not as the resulting directory. apt names
  each archive `name_version_arch.deb`, so a listing without duplicates is
  what apt produces.
- **`ReadFile` overwriting `dopt.rawBuildContext`** (line 149). The build
  context belongs to the stage resolver in `convert.go`, which is not in
  `src/`.
- **apt's own failure and retry logic** (a partially fetched index, hash
  mismatches). Only the lock and the moves into `lists/` are modelled.

## 6. Plan

1. State and prove action properties of the dispatcher. `ImageRefined`
   already implies that the history only grows by appends.
2. Model the two hazards without a property: duplicate file names in
   `DownloadFiles` (line 216) and the `rawBuildContext` overwrite (line 149).
   The second needs `convert.go`.
3. Prove `AptRoundTrip`, once a proof of `SelectSeq` against a line-keyed
   function can be written without an induction over the listing.
