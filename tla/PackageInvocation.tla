------------------------- MODULE PackageInvocation -------------------------
(***************************************************************************)
(* One build stage being dispatched by dockerfile2llb, with the `ADD --apt` *)
(* extension of convert_package.go.                                        *)
(*                                                                         *)
(* The stage is a sequence of commands.  RUN and ENV stand for the other   *)
(* dispatchers (they touch the same state as the package steps: the stage  *)
(* root d.state, the image history and the step counter).  An ADD --apt    *)
(* is a PackageInvocation: NewPackageInvocation precomputes three step     *)
(* names, Dispatch emits the `apt update` and `apt download` execs over    *)
(* the stage root, then blocks in ReadFile on a Solve of that graph by the *)
(* build engine.  The answer is the file /btidor.syntax/install, which     *)
(* ParseURIs turns into downloads, DownloadFiles into one File node of     *)
(* HTTP copies, and the `apt install` exec is emitted over the ORIGINAL    *)
(* root with that node mounted.                                            *)
(*                                                                         *)
(* Data is abstract.  A graph node is a record naming its operation, its   *)
(* root input, its mount and the number of filesystem layers its result    *)
(* has.  An apt output line is a record saying which parts of aptRegex it  *)
(* matches.  A parsed listing is kept as a function from the number of the *)
(* line it came from to the download, so its order is the line order.      *)
(***************************************************************************)
EXTENDS Naturals, Sequences, FiniteSets

CONSTANTS
  StageCmds,    \* the possible command sequences of the stage
  AptOutputs,   \* the possible contents of /btidor.syntax/install
  MaxLines,     \* a bound on the number of lines of those contents
  URIs, Files,  \* the URIs and file names apt may print
  Digests,      \* the SHA256 values apt may print
  BaseLayers    \* number of layers (and history entries) of the base image

VARIABLES
  pc,        \* "dispatch", "solving" (blocked in ReadFile), "done", "failed"
  cmds,      \* the stage's commands
  ip,        \* index of the command being dispatched
  graph,     \* the LLB nodes built so far, node n is graph[n]
  root,      \* d.state: the node holding the stage's filesystem
  history,   \* d.image.History
  cmdIndex,  \* d.cmdIndex, advanced by prefixCommand
  cmdTotal,  \* d.cmdTotal
  inv,       \* the PackageInvocation in flight
  readBack   \* the data ReadFile returned to Dispatch

vars == <<pc, cmds, ip, graph, root, history, cmdIndex, cmdTotal, inv, readBack>>

-----------------------------------------------------------------------------
(* Data.                                                                   *)

(* A line of `apt-get install --print-uris` output as aptRegex sees it:    *)
(* blank after TrimSpace, not matching the regex, or a match whose size    *)
(* group fits an int or not, and whose optional hash group is SHA256.      *)
LineKinds == {"blank", "garbled", "entry"}
Hashes == {"sha256", "other", "none"}

Line == [kind: LineKinds, uri: URIs, file: Files,
         size: {"fits", "overflow"}, hash: Hashes, digest: Digests]

Commands == {"RUN", "ENV", "APT"}

ASSUME BaseLayersAssumption == BaseLayers \in Nat
ASSUME StageCmdsAssumption == StageCmds \subseteq Seq(Commands)
ASSUME MaxLinesAssumption == MaxLines \in Nat
ASSUME AptOutputsAssumption ==
  AptOutputs \subseteq {d \in Seq(Line) : Len(d) <= MaxLines}
ASSUME DigestsAssumption == "" \notin Digests

(* PackageDownload; sha256 = "" when the line carries no SHA256 field.     *)
Download(uri, filename, sha) == [uri |-> uri, filename |-> filename, sha256 |-> sha]

(* What prefixCommand stores in a history entry that matters here.         *)
Labels == {"base", "RUN", "ENV", "update", "download", "install", "packages"}

NoNode == 0

-----------------------------------------------------------------------------
(* convert_package.go.                                                     *)

(* Mutant: the step count left behind when a phase is added or removed.  *)
PackageStepCountStale == 2

PackageStepCount == 3

(* The lines ParseURIs does not skip: non-empty after TrimSpace.           *)
NonBlank(data) == {k \in 1..Len(data) : data[k].kind # "blank"}

(* A line aptRegex matches and whose size group strconv.Atoi accepts.      *)
Parsable(line) == line.kind = "entry" /\ line.size = "fits"

(* Mutant: the whole optional group, match[4], taken for the digest.      *)
Sha256GroupWhole(line) == IF line.hash = "sha256" THEN " SHA256:" \o line.digest ELSE ""

(* match[5]: the hex digits of the optional SHA256 group, "" when the     *)
(* group did not take part in the match.                                   *)
Sha256Group(line) == IF line.hash = "sha256" THEN line.digest ELSE ""

(* ParseURIs: the loop returns an error at the first non-blank line that   *)
(* does not parse; otherwise it has appended one download per non-blank    *)
(* line, in line order.                                                    *)
ParseURIs(data) ==
  IF \A k \in NonBlank(data) : Parsable(data[k])
  THEN [ok |-> TRUE,
        uris |-> [k \in NonBlank(data) |->
                    Download(data[k].uri, data[k].file, Sha256Group(data[k]))]]
  ELSE [ok |-> FALSE, uris |-> << >>]

(* Mutant: the checksum option never attached to the HTTP source.         *)
DownloadCopiesNoChecksum(files) ==
  [k \in DOMAIN files |-> [uri |-> files[k].uri, filename |-> files[k].filename,
                           checksum |-> ""]]

(* DownloadFiles: one HTTP source per download, with its checksum when     *)
(* known, each copied by filename into the archives directory.             *)
DownloadCopies(files) ==
  [k \in DOMAIN files |-> [uri      |-> files[k].uri,
                           filename |-> files[k].filename,
                           checksum |-> files[k].sha256]]

(* Mutant: the first precomputed step reusing the current step number.   *)
NewPackageInvocationReuse(idx) == [k \in 1..3 |-> idx + k - 1]

(* NewPackageInvocation: prefixCommand, called once for each of update,   *)
(* download and install, takes the next three step numbers.               *)
NewPackageInvocation(idx) == [k \in 1..3 |-> idx + k]

(* llb.State.Run(...).Root(): an exec node whose root is node `input`,    *)
(* the record `over`; its result has one layer more.                       *)
ExecNode(label, step, input, over, mount, cache) ==
  [op |-> "exec", label |-> label, step |-> step, input |-> input,
   mount |-> mount, cache |-> cache, copies |-> << >>,
   layers |-> over.layers + 1]

(* Mutant: EmptyLayer set from withLayer instead of its negation.         *)
HistoryEntryInverted(label, step, withLayer) ==
  [label |-> label, step |-> step, empty |-> withLayer]

(* commitToHistory: EmptyLayer is the negation of withLayer.               *)
HistoryEntry(label, step, withLayer) ==
  [label |-> label, step |-> step, empty |-> ~withLayer]

-----------------------------------------------------------------------------
(* The dispatcher around the package steps (convert.go, from the spec).    *)

(* cmdTotal counts the FROM and each command, PackageStepCount for each    *)
(* ADD --apt.                                                              *)
StepTotal(c) ==
  1 + Len(c) + (PackageStepCount - 1) * Cardinality({k \in 1..Len(c) : c[k] = "APT"})

BaseNode == [op |-> "source", label |-> "base", step |-> 0, input |-> NoNode,
             mount |-> NoNode, cache |-> FALSE, copies |-> << >>,
             layers |-> BaseLayers]

Init ==
  /\ cmds \in StageCmds
  /\ pc = "dispatch"
  /\ ip = 1
  /\ graph = << BaseNode >>
  /\ root = 1
  /\ history = [k \in 1..BaseLayers |-> [label |-> "base", step |-> 0, empty |-> FALSE]]
  /\ cmdIndex = 1
  /\ cmdTotal = StepTotal(cmds)
  /\ inv = [orig |-> NoNode, tmp |-> NoNode, steps |-> << >>]
  /\ readBack = << >>

Current == cmds[ip]

(* dispatchEnv: a config change, an empty-layer history entry.             *)
DispatchEnv ==
  /\ pc = "dispatch" /\ ip <= Len(cmds) /\ Current = "ENV"
  /\ cmdIndex' = cmdIndex + 1
  /\ history' = Append(history, HistoryEntry("ENV", cmdIndex + 1, FALSE))
  /\ ip' = ip + 1
  /\ UNCHANGED <<pc, cmds, graph, root, cmdTotal, inv, readBack>>

(* dispatchRun: an exec over the root that becomes the root.               *)
DispatchRun ==
  /\ pc = "dispatch" /\ ip <= Len(cmds) /\ Current = "RUN"
  /\ cmdIndex' = cmdIndex + 1
  /\ graph' = Append(graph, ExecNode("RUN", cmdIndex + 1, root, graph[root], NoNode, FALSE))
  /\ root' = Len(graph) + 1
  /\ history' = Append(history, HistoryEntry("RUN", cmdIndex + 1, TRUE))
  /\ ip' = ip + 1
  /\ UNCHANGED <<pc, cmds, cmdTotal, inv, readBack>>

(* NewPackageInvocation then Dispatch up to the Solve in ReadFile: three   *)
(* step names taken from prefixCommand, the update exec with the shared    *)
(* cache mount over d.state, the download exec over it, both committed to  *)
(* history without a layer, and the graph so far sent to the engine.       *)
PackageStart ==
  /\ pc = "dispatch" /\ ip <= Len(cmds) /\ Current = "APT"
  /\ LET steps == NewPackageInvocation(cmdIndex)
         upd   == ExecNode("update", steps[1], root, graph[root], NoNode, TRUE)
         dl    == ExecNode("download", steps[2], Len(graph) + 1, upd, NoNode, FALSE)
     IN  /\ cmdIndex' = steps[3]
         /\ graph' = graph \o << upd, dl >>
         /\ history' = history \o << HistoryEntry("update", steps[1], FALSE),
                                     HistoryEntry("download", steps[2], FALSE) >>
         /\ inv' = [orig |-> root, tmp |-> Len(graph) + 2, steps |-> steps]
  /\ pc' = "solving"
  /\ UNCHANGED <<cmds, ip, root, cmdTotal, readBack>>

(* ReadFile fails: MainContext, Marshal, Solve, SingleRef or the read of   *)
(* /btidor.syntax/install returns an error, which Dispatch returns.        *)
PackageSolveFailed ==
  /\ pc = "solving"
  /\ pc' = "failed"
  /\ UNCHANGED <<cmds, ip, graph, root, history, cmdIndex, cmdTotal, inv, readBack>>

(* ReadFile returns `data`; ParseURIs rejects it.                          *)
PackageParseFailed ==
  /\ pc = "solving"
  /\ \E data \in AptOutputs :
       /\ ~ParseURIs(data).ok
       /\ readBack' = data
  /\ pc' = "failed"
  /\ UNCHANGED <<cmds, ip, graph, root, history, cmdIndex, cmdTotal, inv>>

(* The File node DownloadFiles puts over the temporary image `tmp`.       *)
PackagesNode(tmp, files) ==
  [op |-> "file", label |-> "packages", step |-> 0, input |-> tmp,
   mount |-> NoNode, cache |-> FALSE, copies |-> DownloadCopies(files),
   layers |-> graph[tmp].layers + 1]

(* ReadFile returns `data`, ParseURIs accepts it: DownloadFiles builds the *)
(* File node over the temporary image, and the install exec runs over the  *)
(* original root with that node mounted at /btidor.syntax; its result is   *)
(* the new d.state and the only history entry with a layer.               *)
PackageInstall ==
  /\ pc = "solving"
  /\ \E data \in AptOutputs :
       /\ ParseURIs(data).ok
       /\ readBack' = data
       /\ graph' = graph \o
            << PackagesNode(inv.tmp, ParseURIs(data).uris),
               ExecNode("install", inv.steps[3], inv.orig, graph[inv.orig],
                        Len(graph) + 1, FALSE) >>
  /\ root' = Len(graph) + 2
  /\ history' = Append(history, HistoryEntry("install", inv.steps[3], TRUE))
  /\ pc' = "dispatch"
  /\ ip' = ip + 1
  /\ UNCHANGED <<cmds, cmdIndex, cmdTotal, inv>>

(* The last command dispatched: the stage is complete.                     *)
StageDone ==
  /\ pc = "dispatch" /\ ip > Len(cmds)
  /\ pc' = "done"
  /\ UNCHANGED <<cmds, ip, graph, root, history, cmdIndex, cmdTotal, inv, readBack>>

(* A finished compilation stays finished.                                  *)
Terminated ==
  /\ pc \in {"done", "failed"}
  /\ UNCHANGED vars

Next ==
  \/ DispatchEnv \/ DispatchRun
  \/ PackageStart \/ PackageSolveFailed \/ PackageParseFailed \/ PackageInstall
  \/ StageDone \/ Terminated

Spec == Init /\ [][Next]_vars

-----------------------------------------------------------------------------
(* Properties.                                                             *)

Copy == [uri: URIs, filename: Files, checksum: Digests \cup {""}]

(* The copies of a File node, keyed by the apt output lines they came from.*)
CopyMaps == UNION {[S -> Copy] : S \in SUBSET (1..MaxLines)}

Node == [op: {"source", "exec", "file"}, label: Labels, step: Nat,
         input: Nat, mount: Nat, cache: BOOLEAN, copies: CopyMaps,
         layers: Nat]

(* Every variable holds a value of its kind.                               *)
TypeOK ==
  /\ pc \in {"dispatch", "solving", "done", "failed"}
  /\ cmds \in Seq(Commands)
  /\ ip \in Nat
  /\ graph \in Seq(Node)
  /\ root \in 1..Len(graph)
  /\ history \in Seq([label: Labels, step: Nat, empty: BOOLEAN])
  /\ cmdIndex \in Nat
  /\ cmdTotal \in Nat
  /\ inv \in [orig: Nat, tmp: Nat, steps: Seq(Nat)]
  /\ readBack \in Seq(Line)

(* The number of history entries that claim a layer.                       *)
LayerEntries(h) == Cardinality({k \in 1..Len(h) : ~h[k].empty})

(* The image history claims exactly as many layers as the stage root has:  *)
(* the update and download execs of ADD --apt are committed without a     *)
(* layer and never reach the root chain, the install exec runs over the    *)
(* original root and is committed with one.  An image whose non-empty     *)
(* history entries disagree with its layers is rejected by image loaders.  *)
HistoryMatchesLayers ==
  LayerEntries(history) = graph[root].layers

(* The step names precomputed by NewPackageInvocation before the Solve are *)
(* used in order after it: the stage's history entries carry the step      *)
(* numbers 2, 3, ... in order (the FROM is step 1), none beyond the total  *)
(* announced as [i/total], and a finished stage used exactly that total.   *)
StepNumbering ==
  /\ \A k \in 1..(Len(history) - BaseLayers) : history[BaseLayers + k].step = k + 1
  /\ \A k \in 1..Len(history) : history[k].step <= cmdTotal
  /\ pc = "done" => cmdIndex = cmdTotal

(* The stage dispatch implements the abstract image of StageImage: the    *)
(* history only grows, by entries numbered with the next step up to        *)
(* cmdTotal, d.state gains one layer per entry committed with a layer, and *)
(* StageDone comes exactly when cmdIndex has reached cmdTotal; the update, *)
(* download and install entries of ADD --apt are two such commits.        *)
Image == INSTANCE StageImage WITH layers <- graph[root].layers, total <- cmdTotal,
                                  done <- (pc = "done")

ImageRefined == Image!Spec

(* The entries of a line-keyed map in line order.                          *)
InLineOrder(f) ==
  [j \in 1..Cardinality(DOMAIN f) |->
     f[CHOOSE k \in DOMAIN f : Cardinality({i \in DOMAIN f : i <= k}) = j]]

(* What the spec promises of the URI listing: the File node built by       *)
(* DownloadFiles holds one HTTP copy per non-blank line, in line order,    *)
(* with the SHA256 digest of the line as checksum when it has one, and it  *)
(* is built only when every non-blank line parses.                         *)
ExpectedCopies(data) ==
  LET E == SelectSeq(data, LAMBDA l : l.kind # "blank")
  IN  IF \A k \in 1..Len(E) : E[k].kind = "entry" /\ E[k].size = "fits"
      THEN [k \in 1..Len(E) |->
              [uri |-> E[k].uri, filename |-> E[k].file,
               checksum |-> IF E[k].hash = "sha256" THEN E[k].digest ELSE ""]]
      ELSE "unparsable"

(* Every File node a step adds copies exactly what the spec expects of     *)
(* the apt output ReadFile returned in that step.                          *)
AptRoundTrip ==
  [][\A n \in (Len(graph) + 1)..Len(graph') :
        graph'[n].op = "file" =>
          InLineOrder(graph'[n].copies) = ExpectedCopies(readBack')]_vars

(* Spec section 7: apt producing no URIs is a PackageResolutionError, so   *)
(* no File node of HTTP copies is ever built from an empty listing.        *)
ZeroURIsRejected ==
  \A n \in 1..Len(graph) : graph[n].op = "file" => DOMAIN graph[n].copies # {}

=============================================================================
