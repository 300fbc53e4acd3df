--------------------- MODULE PackageInvocationRefinement ---------------------
(***************************************************************************)
(* The stage dispatch of PackageInvocation implements the abstract image   *)
(* of StageImage under the mapping of PackageInvocation!Image: the image's *)
(* layers are those of d.state, its total is d.cmdTotal, and it is done    *)
(* when the dispatch is.                                                   *)
(***************************************************************************)
EXTENDS PackageInvocationProofs

(* The invariant the refinement rests on: the type and invocation facts,   *)
(* the saved root, the layer count, and the step bookkeeping.              *)
RInv == LInv /\ StepInv

LEMMA RInvInductive == Spec => []RInv
<1>1. Init => RInv
  BY InitIInv, InitLayers, InitStepInv DEF RInv, LInv
<1>2. RInv /\ [Next]_vars => RInv'
  BY NextIInv, NextLayers, NextStepInv DEF RInv, LInv
<1> QED BY <1>1, <1>2, PTL DEF Spec

(* Room left for the next step numbers: while dispatching a command the    *)
(* steps it takes (one, or three for ADD --apt) stay within cmdTotal; in   *)
(* an ADD --apt the install step is within it; past the last command       *)
(* cmdIndex has reached it.                                                *)
LEMMA StepRoom ==
  ASSUME StepInv
  PROVE  /\ pc = "dispatch" /\ ip <= Len(cmds) /\ cmds[ip] # "APT" => cmdIndex + 1 <= cmdTotal
         /\ pc = "dispatch" /\ ip <= Len(cmds) /\ cmds[ip] = "APT" => cmdIndex + 3 <= cmdTotal
         /\ pc = "dispatch" /\ ip > Len(cmds) => cmdIndex = cmdTotal
         /\ pc = "solving" => cmdIndex <= cmdTotal
<1>0. /\ cmds \in Seq(Commands) /\ ip \in 1..(Len(cmds) + 1)
      /\ cmdTotal = StepTotal(cmds) /\ StepTotal(cmds) \in Nat
      /\ Cardinality(AptBefore(ip)) \in Nat
  BY StepTotalType, AptBeforeFinite DEF StepInv
<1>1. Cardinality(AptBefore(ip + 1)) \in Nat /\ Cardinality(AptBefore(Len(cmds) + 1)) \in Nat
  <2>1. ip + 1 \in Int /\ Len(cmds) + 1 \in Int
    BY <1>0
  <2> QED BY SMTT(30), <2>1, AptBeforeFinite
<1>2. pc = "dispatch" => cmdIndex = ip + 2 * Cardinality(AptBefore(ip))
  <2> HAVE pc = "dispatch"
  <2>1. (IF InPackage THEN 3 ELSE 0) = 0
    BY Zenon DEF InPackage
  <2>2. cmdIndex = ip + 2 * Cardinality(AptBefore(ip)) + (IF InPackage THEN 3 ELSE 0)
    BY DEF StepInv
  <2> QED BY <1>0, <2>1, <2>2
<1>3. ASSUME pc = "dispatch", ip <= Len(cmds), cmds[ip] # "APT"
      PROVE  cmdIndex + 1 <= cmdTotal
  <2>1. Cardinality(AptBefore(ip + 1)) = Cardinality(AptBefore(ip))
    BY <1>0, <1>3, AptBeforeNext
  <2>2. (ip + 1) + 2 * Cardinality(AptBefore(ip + 1)) <= StepTotal(cmds)
    BY <1>0, <1>3, StepsWithinTotal
  <2> QED BY <1>0, <1>1, <1>2, <1>3, <2>1, <2>2
<1>4. ASSUME pc = "dispatch", ip <= Len(cmds), cmds[ip] = "APT"
      PROVE  cmdIndex + 3 <= cmdTotal
  <2>1. Cardinality(AptBefore(ip + 1)) = Cardinality(AptBefore(ip)) + 1
    BY <1>0, <1>4, AptBeforeNext
  <2>2. (ip + 1) + 2 * Cardinality(AptBefore(ip + 1)) <= StepTotal(cmds)
    BY <1>0, <1>4, StepsWithinTotal
  <2> QED BY <1>0, <1>1, <1>2, <1>4, <2>1, <2>2, SMTT(60)
<1>5. ASSUME pc = "dispatch", ip > Len(cmds)
      PROVE  cmdIndex = cmdTotal
  <2>1. ip = Len(cmds) + 1
    BY <1>0, <1>5
  <2>2. StepTotal(cmds) = (Len(cmds) + 1) + 2 * Cardinality(AptBefore(Len(cmds) + 1))
    BY <1>0 DEF StepTotal, PackageStepCount, AptBefore
  <2> QED BY <1>0, <1>1, <1>2, <1>5, <2>1, <2>2
<1>6. ASSUME pc = "solving"
      PROVE  cmdIndex <= cmdTotal
  <2>1. InPackage
    BY <1>6 DEF InPackage
  <2>2. /\ ip <= Len(cmds) /\ cmds[ip] = "APT"
        /\ cmdIndex = ip + 2 * Cardinality(AptBefore(ip)) + 3
    <3>1. (IF InPackage THEN 3 ELSE 0) = 3
      BY <2>1, Zenon
    <3> QED BY <2>1, <3>1 DEF StepInv
  <2>3. Cardinality(AptBefore(ip + 1)) = Cardinality(AptBefore(ip)) + 1
    BY SMTT(30), <1>0, <2>2, AptBeforeNext
  <2>4. (ip + 1) + 2 * Cardinality(AptBefore(ip + 1)) <= StepTotal(cmds)
    BY <1>0, <2>2, StepsWithinTotal
  <2> QED BY <1>0, <1>1, <2>2, <2>3, <2>4, SMTT(60)
<1> QED BY <1>3, <1>4, <1>5, <1>6


(* One step of the dispatch is a step of the abstract image, or leaves it  *)
(* unchanged.                                                              *)
LEMMA StepRefines == RInv /\ [Next]_vars => [Image!Next]_Image!vars
<1> SUFFICES ASSUME RInv, [Next]_vars PROVE [Image!Next]_Image!vars
  OBVIOUS
<1>0. /\ history \in Seq(HistoryRec) /\ graph \in Seq(Node) /\ root \in 1..Len(graph)
      /\ cmdIndex \in Nat /\ cmdTotal \in Nat /\ BaseLayers \in Nat
      /\ Len(history) \in Nat
  BY BaseLayersAssumption DEF RInv, LInv, IInv, TypeOK, HistoryRec, StepInv
<1>0a. /\ pc = "solving" => inv.orig = root /\ inv.steps \in [1..3 -> Nat]
       /\ pc = "solving" => inv.steps[3] = cmdIndex
  BY DEF RInv, LInv, IInv, InvocationOK, RootOK, StepInv, InPackage
<1>0b. /\ pc = "dispatch" => Len(history) = BaseLayers + cmdIndex - 1
       /\ pc = "solving" => Len(history) = BaseLayers + cmdIndex - 2
  <2>1. pc = "dispatch" => (IF InPackage THEN 2 ELSE 1) = 1
    BY Zenon DEF InPackage
  <2>2. pc = "solving" => (IF InPackage THEN 2 ELSE 1) = 2
    BY Zenon DEF InPackage
  <2>3. Len(history) = BaseLayers + cmdIndex - (IF InPackage THEN 2 ELSE 1)
    BY DEF RInv, StepInv
  <2> QED BY <2>1, <2>2, <2>3
<1>0c. /\ pc = "dispatch" /\ ip <= Len(cmds) /\ cmds[ip] # "APT" => cmdIndex + 1 <= cmdTotal
       /\ pc = "dispatch" /\ ip <= Len(cmds) /\ cmds[ip] = "APT" => cmdIndex + 3 <= cmdTotal
       /\ pc = "dispatch" /\ ip > Len(cmds) => cmdIndex = cmdTotal
       /\ pc = "solving" => cmdIndex <= cmdTotal
  BY StepRoom DEF RInv
<1>1. CASE DispatchEnv
  <2>1. /\ pc = "dispatch" /\ ip <= Len(cmds) /\ cmds[ip] = "ENV"
        /\ history' = Append(history, HistoryEntry("ENV", cmdIndex + 1, FALSE))
        /\ pc' = pc /\ graph' = graph /\ root' = root /\ cmdTotal' = cmdTotal
    BY <1>1 DEF DispatchEnv, Current
  <2>2. Image!NextStep = cmdIndex + 1 /\ Image!NextStep <= cmdTotal
    BY <1>0, <1>0b, <1>0c, <2>1 DEF Image!NextStep
  <2>3. HistoryEntry("ENV", cmdIndex + 1, FALSE) = Image!Entry("ENV", Image!NextStep, FALSE)
    BY <2>2 DEF HistoryEntry, Image!Entry
  <2>4. Image!Commit("ENV", FALSE)
    BY ZenonT(30), <2>1, <2>2, <2>3 DEF Image!Commit
  <2> QED BY ZenonT(30), <2>4 DEF Image!Next, Labels
<1>2. CASE DispatchRun
  <2> DEFINE run == ExecNode("RUN", cmdIndex + 1, root, graph[root], NoNode, FALSE)
  <2>1. /\ pc = "dispatch" /\ ip <= Len(cmds) /\ cmds[ip] = "RUN"
        /\ history' = Append(history, HistoryEntry("RUN", cmdIndex + 1, TRUE))
        /\ graph' = Append(graph, run) /\ root' = Len(graph) + 1
        /\ pc' = pc /\ cmdTotal' = cmdTotal
    BY <1>2 DEF DispatchRun, Current
  <2>2. Image!NextStep = cmdIndex + 1 /\ Image!NextStep <= cmdTotal
    BY <1>0, <1>0b, <1>0c, <2>1 DEF Image!NextStep
  <2>3. HistoryEntry("RUN", cmdIndex + 1, TRUE) = Image!Entry("RUN", Image!NextStep, TRUE)
    BY <2>2 DEF HistoryEntry, Image!Entry
  <2>4. graph'[root'].layers = graph[root].layers + 1
    <3>1. graph'[root'] = run
      BY ZenonT(30), <1>0, <2>1, AppendIndex
    <3> QED BY <3>1 DEF ExecNode
  <2>5. graph'[root'].layers = IF TRUE THEN graph[root].layers + 1 ELSE graph[root].layers
    BY <2>4
  <2>6. Image!Commit("RUN", TRUE)
    BY ZenonT(30), <2>1, <2>2, <2>3, <2>5 DEF Image!Commit
  <2> QED BY ZenonT(30), <2>6 DEF Image!Next, Labels
<1>3. CASE PackageStart
  <2> DEFINE steps == NewPackageInvocation(cmdIndex)
             upd   == ExecNode("update", steps[1], root, graph[root], NoNode, TRUE)
             dl    == ExecNode("download", steps[2], Len(graph) + 1, upd, NoNode, FALSE)
  <2>1. /\ pc = "dispatch" /\ ip <= Len(cmds) /\ cmds[ip] = "APT"
        /\ history' = history \o << HistoryEntry("update", steps[1], FALSE),
                                    HistoryEntry("download", steps[2], FALSE) >>
        /\ graph' = graph \o << upd, dl >> /\ root' = root
        /\ pc' = "solving" /\ cmdTotal' = cmdTotal
    BY <1>3 DEF PackageStart, Current
  <2>2. /\ Image!NextStep = cmdIndex + 1 /\ Image!NextStep + 1 <= cmdTotal
        /\ steps[1] = cmdIndex + 1 /\ steps[2] = cmdIndex + 2
    BY <1>0, <1>0b, <1>0c, <2>1 DEF Image!NextStep, NewPackageInvocation
  <2>3. /\ HistoryEntry("update", steps[1], FALSE)
             = Image!Entry("update", Image!NextStep, FALSE)
        /\ HistoryEntry("download", steps[2], FALSE)
             = Image!Entry("download", Image!NextStep + 1, FALSE)
    BY <1>0, <2>2 DEF HistoryEntry, Image!Entry
  <2>4. graph'[root'] = graph[root]
    BY <1>0, <2>1, ConcatPairIndex
  <2>5. Image!CommitEmptyPair("update", "download")
    BY ZenonT(30), <2>1, <2>2, <2>3, <2>4 DEF Image!CommitEmptyPair
  <2> QED BY <2>5 DEF Image!Next, Labels
<1>4. CASE PackageSolveFailed \/ PackageParseFailed
  <2>1. /\ pc = "solving" /\ pc' = "failed"
        /\ history' = history /\ graph' = graph /\ root' = root /\ cmdTotal' = cmdTotal
    BY <1>4 DEF PackageSolveFailed, PackageParseFailed
  <2> QED BY <2>1 DEF Image!vars
<1>5. CASE PackageInstall
  <2>1. PICK data \in AptOutputs :
          graph' = graph \o
               << PackagesNode(inv.tmp, ParseURIs(data).uris),
                  ExecNode("install", inv.steps[3], inv.orig, graph[inv.orig],
                           Len(graph) + 1, FALSE) >>
    BY ZenonT(30), <1>5 DEF PackageInstall
  <2> DEFINE ins == ExecNode("install", inv.steps[3], inv.orig, graph[inv.orig],
                             Len(graph) + 1, FALSE)
  <2>2. /\ pc = "solving" /\ pc' = "dispatch" /\ root' = Len(graph) + 2
        /\ history' = Append(history, HistoryEntry("install", inv.steps[3], TRUE))
        /\ cmdTotal' = cmdTotal
    BY <1>5 DEF PackageInstall
  <2>3. Image!NextStep = inv.steps[3] /\ Image!NextStep <= cmdTotal
    BY SMTT(60), <1>0, <1>0a, <1>0b, <1>0c, <2>2 DEF Image!NextStep
  <2>4. HistoryEntry("install", inv.steps[3], TRUE) = Image!Entry("install", Image!NextStep, TRUE)
    BY <2>3 DEF HistoryEntry, Image!Entry
  <2>5. graph'[root'].layers = graph[root].layers + 1
    <3>1. \A a, b : (graph \o << a, b >>)[Len(graph) + 2] = b
      BY <1>0, ConcatPairIndex
    <3>2. graph'[root'] = ins
      BY ZenonT(30), <2>1, <2>2, <3>1
    <3>3. ins.layers = graph[root].layers + 1
      BY <1>0a, <2>2 DEF ExecNode
    <3> QED BY ZenonT(30), <3>2, <3>3
  <2>6. graph'[root'].layers = IF TRUE THEN graph[root].layers + 1 ELSE graph[root].layers
    BY <2>5
  <2>7. Image!Commit("install", TRUE)
    BY ZenonT(30), <2>2, <2>3, <2>4, <2>6 DEF Image!Commit
  <2> QED BY ZenonT(30), <2>7 DEF Image!Next, Labels
<1>6. CASE StageDone
  <2>1. /\ pc = "dispatch" /\ ip > Len(cmds) /\ pc' = "done"
        /\ history' = history /\ graph' = graph /\ root' = root /\ cmdTotal' = cmdTotal
    BY <1>6 DEF StageDone
  <2>2. Image!NextStep = cmdTotal + 1
    BY <1>0, <1>0b, <1>0c, <2>1 DEF Image!NextStep
  <2>3. Image!Finish
    BY <2>1, <2>2 DEF Image!Finish
  <2> QED BY <2>3 DEF Image!Next
<1>7. CASE Terminated \/ UNCHANGED vars
  <2>1. history' = history /\ graph' = graph /\ root' = root /\ cmdTotal' = cmdTotal /\ pc' = pc
    BY <1>7 DEF Terminated, vars
  <2> QED BY <2>1 DEF Image!vars
<1> QED BY <1>1, <1>2, <1>3, <1>4, <1>5, <1>6, <1>7 DEF Next

(* The base image's history and layers are the abstract image's start.     *)
LEMMA InitRefines == Init => Image!Init
<1> SUFFICES ASSUME Init PROVE Image!Init
  OBVIOUS
<1>1. history = [k \in 1..BaseLayers |-> Image!Entry("base", 0, TRUE)]
  <2>1. Image!Entry("base", 0, TRUE) = [label |-> "base", step |-> 0, empty |-> FALSE]
    BY Zenon DEF Image!Entry
  <2> QED BY ZenonT(30), <2>1 DEF Init
<1>2. graph[root].layers = BaseLayers /\ pc = "dispatch"
  BY DEF Init, BaseNode
<1>3. cmdTotal \in Nat
  BY StageCmdsAssumption, StepTotalType DEF Init
<1> QED BY <1>1, <1>2, <1>3 DEF Image!Init

(* Dispatching a stage, ADD --apt steps included, implements the abstract  *)
(* image: commitToHistory only appends, every entry takes the next step    *)
(* number within the announced total, d.state gains a layer exactly for    *)
(* the entries committed with one (RUN and the install exec, not update    *)
(* and download), and the stage completes with exactly cmdTotal steps.     *)
THEOREM ImplementsImage == Spec => ImageRefined
<1>1. Spec => []RInv
  BY RInvInductive
<1>2. QED
  BY <1>1, InitRefines, StepRefines, PTL DEF Spec, ImageRefined, Image!Spec

=============================================================================
