---------------------- MODULE PackageInvocationProofs ----------------------
(***************************************************************************)
(* Proofs about PackageInvocation for every value of its constants.        *)
(***************************************************************************)
EXTENDS PackageInvocation, FiniteSetTheorems, SequenceTheorems, TLAPS

(* TypeOK is not inductive by itself: PackageInstall reads the node of the *)
(* original root and the temporary image and the third precomputed step    *)
(* name, so while Dispatch is blocked in ReadFile those must be nodes of   *)
(* the graph and three numbers.                                            *)
InvocationOK ==
  pc = "solving" =>
    /\ inv.orig \in 1..Len(graph)
    /\ inv.tmp \in 1..Len(graph)
    /\ inv.steps \in [1..3 -> Nat]

IInv == TypeOK /\ InvocationOK

(* The history entries commitToHistory appends.                           *)
HistoryRec == [label: Labels, step: Nat, empty: BOOLEAN]

-----------------------------------------------------------------------------
(* Lemmas on the operators the model is built from.                        *)

(* The step total announced for a stage is a natural number.               *)
LEMMA StepTotalType ==
  ASSUME NEW c \in Seq(Commands)
  PROVE  StepTotal(c) \in Nat
<1>1. IsFiniteSet({k \in 1..Len(c) : c[k] = "APT"})
  <2>1. IsFiniteSet(1..Len(c))
    BY FS_Interval
  <2>2. QED
    BY <2>1, FS_Subset
<1>2. Cardinality({k \in 1..Len(c) : c[k] = "APT"}) \in Nat
  BY <1>1, FS_CardinalityType
<1>3. QED
  BY <1>2 DEF StepTotal, PackageStepCount

(* A listing ParseURIs accepts yields copies of a File node.               *)
LEMMA DownloadCopiesType ==
  ASSUME NEW data \in AptOutputs
  PROVE  DownloadCopies(ParseURIs(data).uris) \in CopyMaps
<1>1. data \in Seq(Line) /\ Len(data) <= MaxLines
  BY AptOutputsAssumption
<1> DEFINE NB == NonBlank(data)
<1>2. NB \in SUBSET (1..MaxLines)
  BY <1>1, MaxLinesAssumption DEF NonBlank
<1>3. \A k \in NB : data[k] \in Line
  BY <1>1 DEF NonBlank
<1>4. \A k \in NB : Sha256Group(data[k]) \in Digests \cup {""}
  BY ZenonT(30), <1>3 DEF Sha256Group, Line
<1>5. CASE \A k \in NB : Parsable(data[k])
  <2>1. ParseURIs(data).uris =
          [k \in NB |-> Download(data[k].uri, data[k].file, Sha256Group(data[k]))]
    BY <1>5 DEF ParseURIs
  <2> DEFINE U == ParseURIs(data).uris
  <2>2. DownloadCopies(U) \in [NB -> Copy]
    <3>1. DOMAIN U = NB
      BY <2>1
    <3>2. ASSUME NEW k \in NB
          PROVE  /\ U[k].uri \in URIs
                 /\ U[k].filename \in Files
                 /\ U[k].sha256 \in Digests \cup {""}
      <4>1. U[k] = Download(data[k].uri, data[k].file, Sha256Group(data[k]))
        BY <2>1
      <4>2. data[k].uri \in URIs /\ data[k].file \in Files
        BY <1>3 DEF Line
      <4>3. /\ U[k].uri = data[k].uri /\ U[k].filename = data[k].file
            /\ U[k].sha256 = Sha256Group(data[k])
        BY <4>1 DEF Download
      <4>4. QED
        BY ZenonT(30), <4>2, <4>3, <1>4
    <3>3. QED
      BY ZenonT(30), <3>1, <3>2 DEF DownloadCopies, Copy
  <2>3. QED
    BY <2>2, <1>2 DEF CopyMaps
<1>6. CASE ~\A k \in NB : Parsable(data[k])
  <2>1. ParseURIs(data).uris = << >>
    BY <1>6 DEF ParseURIs
  <2>2. DownloadCopies(ParseURIs(data).uris) \in [{} -> Copy]
    BY <2>1 DEF DownloadCopies
  <2>3. {} \in SUBSET (1..MaxLines)
    OBVIOUS
  <2>4. QED
    BY <2>2, <2>3 DEF CopyMaps
<1>7. QED
  BY <1>5, <1>6

(* An exec node over a node of the graph is a node.                        *)
LEMMA ExecNodeType ==
  ASSUME NEW label \in Labels, NEW step \in Nat, NEW input \in Nat,
         NEW over \in Node, NEW mount \in Nat, NEW cache \in BOOLEAN
  PROVE  ExecNode(label, step, input, over, mount, cache) \in Node
<1>1. << >> \in CopyMaps
  <2>1. << >> \in [{} -> Copy]
    OBVIOUS
  <2>2. QED
    BY ZenonT(30), <2>1 DEF CopyMaps
<1>2. QED
  BY <1>1 DEF ExecNode, Node

(* A pair of elements of S is a sequence of S of length 2.                *)
LEMMA PairSeq ==
  ASSUME NEW S, NEW a \in S, NEW b \in S
  PROVE  << a, b >> \in Seq(S) /\ Len(<< a, b >>) = 2
OBVIOUS

(* Extending a sequence of S by two elements of S.                         *)
LEMMA ConcatPair ==
  ASSUME NEW S, NEW s \in Seq(S), NEW a \in S, NEW b \in S
  PROVE  s \o << a, b >> \in Seq(S) /\ Len(s \o << a, b >>) = Len(s) + 2
<1>1. << a, b >> \in Seq(S) /\ Len(<< a, b >>) = 2
  BY PairSeq
<1>2. QED
  BY <1>1, ConcatProperties

(* A function on 1..3 is a sequence of length 3.                          *)
LEMMA TripleSeq ==
  ASSUME NEW S, NEW f \in [1..3 -> S]
  PROVE  f \in Seq(S)
<1>1. 3 \in Nat
  OBVIOUS
<1>2. f \in UNION {[1..n -> S] : n \in Nat}
  BY <1>1, Zenon
<1>3. QED
  BY <1>2, SeqDef, Zenon

(* Appending any value to a sequence: its positions.                      *)
LEMMA AppendIndex ==
  ASSUME NEW S, NEW s \in Seq(S), NEW a
  PROVE  /\ Len(Append(s, a)) = Len(s) + 1
         /\ \A k \in 1..Len(s) : Append(s, a)[k] = s[k]
         /\ Append(s, a)[Len(s) + 1] = a
<1>1. s \in Seq(S \cup {a}) /\ a \in S \cup {a}
  BY SeqMonotonic
<1> QED BY <1>1, AppendProperties

(* Concatenating any pair to a sequence: its positions.                    *)
LEMMA ConcatPairIndex ==
  ASSUME NEW S, NEW s \in Seq(S), NEW a, NEW b
  PROVE  /\ Len(s \o << a, b >>) = Len(s) + 2
         /\ \A k \in 1..Len(s) : (s \o << a, b >>)[k] = s[k]
         /\ (s \o << a, b >>)[Len(s) + 1] = a
         /\ (s \o << a, b >>)[Len(s) + 2] = b
<1> DEFINE U == S \cup {a, b}
<1>1. s \in Seq(U)
  BY SeqMonotonic
<1>2. << a, b >> \in Seq(U) /\ Len(<< a, b >>) = 2
  BY PairSeq
<1> QED BY <1>1, <1>2, ConcatProperties

-----------------------------------------------------------------------------
(* Type correctness.                                                       *)

LEMMA InitIInv == Init => IInv
<1> SUFFICES ASSUME Init PROVE IInv
  OBVIOUS
<1>1. BaseNode \in Node
  <2>1. << >> \in CopyMaps
    <3>1. << >> \in [{} -> Copy]
      OBVIOUS
    <3>2. QED
      BY SMTT(30), <3>1 DEF CopyMaps
  <2>2. QED
    BY <2>1, BaseLayersAssumption DEF BaseNode, Node, Labels, NoNode
<1>2. cmds \in Seq(Commands)
  BY StageCmdsAssumption DEF Init
<1>3. cmdTotal \in Nat
  BY <1>2, StepTotalType DEF Init
<1>4. history \in Seq([label: Labels, step: Nat, empty: BOOLEAN])
  BY BaseLayersAssumption DEF Init, Labels
<1>5. QED
  BY <1>1, <1>2, <1>3, <1>4 DEF Init, IInv, TypeOK, InvocationOK, NoNode

LEMMA NextIInv == IInv /\ [Next]_vars => IInv'
<1> SUFFICES ASSUME IInv, [Next]_vars PROVE IInv'
  OBVIOUS
<1> USE DEF IInv, TypeOK, InvocationOK
<1> USE DEF HistoryRec
<1>0. graph[root] \in Node
  OBVIOUS
<1>00. \A x, y \in Node : /\ graph \o << x, y >> \in Seq(Node)
                         /\ Len(graph \o << x, y >>) = Len(graph) + 2
  BY ConcatPair
<1>1. CASE DispatchEnv
  <2>1. HistoryEntry("ENV", cmdIndex + 1, FALSE) \in HistoryRec
    BY DEF HistoryEntry, Labels
  <2>2. history' \in Seq(HistoryRec)
    BY ZenonT(30), <1>1, <2>1, AppendProperties DEF DispatchEnv
  <2>3. ip' \in Nat /\ cmdIndex' \in Nat /\ pc' = "dispatch"
    BY <1>1 DEF DispatchEnv
  <2>4. UNCHANGED <<pc, cmds, graph, root, cmdTotal, inv, readBack>>
    BY <1>1 DEF DispatchEnv
  <2>5. QED
    BY <2>2, <2>3, <2>4
<1>2. CASE DispatchRun
  <2>0. "RUN" \in Labels /\ cmdIndex + 1 \in Nat /\ root \in Nat /\ NoNode \in Nat
    BY DEF Labels, NoNode
  <2>1. ExecNode("RUN", cmdIndex + 1, root, graph[root], NoNode, FALSE) \in Node
    BY <1>0, <2>0, ExecNodeType, Zenon
  <2>2. graph' \in Seq(Node) /\ Len(graph') = Len(graph) + 1 /\ root' = Len(graph) + 1
    BY ZenonT(30), <1>2, <2>1, AppendProperties DEF DispatchRun
  <2>3. HistoryEntry("RUN", cmdIndex + 1, TRUE) \in HistoryRec
    BY DEF HistoryEntry, Labels
  <2>4. history' \in Seq(HistoryRec)
    BY ZenonT(30), <1>2, <2>3, AppendProperties DEF DispatchRun
  <2>5. ip' \in Nat /\ cmdIndex' \in Nat /\ pc' = "dispatch"
    BY <1>2 DEF DispatchRun
  <2>6. UNCHANGED <<pc, cmds, cmdTotal, inv, readBack>>
    BY <1>2 DEF DispatchRun
  <2>7. QED
    BY <2>2, <2>4, <2>5, <2>6
<1>3. CASE PackageStart
  <2> DEFINE steps == NewPackageInvocation(cmdIndex)
             upd   == ExecNode("update", steps[1], root, graph[root], NoNode, TRUE)
             dl    == ExecNode("download", steps[2], Len(graph) + 1, upd, NoNode, FALSE)
  <2>1. steps \in [1..3 -> Nat]
    BY DEF NewPackageInvocation
  <2>2. steps \in Seq(Nat)
    BY ZenonT(30), <2>1, TripleSeq
  <2>0. /\ "update" \in Labels /\ "download" \in Labels
        /\ steps[1] \in Nat /\ steps[2] \in Nat
        /\ root \in Nat /\ Len(graph) + 1 \in Nat /\ NoNode \in Nat
    BY <2>1 DEF Labels, NoNode
  <2>3. upd \in Node
    BY <1>0, <2>0, ExecNodeType, Zenon
  <2>4. dl \in Node
    BY <2>0, <2>3, ExecNodeType, Zenon
  <2>6. graph' = graph \o << upd, dl >>
    BY <1>3 DEF PackageStart
  <2>7. graph' \in Seq(Node) /\ Len(graph') = Len(graph) + 2
    BY ZenonT(30), <1>00, <2>3, <2>4, <2>6
  <2>8. << HistoryEntry("update", steps[1], FALSE),
           HistoryEntry("download", steps[2], FALSE) >> \in Seq(HistoryRec)
    BY <2>1 DEF HistoryEntry, Labels
  <2>9. history' \in Seq(HistoryRec)
    <3>1. history' = history \o << HistoryEntry("update", steps[1], FALSE),
                                   HistoryEntry("download", steps[2], FALSE) >>
      BY <1>3 DEF PackageStart
    <3>2. QED
      BY ZenonT(30), <3>1, <2>8, ConcatProperties
  <2>10. inv' = [orig |-> root, tmp |-> Len(graph) + 2, steps |-> steps]
    BY <1>3 DEF PackageStart
  <2>11. cmdIndex' = steps[3] /\ pc' = "solving"
    BY <1>3 DEF PackageStart
  <2>12. UNCHANGED <<cmds, ip, root, cmdTotal, readBack>>
    BY <1>3 DEF PackageStart
  <2>13. TypeOK'
    BY SMTT(30), <2>1, <2>2, <2>7, <2>9, <2>10, <2>11, <2>12
  <2>14. InvocationOK'
    BY SMTT(30), <2>1, <2>7, <2>10, <2>11
  <2>15. QED
    BY <2>13, <2>14
<1>4. CASE PackageSolveFailed
  BY <1>4 DEF PackageSolveFailed
<1>5. CASE PackageParseFailed
  <2>1. PICK data \in AptOutputs : ~ParseURIs(data).ok /\ readBack' = data
    BY <1>5 DEF PackageParseFailed
  <2>2. data \in Seq(Line)
    BY AptOutputsAssumption
  <2>3. QED
    BY <1>5, <2>1, <2>2 DEF PackageParseFailed
<1>6. CASE PackageInstall
  <2>1. PICK data \in AptOutputs :
          /\ ParseURIs(data).ok
          /\ readBack' = data
          /\ graph' = graph \o
               << PackagesNode(inv.tmp, ParseURIs(data).uris),
                  ExecNode("install", inv.steps[3], inv.orig, graph[inv.orig],
                           Len(graph) + 1, FALSE) >>
    BY ZenonT(30), <1>6 DEF PackageInstall
  <2> DEFINE pkgs == PackagesNode(inv.tmp, ParseURIs(data).uris)
             ins  == ExecNode("install", inv.steps[3], inv.orig, graph[inv.orig],
                              Len(graph) + 1, FALSE)
  <2>2. /\ inv.orig \in 1..Len(graph) /\ inv.tmp \in 1..Len(graph)
        /\ inv.steps \in [1..3 -> Nat]
    BY <1>6 DEF PackageInstall
  <2>3. graph[inv.tmp] \in Node /\ graph[inv.orig] \in Node
    BY SMTT(30), <2>2
  <2>4. DownloadCopies(ParseURIs(data).uris) \in CopyMaps
    BY DownloadCopiesType
  <2>5. pkgs \in Node
    <3>1. graph[inv.tmp].layers + 1 \in Nat
      <4>1. graph[inv.tmp].layers \in Nat
        BY <2>3, Zenon DEF Node
      <4>2. QED
        BY SMTT(30), <4>1
    <3>2. QED
      BY <2>2, <2>4, <3>1 DEF PackagesNode, Node, Labels, NoNode
  <2>6. ins \in Node
    <3>1. /\ "install" \in Labels /\ inv.steps[3] \in Nat
          /\ inv.orig \in Nat /\ Len(graph) + 1 \in Nat
      BY SMTT(30), <2>2 DEF Labels
    <3>2. QED
      BY <2>3, <3>1, ExecNodeType, Zenon
  <2>7. graph' \in Seq(Node) /\ Len(graph') = Len(graph) + 2
    BY ZenonT(30), <1>00, <2>1, <2>5, <2>6
  <2>8. HistoryEntry("install", inv.steps[3], TRUE) \in HistoryRec
    BY <2>2 DEF HistoryEntry, Labels
  <2>9. history' \in Seq(HistoryRec)
    BY ZenonT(30), <1>6, <2>8, AppendProperties DEF PackageInstall
  <2>10. readBack' \in Seq(Line)
    BY <2>1, AptOutputsAssumption
  <2>11. root' = Len(graph) + 2 /\ pc' = "dispatch" /\ ip' = ip + 1
    BY <1>6 DEF PackageInstall
  <2>12. UNCHANGED <<cmds, cmdIndex, cmdTotal, inv>>
    BY <1>6 DEF PackageInstall
  <2>13. TypeOK'
    BY SMTT(30), <2>7, <2>9, <2>10, <2>11, <2>12
  <2>14. InvocationOK'
    BY <2>11
  <2>15. QED
    BY <2>13, <2>14
<1>7. CASE StageDone
  BY <1>7 DEF StageDone
<1>8. CASE Terminated
  BY <1>8 DEF Terminated, vars
<1>9. CASE UNCHANGED vars
  BY <1>9 DEF vars
<1>10. QED
  BY SMTT(30), <1>1, <1>2, <1>3, <1>4, <1>5, <1>6, <1>7, <1>8, <1>9 DEF Next

(* Every reachable state of the stage dispatch is well typed: in          *)
(* particular every File node DownloadFiles builds from an apt listing     *)
(* holds copies of URIs, file names and digests apt printed, keyed by the  *)
(* line they came from.                                                    *)
THEOREM TypeCorrect == Spec => []TypeOK
<1>1. IInv => TypeOK
  BY DEF IInv
<1>2. QED
  BY InitIInv, NextIInv, <1>1, PTL DEF Spec

-----------------------------------------------------------------------------
(* History and layers.                                                     *)

(* While Dispatch is blocked in ReadFile the stage root is the one the     *)
(* invocation started from: the update and download execs never become    *)
(* d.state.                                                                *)
RootOK == pc = "solving" => inv.orig = root

LInv == IInv /\ RootOK /\ HistoryMatchesLayers

(* The history entries that claim a layer, as a finite set of positions.   *)
LEMMA LayerSetFinite ==
  ASSUME NEW h \in Seq(HistoryRec)
  PROVE  IsFiniteSet({k \in 1..Len(h) : ~h[k].empty})
<1>1. IsFiniteSet(1..Len(h))
  BY FS_Interval
<1>2. QED
  BY <1>1, FS_Subset

(* A commitToHistory entry is a history record, empty exactly when it     *)
(* was committed without a layer.                                          *)
LEMMA HistoryEntryRec ==
  ASSUME NEW l \in Labels, NEW st \in Nat, NEW w \in BOOLEAN
  PROVE  /\ HistoryEntry(l, st, w) \in HistoryRec
         /\ HistoryEntry(l, st, w).empty = ~w
         /\ HistoryEntry(l, st, w).step = st
<1>1. HistoryEntry(l, st, w) \in HistoryRec
  BY DEF HistoryEntry, HistoryRec
<1>2. HistoryEntry(l, st, w).empty = ~w
  BY Zenon DEF HistoryEntry
<1>3. HistoryEntry(l, st, w).step = st
  BY DEF HistoryEntry
<1> QED BY <1>1, <1>2, <1>3

(* Appending an entry adds one claimed layer exactly when the entry is not *)
(* an empty layer.                                                         *)
LEMMA LayerEntriesAppend ==
  ASSUME NEW h \in Seq(HistoryRec), NEW e \in HistoryRec
  PROVE  /\ e.empty => LayerEntries(Append(h, e)) = LayerEntries(h)
         /\ ~e.empty => LayerEntries(Append(h, e)) = LayerEntries(h) + 1
<1> DEFINE S == {k \in 1..Len(h) : ~h[k].empty}
           T == {k \in 1..Len(Append(h, e)) : ~Append(h, e)[k].empty}
<1>1. IsFiniteSet(S) /\ Cardinality(S) \in Nat
  BY LayerSetFinite, FS_CardinalityType
<1>2. LayerEntries(Append(h, e)) = Cardinality(T) /\ LayerEntries(h) = Cardinality(S)
  BY DEF LayerEntries
<1>3. ASSUME e.empty PROVE T = S
  BY <1>3, AppendProperties
<1>4. ASSUME ~e.empty PROVE T = S \cup {Len(h) + 1} /\ Len(h) + 1 \notin S
  BY <1>4, AppendProperties
<1>5. ~e.empty => Cardinality(T) = Cardinality(S) + 1
  BY ZenonT(30), <1>1, <1>4, FS_AddElement
<1> QED BY <1>2, <1>3, <1>5, Zenon

(* Appending two empty-layer entries claims no layer.                      *)
LEMMA LayerEntriesEmptyPair ==
  ASSUME NEW h \in Seq(HistoryRec), NEW e1 \in HistoryRec, NEW e2 \in HistoryRec,
         e1.empty, e2.empty
  PROVE  LayerEntries(h \o << e1, e2 >>) = LayerEntries(h)
<1>1. << e1, e2 >> \in Seq(HistoryRec) /\ Len(<< e1, e2 >>) = 2
  BY PairSeq
<1>2. /\ Len(h \o << e1, e2 >>) = Len(h) + 2
      /\ \A k \in 1..Len(h) : (h \o << e1, e2 >>)[k] = h[k]
      /\ (h \o << e1, e2 >>)[Len(h) + 1] = e1
      /\ (h \o << e1, e2 >>)[Len(h) + 2] = e2
  BY <1>1, ConcatProperties
<1>3. {k \in 1..Len(h \o << e1, e2 >>) : ~(h \o << e1, e2 >>)[k].empty}
        = {k \in 1..Len(h) : ~h[k].empty}
  BY <1>2
<1>4. QED
  BY ZenonT(30), <1>3 DEF LayerEntries

(* The base image's history claims its BaseLayers layers.                  *)
LEMMA InitLayers == Init => RootOK /\ HistoryMatchesLayers
<1> SUFFICES ASSUME Init PROVE RootOK /\ HistoryMatchesLayers
  OBVIOUS
<1>1. {k \in 1..Len(history) : ~history[k].empty} = 1..BaseLayers
  BY BaseLayersAssumption DEF Init
<1>2. Cardinality(1..BaseLayers) = BaseLayers
  BY BaseLayersAssumption, FS_Interval
<1>3. graph[root].layers = BaseLayers
  BY DEF Init, BaseNode
<1>4. QED
  BY ZenonT(30), <1>1, <1>2, <1>3 DEF LayerEntries, HistoryMatchesLayers, RootOK, Init

LEMMA NextLayers == LInv /\ [Next]_vars => (RootOK /\ HistoryMatchesLayers)'
<1> SUFFICES ASSUME LInv, [Next]_vars PROVE (RootOK /\ HistoryMatchesLayers)'
  OBVIOUS
<1>0. /\ history \in Seq(HistoryRec)
      /\ graph \in Seq(Node)
      /\ root \in 1..Len(graph)
      /\ cmdIndex \in Nat
      /\ LayerEntries(history) = graph[root].layers
      /\ pc = "solving" => inv.orig = root /\ inv.steps \in [1..3 -> Nat]
  BY DEF LInv, IInv, TypeOK, InvocationOK, HistoryRec, HistoryMatchesLayers, RootOK
<1>a. \A e \in HistoryRec :
        /\ e.empty => LayerEntries(Append(history, e)) = LayerEntries(history)
        /\ ~e.empty => LayerEntries(Append(history, e)) = LayerEntries(history) + 1
  BY <1>0, LayerEntriesAppend
<1>1. CASE DispatchEnv
  <2>1. /\ HistoryEntry("ENV", cmdIndex + 1, FALSE) \in HistoryRec
        /\ HistoryEntry("ENV", cmdIndex + 1, FALSE).empty
    <3>1. "ENV" \in Labels /\ cmdIndex + 1 \in Nat /\ FALSE \in BOOLEAN
      BY <1>0 DEF Labels
    <3> QED BY <3>1, HistoryEntryRec, Zenon
  <2>2. LayerEntries(history') = LayerEntries(history)
    <3>1. history' = Append(history, HistoryEntry("ENV", cmdIndex + 1, FALSE))
      BY <1>1 DEF DispatchEnv
    <3> QED BY <1>a, <2>1, <3>1, Zenon
  <2>3. QED
    BY ZenonT(30), <1>0, <1>1, <2>2 DEF DispatchEnv, HistoryMatchesLayers, RootOK
<1>2. CASE DispatchRun
  <2> DEFINE run == ExecNode("RUN", cmdIndex + 1, root, graph[root], NoNode, FALSE)
  <2>1. /\ HistoryEntry("RUN", cmdIndex + 1, TRUE) \in HistoryRec
        /\ ~HistoryEntry("RUN", cmdIndex + 1, TRUE).empty
    <3>1. "RUN" \in Labels /\ cmdIndex + 1 \in Nat /\ TRUE \in BOOLEAN
      BY <1>0 DEF Labels
    <3> QED BY <3>1, HistoryEntryRec, Zenon
  <2>2. LayerEntries(history') = LayerEntries(history) + 1
    <3>1. history' = Append(history, HistoryEntry("RUN", cmdIndex + 1, TRUE))
      BY <1>2 DEF DispatchRun
    <3> QED BY <1>a, <2>1, <3>1, Zenon
  <2>3. graph' = Append(graph, run) /\ root' = Len(graph) + 1
    BY <1>2 DEF DispatchRun
  <2>4. graph'[root'] = run
    BY ZenonT(30), <1>0, <2>3, AppendIndex
  <2>5. run.layers = graph[root].layers + 1
    BY DEF ExecNode
  <2>6. pc' = "dispatch"
    BY <1>2 DEF DispatchRun
  <2>7. QED
    BY ZenonT(30), <1>0, <2>2, <2>4, <2>5, <2>6 DEF HistoryMatchesLayers, RootOK
<1>3. CASE PackageStart
  <2> DEFINE steps == NewPackageInvocation(cmdIndex)
             upd   == ExecNode("update", steps[1], root, graph[root], NoNode, TRUE)
             dl    == ExecNode("download", steps[2], Len(graph) + 1, upd, NoNode, FALSE)
             e1    == HistoryEntry("update", steps[1], FALSE)
             e2    == HistoryEntry("download", steps[2], FALSE)
  <2>0. steps[1] \in Nat /\ steps[2] \in Nat
    BY <1>0 DEF NewPackageInvocation
  <2>1. /\ e1 \in HistoryRec /\ e1.empty
        /\ e2 \in HistoryRec /\ e2.empty
    <3>1. "update" \in Labels /\ "download" \in Labels /\ FALSE \in BOOLEAN
      BY DEF Labels
    <3> QED BY <2>0, <3>1, HistoryEntryRec, Zenon
  <2>2. history' = history \o << e1, e2 >>
    BY <1>3 DEF PackageStart
  <2>3. LayerEntries(history') = LayerEntries(history)
    BY ZenonT(30), <1>0, <2>1, <2>2, LayerEntriesEmptyPair
  <2>4. UNCHANGED root /\ inv'.orig = root /\ graph' = graph \o << upd, dl >>
    BY <1>3 DEF PackageStart
  <2>5. graph'[root'] = graph[root]
    BY <1>0, <2>4, ConcatPairIndex
  <2>6. QED
    BY <1>0, <2>3, <2>4, <2>5 DEF HistoryMatchesLayers, RootOK
<1>4. CASE PackageSolveFailed
  BY <1>0, <1>4 DEF PackageSolveFailed, HistoryMatchesLayers, RootOK
<1>5. CASE PackageParseFailed
  BY <1>0, <1>5 DEF PackageParseFailed, HistoryMatchesLayers, RootOK
<1>6. CASE PackageInstall
  <2>1. PICK data \in AptOutputs :
          graph' = graph \o
               << PackagesNode(inv.tmp, ParseURIs(data).uris),
                  ExecNode("install", inv.steps[3], inv.orig, graph[inv.orig],
                           Len(graph) + 1, FALSE) >>
    BY ZenonT(30), <1>6 DEF PackageInstall
  <2> DEFINE pk  == PackagesNode(inv.tmp, ParseURIs(data).uris)
             ins == ExecNode("install", inv.steps[3], inv.orig, graph[inv.orig],
                             Len(graph) + 1, FALSE)
  <2>2. pc = "solving" /\ root' = Len(graph) + 2 /\ pc' = "dispatch"
    BY <1>6 DEF PackageInstall
  <2>3. graph'[root'] = ins
    <3>1. \A a, b : (graph \o << a, b >>)[Len(graph) + 2] = b
      BY <1>0, ConcatPairIndex
    <3> QED BY ZenonT(30), <2>1, <2>2, <3>1
  <2>4. ins.layers = graph[root].layers + 1
    BY <1>0, <2>2 DEF ExecNode
  <2>5. inv.steps[3] \in Nat
    BY <1>0, <2>2
  <2>6. /\ HistoryEntry("install", inv.steps[3], TRUE) \in HistoryRec
        /\ ~HistoryEntry("install", inv.steps[3], TRUE).empty
    <3>1. "install" \in Labels /\ TRUE \in BOOLEAN
      BY DEF Labels
    <3> QED BY <2>5, <3>1, HistoryEntryRec, Zenon
  <2>7. LayerEntries(history') = LayerEntries(history) + 1
    <3>1. history' = Append(history, HistoryEntry("install", inv.steps[3], TRUE))
      BY <1>6 DEF PackageInstall
    <3> QED BY <1>a, <2>6, <3>1, Zenon
  <2>8. QED
    BY ZenonT(30), <1>0, <2>2, <2>3, <2>4, <2>7 DEF HistoryMatchesLayers, RootOK
<1>7. CASE StageDone
  BY <1>0, <1>7 DEF StageDone, HistoryMatchesLayers, RootOK
<1>8. CASE Terminated
  BY <1>0, <1>8 DEF Terminated, vars, HistoryMatchesLayers, RootOK
<1>9. CASE UNCHANGED vars
  BY SMTT(30), <1>0, <1>9 DEF vars, HistoryMatchesLayers, RootOK
<1>10. QED
  BY <1>1, <1>2, <1>3, <1>4, <1>5, <1>6, <1>7, <1>8, <1>9 DEF Next

(* The image history written by commitToHistory claims exactly as many     *)
(* layers as the stage root d.state has, in every reachable state and for  *)
(* every stage and apt output: the update and download execs of ADD --apt  *)
(* add empty-layer entries and stay off the root chain, the install exec   *)
(* adds the one layer over the original root.                              *)
THEOREM LayersMatch == Spec => []HistoryMatchesLayers
<1>1. Init => LInv
  BY InitIInv, InitLayers DEF LInv
<1>2. LInv /\ [Next]_vars => LInv'
  BY NextIInv, NextLayers DEF LInv
<1>3. LInv => HistoryMatchesLayers
  BY DEF LInv
<1>4. QED
  BY <1>1, <1>2, <1>3, PTL DEF Spec

-----------------------------------------------------------------------------
(* Step numbering.                                                         *)

(* The ADD --apt commands before the one at ip.                            *)
AptBefore(j) == {k \in 1..(j - 1) : cmds[k] = "APT"}

(* Dispatch is blocked in ReadFile, or failed there: the current command   *)
(* is an ADD --apt that has taken its three step numbers and committed two *)
(* history entries.                                                        *)
InPackage == pc \in {"solving", "failed"}

(* The base image's entries carry step 0 and the stage's entries the steps *)
(* 2, 3, ... in order.                                                     *)
Numbered(h) ==
  /\ \A k \in 1..BaseLayers : h[k].step = 0
  /\ \A k \in 1..(Len(h) - BaseLayers) : h[BaseLayers + k].step = k + 1

(* StepNumbering is not inductive: the step an entry gets is read from     *)
(* cmdIndex, and the bound from cmdTotal, so the invariant must say how     *)
(* far cmdIndex has advanced (one step per dispatched command, three per    *)
(* ADD --apt) and how many entries the history holds for it.                *)
StepInv ==
  /\ cmds \in Seq(Commands)
  /\ ip \in 1..(Len(cmds) + 1)
  /\ cmdTotal = StepTotal(cmds)
  /\ InPackage => ip <= Len(cmds) /\ cmds[ip] = "APT" /\ inv.steps[3] = cmdIndex
  /\ pc = "done" => ip = Len(cmds) + 1
  /\ cmdIndex = ip + 2 * Cardinality(AptBefore(ip)) + (IF InPackage THEN 3 ELSE 0)
  /\ history \in Seq(HistoryRec)
  /\ Len(history) = BaseLayers + cmdIndex - (IF InPackage THEN 2 ELSE 1)
  /\ Numbered(history)


(* The ADD --apt commands before any position are finitely many.           *)
LEMMA AptBeforeFinite ==
  ASSUME NEW j \in Int
  PROVE  IsFiniteSet(AptBefore(j)) /\ Cardinality(AptBefore(j)) \in Nat
<1>1. IsFiniteSet(1..(j - 1))
  BY FS_Interval
<1>2. IsFiniteSet(AptBefore(j))
  BY <1>1, FS_Subset DEF AptBefore
<1> QED BY <1>2, FS_CardinalityType

(* Moving past the command at j adds it to the ADD --apt commands before   *)
(* the next position exactly when it is one.                               *)
LEMMA AptBeforeNext ==
  ASSUME NEW j \in Nat \ {0}
  PROVE  /\ cmds[j] = "APT" =>
              Cardinality(AptBefore(j + 1)) = Cardinality(AptBefore(j)) + 1
         /\ cmds[j] # "APT" =>
              Cardinality(AptBefore(j + 1)) = Cardinality(AptBefore(j))
<1>1. IsFiniteSet(AptBefore(j))
  BY AptBeforeFinite
<1>2. cmds[j] = "APT" => AptBefore(j + 1) = AptBefore(j) \cup {j} /\ j \notin AptBefore(j)
  BY DEF AptBefore
<1>3. cmds[j] # "APT" => AptBefore(j + 1) = AptBefore(j)
  BY DEF AptBefore
<1> QED BY SMTT(30), <1>1, <1>2, <1>3, FS_AddElement

(* A position of the stage and the ADD --apt commands before it never     *)
(* take more step numbers than cmdTotal announces.                         *)
LEMMA StepsWithinTotal ==
  ASSUME cmds \in Seq(Commands), NEW j \in 1..(Len(cmds) + 1)
  PROVE  j + 2 * Cardinality(AptBefore(j)) <= StepTotal(cmds)
<1> DEFINE n == Len(cmds) + 1
<1>1. n \in Nat /\ j <= n
  OBVIOUS
<1>2. AptBefore(j) \subseteq AptBefore(n) /\ IsFiniteSet(AptBefore(n))
  <2>1. AptBefore(j) \subseteq AptBefore(n)
    BY <1>1 DEF AptBefore
  <2>2. IsFiniteSet(AptBefore(n))
    BY <1>1, AptBeforeFinite
  <2> QED BY <2>1, <2>2
<1>3. Cardinality(AptBefore(j)) <= Cardinality(AptBefore(n))
  BY <1>2, FS_Subset
<1>4. StepTotal(cmds) = n + 2 * Cardinality(AptBefore(n))
  BY DEF StepTotal, PackageStepCount, AptBefore
<1>5. Cardinality(AptBefore(j)) \in Nat /\ Cardinality(AptBefore(n)) \in Nat
  BY AptBeforeFinite
<1> QED BY <1>1, <1>3, <1>4, <1>5

(* commitToHistory appending the entry for the next step keeps the         *)
(* numbering.                                                              *)
LEMMA NumberedAppend ==
  ASSUME NEW h \in Seq(HistoryRec), Numbered(h), Len(h) >= BaseLayers,
         NEW e, e.step = Len(h) - BaseLayers + 2
  PROVE  Numbered(Append(h, e))
<1>1. /\ Len(Append(h, e)) = Len(h) + 1
      /\ \A k \in 1..Len(h) : Append(h, e)[k] = h[k]
      /\ Append(h, e)[Len(h) + 1] = e
  BY AppendIndex
<1> QED BY SMTT(30), <1>1, BaseLayersAssumption DEF Numbered

(* The update and download entries of one ADD --apt, for the next two      *)
(* steps, keep the numbering.                                              *)
LEMMA NumberedPair ==
  ASSUME NEW h \in Seq(HistoryRec), Numbered(h), Len(h) >= BaseLayers,
         NEW e1, NEW e2, e1.step = Len(h) - BaseLayers + 2,
         e2.step = Len(h) - BaseLayers + 3
  PROVE  Numbered(h \o << e1, e2 >>)
<1>1. /\ Len(h \o << e1, e2 >>) = Len(h) + 2
      /\ \A k \in 1..Len(h) : (h \o << e1, e2 >>)[k] = h[k]
      /\ (h \o << e1, e2 >>)[Len(h) + 1] = e1
      /\ (h \o << e1, e2 >>)[Len(h) + 2] = e2
  BY ConcatPairIndex
<1> QED BY SMTT(30), <1>1, BaseLayersAssumption DEF Numbered


(* What a step must establish of the next state for StepInv to hold there, *)
(* with cmds unchanged.                                                    *)
StepPost ==
  /\ ip' \in 1..(Len(cmds) + 1)
  /\ pc' \in {"solving", "failed"} =>
       /\ cmdIndex' = ip' + 2 * Cardinality(AptBefore(ip')) + 3
       /\ Len(history') = BaseLayers + cmdIndex' - 2
       /\ ip' <= Len(cmds) /\ cmds[ip'] = "APT" /\ inv'.steps[3] = cmdIndex'
  /\ pc' \notin {"solving", "failed"} =>
       /\ cmdIndex' = ip' + 2 * Cardinality(AptBefore(ip'))
       /\ Len(history') = BaseLayers + cmdIndex' - 1
  /\ pc' = "done" => ip' = Len(cmds) + 1
  /\ history' \in Seq(HistoryRec)

LEMMA InitStepInv == Init => StepInv
<1> SUFFICES ASSUME Init PROVE StepInv
  OBVIOUS
<1>1. cmds \in Seq(Commands) /\ ip = 1 /\ pc = "dispatch" /\ cmdIndex = 1
      /\ cmdTotal = StepTotal(cmds)
  BY StageCmdsAssumption DEF Init
<1>2. Cardinality(AptBefore(1)) = 0
  <2>1. AptBefore(1) = {}
    BY DEF AptBefore
  <2> QED BY <2>1, FS_EmptySet
<1>3. history \in Seq(HistoryRec) /\ Len(history) = BaseLayers
  BY BaseLayersAssumption DEF Init, HistoryRec, Labels
<1>4. Numbered(history)
  BY BaseLayersAssumption DEF Init, Numbered
<1> QED BY SMTT(30), <1>1, <1>2, <1>3, <1>4, BaseLayersAssumption DEF StepInv, InPackage

LEMMA NextStepInv == IInv /\ StepInv /\ [Next]_vars => StepInv'
<1> SUFFICES ASSUME IInv, StepInv, [Next]_vars PROVE StepInv'
  OBVIOUS
<1>0. /\ cmds \in Seq(Commands) /\ Len(cmds) \in Nat
      /\ ip \in 1..(Len(cmds) + 1)
      /\ cmdIndex \in Nat /\ Cardinality(AptBefore(ip)) \in Nat /\ BaseLayers \in Nat
      /\ pc \in {"solving", "failed"} => cmdIndex = ip + 2 * Cardinality(AptBefore(ip)) + 3 /\ Len(history) = BaseLayers + cmdIndex - 2
      /\ pc \notin {"solving", "failed"} => cmdIndex = ip + 2 * Cardinality(AptBefore(ip)) /\ Len(history) = BaseLayers + cmdIndex - 1
      /\ pc \in {"solving", "failed"} => ip <= Len(cmds) /\ cmds[ip] = "APT" /\ inv.steps[3] = cmdIndex
      /\ pc = "done" => ip = Len(cmds) + 1
      /\ history \in Seq(HistoryRec)
      /\ Len(history) >= BaseLayers
  <2>1. Cardinality(AptBefore(ip)) \in Nat
    BY AptBeforeFinite DEF StepInv
  <2>2. cmdIndex \in Nat
    BY DEF IInv, TypeOK
  <2> QED BY <2>1, <2>2, BaseLayersAssumption, SMTT(120) DEF StepInv, InPackage
<1>0a. /\ ip \in Nat /\ cmdIndex \in Nat /\ Cardinality(AptBefore(ip)) \in Nat
       /\ BaseLayers \in Nat /\ Len(history) \in Nat /\ Len(cmds) \in Nat
  BY <1>0
<1>0b. Numbered(history)
  BY DEF StepInv
<1>1. cmds' = cmds /\ cmdTotal' = cmdTotal
  BY ZenonT(30) DEF Next, DispatchEnv, DispatchRun, PackageStart, PackageSolveFailed,
         PackageParseFailed, PackageInstall, StageDone, Terminated, vars
<1>2. AptBefore(ip)' = AptBefore(ip')
  BY <1>1 DEF AptBefore
<1>3. cmdTotal' = StepTotal(cmds)'
  BY <1>1 DEF StepInv
(* What each step must establish of the primed variables.                  *)
<1>4. StepPost /\ Numbered(history') => StepInv'
  <2> HAVE StepPost /\ Numbered(history')
  <2>0. /\ ip' \in 1..(Len(cmds) + 1)
        /\ pc' \in {"solving", "failed"} =>
             /\ cmdIndex' = ip' + 2 * Cardinality(AptBefore(ip')) + 3
             /\ Len(history') = BaseLayers + cmdIndex' - 2
             /\ ip' <= Len(cmds) /\ cmds[ip'] = "APT" /\ inv'.steps[3] = cmdIndex'
        /\ pc' \notin {"solving", "failed"} =>
             /\ cmdIndex' = ip' + 2 * Cardinality(AptBefore(ip'))
             /\ Len(history') = BaseLayers + cmdIndex' - 1
        /\ pc' = "done" => ip' = Len(cmds) + 1
        /\ history' \in Seq(HistoryRec)
    BY DEF StepPost
  <2>00. Numbered(history')
    BY SMTT(30)
  <2>1. cmds' \in Seq(Commands) /\ ip' \in 1..(Len(cmds') + 1)
    BY SMTT(30), <2>0, <1>0, <1>1
  <2>2. InPackage' => ip' <= Len(cmds') /\ cmds'[ip'] = "APT" /\ inv'.steps[3] = cmdIndex'
    BY SMTT(30), <2>0, <1>1 DEF InPackage
  <2>3. pc' = "done" => ip' = Len(cmds') + 1
    BY SMTT(30), <2>0, <1>1
  <2>4. cmdIndex' = ip' + 2 * Cardinality(AptBefore(ip)') + (IF InPackage' THEN 3 ELSE 0)
    <3>1. CASE pc' \in {"solving", "failed"}
      <4>1. InPackage' /\ cmdIndex' = ip' + 2 * Cardinality(AptBefore(ip')) + 3
        BY SMTT(30), <2>0, <3>1 DEF InPackage
      <4> QED BY SMTT(30), <4>1, <1>2
    <3>2. CASE pc' \notin {"solving", "failed"}
      <4>1. ~InPackage' /\ cmdIndex' = ip' + 2 * Cardinality(AptBefore(ip'))
        BY SMTT(30), <2>0, <3>2 DEF InPackage
      <4>2. cmdIndex' = ip' + 2 * Cardinality(AptBefore(ip)')
        BY SMTT(30), <4>1, <1>2
      <4> QED BY SMTT(30), <4>1, <4>2
    <3> QED BY SMTT(30), <3>1, <3>2
  <2>5. Len(history') = BaseLayers + cmdIndex' - (IF InPackage' THEN 2 ELSE 1)
    <3>1. CASE pc' \in {"solving", "failed"}
      BY SMTT(30), <2>0, <3>1 DEF InPackage
    <3>2. CASE pc' \notin {"solving", "failed"}
      BY SMTT(30), <2>0, <3>2 DEF InPackage
    <3> QED BY SMTT(30), <3>1, <3>2
  <2>6. Numbered(history)'
    BY SMTT(30), <2>00 DEF Numbered
  <2>7. history' \in Seq(HistoryRec)
    BY <2>0
  <2> QED BY <2>1, <2>2, <2>3, <2>4, <2>5, <2>6, <2>7, <1>3, Zenon DEF StepInv, InPackage
<1>5. ASSUME NEW l \in Labels, NEW w \in BOOLEAN
      PROVE  history' = Append(history, HistoryEntry(l, Len(history) - BaseLayers + 2, w)) =>
               /\ history' \in Seq(HistoryRec) /\ Numbered(history')
               /\ Len(history') = Len(history) + 1
  <2> DEFINE e == HistoryEntry(l, Len(history) - BaseLayers + 2, w)
  <2> HAVE history' = Append(history, e)
  <2>1. e \in HistoryRec /\ e.step = Len(history) - BaseLayers + 2
    <3>1. Len(history) - BaseLayers + 2 \in Nat
      BY SMTT(30), <1>0
    <3> QED BY SMTT(30), <3>1, HistoryEntryRec
  <2>2. Append(history, e) \in Seq(HistoryRec) /\ Len(Append(history, e)) = Len(history) + 1
    BY SMTT(30), <1>0, <2>1, AppendProperties
  <2>3. Numbered(Append(history, e))
    BY SMTT(30), <1>0, <1>0b, <2>1, NumberedAppend
  <2> QED BY SMTT(30), <2>2, <2>3
<1>6. CASE DispatchEnv \/ DispatchRun
  <2>1. /\ pc = "dispatch" /\ pc' = "dispatch" /\ ip <= Len(cmds) /\ ip' = ip + 1
        /\ cmds[ip] # "APT" /\ cmdIndex' = cmdIndex + 1
    BY ZenonT(30), <1>6 DEF DispatchEnv, DispatchRun, Current
  <2>2. Cardinality(AptBefore(ip')) = Cardinality(AptBefore(ip))
    BY <1>0, <2>1, AptBeforeNext, SMTT(60)
  <2>3. Len(history) - BaseLayers + 2 = cmdIndex + 1
    <3>1. pc \notin {"solving", "failed"}
      BY <2>1
    <3>2. Len(history) = BaseLayers + cmdIndex - 1
      BY SMTT(30), <1>0, <3>1
    <3> QED BY <1>0, <3>2
  <2>4. /\ history' \in Seq(HistoryRec) /\ Numbered(history')
        /\ Len(history') = Len(history) + 1
    <3>1. CASE DispatchEnv
      <4>1. history' = Append(history, HistoryEntry("ENV", Len(history) - BaseLayers + 2, FALSE))
        BY ZenonT(30), <2>3, <3>1 DEF DispatchEnv
      <4> QED BY ZenonT(30), <4>1, <1>5 DEF Labels
    <3>2. CASE DispatchRun
      <4>1. history' = Append(history, HistoryEntry("RUN", Len(history) - BaseLayers + 2, TRUE))
        BY ZenonT(30), <2>3, <3>2 DEF DispatchRun
      <4> QED BY ZenonT(30), <4>1, <1>5 DEF Labels
    <3> QED BY SMTT(30), <1>6, <3>1, <3>2
  <2>7. history' \in Seq(HistoryRec) /\ Len(history') = Len(history) + 1
    BY <2>4
  <2>8. Numbered(history')
    BY <2>4
  <2>5. StepPost
    <3>1. pc \notin {"solving", "failed"}
      BY <2>1
    <3>2. cmdIndex = ip + 2 * Cardinality(AptBefore(ip)) /\ Len(history) = BaseLayers + cmdIndex - 1
      BY SMTT(30), <1>0, <3>1
    <3>3. ip' \in 1..(Len(cmds) + 1)
      BY SMTT(30), <1>0, <2>1
    <3>4. pc' \notin {"solving", "failed"} /\ pc' # "done"
      BY SMTT(30), <2>1
    <3>5. cmdIndex' = ip' + 2 * Cardinality(AptBefore(ip'))
      BY <1>0, <2>1, <2>2, <3>2, SMTT(60)
    <3>6. Len(history') = BaseLayers + cmdIndex' - 1
      BY <1>0, <2>1, <2>7, <3>2, SMTT(60)
    <3> QED BY SMTT(30), <3>3, <3>4, <3>5, <3>6, <2>7 DEF StepPost
  <2> QED BY SMTT(30), <2>8, <2>5, <1>4
<1>7. CASE PackageStart
  <2> DEFINE steps == NewPackageInvocation(cmdIndex)
             e1 == HistoryEntry("update", steps[1], FALSE)
             e2 == HistoryEntry("download", steps[2], FALSE)
  <2>1. /\ pc = "dispatch" /\ pc' = "solving" /\ ip <= Len(cmds) /\ ip' = ip
        /\ cmds[ip] = "APT" /\ cmdIndex' = cmdIndex + 3
        /\ inv'.steps[3] = cmdIndex + 3
    BY SMTT(30), <1>7 DEF PackageStart, Current, NewPackageInvocation
  <2>1h. history' = history \o << e1, e2 >>
    BY SMTT(30), <1>7 DEF PackageStart
  <2>2. steps[1] = Len(history) - BaseLayers + 2 /\ steps[2] = Len(history) - BaseLayers + 3
        /\ steps[1] \in Nat /\ steps[2] \in Nat
    <3>1. pc \notin {"solving", "failed"}
      BY SMTT(30), <2>1
    <3>2. Len(history) = BaseLayers + cmdIndex - 1
      BY <1>0, <3>1
    <3> QED BY SMTT(30), <1>0, <3>2 DEF NewPackageInvocation
  <2>3. /\ e1 \in HistoryRec /\ e1.step = Len(history) - BaseLayers + 2
        /\ e2 \in HistoryRec /\ e2.step = Len(history) - BaseLayers + 3
    <3>1. "update" \in Labels /\ "download" \in Labels /\ FALSE \in BOOLEAN
      BY DEF Labels
    <3> QED BY ZenonT(30), <2>2, <3>1, HistoryEntryRec
  <2>4. /\ history' \in Seq(HistoryRec) /\ Len(history') = Len(history) + 2
    BY ZenonT(30), <1>0, <2>1h, <2>3, ConcatPair
  <2>4a. Len(history') = Len(history) + 2
    BY <2>4
  <2>5. Numbered(history')
    BY ZenonT(30), <1>0, <1>0b, <2>1h, <2>3, NumberedPair
  <2>6. StepPost
    <3>1. pc \notin {"solving", "failed"}
      BY <2>1
    <3>2. cmdIndex = ip + 2 * Cardinality(AptBefore(ip)) /\ Len(history) = BaseLayers + cmdIndex - 1
      BY <1>0, <3>1
    <3>3. ip' \in 1..(Len(cmds) + 1) /\ ip' <= Len(cmds) /\ cmds[ip'] = "APT"
      BY SMTT(30), <1>0, <2>1
    <3>4. pc' \in {"solving", "failed"} /\ pc' # "done" /\ inv'.steps[3] = cmdIndex'
      BY SMTT(30), <2>1
    <3>5. cmdIndex' = ip' + 2 * Cardinality(AptBefore(ip')) + 3
      BY SMTT(30), <1>0, <2>1, <3>2
    <3>6a. cmdIndex' = cmdIndex + 3
      BY SMTT(30), <2>1
    <3>6. Len(history') = BaseLayers + cmdIndex' - 2
      BY SMTT(60), <1>0a, <3>6a, <2>4a, <3>2
    <3> QED BY <2>4, <3>3, <3>4, <3>5, <3>6 DEF StepPost
  <2> QED BY <2>5, <2>6, <1>4
<1>8. CASE PackageSolveFailed \/ PackageParseFailed
  <2>1. pc = "solving" /\ pc' = "failed"
        /\ ip' = ip /\ history' = history /\ cmdIndex' = cmdIndex /\ inv' = inv
    BY <1>8 DEF PackageSolveFailed, PackageParseFailed
  <2>2. StepPost
    BY SMTT(30), <1>0, <2>1 DEF StepPost
  <2>3. Numbered(history')
    BY <1>0b, <2>1, Zenon
  <2> QED BY <2>2, <2>3, <1>4
<1>9. CASE PackageInstall
  <2>1. /\ pc = "solving" /\ pc' = "dispatch" /\ ip' = ip + 1
        /\ cmdIndex' = cmdIndex
    BY SMTT(30), <1>9 DEF PackageInstall
  <2>1h. history' = Append(history, HistoryEntry("install", inv.steps[3], TRUE))
    BY SMTT(30), <1>9 DEF PackageInstall
  <2>2. ip <= Len(cmds) /\ cmds[ip] = "APT" /\ inv.steps[3] = cmdIndex
    BY SMTT(30), <1>0, <2>1
  <2>3. Cardinality(AptBefore(ip')) = Cardinality(AptBefore(ip)) + 1
    <3>1. Cardinality(AptBefore(ip + 1)) = Cardinality(AptBefore(ip)) + 1
      BY SMTT(30), <1>0, <2>2, AptBeforeNext
    <3> QED BY SMTT(30), <3>1, <2>1
  <2>0. /\ cmdIndex = ip + 2 * Cardinality(AptBefore(ip)) + 3
        /\ Len(history) = BaseLayers + cmdIndex - 2
    <3>1. pc \in {"solving", "failed"}
      BY SMTT(30), <2>1
    <3> QED BY SMTT(30), <1>0, <3>1
  <2>4. inv.steps[3] = Len(history) - BaseLayers + 2
    BY SMTT(30), <1>0, <2>0, <2>2
  <2>5. /\ history' \in Seq(HistoryRec) /\ Numbered(history')
        /\ Len(history') = Len(history) + 1
    BY ZenonT(30), <2>1h, <2>4, <1>5 DEF Labels
  <2>7. history' \in Seq(HistoryRec) /\ Len(history') = Len(history) + 1
    BY <2>5
  <2>8. Numbered(history')
    BY <2>5
  <2>6. StepPost
    <3>1. ip' \in 1..(Len(cmds) + 1)
      BY SMTT(30), <1>0, <2>1, <2>2
    <3>2. pc' \notin {"solving", "failed"} /\ pc' # "done"
      BY <2>1
    <3>3a. ip' = ip + 1 /\ cmdIndex' = cmdIndex
      BY SMTT(30), <2>1
    <3>3c. cmdIndex' = ip' + 2 * Cardinality(AptBefore(ip)) + 2
      BY SMTT(30), <1>0a, <2>0, <3>3a
    <3>3d. ip' \in Nat /\ Cardinality(AptBefore(ip')) \in Nat
      BY SMTT(30), <1>0a, <3>3a, AptBeforeFinite
    <3>3. cmdIndex' = ip' + 2 * Cardinality(AptBefore(ip'))
      BY SMTT(30), <1>0a, <3>3c, <3>3d, <2>3
    <3>4a. Len(history') = Len(history) + 1
      BY <2>7
    <3>4. Len(history') = BaseLayers + cmdIndex' - 1
      BY SMTT(30), <1>0a, <2>0, <3>3a, <3>4a
    <3> QED BY SMTT(30), <2>7, <3>1, <3>2, <3>3, <3>4 DEF StepPost
  <2> QED BY <2>8, <2>6, <1>4
<1>10. CASE StageDone
  <2>1. pc = "dispatch" /\ pc' = "done" /\ ip > Len(cmds)
        /\ ip' = ip /\ history' = history /\ cmdIndex' = cmdIndex /\ inv' = inv
    BY <1>10 DEF StageDone
  <2>2. StepPost
    BY SMTT(30), <1>0, <2>1 DEF StepPost
  <2>3. Numbered(history')
    BY <1>0b, <2>1, Zenon
  <2> QED BY <2>2, <2>3, <1>4
<1>11. CASE Terminated \/ UNCHANGED vars
  <2>1. pc' = pc /\ ip' = ip /\ history' = history /\ cmdIndex' = cmdIndex /\ inv' = inv
    BY SMTT(30), <1>11 DEF Terminated, vars
  <2>2. StepPost
    BY SMTT(30), <1>0, <2>1 DEF StepPost
  <2>3. Numbered(history')
    BY <1>0b, <2>1, Zenon
  <2> QED BY <2>2, <2>3, <1>4
<1> QED BY SMTT(30), <1>6, <1>7, <1>8, <1>9, <1>10, <1>11 DEF Next


(* The step numbers in the history never pass the number cmdIndex has     *)
(* reached: one below it while an ADD --apt is in flight (its install      *)
(* entry is still to come), cmdIndex itself otherwise.                     *)
LEMMA StepInvBound ==
  ASSUME StepInv
  PROVE  /\ Len(history) - BaseLayers + 1 <= cmdTotal
         /\ cmdTotal \in Nat
         /\ pc = "done" => cmdIndex = cmdTotal
<1>0. /\ cmds \in Seq(Commands) /\ ip \in 1..(Len(cmds) + 1)
      /\ cmdTotal = StepTotal(cmds) /\ cmdTotal \in Nat
      /\ Cardinality(AptBefore(ip)) \in Nat /\ Len(history) \in Nat
  BY SMTT(30), StepTotalType, AptBeforeFinite DEF StepInv
<1>0b. BaseLayers \in Nat /\ Cardinality(AptBefore(ip + 1)) \in Nat
       /\ Cardinality(AptBefore(Len(cmds) + 1)) \in Nat
  <2>1. ip + 1 \in Int /\ Len(cmds) + 1 \in Int
    BY <1>0
  <2>2. Cardinality(AptBefore(ip + 1)) \in Nat
    BY SMTT(30), <2>1, AptBeforeFinite
  <2>3. Cardinality(AptBefore(Len(cmds) + 1)) \in Nat
    BY SMTT(30), <2>1, AptBeforeFinite
  <2> QED BY SMTT(30), <2>2, <2>3, BaseLayersAssumption
<1>1. CASE InPackage
  <2>1. /\ ip <= Len(cmds) /\ cmds[ip] = "APT"
        /\ cmdIndex = ip + 2 * Cardinality(AptBefore(ip)) + 3
        /\ Len(history) = BaseLayers + cmdIndex - 2
    BY SMTT(30), <1>1 DEF StepInv
  <2>2. Cardinality(AptBefore(ip + 1)) = Cardinality(AptBefore(ip)) + 1
    BY SMTT(60), <1>0, <2>1, AptBeforeNext
  <2>3. (ip + 1) + 2 * Cardinality(AptBefore(ip + 1)) <= StepTotal(cmds)
    BY <1>0, <2>1, StepsWithinTotal
  <2>4. pc # "done"
    BY <1>1 DEF InPackage
  <2>5a. /\ ip \in Nat /\ Len(history) \in Nat /\ cmdTotal = StepTotal(cmds)
         /\ Cardinality(AptBefore(ip)) \in Nat /\ cmdTotal \in Nat /\ StepTotal(cmds) \in Nat
    BY <1>0
  <2>5b. cmdIndex \in Nat
    BY SMTT(30), <2>5a, <2>1
  <2>5. Len(history) - BaseLayers + 1 <= cmdTotal
    <3>1. /\ cmdIndex = ip + 2 * Cardinality(AptBefore(ip)) + 3
          /\ Len(history) = BaseLayers + cmdIndex - 2
          /\ BaseLayers \in Nat /\ Cardinality(AptBefore(ip + 1)) \in Nat
      BY <2>1, <1>0b
    <3>3. Len(history) - BaseLayers + 1 <= StepTotal(cmds)
      BY <2>5a, <2>5b, <3>1, <2>2, <2>3, SMTT(60)
    <3> QED BY <3>3, <2>5a
  <2> QED BY <1>0, <2>4, <2>5
<1>2. CASE ~InPackage
  <2>0. /\ (IF InPackage THEN 3 ELSE 0) = 0
        /\ (IF InPackage THEN 2 ELSE 1) = 1
    BY <1>2, Zenon
  <2>1. /\ cmdIndex = ip + 2 * Cardinality(AptBefore(ip))
        /\ Len(history) = BaseLayers + cmdIndex - 1
        /\ pc = "done" => ip = Len(cmds) + 1
    BY SMTT(60), <1>0, <1>0b, <2>0 DEF StepInv
  <2>2. ip + 2 * Cardinality(AptBefore(ip)) <= StepTotal(cmds)
    BY <1>0, StepsWithinTotal
  <2>3. StepTotal(cmds) = (Len(cmds) + 1) + 2 * Cardinality(AptBefore(Len(cmds) + 1))
    BY <1>0 DEF StepTotal, PackageStepCount, AptBefore
  <2>4. pc = "done" => cmdIndex = StepTotal(cmds)
    BY <1>0, <1>0b, <2>1, <2>3
  <2> QED BY <1>0, <1>0b, <2>1, <2>2, <2>4, SMTT(60)
<1> QED BY SMTT(30), <1>1, <1>2

(* The numbering of history entries follows from StepInv: the base layers  *)
(* carry step 0, the stage's entries 2, 3, ... in order, none past the     *)
(* announced total.                                                        *)
LEMMA StepInvNumbering == StepInv => StepNumbering
<1> SUFFICES ASSUME StepInv PROVE StepNumbering
  OBVIOUS
<1>1. /\ Len(history) - BaseLayers + 1 <= cmdTotal /\ cmdTotal \in Nat
      /\ pc = "done" => cmdIndex = cmdTotal
  BY StepInvBound
<1>2. /\ history \in Seq(HistoryRec) /\ Numbered(history)
      /\ BaseLayers \in Nat
  BY BaseLayersAssumption DEF StepInv
<1>3. \A k \in 1..(Len(history) - BaseLayers) : history[BaseLayers + k].step = k + 1
  BY <1>2 DEF Numbered
<1>4. \A k \in 1..BaseLayers : history[k].step = 0
  BY <1>2 DEF Numbered
<1>5. \A k \in 1..Len(history) : history[k].step <= cmdTotal
  <2> TAKE k \in 1..Len(history)
  <2>1. CASE k <= BaseLayers
    BY SMTT(30), <1>1, <1>2, <1>4, <2>1
  <2>2. CASE k > BaseLayers
    <3>1. k - BaseLayers \in 1..(Len(history) - BaseLayers) /\ BaseLayers + (k - BaseLayers) = k
      BY <1>2, <2>2
    <3>2. history[k].step = k - BaseLayers + 1
      BY <3>1, <1>3
    <3> QED BY <1>1, <1>2, <3>2
  <2> QED BY <1>2, <2>1, <2>2
<1> QED BY <1>1, <1>3, <1>5 DEF StepNumbering

(* The stage's history entries carry the step numbers the dispatcher       *)
(* announces, in order and within [i/total], and a finished stage has used *)
(* exactly cmdTotal steps (convert_package.go NewPackageInvocation, Solve, *)
(* ReadFile; the cmdIndex bookkeeping of the dispatcher).                  *)
THEOREM StepsNumbered == Spec => []StepNumbering
<1>1. Init => IInv /\ StepInv
  BY InitIInv, InitStepInv
<1>2. IInv /\ StepInv /\ [Next]_vars => (IInv /\ StepInv)'
  BY NextIInv, NextStepInv
<1>3. IInv /\ StepInv => StepNumbering
  BY StepInvNumbering
<1> QED BY <1>1, <1>2, <1>3, PTL DEF Spec

=============================================================================
