----------------------- MODULE InstructionParseProofs -----------------------
(***************************************************************************)
(* Proofs about the Parse loop of InstructionParse, for every Dockerfile:  *)
(* what each instruction parser returns, the loop invariant of Parse, and  *)
(* the properties the parse_dockerfiles run checks.                        *)
(***************************************************************************)
EXTENDS InstructionParse, SequenceTheorems, TLAPS

USE DockerfilesAssumption

(***************************************************************************)
(* What ParseInstructionWithLinter returns on success.                     *)
(***************************************************************************)

(* A successful parse yields a command of the node's line whose kind       *)
(* follows the keyword: STAGE exactly for FROM, ARG exactly for ARG.       *)
LEMMA ParsedKind ==
  ASSUME NEW n \in Node, NEW k, ParseInstruction(n, k).ok
  PROVE  LET c == ParseInstruction(n, k).cmd IN
         /\ c.line = k
         /\ c.kind \in {"STAGE", "ARG", "ADD", "PACKAGE", "RUN"}
         /\ c.kind = "STAGE" <=> n.cmd = "FROM"
         /\ c.kind = "ARG" <=> n.cmd = "ARG"
BY DEF Node, Keywords, ParseInstruction, ParseFrom, ParseArg, ParseAdd,
       ParseRun, Err, Ok, Command

(* A successful RUN carries the allowed network mode its flag gave.        *)
LEMMA ParsedRun ==
  ASSUME NEW n \in Node, NEW k, ParseInstruction(n, k).ok,
         ParseInstruction(n, k).cmd.kind = "RUN"
  PROVE  /\ ParseInstruction(n, k).cmd.network \in AllowedNetwork
         /\ ParseInstruction(n, k).cmd.network = FlagValue(n.flags, "network", "default")
BY ZenonT(30) DEF Node, Keywords, ParseInstruction, ParseFrom, ParseArg, ParseAdd,
       ParseRun, RunNetworkPostHook, RunNetworkPreHook, Err, Ok, Command

(* A RUN with well-formed flags and an allowed or absent --network        *)
(* parses.                                                                 *)
LEMMA ParsedRunNode ==
  ASSUME NEW n \in Node, NEW k, RunNode(n)
  PROVE  ParseInstruction(n, k).ok
BY ZenonT(30) DEF RunNode, ParseInstruction, ParseRun, RunNetworkPostHook,
       RunNetworkPreHook, Ok

(* An ADD with --apt set and well-formed flags parses, to a Package of all *)
(* its arguments.                                                          *)
LEMMA ParsedApt ==
  ASSUME NEW n \in Node, NEW k, AptNode(n)
  PROVE  /\ ParseInstruction(n, k).ok
         /\ ParseInstruction(n, k).cmd.kind = "PACKAGE"
         /\ ParseInstruction(n, k).cmd.names = n.args
<1>1. FlagValue(n.flags, "apt", "false") = "true"
  <2>1. PICK j \in 1..Len(n.flags) :
          n.flags[j].name = "apt" /\ n.flags[j].value \in {NoValue, "true"}
    BY DEF AptNode
  <2>2. \A l \in 1..Len(n.flags) : n.flags[l].name = "apt" => l = j
    <3> SUFFICES ASSUME NEW l \in 1..Len(n.flags), n.flags[l].name = "apt", l # j
                 PROVE FALSE
      OBVIOUS
    <3>1. l < j \/ j < l
      OBVIOUS
    <3> QED BY <2>1, <3>1, ~FlagError(AddFlags, n.flags) DEF AptNode, FlagError
  <2> QED BY <2>1, <2>2 DEF FlagValue
<1> QED BY ZenonT(30), <1>1 DEF AptNode, ParseInstruction, ParseAdd, Ok, Command

(***************************************************************************)
(* The loop invariant of Parse.                                            *)
(***************************************************************************)

(* The commands the instructions of the AST parse to.                      *)
CmdsOf == {Parsed(k).cmd : k \in 1..Len(ast)}

StageRec == [line : Nat, cmds : Seq(CmdsOf)]

(* No FROM among the first m children.                                     *)
NoFromIn(m) == \A k \in 1..m : ast[k].cmd # "FROM"

(* Every command in a stage is what its own line parsed to, and not a      *)
(* stage header.                                                           *)
CmdsParsed ==
  \A s \in 1..Len(stages) : \A c \in 1..Len(stages[s].cmds) :
    /\ stages[s].cmds[c].line \in 1..Len(ast)
    /\ Parsed(stages[s].cmds[c].line).ok
    /\ stages[s].cmds[c] = Parsed(stages[s].cmds[c].line).cmd
    /\ stages[s].cmds[c].kind # "STAGE"

InvType ==
  /\ ast \in Dockerfiles
  /\ i \in 1..(Len(ast) + 1)
  /\ status \in Status
  /\ stages \in Seq(StageRec)
  /\ metaArgs \in Seq(CmdsOf)

MetaArgsOK == \A m \in 1..Len(metaArgs) : metaArgs[m].kind = "ARG"

(* While no stage is open, no FROM has been met.                           *)
NoStageYet == status = "parsing" /\ stages = <<>> => NoFromIn(i - 1)

(* Parse stops at a child that failed, or at a command with no FROM        *)
(* before it.                                                              *)
ErrorAt == status = "error" => i \in 1..Len(ast) /\ (~Parsed(i).ok \/ NoFromIn(i))

LoopInv == InvType /\ CmdsParsed /\ MetaArgsOK /\ NoStageYet /\ ErrorAt

(* Parse starts with nothing parsed.                                       *)
LEMMA InitLoopInv == Init => LoopInv
<1> SUFFICES ASSUME Init PROVE LoopInv
  OBVIOUS
<1>1. ast \in Seq(Node) /\ Len(ast) \in Nat
  BY DEF Init
<1> QED BY <1>1, EmptySeq DEF Init, LoopInv, InvType, MetaArgsOK, NoStageYet, ErrorAt, Status, CmdsParsed, NoFromIn

(* One child of the AST parsed: it is a node, and its parse is one of the  *)
(* commands of the AST.                                                    *)
LEMMA ChildParsed ==
  ASSUME NEW a \in Seq(Node), NEW k \in 1..Len(a)
  PROVE  /\ a[k] \in Node
         /\ ParseInstruction(a[k], k).cmd \in {ParseInstruction(a[l], l).cmd : l \in 1..Len(a)}
BY ElementOfSeq

(* Every step of the loop keeps the invariant.                             *)
LEMMA NextLoopInv == LoopInv /\ [Next]_vars => LoopInv'
<1> SUFFICES ASSUME LoopInv, [Next]_vars PROVE LoopInv'
  OBVIOUS
<1>0. /\ ast \in Seq(Node)
      /\ Len(ast) \in Nat
      /\ \A k \in 1..Len(ast) : ast[k] \in Node /\ Parsed(k).cmd \in CmdsOf
  BY ChildParsed DEF LoopInv, InvType, CmdsOf, Parsed
<1>a. ast' = ast
  BY DEF Next, ParseFailed, ParseMetaArg, ParseStage, ParseCommand, ParseNoStage,
         ParseDone, Returned, vars
<1>b. /\ CmdsOf' = CmdsOf
      /\ StageRec' = StageRec
      /\ \A k : Parsed(k)' = Parsed(k)
      /\ \A m : NoFromIn(m)' = NoFromIn(m)
      /\ (ast \in Dockerfiles)'
  BY <1>a DEF CmdsOf, StageRec, Parsed, NoFromIn, LoopInv, InvType
<1>c. stages' = stages => CmdsParsed' = CmdsParsed
  BY <1>a DEF CmdsParsed, Parsed
<1> USE <1>0, <1>b DEF LoopInv
<1>1. CASE ParseFailed
  <2>1. i \in 1..Len(ast) /\ ~Parsed(i).ok /\ i' = i
    BY <1>1 DEF ParseFailed, Parsing
  <2>2. InvType'
    BY <1>1, <2>1, EmptySeq DEF ParseFailed, InvType, Status
  <2> QED BY <1>1, <2>1, <2>2 DEF ParseFailed, CmdsParsed, MetaArgsOK, NoStageYet, ErrorAt
<1>2. CASE ParseMetaArg
  <2>1. i \in 1..Len(ast) /\ Parsed(i).ok /\ Parsed(i).cmd.kind = "ARG"
    BY <1>2 DEF ParseMetaArg, Parsing
  <2>2. ast[i].cmd # "FROM"
    BY <2>1, ParsedKind DEF Parsed
  <2>3. /\ metaArgs' \in Seq(CmdsOf)
        /\ Len(metaArgs') = Len(metaArgs) + 1
        /\ \A m \in 1..Len(metaArgs) : metaArgs'[m] = metaArgs[m]
        /\ metaArgs'[Len(metaArgs) + 1] = Parsed(i).cmd
    BY <1>2, <2>1, AppendProperties DEF ParseMetaArg, InvType
  <2>4. InvType'
    BY <1>2, <2>1, <2>3 DEF ParseMetaArg, InvType
  <2>5. MetaArgsOK'
    BY SMTT(30), <2>1, <2>3 DEF MetaArgsOK
  <2>6. NoStageYet'
    BY <1>2, <2>1, <2>2 DEF ParseMetaArg, NoStageYet, NoFromIn
  <2>7. CmdsParsed' /\ ErrorAt'
    BY <1>2, <1>c DEF ParseMetaArg, Parsing, ErrorAt
  <2> QED BY <2>4, <2>5, <2>6, <2>7
<1>3. CASE ParseStage
  <2>1. i \in 1..Len(ast) /\ Parsed(i).ok
    BY <1>3 DEF ParseStage, Parsing
  <2>2. [line |-> i, cmds |-> << >>] \in StageRec
    BY <2>1, EmptySeq DEF StageRec
  <2>3. /\ stages' \in Seq(StageRec)
        /\ Len(stages') = Len(stages) + 1
        /\ \A s \in 1..Len(stages) : stages'[s] = stages[s]
        /\ stages'[Len(stages) + 1] = [line |-> i, cmds |-> << >>]
        /\ stages' # << >>
    BY <1>3, <2>2, AppendProperties DEF ParseStage, InvType
  <2>4. InvType'
    BY <1>3, <2>1, <2>3 DEF ParseStage, InvType
  <2>5. CmdsParsed'
    <3> SUFFICES ASSUME NEW s \in 1..Len(stages'), NEW c \in 1..Len(stages'[s].cmds)
                 PROVE  /\ stages'[s].cmds[c].line \in 1..Len(ast)
                        /\ Parsed(stages'[s].cmds[c].line).ok
                        /\ stages'[s].cmds[c] = Parsed(stages'[s].cmds[c].line).cmd
                        /\ stages'[s].cmds[c].kind # "STAGE"
      BY <1>a DEF CmdsParsed
    <3>1. s \in 1..Len(stages)
      BY <2>3, EmptySeq
    <3> QED BY SMTT(60), <3>1, <2>3 DEF CmdsParsed
  <2>6. MetaArgsOK' /\ NoStageYet' /\ ErrorAt'
    BY <1>3, <2>3 DEF ParseStage, Parsing, MetaArgsOK, NoStageYet, ErrorAt
  <2> QED BY <2>4, <2>5, <2>6
<1>4. CASE ParseCommand
  <2> DEFINE x == Parsed(i).cmd
             L == Len(stages)
             st == stages[L]
             ns == [line |-> st.line, cmds |-> Append(st.cmds, x)]
  <2>1. i \in 1..Len(ast) /\ Parsed(i).ok /\ x.kind # "STAGE" /\ x \in CmdsOf
    BY <1>4 DEF ParseCommand, Parsing
  <2>2. x.line = i
    BY <2>1, ParsedKind DEF Parsed
  <2>3. L \in Nat \ {0} /\ st \in StageRec
    BY <1>4, ElementOfSeq, EmptySeq DEF ParseCommand, InvType
  <2>4. ns \in StageRec
    BY <2>1, <2>3, AppendProperties DEF StageRec
  <2>5. stages' = [stages EXCEPT ![L] = ns]
    BY <1>4 DEF ParseCommand
  <2>6. /\ stages' \in Seq(StageRec)
        /\ Len(stages') = L
        /\ \A s \in 1..L : stages'[s] = IF s = L THEN ns ELSE stages[s]
    BY <2>3, <2>4, <2>5, ExceptSeq DEF InvType
  <2>7. /\ Len(ns.cmds) = Len(st.cmds) + 1
        /\ \A c \in 1..Len(st.cmds) : ns.cmds[c] = st.cmds[c]
        /\ ns.cmds[Len(st.cmds) + 1] = x
    BY <2>1, <2>3, AppendProperties DEF StageRec
  <2>8. CmdsParsed'
    <3> SUFFICES ASSUME NEW s \in 1..Len(stages'), NEW c \in 1..Len(stages'[s].cmds)
                 PROVE  /\ stages'[s].cmds[c].line \in 1..Len(ast)
                        /\ Parsed(stages'[s].cmds[c].line).ok
                        /\ stages'[s].cmds[c] = Parsed(stages'[s].cmds[c].line).cmd
                        /\ stages'[s].cmds[c].kind # "STAGE"
      BY <1>a DEF CmdsParsed
    <3>1. CASE s # L
      <4>1. stages'[s] = stages[s]
        BY <3>1, <2>6
      <4> QED BY <4>1, <2>6 DEF CmdsParsed
    <3>2. CASE s = L /\ c \in 1..Len(st.cmds)
      <4>1. stages'[s].cmds[c] = st.cmds[c]
        BY ZenonT(30), <3>2, <2>6, <2>7
      <4> QED BY SMTT(30), <4>1, <3>2, <2>3 DEF CmdsParsed
    <3>3. CASE s = L /\ c = Len(st.cmds) + 1
      <4>1. stages'[s].cmds[c] = x
        BY <3>3, <2>6, <2>7
      <4> QED BY <4>1, <2>1, <2>2
    <3>4. s = L => c \in 1..Len(st.cmds) \/ c = Len(st.cmds) + 1
      <4>1. Len(st.cmds) \in Nat
        BY <2>3, LenProperties DEF StageRec
      <4> QED BY <4>1, <2>6, <2>7
    <3> QED BY <3>1, <3>2, <3>3, <3>4
  <2>9. InvType'
    BY <1>4, <2>1, <2>6 DEF ParseCommand, Parsing, InvType
  <2>10. MetaArgsOK' /\ NoStageYet' /\ ErrorAt'
    BY <1>4, <2>3, <2>6 DEF ParseCommand, Parsing, MetaArgsOK, NoStageYet, ErrorAt
  <2> QED BY <2>8, <2>9, <2>10
<1>5. CASE ParseNoStage
  <2>1. i \in 1..Len(ast) /\ Parsed(i).ok /\ Parsed(i).cmd.kind # "STAGE"
    BY <1>5 DEF ParseNoStage, Parsing
  <2>2. ast[i].cmd # "FROM"
    BY <2>1, ParsedKind DEF Parsed
  <2>3. NoFromIn(i)
    BY <1>5, <2>1, <2>2 DEF ParseNoStage, Parsing, NoStageYet, NoFromIn
  <2>4. InvType'
    BY <1>5, <2>1, EmptySeq DEF ParseNoStage, InvType, Status
  <2> QED BY <1>5, <2>1, <2>3, <2>4
          DEF ParseNoStage, CmdsParsed, MetaArgsOK, NoStageYet, ErrorAt
<1>6. CASE ParseDone
  BY <1>6 DEF ParseDone, InvType, Status, CmdsParsed, MetaArgsOK, NoStageYet, ErrorAt
<1>7. CASE Returned \/ UNCHANGED vars
  BY SMTT(30), <1>7 DEF Returned, vars, InvType, CmdsParsed, MetaArgsOK, NoStageYet, ErrorAt
<1> QED BY <1>1, <1>2, <1>3, <1>4, <1>5, <1>6, <1>7 DEF Next

(* Every command in a parsed stage is what ParseInstruction returned for  *)
(* the child at its line.                                                  *)
LEMMA StageCmd ==
  ASSUME LoopInv, NEW c \in StageCommands
  PROVE  /\ c.line \in 1..Len(ast)
         /\ ast[c.line] \in Node
         /\ ParseInstruction(ast[c.line], c.line).ok
         /\ c = ParseInstruction(ast[c.line], c.line).cmd
         /\ c.kind # "STAGE"
<1>0. PICK s \in 1..Len(stages) : \E m \in 1..Len(stages[s].cmds) : c = stages[s].cmds[m]
  BY DEF StageCommands
<1>1. PICK m \in 1..Len(stages[s].cmds) : c = stages[s].cmds[m]
  BY <1>0
<1>2. /\ c.line \in 1..Len(ast)
      /\ Parsed(c.line).ok
      /\ c = Parsed(c.line).cmd
      /\ c.kind # "STAGE"
  BY <1>1 DEF LoopInv, CmdsParsed
<1>3. ast[c.line] \in Node
  BY <1>2, ChildParsed DEF LoopInv, InvType
<1> QED BY <1>2, <1>3 DEF Parsed

(* Parse's output is well typed: the stages hold only ARG, ADD, Package   *)
(* and RUN commands (a FROM only opens a stage), and the meta-ARGs only    *)
(* ARGs.                                                                   *)
THEOREM ParseTypeCorrect == Spec => []TypeOK
<1>1. LoopInv => TypeOK
  <2> SUFFICES ASSUME LoopInv PROVE TypeOK
    OBVIOUS
  <2>1. \A s \in 1..Len(stages) : \A c \in 1..Len(stages[s].cmds) :
          stages[s].cmds[c].kind \in {"ARG", "ADD", "PACKAGE", "RUN"}
    <3> SUFFICES ASSUME NEW s \in 1..Len(stages), NEW m \in 1..Len(stages[s].cmds)
                 PROVE  stages[s].cmds[m].kind \in {"ARG", "ADD", "PACKAGE", "RUN"}
      OBVIOUS
    <3> DEFINE c == stages[s].cmds[m]
    <3>1. c \in StageCommands
      BY DEF StageCommands
    <3>2. /\ ast[c.line] \in Node
          /\ ParseInstruction(ast[c.line], c.line).ok
          /\ c = ParseInstruction(ast[c.line], c.line).cmd
          /\ c.kind # "STAGE"
      BY <3>1, StageCmd
    <3> QED BY <3>2, ParsedKind
  <2> QED BY <2>1 DEF LoopInv, InvType, MetaArgsOK, TypeOK
<1> QED BY <1>1, InitLoopInv, NextLoopInv, PTL DEF Spec

(* A RUN with an allowed or absent --network makes Parse fail only when  *)
(* no FROM precedes it, and every RUN in Parse's stages carries the       *)
(* network mode its --network flag gave, "default" when absent, and one   *)
(* the post-hook allows.                                                   *)
THEOREM RunNetworkCorrect == Spec => []RunNetworkMode
<1>1. LoopInv => RunNetworkMode
  <2> SUFFICES ASSUME LoopInv PROVE RunNetworkMode
    OBVIOUS
  <2>1. status = "error" /\ i <= Len(ast) /\ RunNode(ast[i]) =>
          \A k \in 1..i : ast[k].cmd # "FROM"
    <3> SUFFICES ASSUME status = "error", RunNode(ast[i])
                 PROVE  NoFromIn(i)
      BY DEF NoFromIn
    <3>1. i \in 1..Len(ast) /\ (~Parsed(i).ok \/ NoFromIn(i))
      BY DEF LoopInv, ErrorAt
    <3>2. ast[i] \in Node
      BY <3>1, ChildParsed DEF LoopInv, InvType
    <3>3. Parsed(i).ok
      BY <3>2, ParsedRunNode DEF Parsed
    <3> QED BY <3>1, <3>3
  <2>2. \A c \in StageCommands :
          c.kind = "RUN" =>
            /\ c.network \in AllowedNetwork
            /\ c.network = FlagValue(ast[c.line].flags, "network", "default")
    <3> SUFFICES ASSUME NEW c \in StageCommands, c.kind = "RUN"
                 PROVE  /\ c.network \in AllowedNetwork
                        /\ c.network = FlagValue(ast[c.line].flags, "network", "default")
      OBVIOUS
    <3>1. /\ ast[c.line] \in Node
          /\ ParseInstruction(ast[c.line], c.line).ok
          /\ c = ParseInstruction(ast[c.line], c.line).cmd
      BY StageCmd
    <3> QED BY <3>1, ParsedRun
  <2> QED BY <2>1, <2>2 DEF RunNetworkMode
<1> QED BY <1>1, InitLoopInv, NextLoopInv, PTL DEF Spec

(* An ADD --apt with well-formed flags makes Parse fail only when no FROM *)
(* precedes it, and in a stage it is always a Package of all its          *)
(* arguments, whatever its other flags and argument count.                *)
THEOREM AptPackageCorrect == Spec => []AptYieldsPackage
<1>1. LoopInv => AptYieldsPackage
  <2> SUFFICES ASSUME LoopInv PROVE AptYieldsPackage
    OBVIOUS
  <2>1. status = "error" /\ i <= Len(ast) /\ AptNode(ast[i]) =>
          \A k \in 1..i : ast[k].cmd # "FROM"
    <3> SUFFICES ASSUME status = "error", AptNode(ast[i])
                 PROVE  NoFromIn(i)
      BY DEF NoFromIn
    <3>1. i \in 1..Len(ast) /\ (~Parsed(i).ok \/ NoFromIn(i))
      BY DEF LoopInv, ErrorAt
    <3>2. ast[i] \in Node
      BY <3>1, ChildParsed DEF LoopInv, InvType
    <3>3. Parsed(i).ok
      BY <3>2, ParsedApt DEF Parsed
    <3> QED BY <3>1, <3>3
  <2>2. \A c \in StageCommands :
          AptNode(ast[c.line]) => c.kind = "PACKAGE" /\ c.names = ast[c.line].args
    <3> SUFFICES ASSUME NEW c \in StageCommands, AptNode(ast[c.line])
                 PROVE  c.kind = "PACKAGE" /\ c.names = ast[c.line].args
      OBVIOUS
    <3>1. /\ ast[c.line] \in Node
          /\ c = ParseInstruction(ast[c.line], c.line).cmd
      BY StageCmd
    <3> QED BY <3>1, ParsedApt
  <2> QED BY <2>1, <2>2 DEF AptYieldsPackage
<1> QED BY <1>1, InitLoopInv, NextLoopInv, PTL DEF Spec

=============================================================================
