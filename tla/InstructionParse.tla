-------------------------- MODULE InstructionParse --------------------------
(***************************************************************************)
(* The instruction parser (src/tests/Dockerfile.pre, which is              *)
(* instructions/parse.go) and the RUN --network hooks (src/dockerfile/     *)
(* go.mod, which is instructions/commands_runnetwork.go).                  *)
(*                                                                         *)
(* Parse walks the AST's children in order, one step per node: it turns    *)
(* the node into a typed instruction (ParseInstructionWithLinter), keeps   *)
(* ARGs met before any FROM as meta-ARGs, opens a stage at each FROM, and  *)
(* adds every other command to the current stage.  Any error returns nil   *)
(* results.  A node is a record of its keyword, its positional arguments  *)
(* (words of a small set) and its flags (name and value, in order).  The   *)
(* parser handles FROM, ARG, ADD and RUN here; the other keywords go       *)
(* through the same flag parser into the same stage commands as ADD does.  *)
(***************************************************************************)
EXTENDS Naturals, Sequences, FiniteSets

CONSTANTS
  Dockerfiles,     \* the ASTs the run parses: sequences of nodes
  Words,           \* the words arguments are made of
  Lower,           \* strings.ToLower on Words
  ValidStageName,  \* the lowercase words matching ^[a-z][a-z0-9-_.]*$
  NoValue          \* the value of a flag written without "="

(* The keywords modelled, and the shape of an AST child.                   *)
Keywords == {"FROM", "ARG", "ADD", "RUN"}
Node == [cmd : Keywords, args : Seq(Words),
         flags : Seq([name : STRING, value : STRING \cup {NoValue}])]

ASSUME DockerfilesAssumption == Dockerfiles \subseteq Seq(Node)

VARIABLES
  ast,       \* the AST's children
  i,         \* the index of the node the loop is at
  stages,    \* the stages parsed so far, each with its commands
  metaArgs,  \* the ARGs met before the first FROM
  status     \* "parsing", then "done" or "error"

vars == <<ast, i, stages, metaArgs, status>>

(* A command: its kind, the node it came from, and the values the         *)
(* properties read (PackageNames of a Package, the network mode of a RUN). *)
Command(kind, line, names, network) ==
  [kind |-> kind, line |-> line, names |-> names, network |-> network]

Err == [ok |-> FALSE, cmd |-> Command("", 0, <<>>, "")]
Ok(c) == [ok |-> TRUE, cmd |-> c]

(***************************************************************************)
(* BFlags.Parse (instructions/bflag.go, not under src/): a flag that was   *)
(* not registered, a non-strings flag given twice, a bool flag with a      *)
(* value other than true/false, or a string flag without "=" is an error.  *)
(* A bool flag written without a value is "true".                          *)
(***************************************************************************)
BoolFlags == {"link", "keep-git-dir", "unpack", "apt"}

FlagError(registered, given) ==
  \E k \in 1..Len(given) :
    \/ given[k].name \notin registered
    \/ \E l \in 1..(k - 1) : given[l].name = given[k].name
    \/ given[k].name \in BoolFlags /\ given[k].value \notin {NoValue, "true", "false"}
    \/ given[k].name \notin BoolFlags /\ given[k].value = NoValue

FlagValue(given, name, default) ==
  IF \E k \in 1..Len(given) : given[k].name = name
  THEN LET v == given[CHOOSE k \in 1..Len(given) : given[k].name = name].value
       IN IF v = NoValue THEN "true" ELSE v
  ELSE default

(* parseBuildStageName: one argument, or three with "as" in the middle     *)
(* (any case) and a name that lowercases to a valid stage name.            *)
StageNameOK(args) ==
  IF Len(args) = 3 /\ Lower[args[2]] = "as"
  THEN Lower[args[3]] \in ValidStageName
  ELSE Len(args) = 1

(* parseFrom: the stage name first, then the --platform flag.              *)
ParseFrom(n, k) ==
  IF ~StageNameOK(n.args) \/ FlagError({"platform"}, n.flags) THEN Err
  ELSE Ok(Command("STAGE", k, <<>>, ""))

(* parseArg never parses the flag set; it needs one argument.              *)
ParseArg(n, k) ==
  IF Len(n.args) < 1 THEN Err ELSE Ok(Command("ARG", k, <<>>, ""))

AddFlags == {"chown", "chmod", "link", "keep-git-dir", "checksum", "unpack", "apt"}

(* Mutant: the destination check made before the --apt branch.            *)
ParseAddCountFirst(n, k) ==
  IF FlagError(AddFlags, n.flags) \/ Len(n.args) < 2 THEN Err
  ELSE IF FlagValue(n.flags, "apt", "false") = "true"
       THEN Ok(Command("PACKAGE", k, n.args, ""))
       ELSE Ok(Command("ADD", k, <<>>, ""))

(* parseAdd: flags, then --apt yields a PackageCommand of all the          *)
(* arguments, before the check that there is a destination.                *)
ParseAdd(n, k) ==
  IF FlagError(AddFlags, n.flags) THEN Err
  ELSE IF FlagValue(n.flags, "apt", "false") = "true"
       THEN Ok(Command("PACKAGE", k, n.args, ""))
  ELSE IF Len(n.args) < 2 THEN Err
  ELSE Ok(Command("ADD", k, <<>>, ""))

(* allowedNetwork and isValidNetwork.                                      *)
AllowedNetwork == {"default", "none", "host"}

(* Mutant: the pre-hook registering --network with an empty default.       *)
RunNetworkPreHookEmpty == ""

(* runNetworkPreHook registers --network with default NetworkDefault.      *)
RunNetworkPreHook == "default"

(* runNetworkPostHook: the mode the pre-hook's flag holds must be allowed. *)
RunNetworkPostHook(n) ==
  FlagValue(n.flags, "network", RunNetworkPreHook) \in AllowedNetwork

(* parseRun: the pre-hooks, the flags, then the post-hooks.                *)
ParseRun(n, k) ==
  IF FlagError({"network"}, n.flags) \/ ~RunNetworkPostHook(n) THEN Err
  ELSE Ok(Command("RUN", k, <<>>, FlagValue(n.flags, "network", RunNetworkPreHook)))

(* ParseInstructionWithLinter: dispatch on the node's keyword.             *)
ParseInstruction(n, k) ==
  CASE n.cmd = "FROM" -> ParseFrom(n, k)
    [] n.cmd = "ARG"  -> ParseArg(n, k)
    [] n.cmd = "ADD"  -> ParseAdd(n, k)
    [] n.cmd = "RUN"  -> ParseRun(n, k)

Parsed(k) == ParseInstruction(ast[k], k)

-----------------------------------------------------------------------------
(* The loop of Parse.                                                      *)

Init ==
  /\ ast \in Dockerfiles
  /\ i = 1
  /\ stages = <<>>
  /\ metaArgs = <<>>
  /\ status = "parsing"

Parsing == status = "parsing" /\ i \in 1..Len(ast)

(* An instruction fails to parse: Parse returns nil, nil and the error.    *)
ParseFailed ==
  /\ Parsing /\ ~Parsed(i).ok
  /\ status' = "error" /\ stages' = <<>> /\ metaArgs' = <<>>
  /\ UNCHANGED <<ast, i>>

(* Mutant: the isArg type assertion dropped, any command before a FROM     *)
(* taken as a meta-ARG.                                                    *)
ParseMetaArgAnyKind ==
  /\ Parsing /\ Parsed(i).ok /\ stages = <<>> /\ Parsed(i).cmd.kind # "STAGE"
  /\ metaArgs' = Append(metaArgs, Parsed(i).cmd)
  /\ i' = i + 1
  /\ UNCHANGED <<ast, stages, status>>

(* Mutant: every ARG taken as a meta-ARG, before or after a FROM.          *)
ParseMetaArgAnywhere ==
  /\ Parsing /\ Parsed(i).ok /\ Parsed(i).cmd.kind = "ARG"
  /\ metaArgs' = Append(metaArgs, Parsed(i).cmd)
  /\ i' = i + 1
  /\ UNCHANGED <<ast, stages, status>>

(* No stage yet and the instruction is an ARG: a meta-ARG.                 *)
ParseMetaArg ==
  /\ Parsing /\ Parsed(i).ok /\ stages = <<>> /\ Parsed(i).cmd.kind = "ARG"
  /\ metaArgs' = Append(metaArgs, Parsed(i).cmd)
  /\ i' = i + 1
  /\ UNCHANGED <<ast, stages, status>>

(* A FROM opens a new stage with no commands.                              *)
ParseStage ==
  /\ Parsing /\ Parsed(i).ok /\ Parsed(i).cmd.kind = "STAGE"
  /\ stages' = Append(stages, [line |-> i, cmds |-> <<>>])
  /\ i' = i + 1
  /\ UNCHANGED <<ast, metaArgs, status>>

IsMetaArg == stages = <<>> /\ Parsed(i).cmd.kind = "ARG"

(* Any other command goes to CurrentStage, the last stage.                 *)
ParseCommand ==
  /\ Parsing /\ Parsed(i).ok /\ Parsed(i).cmd.kind # "STAGE" /\ ~IsMetaArg
  /\ stages # <<>>
  /\ stages' = [stages EXCEPT ![Len(stages)] =
                   [line |-> @.line, cmds |-> Append(@.cmds, Parsed(i).cmd)]]
  /\ i' = i + 1
  /\ UNCHANGED <<ast, metaArgs, status>>

(* CurrentStage finds no stage: the command came before every FROM.        *)
ParseNoStage ==
  /\ Parsing /\ Parsed(i).ok /\ Parsed(i).cmd.kind # "STAGE" /\ ~IsMetaArg
  /\ stages = <<>>
  /\ status' = "error" /\ metaArgs' = <<>>
  /\ UNCHANGED <<ast, i, stages>>

(* Every child parsed: Parse returns the stages and meta-ARGs.             *)
ParseDone ==
  /\ status = "parsing" /\ i > Len(ast)
  /\ status' = "done"
  /\ UNCHANGED <<ast, i, stages, metaArgs>>

(* Parse has returned.                                                     *)
Returned == status # "parsing" /\ UNCHANGED vars

Next ==
  \/ ParseFailed \/ ParseMetaArg \/ ParseStage \/ ParseCommand
  \/ ParseNoStage \/ ParseDone \/ Returned

Spec == Init /\ [][Next]_vars

-----------------------------------------------------------------------------
(* Properties.                                                             *)

Status == {"parsing", "done", "error"}

TypeOK ==
  /\ ast \in Dockerfiles
  /\ i \in 1..(Len(ast) + 1)
  /\ status \in Status
  /\ \A s \in 1..Len(stages) : \A c \in 1..Len(stages[s].cmds) :
       stages[s].cmds[c].kind \in {"ARG", "ADD", "PACKAGE", "RUN"}
  /\ \A m \in 1..Len(metaArgs) : metaArgs[m].kind = "ARG"

(* Reference: what Parse returns, in closed form from the instructions.    *)
FromLines == {k \in 1..Len(ast) : ast[k].cmd = "FROM"}
FirstFrom == IF FromLines = {} THEN Len(ast) + 1
             ELSE CHOOSE k \in FromLines : \A l \in FromLines : k <= l
NthFrom(j) == CHOOSE k \in FromLines : Cardinality({l \in FromLines : l <= k}) = j
NextFrom(j) == IF j < Cardinality(FromLines) THEN NthFrom(j + 1) ELSE Len(ast) + 1
Misplaced(k) == k < FirstFrom /\ ast[k].cmd \notin {"ARG", "FROM"}
RefError == \E k \in 1..Len(ast) : ~Parsed(k).ok \/ Misplaced(k)
RefMeta == [k \in 1..(FirstFrom - 1) |-> Parsed(k).cmd]
RefStages ==
  [j \in 1..Cardinality(FromLines) |->
     [line |-> NthFrom(j),
      cmds |-> [m \in 1..(NextFrom(j) - NthFrom(j) - 1) |-> Parsed(NthFrom(j) + m).cmd]]]

(* Parse returns an error exactly when some instruction fails to parse or  *)
(* a command other than ARG comes before the first FROM, and then no       *)
(* partial result; otherwise the meta-ARGs are exactly the ARGs before the *)
(* first FROM, and each FROM's stage holds exactly the commands up to the  *)
(* next FROM, in source order.                                             *)
ParseMatchesReference ==
  /\ status = "done" =>
       ~RefError /\ metaArgs = RefMeta /\ stages = RefStages
  /\ status = "error" => RefError /\ stages = <<>> /\ metaArgs = <<>>

(* The commands in the stages parsed so far.                              *)
StageCommands ==
  UNION {{stages[s].cmds[c] : c \in 1..Len(stages[s].cmds)} : s \in 1..Len(stages)}

(* An ADD whose --apt is set (bare or =true) and whose flags are well      *)
(* formed.                                                                 *)
AptNode(n) ==
  /\ n.cmd = "ADD"
  /\ \E k \in 1..Len(n.flags) : n.flags[k].name = "apt" /\ n.flags[k].value \in {NoValue, "true"}
  /\ ~FlagError(AddFlags, n.flags)

(* Spec 4.A: ADD with --apt yields the Package instruction, with every     *)
(* argument a package name, whatever its argument count and other flags:  *)
(* it only fails Parse when no FROM comes before it.                      *)
AptYieldsPackage ==
  /\ status = "error" /\ i <= Len(ast) /\ AptNode(ast[i]) =>
       \A k \in 1..i : ast[k].cmd # "FROM"
  /\ \A c \in StageCommands :
       AptNode(ast[c.line]) => c.kind = "PACKAGE" /\ c.names = ast[c.line].args

(* A RUN whose flags are well formed and whose --network, if given, names *)
(* an allowed mode.                                                        *)
RunNode(n) ==
  /\ n.cmd = "RUN"
  /\ ~FlagError({"network"}, n.flags)
  /\ FlagValue(n.flags, "network", "default") \in AllowedNetwork

(* The network mode travels from parseRun's pre-hook, across the flag     *)
(* parse, to its post-hook: a RUN with an allowed mode, or with no         *)
(* --network at all, makes Parse fail only when no FROM comes before it,   *)
(* and every RUN the parser returns carries an allowed mode, the value of  *)
(* its own --network flag or "default" when the flag is not given.        *)
RunNetworkMode ==
  /\ status = "error" /\ i <= Len(ast) /\ RunNode(ast[i]) =>
       \A k \in 1..i : ast[k].cmd # "FROM"
  /\ \A c \in StageCommands :
       c.kind = "RUN" =>
         /\ c.network \in AllowedNetwork
         /\ c.network = FlagValue(ast[c.line].flags, "network", "default")

=============================================================================
