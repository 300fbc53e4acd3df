--------------------- MODULE InstructionParseReference ---------------------
(***************************************************************************)
(* Proof that the Parse loop of InstructionParse returns what the closed   *)
(* form reference says (ParseMatchesReference), for every Dockerfile.      *)
(*                                                                         *)
(* The loop invariant describes the state after the first i - 1 children  *)
(* without the reference's CHOOSE: the stages open exactly at the FROMs    *)
(* met so far, in order, each holding the commands from its FROM up to the *)
(* next one (or up to i for the last), and the meta-ARGs are the children  *)
(* before the first stage.                                                 *)
(***************************************************************************)
EXTENDS InstructionParseProofs, FiniteSetTheorems

(* Where the commands of stage s end: the next stage's FROM, or the child  *)
(* the loop is at.                                                         *)
StageEnd(s) == IF s < Len(stages) THEN stages[s + 1].line ELSE i

(* Where the meta-ARGs end: the first FROM, or the child the loop is at.   *)
MetaEnd == IF stages = <<>> THEN i ELSE stages[1].line

(* Every child before i parsed, and none of them is a command other than   *)
(* ARG with no FROM before it.                                             *)
PrefixOK ==
  \A k \in 1..(i - 1) : Parsed(k).ok /\ (NoFromIn(k) => ast[k].cmd = "ARG")

(* The stages open at FROM lines before i, in increasing order, one for    *)
(* every such FROM.                                                        *)
StageLines ==
  /\ \A s \in 1..Len(stages) :
       stages[s].line \in 1..(i - 1) /\ ast[stages[s].line].cmd = "FROM"
  /\ \A s, t \in 1..Len(stages) : s < t => stages[s].line < stages[t].line
  /\ \A k \in 1..(i - 1) :
       ast[k].cmd = "FROM" => \E s \in 1..Len(stages) : stages[s].line = k

(* Each stage holds the parses of the children after its FROM, up to its   *)
(* end.                                                                    *)
StageCmdsExact ==
  \A s \in 1..Len(stages) :
    stages[s].cmds = [m \in 1..(StageEnd(s) - stages[s].line - 1) |->
                        Parsed(stages[s].line + m).cmd]

MetaExact == metaArgs = [k \in 1..(MetaEnd - 1) |-> Parsed(k).cmd]

(* Parse stopped at a child that failed or at a command other than ARG     *)
(* with no FROM before it, and returned nothing.                           *)
ErrorExact ==
  /\ stages = <<>> /\ metaArgs = <<>>
  /\ i \in 1..Len(ast)
  /\ ~Parsed(i).ok \/ (NoFromIn(i) /\ ast[i].cmd # "ARG")

RefInv ==
  /\ LoopInv
  /\ status # "error" => PrefixOK /\ StageLines /\ StageCmdsExact /\ MetaExact
  /\ status = "error" => ErrorExact
  /\ status = "done" => i = Len(ast) + 1


-----------------------------------------------------------------------------
(* Lemmas on the reference's operators.                                    *)

(* FirstFrom is the smallest FROM line when there is one, and one past the *)
(* last child otherwise.                                                   *)
LEMMA FirstFromMin ==
  ASSUME ast \in Seq(Node)
  PROVE  /\ FromLines = {} => FirstFrom = Len(ast) + 1
         /\ FromLines # {} =>
              FirstFrom \in FromLines /\ \A l \in FromLines : FirstFrom <= l
<1>1. FromLines = {} => FirstFrom = Len(ast) + 1
  BY DEF FirstFrom
<1>2. ASSUME FromLines # {}
      PROVE  \E k \in FromLines : \A l \in FromLines : k <= l
  <2>1. FromLines \subseteq Nat
    BY DEF FromLines
  <2>2. \E x \in FromLines : \A y \in FromLines : ~(<<y, x>> \in OpToRel(<, Nat))
    BY ZenonT(30), <1>2, <2>1, NatLessThanWellFounded, WFMin
  <2>3. PICK x \in FromLines : \A y \in FromLines : ~(<<y, x>> \in OpToRel(<, Nat))
    BY ZenonT(30), <2>2
  <2>4. \A y \in FromLines : x <= y
    <3> SUFFICES ASSUME NEW y \in FromLines PROVE x <= y
      OBVIOUS
    <3>1. x \in Nat /\ y \in Nat
      BY <2>1
    <3>2. ~(<<y, x>> \in OpToRel(<, Nat))
      BY ZenonT(30), <2>3
    <3>3. ~(y < x)
      BY <3>1, <3>2 DEF OpToRel
    <3> QED BY <3>1, <3>3
  <2> QED BY <2>4
<1> QED BY <1>1, <1>2 DEF FirstFrom

(* A strictly increasing map of 1..n takes n distinct values.              *)
LEMMA IncreasingCard ==
  ASSUME NEW n \in Nat, NEW f \in [1..n -> Int],
         \A s, t \in 1..n : s < t => f[s] < f[t]
  PROVE  /\ IsFiniteSet({f[s] : s \in 1..n})
         /\ Cardinality({f[s] : s \in 1..n}) = n
<1> DEFINE T == {f[s] : s \in 1..n}
<1>1. f \in Bijection(1..n, T)
  <2>1. f \in [1..n -> T]
    OBVIOUS
  <2>2. \A s, t \in 1..n : f[s] = f[t] => s = t
    <3> SUFFICES ASSUME NEW s \in 1..n, NEW t \in 1..n, f[s] = f[t], s # t
                 PROVE  FALSE
      OBVIOUS
    <3>1. s < t \/ t < s
      OBVIOUS
    <3> QED BY <3>1
  <2> QED BY <2>1, <2>2 DEF Bijection, Injection, Surjection, IsInjective
<1>2. IsFiniteSet(1..n) /\ Cardinality(1..n) = n
  BY FS_Interval
<1> QED BY <1>1, <1>2, FS_Bijection DEF ExistsBijection


(* A sequence whose domain is 1..n has length n.                          *)
LEMMA LenOfInterval ==
  ASSUME NEW S, NEW s \in Seq(S), NEW n \in Nat, DOMAIN s = 1..n
  PROVE  Len(s) = n
<1>1. Len(s) \in Nat /\ DOMAIN s = 1..Len(s)
  BY LenProperties
<1>2. ~(Len(s) < n)
  BY <1>1
<1>3. ~(n < Len(s))
  BY <1>1
<1> QED BY <1>1, <1>2, <1>3

-----------------------------------------------------------------------------
(* The invariant of the loop against the reference is inductive.           *)

(* Parse starts with nothing before child 1.                               *)
LEMMA InitRefInv == Init => RefInv
<1> SUFFICES ASSUME Init PROVE RefInv
  OBVIOUS
<1>1. LoopInv
  BY InitLoopInv
<1>2. Len(stages) = 0 /\ stages = << >> /\ i = 1 /\ status = "parsing"
  BY EmptySeq DEF Init
<1>3. metaArgs = [k \in 1..0 |-> Parsed(k).cmd]
  BY DEF Init
<1> QED BY <1>1, <1>2, <1>3
        DEF RefInv, PrefixOK, StageLines, StageCmdsExact, MetaExact, MetaEnd

(* Every step of the loop keeps it.                                        *)
LEMMA NextRefInv == RefInv /\ [Next]_vars => RefInv'
<1> SUFFICES ASSUME RefInv, [Next]_vars PROVE RefInv'
  OBVIOUS
<1>0. /\ ast \in Seq(Node)
      /\ Len(ast) \in Nat
      /\ i \in 1..(Len(ast) + 1)
      /\ stages \in Seq(StageRec)
      /\ metaArgs \in Seq(CmdsOf)
      /\ \A k \in 1..Len(ast) : ast[k] \in Node
  BY DockerfilesAssumption, ElementOfSeq DEF RefInv, LoopInv, InvType
<1>1. LoopInv'
  BY NextLoopInv DEF RefInv
<1>a. ast' = ast
  BY DEF Next, ParseFailed, ParseMetaArg, ParseStage, ParseCommand, ParseNoStage,
         ParseDone, Returned, vars
<1>b. /\ \A k : Parsed(k)' = Parsed(k)
      /\ \A m : NoFromIn(m)' = NoFromIn(m)
  BY <1>a DEF Parsed, NoFromIn
<1>c. UNCHANGED <<ast, i, stages, metaArgs>> =>
        /\ PrefixOK' = PrefixOK
        /\ StageLines' = StageLines
        /\ StageCmdsExact' = StageCmdsExact
        /\ MetaExact' = MetaExact
  BY SMTT(30), <1>b DEF PrefixOK, StageLines, StageCmdsExact, MetaExact, StageEnd, MetaEnd
<1>2. CASE ParseFailed
  BY <1>1, <1>2, <1>a, <1>b DEF ParseFailed, Parsing, RefInv, ErrorExact
<1>3. CASE ParseNoStage
  <2>1. i \in 1..Len(ast) /\ Parsed(i).ok /\ Parsed(i).cmd.kind # "STAGE"
        /\ Parsed(i).cmd.kind # "ARG" /\ stages = << >> /\ status = "parsing"
    BY <1>3 DEF ParseNoStage, Parsing, IsMetaArg
  <2>2. ast[i].cmd # "FROM" /\ ast[i].cmd # "ARG"
    BY <1>0, <2>1, ParsedKind DEF Parsed
  <2>3. NoFromIn(i)
    BY <2>1, <2>2 DEF RefInv, LoopInv, NoStageYet, NoFromIn
  <2> QED BY <1>1, <1>3, <1>a, <1>b, <2>1, <2>2, <2>3
          DEF ParseNoStage, RefInv, ErrorExact
<1>4. CASE ParseDone
  <2>1. i = Len(ast) + 1
    BY <1>0, <1>4 DEF ParseDone
  <2> QED BY <1>1, <1>4, <1>c, <2>1 DEF ParseDone, RefInv
<1>5. CASE Returned \/ UNCHANGED vars
  <2>1. UNCHANGED <<ast, i, stages, metaArgs, status>>
    BY <1>5 DEF Returned, vars
  <2>2. ErrorExact' = ErrorExact
    BY <2>1, <1>b DEF ErrorExact
  <2> QED BY <1>1, <1>c, <2>1, <2>2 DEF RefInv
<1>6. CASE ParseMetaArg
  <2> DEFINE x == Parsed(i).cmd
  <2>1. /\ i \in 1..Len(ast) /\ Parsed(i).ok /\ x.kind = "ARG"
        /\ stages = << >> /\ status = "parsing"
        /\ i' = i + 1 /\ stages' = stages /\ status' = status
        /\ metaArgs' = Append(metaArgs, x)
    BY <1>6 DEF ParseMetaArg, Parsing
  <2>2. ast[i].cmd = "ARG"
    BY <1>0, <2>1, ParsedKind DEF Parsed
  <2>3. /\ PrefixOK /\ StageLines /\ MetaExact
        /\ Len(stages) = 0 /\ MetaEnd = i
    <3>1. PrefixOK /\ StageLines /\ MetaExact
      BY <2>1 DEF RefInv
    <3>2. Len(stages) = 0 /\ MetaEnd = i
      BY <2>1, EmptySeq DEF MetaEnd
    <3> QED BY <3>1, <3>2
  <2>4. PrefixOK'
    <3> SUFFICES ASSUME NEW k \in 1..i
                 PROVE  Parsed(k).ok /\ (NoFromIn(k) => ast[k].cmd = "ARG")
      BY <1>a, <1>b, <2>1 DEF PrefixOK
    <3>1. CASE k < i
      BY <3>1, <2>3, <1>0 DEF PrefixOK
    <3> QED BY <3>1, <2>1, <2>2, <1>0
  <2>5. StageLines'
    <3>1. \A k \in 1..(i - 1) : ast[k].cmd # "FROM"
      BY <2>3 DEF StageLines
    <3> QED BY <1>a, <2>1, <2>2, <2>3, <3>1 DEF StageLines
  <2>6. StageCmdsExact'
    BY <2>1, <2>3 DEF StageCmdsExact
  <2>7. MetaExact'
    <3>1. metaArgs = [k \in 1..(i - 1) |-> Parsed(k).cmd]
      BY <2>3 DEF MetaExact
    <3>2. Len(metaArgs) = i - 1
      <4>1. DOMAIN metaArgs = 1..(i - 1) /\ i - 1 \in Nat
        BY <3>1, <2>1, <1>0
      <4> QED BY <4>1, <1>0, LenOfInterval
    <3>3. /\ Len(metaArgs') = i
          /\ metaArgs' \in Seq(CmdsOf)
          /\ \A k \in 1..(i - 1) : metaArgs'[k] = Parsed(k).cmd
          /\ metaArgs'[i] = x
      <4>1. x \in CmdsOf
        BY <2>1 DEF CmdsOf
      <4> QED BY <1>0, <2>1, <3>1, <3>2, <4>1, AppendProperties
    <3>4. MetaEnd' = i + 1
      BY <2>1 DEF MetaEnd
    <3>5. metaArgs' = [k \in 1..i |-> Parsed(k).cmd]
      <4>1. metaArgs' \in [1..i -> CmdsOf]
        BY <3>3, LenProperties
      <4>2. \A k \in 1..i : metaArgs'[k] = Parsed(k).cmd
        BY <3>3, <1>0, <2>1
      <4> QED BY <4>1, <4>2
    <3>6. i + 1 - 1 = i
      BY <1>0
    <3>7. MetaExact' = (metaArgs' = [k \in 1..(MetaEnd' - 1) |-> Parsed(k).cmd])
      BY <1>a DEF MetaExact, Parsed
    <3>8. 1..(MetaEnd' - 1) = 1..i
      <4>1. MetaEnd' - 1 = i
        BY <3>4, <1>0
      <4> QED BY <4>1
    <3> QED BY ZenonT(30), <3>5, <3>7, <3>8
  <2> QED BY <1>1, <2>1, <2>4, <2>5, <2>6, <2>7 DEF RefInv
<1>7. CASE ParseStage
  <2> DEFINE L == Len(stages)
             new == [line |-> i, cmds |-> << >>]
  <2>1. /\ i \in 1..Len(ast) /\ Parsed(i).ok /\ Parsed(i).cmd.kind = "STAGE"
        /\ status = "parsing" /\ status' = status
        /\ i' = i + 1 /\ metaArgs' = metaArgs
        /\ stages' = Append(stages, new)
    BY <1>7 DEF ParseStage, Parsing
  <2>2. ast[i].cmd = "FROM"
    BY <1>0, <2>1, ParsedKind DEF Parsed
  <2>3. PrefixOK /\ StageLines /\ StageCmdsExact /\ MetaExact
    BY <2>1 DEF RefInv
  <2>4. /\ L \in Nat
        /\ new \in StageRec
        /\ stages' \in Seq(StageRec)
        /\ Len(stages') = L + 1
        /\ \A s \in 1..L : stages'[s] = stages[s]
        /\ stages'[L + 1] = new
    <3>1. new \in StageRec
      BY <2>1, EmptySeq DEF StageRec
    <3> QED BY <1>0, <2>1, <3>1, AppendProperties, LenProperties
  <2>5. PrefixOK'
    <3> SUFFICES ASSUME NEW k \in 1..i
                 PROVE  Parsed(k).ok /\ (NoFromIn(k) => ast[k].cmd = "ARG")
      BY <1>a, <1>b, <2>1 DEF PrefixOK
    <3>1. CASE k < i
      BY <3>1, <2>3, <1>0 DEF PrefixOK
    <3>2. CASE k = i
      BY <3>2, <2>1, <2>2, <1>0 DEF NoFromIn
    <3> QED BY <3>1, <3>2, <1>0
  <2>6. StageLines'
    <3>1. \A s \in 1..(L + 1) :
            stages'[s].line \in 1..i /\ ast[stages'[s].line].cmd = "FROM"
      BY SMTT(30), <2>2, <2>3, <2>4, <1>0 DEF StageLines
    <3>2. \A s, t \in 1..(L + 1) : s < t => stages'[s].line < stages'[t].line
      <4> SUFFICES ASSUME NEW s \in 1..(L + 1), NEW t \in 1..(L + 1), s < t
                   PROVE  stages'[s].line < stages'[t].line
        OBVIOUS
      <4>1. s \in 1..L /\ stages'[s] = stages[s] /\ stages[s].line \in 1..(i - 1)
        BY <2>3, <2>4, <1>0 DEF StageLines
      <4>2. CASE t \in 1..L
        BY <4>1, <4>2, <2>3, <2>4 DEF StageLines
      <4>3. CASE t = L + 1
        BY <4>1, <4>3, <2>4, <1>0
      <4> QED BY <4>2, <4>3, <2>4
    <3>3. \A k \in 1..i : ast[k].cmd = "FROM" =>
            \E s \in 1..(L + 1) : stages'[s].line = k
      <4> SUFFICES ASSUME NEW k \in 1..i, ast[k].cmd = "FROM"
                   PROVE  \E s \in 1..(L + 1) : stages'[s].line = k
        OBVIOUS
      <4>1. CASE k = i
        BY <4>1, <2>4
      <4>2. CASE k < i
        <5>0. k \in 1..(i - 1)
          BY <4>2, <1>0
        <5>1. PICK s \in 1..L : stages[s].line = k
          BY <5>0, <2>3 DEF StageLines
        <5> QED BY <5>1, <2>4
      <4> QED BY <4>1, <4>2, <1>0
    <3> QED BY SMTT(30), <1>a, <2>1, <2>4, <3>1, <3>2, <3>3 DEF StageLines
  <2>7. \A s \in 1..L : StageEnd(s)' = StageEnd(s)
    BY <2>1, <2>4, <1>0 DEF StageEnd
  <2>8. StageCmdsExact'
    <3> SUFFICES ASSUME NEW s \in 1..(L + 1)
                 PROVE  stages'[s].cmds =
                          [m \in 1..(StageEnd(s)' - stages'[s].line - 1) |->
                             Parsed(stages'[s].line + m).cmd]
      BY <1>a, <2>4 DEF StageCmdsExact, Parsed
    <3>1. CASE s \in 1..L
      BY SMTT(30), <3>1, <2>3, <2>4, <2>7 DEF StageCmdsExact
    <3>2. CASE s = L + 1
      <4>1. StageEnd(s)' = i + 1
        BY <3>2, <2>1, <2>4 DEF StageEnd
      <4>2. StageEnd(s)' - stages'[s].line - 1 = 0
        BY <3>2, <4>1, <2>4, <1>0
      <4>3. stages'[s].cmds = << >>
        BY <3>2, <2>4
      <4> QED BY <4>2, <4>3
    <3> QED BY <3>1, <3>2, <1>0
  <2>9. MetaExact'
    <3>1. MetaEnd' = MetaEnd
      <4>1. CASE stages = << >>
        <5>1. L = 0
          BY <4>1, EmptySeq
        <5>2. stages' # << >> /\ stages'[1] = new
          BY SMTT(30), <5>1, <2>4, EmptySeq
        <5> QED BY <4>1, <5>2 DEF MetaEnd
      <4>2. CASE stages # << >>
        <5>1. L \in Nat \ {0}
          BY <4>2, <1>0, EmptySeq
        <5>2. stages' # << >>
          BY <2>4, EmptySeq
        <5> QED BY <4>2, <5>1, <5>2, <2>4 DEF MetaEnd
      <4> QED BY <4>1, <4>2
    <3> QED BY <1>a, <2>1, <2>3, <3>1 DEF MetaExact, Parsed
  <2> QED BY <1>1, <2>1, <2>5, <2>6, <2>8, <2>9 DEF RefInv
<1>8. CASE ParseCommand
  <2> DEFINE x == Parsed(i).cmd
             L == Len(stages)
             st == stages[L]
             ns == [line |-> st.line, cmds |-> Append(st.cmds, x)]
  <2>1. /\ i \in 1..Len(ast) /\ Parsed(i).ok /\ x.kind # "STAGE"
        /\ status = "parsing" /\ status' = status
        /\ i' = i + 1 /\ metaArgs' = metaArgs /\ stages # << >>
        /\ stages' = [stages EXCEPT ![L] = ns]
    BY <1>8 DEF ParseCommand, Parsing
  <2>2. ast[i].cmd # "FROM"
    BY SMTT(30), <1>0, <2>1, ParsedKind DEF Parsed
  <2>3. PrefixOK /\ StageLines /\ StageCmdsExact /\ MetaExact
    BY <2>1 DEF RefInv
  <2>4. L \in Nat \ {0} /\ st \in StageRec /\ x \in CmdsOf
    BY <1>0, <2>1, ElementOfSeq, EmptySeq DEF CmdsOf
  <2>5. /\ ns \in StageRec
        /\ stages' \in Seq(StageRec)
        /\ Len(stages') = L
        /\ \A s \in 1..L : stages'[s] = IF s = L THEN ns ELSE stages[s]
        /\ \A s \in 1..L : stages'[s].line = stages[s].line
    <3>1. ns \in StageRec
      BY <2>4, AppendProperties DEF StageRec
    <3>2. /\ stages' \in Seq(StageRec)
          /\ Len(stages') = L
          /\ \A s \in 1..L : stages'[s] = IF s = L THEN ns ELSE stages[s]
      BY SMTT(30), <1>0, <2>1, <2>4, <3>1, ExceptSeq
    <3>3. \A s \in 1..L : stages'[s].line = stages[s].line
      <4> SUFFICES ASSUME NEW s \in 1..L PROVE stages'[s].line = stages[s].line
        OBVIOUS
      <4>1. CASE s = L
        <5>1. stages'[s] = ns
          BY ZenonT(30), <4>1, <3>2
        <5> QED BY <4>1, <5>1
      <4>2. CASE s # L
        BY <4>2, <3>2
      <4> QED BY <4>1, <4>2
    <3> QED BY ZenonT(30), <3>1, <3>2, <3>3
  <2>6. stages[1].line \in 1..(i - 1) /\ ast[stages[1].line].cmd = "FROM"
    BY <2>3, <2>4 DEF StageLines
  <2>7. PrefixOK'
    <3> SUFFICES ASSUME NEW k \in 1..i
                 PROVE  Parsed(k).ok /\ (NoFromIn(k) => ast[k].cmd = "ARG")
      BY <1>a, <1>b, <2>1 DEF PrefixOK
    <3>1. CASE k < i
      BY <3>1, <2>3, <1>0 DEF PrefixOK
    <3>2. CASE k = i
      BY SMTT(30), <3>2, <2>1, <2>6, <1>0 DEF NoFromIn
    <3> QED BY <3>1, <3>2, <1>0
  <2>8. StageLines'
    <3>1. \A s \in 1..L :
            stages'[s].line \in 1..i /\ ast[stages'[s].line].cmd = "FROM"
      BY SMTT(30), <2>3, <2>5, <1>0 DEF StageLines
    <3>2. \A s, t \in 1..L : s < t => stages'[s].line < stages'[t].line
      BY <2>3, <2>5 DEF StageLines
    <3>3. \A k \in 1..i : ast[k].cmd = "FROM" =>
            \E s \in 1..L : stages'[s].line = k
      <4> SUFFICES ASSUME NEW k \in 1..i, ast[k].cmd = "FROM"
                   PROVE  \E s \in 1..L : stages'[s].line = k
        OBVIOUS
      <4>0. k \in 1..(i - 1)
        BY <2>2, <1>0
      <4>1. PICK s \in 1..L : stages[s].line = k
        BY <4>0, <2>3 DEF StageLines
      <4> QED BY <4>1, <2>5
    <3> QED BY SMTT(30), <1>a, <2>1, <2>5, <3>1, <3>2, <3>3 DEF StageLines
  <2>9. StageCmdsExact'
    <3> SUFFICES ASSUME NEW s \in 1..L
                 PROVE  stages'[s].cmds =
                          [m \in 1..(StageEnd(s)' - stages'[s].line - 1) |->
                             Parsed(stages'[s].line + m).cmd]
      BY <1>a, <2>5 DEF StageCmdsExact, Parsed
    <3>1. CASE s # L
      <4>1. s < L /\ StageEnd(s)' = StageEnd(s) /\ stages'[s] = stages[s]
        BY <3>1, <2>1, <2>4, <2>5 DEF StageEnd
      <4> QED BY <4>1, <2>3 DEF StageCmdsExact
    <3>2. CASE s = L
      <4> DEFINE ln == st.line
                 n == i - ln - 1
      <4>1. ln \in 1..(i - 1) /\ n \in Nat
        BY <3>2, <2>3, <2>4, <1>0 DEF StageLines
      <4>2. st.cmds = [m \in 1..n |-> Parsed(ln + m).cmd]
        <5>1. StageEnd(L) = i
          BY <2>4 DEF StageEnd
        <5> QED BY <5>1, <3>2, <2>3 DEF StageCmdsExact
      <4>3. Len(st.cmds) = n
        <5>1. st.cmds \in Seq(CmdsOf)
          BY <2>4 DEF StageRec
        <5> QED BY <4>1, <4>2, <5>1, LenOfInterval
      <4>4. /\ Len(ns.cmds) = n + 1
            /\ ns.cmds \in Seq(CmdsOf)
            /\ \A m \in 1..n : ns.cmds[m] = Parsed(ln + m).cmd
            /\ ns.cmds[n + 1] = x
        BY <2>4, <4>1, <4>2, <4>3, AppendProperties DEF StageRec
      <4>5. ns.cmds = [m \in 1..(n + 1) |-> Parsed(ln + m).cmd]
        <5>1. ns.cmds \in [1..(n + 1) -> CmdsOf]
          BY ZenonT(30), <4>4, LenProperties
        <5>2. ln + (n + 1) = i
          BY SMTT(30), <4>1, <1>0
        <5>3. \A m \in 1..(n + 1) : ns.cmds[m] = Parsed(ln + m).cmd
          <6> SUFFICES ASSUME NEW m \in 1..(n + 1) PROVE ns.cmds[m] = Parsed(ln + m).cmd
            BY ZenonT(30)
          <6>1. CASE m \in 1..n
            BY <6>1, <4>4
          <6>2. CASE m = n + 1
            BY <6>2, <5>2, <4>4
          <6>3. m \in 1..n \/ m = n + 1
            BY <4>1, <1>0, SMTT(60)
          <6> QED BY ZenonT(30), <6>1, <6>2, <6>3
        <5> QED BY ZenonT(30), <5>1, <5>3
      <4>6. stages'[s] = ns /\ stages'[s].line = ln /\ StageEnd(s)' = i + 1
        <5>1. stages'[s] = ns
          BY ZenonT(30), <3>2, <2>4, <2>5
        <5>2. ~(s < Len(stages'))
          BY <3>2, <2>4, <2>5
        <5>3. StageEnd(s)' = i'
          BY <5>2 DEF StageEnd
        <5> QED BY <5>1, <5>3, <2>1
      <4>7. StageEnd(s)' - stages'[s].line - 1 = n + 1
        <5>1. StageEnd(s)' - stages'[s].line - 1 = (i + 1) - ln - 1
          BY <4>6, Zenon
        <5>2. (i + 1) - ln - 1 = n + 1
          BY <4>1, <1>0, SMTT(60)
        <5> QED BY <5>1, <5>2, Zenon
      <4>8. 1..(StageEnd(s)' - stages'[s].line - 1) = 1..(n + 1)
        BY <4>7, Zenon
      <4> QED BY ZenonT(30), <4>5, <4>6, <4>8
    <3> QED BY <3>1, <3>2
  <2>10. MetaExact'
    <3>1. MetaEnd' = MetaEnd
      <4>1. stages' # << >> /\ stages'[1].line = stages[1].line
        BY <2>4, <2>5, EmptySeq
      <4> QED BY <4>1, <2>1 DEF MetaEnd
    <3> QED BY <1>a, <2>1, <2>3, <3>1 DEF MetaExact, Parsed
  <2> QED BY <1>1, <2>1, <2>7, <2>8, <2>9, <2>10 DEF RefInv
<1> QED BY <1>2, <1>3, <1>4, <1>5, <1>6, <1>7, <1>8 DEF Next


-----------------------------------------------------------------------------
(* The invariant gives the reference's answer.                             *)

(* Types every case below needs.                                           *)
LEMMA RefInvTypes ==
  ASSUME RefInv
  PROVE  /\ ast \in Seq(Node)
         /\ Len(ast) \in Nat
         /\ i \in 1..(Len(ast) + 1)
         /\ stages \in Seq(StageRec)
         /\ Len(stages) \in Nat
         /\ \A s \in 1..Len(stages) : stages[s] \in StageRec
BY DockerfilesAssumption, ElementOfSeq, LenProperties DEF RefInv, LoopInv, InvType

(* When Parse fails, the reference reports an error too, at the child      *)
(* Parse stopped at.                                                       *)
LEMMA ErrorMatches ==
  ASSUME RefInv, status = "error"
  PROVE  RefError /\ stages = << >> /\ metaArgs = << >>
<1>0. ast \in Seq(Node) /\ Len(ast) \in Nat
  BY RefInvTypes
<1>1. ErrorExact
  BY DEF RefInv
<1>2. CASE ~Parsed(i).ok
  BY <1>1, <1>2 DEF ErrorExact, RefError
<1>3. CASE NoFromIn(i) /\ ast[i].cmd # "ARG"
  <2>1. i < FirstFrom
    <3>1. CASE FromLines = {}
      BY <3>1, <1>0, <1>1, FirstFromMin DEF ErrorExact
    <3>2. CASE FromLines # {}
      <4>1. FirstFrom \in FromLines
        BY <3>2, <1>0, FirstFromMin
      <4>2. FirstFrom \in 1..Len(ast) /\ ast[FirstFrom].cmd = "FROM"
        BY <4>1 DEF FromLines
      <4>3. ~(FirstFrom \in 1..i)
        BY <4>2, <1>3 DEF NoFromIn
      <4> QED BY <4>2, <4>3, <1>0, <1>1 DEF ErrorExact
    <3> QED BY <3>1, <3>2
  <2>2. ast[i].cmd \notin {"ARG", "FROM"}
    BY <1>3, <1>1, <1>0 DEF NoFromIn, ErrorExact
  <2> QED BY <2>1, <2>2, <1>1 DEF RefError, Misplaced, ErrorExact
<1> QED BY <1>1, <1>2, <1>3 DEF ErrorExact


(* Once every child is read, the FROM lines are exactly the stages' lines, *)
(* the t-th stage opens at the t-th FROM, and there are as many FROMs as   *)
(* stages.                                                                 *)
LEMMA DoneFroms ==
  ASSUME RefInv, status = "done"
  PROVE  /\ FromLines = {stages[s].line : s \in 1..Len(stages)}
         /\ Cardinality(FromLines) = Len(stages)
         /\ \A t \in 1..Len(stages) : NthFrom(t) = stages[t].line
<1> DEFINE L == Len(stages)
<1>0. /\ ast \in Seq(Node) /\ Len(ast) \in Nat /\ i = Len(ast) + 1
      /\ L \in Nat /\ \A s \in 1..L : stages[s] \in StageRec
  BY RefInvTypes DEF RefInv
<1>1. StageLines
  BY DEF RefInv
<1>2. FromLines = {stages[s].line : s \in 1..L}
  <2>1. \A k \in FromLines : \E s \in 1..L : stages[s].line = k
    <3> SUFFICES ASSUME NEW k \in FromLines PROVE \E s \in 1..L : stages[s].line = k
      OBVIOUS
    <3>1. k \in 1..(i - 1) /\ ast[k].cmd = "FROM"
      BY <1>0 DEF FromLines
    <3> QED BY <3>1, <1>1 DEF StageLines
  <2>2. \A s \in 1..L : stages[s].line \in FromLines
    BY <1>0, <1>1 DEF FromLines, StageLines
  <2> QED BY <2>1, <2>2
<1>3. \A s \in 1..L : stages[s].line \in Nat
  BY <1>0 DEF StageRec
<1>4. \A s, t \in 1..L : s < t => stages[s].line < stages[t].line
  BY <1>1 DEF StageLines
<1>5. ASSUME NEW t \in 1..L
      PROVE  Cardinality({l \in FromLines : l <= stages[t].line}) = t
  <2> DEFINE g == [s \in 1..t |-> stages[s].line]
  <2>1. t \in Nat /\ g \in [1..t -> Int]
    BY <1>3, <1>0
  <2>2. \A s, u \in 1..t : s < u => g[s] < g[u]
    BY <1>4, <1>0
  <2>3. {l \in FromLines : l <= stages[t].line} = {g[s] : s \in 1..t}
    <3>1. ASSUME NEW u \in 1..L, stages[u].line <= stages[t].line
          PROVE  u \in 1..t
      <4>1. ~(t < u)
        BY <3>1, <1>4, <1>3
      <4> QED BY <4>1, <1>0
    <3>2. \A s \in 1..t : stages[s].line <= stages[t].line
      BY SMTT(30), <1>4, <1>3, <1>0
    <3> QED BY <1>2, <3>1, <3>2, <1>0
  <2> QED BY ZenonT(30), <2>1, <2>2, <2>3, IncreasingCard
<1>6. Cardinality(FromLines) = L
  <2> DEFINE g == [s \in 1..L |-> stages[s].line]
  <2>1. g \in [1..L -> Int]
    BY <1>3
  <2>2. {g[s] : s \in 1..L} = FromLines
    BY <1>2
  <2> QED BY ZenonT(30), <1>0, <1>4, <2>1, <2>2, IncreasingCard
<1>7. ASSUME NEW j \in 1..L PROVE NthFrom(j) = stages[j].line
  <2>1. stages[j].line \in FromLines
        /\ Cardinality({l \in FromLines : l <= stages[j].line}) = j
    BY <1>2, <1>5
  <2>2. NthFrom(j) \in FromLines
        /\ Cardinality({l \in FromLines : l <= NthFrom(j)}) = j
    BY ZenonT(30), <2>1 DEF NthFrom
  <2>3. PICK t \in 1..L : NthFrom(j) = stages[t].line
    BY <2>2, <1>2
  <2>4. t = j
    BY ZenonT(30), <2>2, <2>3, <1>5
  <2> QED BY <2>3, <2>4
<1> QED BY ZenonT(30), <1>2, <1>6, <1>7


(* Once every child is read, the meta-ARGs end at the first FROM.          *)
LEMMA DoneFirstFrom ==
  ASSUME RefInv, status = "done"
  PROVE  FirstFrom = MetaEnd
<1> DEFINE L == Len(stages)
<1>0. /\ ast \in Seq(Node) /\ Len(ast) \in Nat /\ i = Len(ast) + 1
      /\ stages \in Seq(StageRec) /\ L \in Nat
      /\ \A s \in 1..L : stages[s] \in StageRec
  BY RefInvTypes DEF RefInv
<1>1. FromLines = {stages[s].line : s \in 1..L}
  BY DoneFroms
<1>2. CASE stages = << >>
  <2>1. FromLines = {}
    BY <1>1, <1>2, EmptySeq
  <2> QED BY <1>0, <1>2, <2>1, FirstFromMin DEF MetaEnd
<1>3. CASE stages # << >>
  <2>1. L \in Nat \ {0}
    BY <1>0, <1>3, EmptySeq
  <2>2. stages[1].line \in FromLines
    BY <1>1, <2>1
  <2>3. \A l \in FromLines : stages[1].line <= l
    <3> SUFFICES ASSUME NEW s \in 1..L PROVE stages[1].line <= stages[s].line
      BY <1>1
    <3>1. stages[1].line \in Nat /\ stages[s].line \in Nat
      BY <2>1, <1>0 DEF StageRec
    <3>2. 1 < s => stages[1].line < stages[s].line
      BY <2>1 DEF RefInv, StageLines
    <3> QED BY <3>1, <3>2
  <2>4. FirstFrom \in FromLines /\ FirstFrom <= stages[1].line
    BY <2>2, <1>0, FirstFromMin
  <2>5. FirstFrom \in Nat /\ stages[1].line \in Nat /\ stages[1].line <= FirstFrom
    <3>1. FirstFrom \in Nat
      BY <2>4 DEF FromLines
    <3>2. stages[1].line \in Nat
      BY <2>1, <1>0 DEF StageRec
    <3>3. stages[1].line <= FirstFrom
      BY <2>3, <2>4
    <3> QED BY <3>1, <3>2, <3>3
  <2> QED BY <2>4, <2>5, <1>3 DEF MetaEnd
<1> QED BY <1>2, <1>3

(* When Parse returns, the reference reports no error and the same         *)
(* meta-ARGs and stages.                                                   *)
LEMMA DoneMatches ==
  ASSUME RefInv, status = "done"
  PROVE  ~RefError /\ metaArgs = RefMeta /\ stages = RefStages
<1> DEFINE L == Len(stages)
<1>0. /\ ast \in Seq(Node) /\ Len(ast) \in Nat /\ i = Len(ast) + 1
      /\ stages \in Seq(StageRec) /\ L \in Nat
      /\ \A s \in 1..L : stages[s] \in StageRec
  BY RefInvTypes DEF RefInv
<1>1. PrefixOK /\ StageCmdsExact /\ MetaExact
  BY DEF RefInv
<1>2. FirstFrom = MetaEnd
  BY DoneFirstFrom
<1>3. /\ Cardinality(FromLines) = L
      /\ \A t \in 1..L : NthFrom(t) = stages[t].line
  BY DoneFroms
<1>4. ~RefError
  <2> SUFFICES ASSUME NEW k \in 1..Len(ast)
               PROVE  Parsed(k).ok /\ ~Misplaced(k)
    BY DEF RefError
  <2>1. Parsed(k).ok /\ (NoFromIn(k) => ast[k].cmd = "ARG")
    BY <1>0, <1>1 DEF PrefixOK
  <2>2. k < FirstFrom => NoFromIn(k)
    <3> SUFFICES ASSUME k < FirstFrom, NEW l \in 1..k, ast[l].cmd = "FROM"
                 PROVE  FALSE
      BY DEF NoFromIn
    <3>1. l \in FromLines
      BY <1>0 DEF FromLines
    <3>2. FirstFrom <= l
      BY <3>1, <1>0, FirstFromMin
    <3>3. FirstFrom \in Int
      BY <1>0, <1>2 DEF MetaEnd, StageRec
    <3> QED BY <3>2, <3>3
  <2> QED BY <2>1, <2>2 DEF Misplaced
<1>5. metaArgs = RefMeta
  BY <1>1, <1>2 DEF MetaExact, RefMeta
<1>6. stages = RefStages
  <2>1. stages \in [1..L -> StageRec]
    BY <1>0, LenProperties
  <2>2. ASSUME NEW j \in 1..L
        PROVE  stages[j] = [line |-> NthFrom(j),
                            cmds |-> [m \in 1..(NextFrom(j) - NthFrom(j) - 1) |->
                                        Parsed(NthFrom(j) + m).cmd]]
    <3>1. NextFrom(j) = StageEnd(j)
      BY <1>0, <1>3 DEF NextFrom, StageEnd
    <3>2. stages[j].cmds = [m \in 1..(StageEnd(j) - stages[j].line - 1) |->
                              Parsed(stages[j].line + m).cmd]
      BY <1>1 DEF StageCmdsExact
    <3>3. stages[j] = [line |-> stages[j].line, cmds |-> stages[j].cmds]
      BY <1>0 DEF StageRec
    <3> QED BY ZenonT(30), <1>3, <3>1, <3>2, <3>3
  <2> QED BY ZenonT(30), <1>3, <2>1, <2>2 DEF RefStages
<1> QED BY <1>4, <1>5, <1>6

(* RefInv gives ParseMatchesReference in every state.                      *)
LEMMA RefInvMatches == RefInv => ParseMatchesReference
BY ErrorMatches, DoneMatches DEF ParseMatchesReference

(* Parse returns exactly what the closed-form reference says: an error     *)
(* exactly when some instruction fails to parse or a command other than    *)
(* ARG precedes the first FROM, with no partial result; otherwise the ARGs *)
(* before the first FROM as meta-ARGs and one stage per FROM, in source    *)
(* order, holding the commands up to the next FROM.                        *)
THEOREM ParseReferenceCorrect == Spec => []ParseMatchesReference
<1>1. Spec => []RefInv
  BY InitRefInv, NextRefInv, PTL DEF Spec
<1> QED BY <1>1, RefInvMatches, PTL

=============================================================================
