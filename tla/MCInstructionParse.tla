------------------------- MODULE MCInstructionParse -------------------------
(* Every Dockerfile of at most three instructions drawn from twelve: FROM *)
(* with one argument, a valid and an invalid "AS" name; ARG; ADD --apt    *)
(* with one and two arguments, with another flag, with an unknown flag,   *)
(* with --apt=false, and a plain ADD missing its destination; RUN with no *)
(* --network, with host and with an invalid mode.                         *)
EXTENDS InstructionParse

MCWords == {"img", "as", "AS", "Dev", "9x", "a", "p", "q"}

MCLower == [w \in MCWords |-> IF w = "AS" THEN "as" ELSE IF w = "Dev" THEN "dev" ELSE w]

MCValidStageName == {"img", "as", "dev", "a", "p", "q"}

Flag(name, value) == [name |-> name, value |-> value]

Child(cmd, args, flags) == [cmd |-> cmd, args |-> args, flags |-> flags]

MCNodes == {
  Child("FROM", <<"img">>, <<>>),
  Child("FROM", <<"img", "AS", "Dev">>, <<>>),
  Child("FROM", <<"img", "as", "9x">>, <<>>),
  Child("ARG", <<"a">>, <<>>),
  Child("ADD", <<"p">>, <<Flag("apt", NoValue)>>),
  Child("ADD", <<"p", "q">>, <<Flag("apt", "true"), Flag("link", NoValue)>>),
  Child("ADD", <<"p">>, <<Flag("apt", NoValue), Flag("bogus", NoValue)>>),
  Child("ADD", <<"p", "q">>, <<Flag("apt", "false")>>),
  Child("ADD", <<"p">>, <<>>),
  Child("RUN", <<"p">>, <<>>),
  Child("RUN", <<"p">>, <<Flag("network", "host")>>),
  Child("RUN", <<"p">>, <<Flag("network", "bogus")>>)}

MCDockerfiles == UNION {[1..n -> MCNodes] : n \in 0..3}

=============================================================================
