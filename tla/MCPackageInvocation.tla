------------------------ MODULE MCPackageInvocation ------------------------
(* Small instance of PackageInvocation: two URIs, two files, one digest,   *)
(* apt listings covering every way aptRegex and Atoi treat a line, and     *)
(* stages mixing RUN, ENV and up to two ADD --apt.                         *)
EXTENDS PackageInvocation

MCLine(kind, uri, file, size, hash) ==
  [kind |-> kind, uri |-> uri, file |-> file, size |-> size, hash |-> hash,
   digest |-> "d1"]

L1 == MCLine("entry", "u1", "f1", "fits", "sha256")
L2 == MCLine("entry", "u2", "f2", "fits", "none")
L3 == MCLine("entry", "u2", "f2", "fits", "other")
Blank == MCLine("blank", "u1", "f1", "fits", "none")
Garbled == MCLine("garbled", "u1", "f1", "fits", "none")
Huge == MCLine("entry", "u1", "f1", "overflow", "sha256")

MCAptOutputs ==
  { << L1, Blank, L2 >>, << L3, L1 >>, << >>, << Blank >>, << L1, Garbled >>, << Huge, L2 >> }

MCStageCmds ==
  { << "APT" >>, << "RUN", "APT", "ENV", "APT" >>, << "ENV", "APT", "RUN" >>,
    << "APT", "APT", "APT" >> }

=============================================================================
