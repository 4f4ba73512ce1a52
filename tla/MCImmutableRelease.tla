------------------------ MODULE MCImmutableRelease ------------------------
(***************************************************************************)
(* Two jobs of one tag and two commits; at the shell, three commands after *)
(* one another in one directory.                                           *)
(***************************************************************************)
EXTENDS ImmutableRelease

ShellCalls ==
  {[command |-> c, version |-> v, closed |-> TRUE] :
     c \in {"compile", "integration", "conformance"}, v \in Versions}
=============================================================================
