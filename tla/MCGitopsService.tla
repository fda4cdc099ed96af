--------------------------- MODULE MCGitopsService ---------------------------
(***************************************************************************)
(* Small instances of GitopsService; the configurations give every         *)
(* constant.                                                               *)
(***************************************************************************)
EXTENDS GitopsService
=============================================================================
