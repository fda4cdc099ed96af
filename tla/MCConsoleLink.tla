---------------------------- MODULE MCConsoleLink ----------------------------
(***************************************************************************)
(* Small instances of ConsoleLink; the configurations give every constant. *)
(***************************************************************************)
EXTENDS ConsoleLink
=============================================================================
