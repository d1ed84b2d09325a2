-------------------------- MODULE MCAnalystCopilot --------------------------
(***************************************************************************)
(* An analysis, a draft to post and a draft to resolve with, two requests  *)
(* on them, two bodies, a ticket that others move and a crash between      *)
(* transactions.                                                           *)
(***************************************************************************)
EXTENDS AnalystCopilot

=============================================================================
