--------------------------- MODULE MCAttachments ---------------------------
(***************************************************************************)
(* Two attachments, two idempotency keys, an analyst and an owner, two     *)
(* requests at once, one transaction that is lost.                         *)
(***************************************************************************)
EXTENDS Attachments

=============================================================================
