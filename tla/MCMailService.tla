--------------------------- MODULE MCMailService ---------------------------
(* Small instances of MailService.                                         *)
EXTENDS MailService

CONSTANTS w1, w2, r1, r2
=============================================================================
