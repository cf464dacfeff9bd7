------------------------------ MODULE MCOutbox ------------------------------
(* Outbox for TLC: three users of whom any may be allowlisted.             *)
EXTENDS Outbox, TLC
=============================================================================
