--------------------------- MODULE MCConversation ---------------------------
(* Conversation for TLC: two owners, and room for two episodes and two     *)
(* remembered messages.                                                    *)
EXTENDS Conversation, TLC

CONSTANTS o1, o2

Symmetry == Permutations(Owner)
=============================================================================
