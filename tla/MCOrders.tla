------------------------------ MODULE MCOrders ------------------------------
(* Orders for TLC: two orders, one slice, and the orders of no slice.      *)
EXTENDS Orders, TLC

CONSTANTS o1, o2, s1
=============================================================================
