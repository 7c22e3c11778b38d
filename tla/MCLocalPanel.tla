---------------------------- MODULE MCLocalPanel ----------------------------
(* A client beside the record of an earlier one.                           *)
EXTENDS LocalPanel

CONSTANTS l1, l2   \* lifetimes

Lives == {l1, l2}
Gone  == {l2}
=============================================================================
