----------------------------- MODULE MCWinStore -----------------------------
(***************************************************************************)
(* A small instance of WinStore: one client and a store of up to three     *)
(* leaves, each with one of two associations, so that an enumeration has a *)
(* first, a middle and a last step.  Other clients act on this one only    *)
(* through the store, which OthersChange changes in every possible way.    *)
(***************************************************************************)
EXTENDS WinStore

CONSTANTS p1, l1, l2, l3, k1, k2
=============================================================================
