-------------------------- MODULE MCChainExtraction --------------------------
(***************************************************************************)
(* Chain files with up to three elements of every kind in every order, and *)
(* up to one element behind a SET.                                         *)
(***************************************************************************)
EXTENDS ChainExtraction

CONSTANTS inter1, inter2

Runs(n) == UNION {[1 .. k -> Elements] : k \in 0 .. n}

Files(wrapped, sets, runs) ==
    [asDER : BOOLEAN, asBase64 : {"contentInfo", "other", "no"}, signedData : BOOLEAN,
     body : BOOLEAN, wrapped : {wrapped}, set : sets, run : runs]

MCChainFiles == Files(FALSE, Runs(0), Runs(3)) \cup Files(TRUE, Runs(3), Runs(1))
=============================================================================
