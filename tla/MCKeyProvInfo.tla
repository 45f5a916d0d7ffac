---------------------------- MODULE MCKeyProvInfo ----------------------------
(***************************************************************************)
(* Buffers of up to six bytes at address 2 with a header of two bytes, in  *)
(* an address space of 32, with every pointer a process can hold: NULL,    *)
(* below the buffer, at each even and odd offset of it, and beyond.        *)
(***************************************************************************)
EXTENDS KeyProvInfo

MCAddresses == 0 .. Half - 1
=============================================================================
