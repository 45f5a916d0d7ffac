----------------------------- MODULE MCCleanup -----------------------------
(***************************************************************************)
(* A small machine for Cleanup: two callers, one leaf that may be bound to *)
(* either of two containers or carry empty names, and metadata that is     *)
(* genuine, incomplete, or damaged in each way a guard looks for.          *)
(***************************************************************************)
EXTENDS Cleanup

CONSTANTS a1, u1, u2, c1, c2, l1

Genuine(l, c) == [CleanupInfoForCert(l) EXCEPT !.provider = ExpectedCNGProvider,
                                               !.containerName = c]

\* Metadata that names the provider of the key but not its container.
ProviderOnly == [CleanupInfoForCert(l1) EXCEPT !.provider = ExpectedCNGProvider]

MCPersisted ==
    {Genuine(l1, c1), Genuine(l1, c2), CleanupInfoForCert(l1), ProviderOnly,
     [Genuine(l1, c1) EXCEPT !.leafSHA256 = NoLeaf],
     [Genuine(l1, c1) EXCEPT !.identity = NoLeaf],
     [Genuine(l1, c1) EXCEPT !.keySpec = 1],
     [Genuine(l1, c1) EXCEPT !.provider = "OtherKSP"]}

\* The metadata for the run with fairness: undamaged, with either container, or
\* without a container.
MCRetried == {Genuine(l1, c1), Genuine(l1, c2), ProviderOnly}
=============================================================================
