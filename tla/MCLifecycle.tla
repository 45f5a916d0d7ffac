----------------------------- MODULE MCLifecycle -----------------------------
(***************************************************************************)
(* A small instance of Lifecycle: an attempt and the attempt that renews   *)
(* it, each with one leaf and one container to itself, and two callers of  *)
(* Uninstall.  -accept may bind either leaf to either container, with      *)
(* either key spec.                                                        *)
(***************************************************************************)
EXTENDS Lifecycle, TLC

CONSTANTS a1, a2, u1, u2, c1, c2, l1, l2

MCContents ==
    LET Leaf(key) ==
          [notBefore |-> 1, notAfter |-> 3, dnsNames |-> <<"localhost">>,
           ipAddresses |-> << [bytes |-> 4, addr |-> "127.0.0.1"], [bytes |-> 16, addr |-> "::1"] >>,
           otherNames |-> 0, extKeyUsage |-> {"serverAuth"}, unknownExtKeyUsage |-> {},
           keyUsage |-> {"digitalSignature"}, publicKey |-> key, issuer |-> "root"]
    IN l1 :> Leaf(a1) @@ l2 :> Leaf(a2)

MCIssuer == [ca \in Authorities |-> "root"]

MCMaterial == {[file |-> "certificate", leaf |-> l, chainFile |-> "absent", chain |-> {}] :
                   l \in Leaves}

\* The callers differ in nothing, and this run has no liveness property.
CallerSymmetry == Permutations(Callers)
=============================================================================
