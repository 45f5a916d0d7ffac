---------------------------- MODULE MCEnrollment ----------------------------
(***************************************************************************)
(* A small machine for Enrollment: two attempts, of which the first has a  *)
(* deadline, and one that is not configured; two containers (one whose key *)
(* CNG may call not found), a leaf for each of the two attempts and a leaf *)
(* of the first without the required EKU.  The leaf of the second attempt  *)
(* is signed by a subordinate CA, so it needs the returned chain.          *)
(***************************************************************************)
EXTENDS Enrollment, TLC

CONSTANTS a1, a2, a3, c1, c2, l1, l2, x1

LocalhostLeaf(key, issuer) ==
    [notBefore |-> 1, notAfter |-> 3, dnsNames |-> <<"localhost">>,
     ipAddresses |-> << [bytes |-> 4, addr |-> "127.0.0.1"], [bytes |-> 16, addr |-> "::1"] >>,
     otherNames |-> 0, extKeyUsage |-> {"serverAuth"}, unknownExtKeyUsage |-> {},
     keyUsage |-> {"digitalSignature", "keyEncipherment"}, publicKey |-> key,
     issuer |-> issuer]

MCContents ==
    l1 :> LocalhostLeaf(a1, "root") @@ l2 :> LocalhostLeaf(a2, "sub")
      @@ x1 :> [LocalhostLeaf(a1, "root") EXCEPT !.extKeyUsage = {"clientAuth"}]

MCIssuer == [ca \in Authorities |-> "root"]

\* The CA may answer either attempt with any of these.
MCMaterial ==
    LET Files(l, chainFile, chain) == [file |-> "certificate", leaf |-> l,
                                       chainFile |-> chainFile, chain |-> chain]
    IN {Files(l1, "absent", {}), Files(x1, "absent", {}), Files(l2, "absent", {}),
        Files(l2, "read", {"sub"}), Files(l1, "read", {}), Files(l1, "rejected", {}),
        [Files(l1, "absent", {}) EXCEPT !.file = "malformed"],
        [Files(l1, "absent", {}) EXCEPT !.file = "missing"]}
=============================================================================
