----------------------------- MODULE Validation -----------------------------
(***************************************************************************)
(* ValidateCertificate of validate.go as a predicate on a parsed           *)
(* certificate.  The certificate keeps the fields the checks read; names,  *)
(* addresses and key usages are members of small sets.  X.509 path         *)
(* building (crypto/x509) is external and modelled by what Verify promises *)
(* for the options the code gives it.                                      *)
(***************************************************************************)
EXTENDS Naturals, Sequences, FiniteSets

CONSTANTS
    LocalhostSpellings,  \* DNS names that strings.EqualFold calls "localhost"
    Authorities,         \* certificates of CAs
    Issuer,              \* Issuer[ca]: the authority that signed ca
    Roots,               \* ValidateOptions.Roots, or the system pool when nil
    IssuesServerAuth,    \* CAs valid now whose own constraints allow server auth
    Now,                 \* ValidateOptions.Now, or time.Now
    PublicKeys,          \* public keys of certificates and requests
    NoPublicKey          \* ValidateOptions.ExpectedPublicKey left nil

ASSUME AuthorityAssumption ==
    /\ IsFiniteSet(Authorities)
    /\ Issuer \in [Authorities -> Authorities]
    /\ Roots \subseteq Authorities
    /\ IssuesServerAuth \subseteq Authorities

ASSUME ValidateOptionsAssumption ==
    /\ Now \in Nat
    /\ NoPublicKey \notin PublicKeys

\* The fields of a parsed x509.Certificate that the checks read.  keyUsage is
\* the set of the bits of KeyUsage, otherNames the number of URIs and e-mail
\* addresses.  Parsing knows the OID of serverAuth, so it is never left among the
\* unknown usages.
Certificate ==
    [notBefore : Nat, notAfter : Nat, dnsNames : Seq(STRING),
     ipAddresses : Seq([bytes : {4, 16}, addr : STRING]), otherNames : Nat,
     extKeyUsage : SUBSET STRING, unknownExtKeyUsage : SUBSET (STRING \ {"serverAuth"}),
     keyUsage : SUBSET STRING, publicKey : PublicKeys, issuer : Authorities]

\* An iPAddress SAN: 4 or 16 bytes.  net.IP.Equal ignores the width, so the
\* IPv4-mapped form of 127.0.0.1 has the same addr and other bytes.
IPEqual(ip, addr) == ip.addr = addr
IPv4Loopback == "127.0.0.1"
IPv6Loopback == "::1"

\* The three return points of the SAN loop: each address is one of the two
\* loopbacks, neither is seen twice, and both have been seen at the end.
LoopbackIPsOnly(ips) ==
    /\ Len(ips) = 2
    /\ \A i \in DOMAIN ips : IPEqual(ips[i], IPv4Loopback) \/ IPEqual(ips[i], IPv6Loopback)
    /\ \A addr \in {IPv4Loopback, IPv6Loopback} :
          \A i, j \in DOMAIN ips : IPEqual(ips[i], addr) /\ IPEqual(ips[j], addr) => i = j
    /\ \A addr \in {IPv4Loopback, IPv6Loopback} : \E i \in DOMAIN ips : IPEqual(ips[i], addr)

\* Mutated form: localhost among the DNS names is enough.
ValidateSANs_AnyDNSName(cert) ==
    /\ \E i \in DOMAIN cert.dnsNames : cert.dnsNames[i] \in LocalhostSpellings
    /\ LoopbackIPsOnly(cert.ipAddresses)
    /\ cert.otherNames = 0

\* validateSANs.
ValidateSANs(cert) ==
    /\ Len(cert.dnsNames) = 1
    /\ cert.dnsNames[1] \in LocalhostSpellings
    /\ LoopbackIPsOnly(cert.ipAddresses)
    /\ cert.otherNames = 0

\* The EKU is looked for among the usages crypto/x509 knows and then among the
\* unknown OIDs.
ValidateUsage(cert) ==
    /\ "serverAuth" \in cert.extKeyUsage \cup cert.unknownExtKeyUsage
    /\ "digitalSignature" \in cert.keyUsage

PublicKeysEqual(a, b) == a = b

\* crypto/x509: a path starts at the issuer of the leaf, goes from each
\* authority to the one that signed it, and ends in a root.  Only the last
\* authority is taken from the root pool, the others from the intermediates.
IsPath(path, n, cert, intermediates, roots) ==
    /\ path[1] = cert.issuer
    /\ path[n] \in roots
    /\ \A i \in 1..(n - 1) : path[i] \in intermediates /\ path[i + 1] = Issuer[path[i]]
    /\ \A i \in 1..n : path[i] \in IssuesServerAuth

\* A path repeats no authority, so its length is bounded by their number.
Verify(cert, intermediates, roots) ==
    \E n \in 1..Cardinality(Authorities) :
        \E path \in [1..n -> Authorities] : IsPath(path, n, cert, intermediates, roots)

ValidateChain(cert, intermediates) == Verify(cert, intermediates, Roots)

\* The checks of ValidateCertificate after the material has parsed, in order.
ValidateCertificate(cert, expectedPublicKey, intermediates) ==
    /\ cert.notBefore <= Now /\ Now <= cert.notAfter
    /\ ValidateSANs(cert)
    /\ ValidateUsage(cert)
    /\ \/ expectedPublicKey = NoPublicKey
       \/ PublicKeysEqual(cert.publicKey, expectedPublicKey)
    /\ ValidateChain(cert, intermediates)

-----------------------------------------------------------------------------
(* The policy the checks are meant to enforce, stated without their control *)
(* flow: one identity set, and trust as what every closed set contains.     *)

\* The authorities reachable from the roots through usable intermediates: the
\* least set that holds the usable roots and every usable intermediate signed
\* by a member.
Anchored(intermediates) ==
    LET Closed(S) ==
            \A ca \in IssuesServerAuth :
               ca \in Roots \/ (ca \in intermediates /\ Issuer[ca] \in S) => ca \in S
    IN {ca \in Authorities : \A S \in SUBSET Authorities : Closed(S) => ca \in S}

MeetsLocalhostPolicy(cert, key, intermediates) ==
    /\ Now \in cert.notBefore..cert.notAfter
    /\ \E name \in LocalhostSpellings : cert.dnsNames = <<name>>
    /\ {cert.ipAddresses[i].addr : i \in DOMAIN cert.ipAddresses} = {IPv4Loopback, IPv6Loopback}
    /\ Cardinality(DOMAIN cert.ipAddresses) = 2
    /\ cert.otherNames = 0
    /\ "serverAuth" \in cert.extKeyUsage
    /\ "digitalSignature" \in cert.keyUsage
    /\ key \in {NoPublicKey, cert.publicKey}
    /\ cert.issuer \in Anchored(intermediates)
=============================================================================
