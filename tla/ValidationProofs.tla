-------------------------- MODULE ValidationProofs --------------------------
(***************************************************************************)
(* ValidateCertificate accepts exactly what the localhost policy accepts,  *)
(* for every certificate, every public key infrastructure and every pool   *)
(* of intermediates.                                                       *)
(***************************************************************************)
EXTENDS ValidationCall, TLAPS, WellFoundedInduction, FiniteSetTheorems

\* The least-number principle for sets of naturals.
LEMMA LeastNatural ==
    ASSUME NEW T, T \subseteq Nat, T # {}
    PROVE  \E x \in T : \A y \in T : x <= y
  <1>1. IsWellFoundedOn(OpToRel(<, Nat), Nat)
    BY NatLessThanWellFounded
  <1>2. PICK x \in T : \A y \in T : ~ (<<y, x>> \in OpToRel(<, Nat))
    BY <1>1, WFMin
  <1>3. \A y \in T : ~ (y < x)
    BY <1>2 DEF OpToRel
  <1> QED BY <1>3

\* Every authority of a path is anchored: going down from the root, the last one
\* is a root and each other one is an intermediate signed by the next.
LEMMA PathAnchored ==
    ASSUME NEW cert, NEW I, NEW n \in Nat \ {0}, NEW path \in [1..n -> Authorities],
           IsPath(path, n, cert, I, Roots)
    PROVE  path[1] \in Anchored(I)
  <1> DEFINE Closed(S) == \A ca \in IssuesServerAuth :
                             ca \in Roots \/ (ca \in I /\ Issuer[ca] \in S) => ca \in S
  <1> SUFFICES ASSUME NEW S \in SUBSET Authorities, Closed(S) PROVE path[1] \in S
    BY DEF Anchored
  <1> SUFFICES ASSUME path[1] \notin S PROVE FALSE
    OBVIOUS
  \* The distances to the end of the path of the authorities outside S.
  <1> DEFINE T == {d \in 0..(n - 1) : path[n - d] \notin S}
  <1>1. T # {} /\ T \subseteq Nat
    <2>1. n - 1 \in T
      OBVIOUS
    <2> QED BY <2>1
  <1>2. PICK d \in T : \A e \in T : d <= e
    BY <1>1, LeastNatural
  <1>3. path[n - d] \in IssuesServerAuth /\ path[n - d] \notin S
    BY <1>2 DEF IsPath
  <1>4. CASE d = 0
    BY <1>3, <1>4 DEF IsPath
  <1>5. CASE d > 0
    <2>1. d - 1 \in 0..(n - 1) /\ d - 1 \notin T
      BY <1>2, <1>5
    <2>2. path[n - (d - 1)] \in S
      BY <2>1
    <2>3. n - d \in 1..(n - 1) /\ n - (d - 1) = (n - d) + 1
      BY <1>2, <1>5
    <2>4. path[n - d] \in I /\ path[(n - d) + 1] = Issuer[path[n - d]]
      BY <2>3 DEF IsPath
    <2> QED BY <1>3, <2>2, <2>3, <2>4
  <1> QED BY <1>2, <1>4, <1>5

\* Verify accepts only leaves whose issuer is anchored: intermediates extend a
\* path to a root and are never themselves trusted.
LEMMA VerifyAnchored ==
    ASSUME NEW cert, NEW I, Verify(cert, I, Roots)
    PROVE  cert.issuer \in Anchored(I)
  <1>1. PICK n \in 1..Cardinality(Authorities) :
          \E path \in [1..n -> Authorities] : IsPath(path, n, cert, I, Roots)
    BY DEF Verify
  <1>2. n \in Nat \ {0}
    BY <1>1, FS_CardinalityType, AuthorityAssumption
  <1>3. PICK path \in [1..n -> Authorities] : IsPath(path, n, cert, I, Roots)
    BY <1>1
  <1>4. path[1] \in Anchored(I)
    BY <1>2, <1>3, PathAnchored
  <1> QED BY <1>3, <1>4 DEF IsPath

\* The SAN loop accepts exactly one of each loopback address.
LEMMA LoopbackSet ==
    ASSUME NEW ips \in Seq([bytes : {4, 16}, addr : STRING]), LoopbackIPsOnly(ips)
    PROVE  /\ {ips[i].addr : i \in DOMAIN ips} = {IPv4Loopback, IPv6Loopback}
           /\ Cardinality(DOMAIN ips) = 2
  <1>1. Len(ips) = 2 /\ DOMAIN ips = 1..2
    BY DEF LoopbackIPsOnly
  <1>2. Cardinality(1..2) = 2
    <2>1. Cardinality(1..2) = IF 1 > 2 THEN 0 ELSE 2 - 1 + 1
      BY FS_Interval, 1 \in Int, 2 \in Int
    <2> QED BY <2>1
  <1>3. \A i \in DOMAIN ips : ips[i].addr \in {IPv4Loopback, IPv6Loopback}
    BY DEF LoopbackIPsOnly, IPEqual
  <1>4. /\ \E i \in DOMAIN ips : ips[i].addr = IPv4Loopback
        /\ \E i \in DOMAIN ips : ips[i].addr = IPv6Loopback
    BY DEF LoopbackIPsOnly, IPEqual
  <1> QED BY <1>1, <1>2, <1>3, <1>4

\* ValidateCertificate is sound for the localhost policy.
THEOREM ValidationSound ==
    ASSUME NEW cert \in Certificate, NEW key, NEW I,
           ValidateCertificate(cert, key, I)
    PROVE  MeetsLocalhostPolicy(cert, key, I)
  <1>1. Now \in cert.notBefore..cert.notAfter
    BY ValidateOptionsAssumption DEF ValidateCertificate, Certificate
  <1>2. \E name \in LocalhostSpellings : cert.dnsNames = <<name>>
    <2>1. cert.dnsNames \in Seq(STRING) /\ Len(cert.dnsNames) = 1
      BY DEF ValidateCertificate, ValidateSANs, Certificate
    <2>2. cert.dnsNames[1] \in LocalhostSpellings
      BY DEF ValidateCertificate, ValidateSANs
    <2>3. cert.dnsNames = <<cert.dnsNames[1]>>
      BY <2>1
    <2> QED BY <2>2, <2>3
  <1>3. /\ {cert.ipAddresses[i].addr : i \in DOMAIN cert.ipAddresses} = {IPv4Loopback, IPv6Loopback}
        /\ Cardinality(DOMAIN cert.ipAddresses) = 2
    <2>1. cert.ipAddresses \in Seq([bytes : {4, 16}, addr : STRING])
      BY DEF Certificate
    <2>2. LoopbackIPsOnly(cert.ipAddresses)
      BY DEF ValidateCertificate, ValidateSANs
    <2> QED BY <2>1, <2>2, LoopbackSet
  <1>4. cert.otherNames = 0
    BY DEF ValidateCertificate, ValidateSANs
  <1>5. /\ "serverAuth" \in cert.extKeyUsage
        /\ "digitalSignature" \in cert.keyUsage
    BY DEF ValidateCertificate, ValidateUsage, Certificate
  <1>6. key \in {NoPublicKey, cert.publicKey}
    BY DEF ValidateCertificate, PublicKeysEqual
  <1>7. cert.issuer \in Anchored(I)
    BY VerifyAnchored DEF ValidateCertificate, ValidateChain
  <1> QED BY <1>1, <1>2, <1>3, <1>4, <1>5, <1>6, <1>7 DEF MeetsLocalhostPolicy
-----------------------------------------------------------------------------
(* The converse: nothing the policy accepts is refused. *)

\* An anchored authority begins a path to a root, of whatever length: the
\* authorities that do form a closed set.
LEMMA AnchoredHasPath ==
    ASSUME NEW cert, NEW I, cert.issuer \in Anchored(I)
    PROVE  \E n \in Nat \ {0} :
              \E path \in [1..n -> Authorities] : IsPath(path, n, cert, I, Roots)
  <1> DEFINE Closed(S) == \A ca \in IssuesServerAuth :
                             ca \in Roots \/ (ca \in I /\ Issuer[ca] \in S) => ca \in S
             Leads(path, n, ca) == /\ path[1] = ca
                                   /\ path[n] \in Roots
                                   /\ \A i \in 1..(n - 1) : path[i] \in I /\ path[i + 1] = Issuer[path[i]]
                                   /\ \A i \in 1..n : path[i] \in IssuesServerAuth
             Led == {ca \in Authorities : \E n \in Nat \ {0} :
                                             \E path \in [1..n -> Authorities] : Leads(path, n, ca)}
  <1>1. Closed(Led)
    <2> SUFFICES ASSUME NEW ca \in IssuesServerAuth,
                        ca \in Roots \/ (ca \in I /\ Issuer[ca] \in Led)
                 PROVE  ca \in Led
      OBVIOUS
    <2>1. ca \in Authorities
      BY AuthorityAssumption
    <2>2. CASE ca \in Roots
      <3> DEFINE path == [i \in 1..1 |-> ca]
      <3>1. path \in [1..1 -> Authorities] /\ Leads(path, 1, ca)
        BY <2>1, <2>2
      <3>2. \E p \in [1..1 -> Authorities] : Leads(p, 1, ca)
        <4> HIDE DEF Leads, path
        <4> QED BY <3>1
      <3> HIDE DEF Leads
      <3> QED BY <2>1, <3>2, 1 \in Nat \ {0}
    <2>3. CASE ca \in I /\ Issuer[ca] \in Led
      <3>0. PICK n \in Nat \ {0} :
               \E rest \in [1..n -> Authorities] : Leads(rest, n, Issuer[ca])
        BY <2>3
      <3>1. PICK rest \in [1..n -> Authorities] : Leads(rest, n, Issuer[ca])
        BY <3>0
      <3> DEFINE path == [i \in 1..(n + 1) |-> IF i = 1 THEN ca ELSE rest[i - 1]]
      <3>2. path \in [1..(n + 1) -> Authorities]
        BY <2>1
      <3>3. path[1] = ca /\ path[n + 1] \in Roots
        BY <3>1
      <3>4. ASSUME NEW i \in 1..((n + 1) - 1)
            PROVE  path[i] \in I /\ path[i + 1] = Issuer[path[i]]
        <4>1. CASE i = 1
          BY <2>3, <3>1, <4>1
        <4>2. CASE i # 1
          <5>1. i - 1 \in 1..(n - 1) /\ path[i] = rest[i - 1] /\ path[i + 1] = rest[(i - 1) + 1]
            BY <4>2
          <5> QED BY <3>1, <5>1
        <4> QED BY <4>1, <4>2
      <3>5. \A i \in 1..(n + 1) : path[i] \in IssuesServerAuth
        BY <3>1
      <3>6. Leads(path, n + 1, ca)
        BY <3>3, <3>4, <3>5
      <3> HIDE DEF Leads, path
      <3> QED BY <2>1, <3>2, <3>6, n + 1 \in Nat \ {0}
    <2> QED BY <2>2, <2>3
  <1>2. cert.issuer \in Led
    BY <1>1, Led \in SUBSET Authorities DEF Anchored
  <1> QED BY <1>2 DEF IsPath

\* A path that meets an authority twice can be cut short.
LEMMA CutPath ==
    ASSUME NEW cert, NEW I, NEW n \in Nat \ {0}, NEW path \in [1..n -> Authorities],
           IsPath(path, n, cert, I, Roots),
           NEW i \in 1..n, NEW j \in 1..n, i < j, path[i] = path[j]
    PROVE  \E m \in Nat \ {0} :
              m < n /\ \E short \in [1..m -> Authorities] : IsPath(short, m, cert, I, Roots)
  <1> DEFINE m == n - (j - i)
             short == [k \in 1..m |-> IF k <= i THEN path[k] ELSE path[k + (j - i)]]
  <1>1. m \in Nat \ {0} /\ m < n
    OBVIOUS
  <1>2. \A k \in 1..m : k \in 1..n /\ k + (j - i) \in 1..n
    OBVIOUS
  <1>3. short \in [1..m -> Authorities]
    BY <1>2
  <1>4. short[1] = cert.issuer
    BY <1>1 DEF IsPath
  <1>5. short[m] \in Roots
    BY <1>1 DEF IsPath
  <1>6. ASSUME NEW k \in 1..(m - 1)
        PROVE  short[k] \in I /\ short[k + 1] = Issuer[short[k]]
    <2>1. k \in 1..(n - 1) /\ k + (j - i) \in 1..(n - 1)
      OBVIOUS
    <2>2. /\ path[k] \in I /\ path[k + 1] = Issuer[path[k]]
          /\ path[k + (j - i)] \in I /\ path[(k + (j - i)) + 1] = Issuer[path[k + (j - i)]]
      BY <2>1 DEF IsPath
    <2>3. CASE k < i
      BY <2>2, <2>3
    <2>4. CASE k = i
      BY <2>2, <2>4
    <2>5. CASE k > i
      <3>1. (k + 1) + (j - i) = (k + (j - i)) + 1
        OBVIOUS
      <3> QED BY <2>2, <2>5, <3>1
    <2> QED BY <2>3, <2>4, <2>5
  <1>7. \A k \in 1..m : short[k] \in IssuesServerAuth
    BY <1>2 DEF IsPath
  <1>8. IsPath(short, m, cert, I, Roots)
    BY <1>4, <1>5, <1>6, <1>7 DEF IsPath
  <1> HIDE DEF m, short
  <1> QED BY <1>1, <1>3, <1>8

\* Verify accepts every leaf whose issuer is anchored: a shortest path meets no
\* authority twice, so the bound on the length of paths loses nothing.
LEMMA AnchoredVerifies ==
    ASSUME NEW cert, NEW I, cert.issuer \in Anchored(I)
    PROVE  Verify(cert, I, Roots)
  <1> DEFINE HasPath(n) == \E path \in [1..n -> Authorities] : IsPath(path, n, cert, I, Roots)
             Lengths == {n \in Nat \ {0} : HasPath(n)}
  <1>1. Lengths \subseteq Nat /\ Lengths # {}
    BY AnchoredHasPath
  <1>2. PICK n \in Lengths : \A m \in Lengths : n <= m
    BY <1>1, LeastNatural
  <1>3. n \in Nat \ {0}
    BY <1>2
  <1>4. PICK path \in [1..n -> Authorities] : IsPath(path, n, cert, I, Roots)
    BY <1>2
  <1>5. Cardinality(Authorities) \in Nat
    BY FS_CardinalityType, AuthorityAssumption
  <1>6. n <= Cardinality(Authorities)
    <2> SUFFICES ASSUME Cardinality(Authorities) < n PROVE FALSE
      BY <1>3, <1>5
    <2>1. IsFiniteSet(1..n) /\ Cardinality(1..n) = n
      BY <1>3, FS_Interval, 1 \in Int, n \in Int
    <2>2. PICK x \in 1..n, y \in 1..n : x # y /\ path[x] = path[y]
      BY <2>1, FS_PigeonHole, AuthorityAssumption
    <2>3. PICK i \in 1..n, j \in 1..n : i < j /\ path[i] = path[j]
      <3>1. x < y \/ y < x
        BY <2>2
      <3> QED BY <2>2, <3>1
    <2>4. PICK m \in Nat \ {0} : m < n /\ HasPath(m)
      BY <1>3, <1>4, <2>3, CutPath
    <2>5. m \in Lengths
      BY <2>4
    <2> HIDE DEF Lengths
    <2> QED BY <1>2, <1>3, <2>4, <2>5
  <1> QED BY <1>3, <1>4, <1>5, <1>6 DEF Verify

\* A set of both loopbacks over two positions has each of them once.
LEMMA LoopbackOnce ==
    ASSUME NEW ips \in Seq([bytes : {4, 16}, addr : STRING]),
           {ips[i].addr : i \in DOMAIN ips} = {IPv4Loopback, IPv6Loopback},
           Cardinality(DOMAIN ips) = 2
    PROVE  LoopbackIPsOnly(ips)
  <1>1. Len(ips) = 2 /\ DOMAIN ips = 1..2
    <2>1. DOMAIN ips = 1..Len(ips) /\ Len(ips) \in Nat
      OBVIOUS
    <2>2. Cardinality(1..Len(ips)) = IF 1 > Len(ips) THEN 0 ELSE Len(ips) - 1 + 1
      BY <2>1, FS_Interval, 1 \in Int, Len(ips) \in Int
    <2> QED BY <2>1, <2>2
  <1>2. \A i \in DOMAIN ips : ips[i].addr = IPv4Loopback \/ ips[i].addr = IPv6Loopback
    OBVIOUS
  <1>3. /\ \E i \in DOMAIN ips : ips[i].addr = IPv4Loopback
        /\ \E i \in DOMAIN ips : ips[i].addr = IPv6Loopback
    OBVIOUS
  <1>4. IPv4Loopback # IPv6Loopback
    BY DEF IPv4Loopback, IPv6Loopback
  <1>5. ips[1].addr # ips[2].addr
    BY <1>1, <1>3, <1>4
  <1>6. \A i, j \in DOMAIN ips : ips[i].addr = ips[j].addr => i = j
    BY <1>1, <1>5
  <1> QED BY <1>1, <1>2, <1>3, <1>6 DEF LoopbackIPsOnly, IPEqual

\* ValidateCertificate is exact for the localhost policy: the order and number of
\* its early returns, the SAN loop and the path building neither let anything
\* through nor refuse a certificate they should take.  This is AcceptsExactlyPolicy
\* of MCValidation for every certificate and every public key infrastructure.
THEOREM ValidationExact ==
    ASSUME NEW cert \in Certificate, NEW key, NEW I
    PROVE  ValidateCertificate(cert, key, I) <=> MeetsLocalhostPolicy(cert, key, I)
  <1>1. ValidateCertificate(cert, key, I) => MeetsLocalhostPolicy(cert, key, I)
    BY ValidationSound
  <1>2. ASSUME MeetsLocalhostPolicy(cert, key, I)
        PROVE  ValidateCertificate(cert, key, I)
    <2>1. cert.notBefore <= Now /\ Now <= cert.notAfter
      BY <1>2, ValidateOptionsAssumption DEF MeetsLocalhostPolicy, Certificate
    <2>2. Len(cert.dnsNames) = 1 /\ cert.dnsNames[1] \in LocalhostSpellings
      <3>1. PICK name \in LocalhostSpellings : cert.dnsNames = <<name>>
        BY <1>2 DEF MeetsLocalhostPolicy
      <3> QED BY <3>1
    <2>3. LoopbackIPsOnly(cert.ipAddresses)
      <3>1. cert.ipAddresses \in Seq([bytes : {4, 16}, addr : STRING])
        BY DEF Certificate
      <3>2. /\ {cert.ipAddresses[i].addr : i \in DOMAIN cert.ipAddresses}
                  = {IPv4Loopback, IPv6Loopback}
            /\ Cardinality(DOMAIN cert.ipAddresses) = 2
        BY <1>2 DEF MeetsLocalhostPolicy
      <3> QED BY <3>1, <3>2, LoopbackOnce
    <2>4. ValidateSANs(cert)
      BY <1>2, <2>2, <2>3 DEF MeetsLocalhostPolicy, ValidateSANs
    <2>5. ValidateUsage(cert)
      BY <1>2 DEF MeetsLocalhostPolicy, ValidateUsage
    <2>6. key = NoPublicKey \/ PublicKeysEqual(cert.publicKey, key)
      BY <1>2 DEF MeetsLocalhostPolicy, PublicKeysEqual
    <2>7. ValidateChain(cert, I)
      BY <1>2, AnchoredVerifies DEF MeetsLocalhostPolicy, ValidateChain
    <2> QED BY <2>1, <2>4, <2>5, <2>6, <2>7 DEF ValidateCertificate
  <1> QED BY <1>1, <1>2

\* A call keeps its arguments, and its verdict, once there is one, is the policy's.
LEMMA VerdictStep ==
    ASSUME validateCall \in ValidateCalls, AcceptsExactlyPolicy, [Check]_validateVars
    PROVE  validateCall' \in ValidateCalls /\ AcceptsExactlyPolicy'
  <1>1. CASE UNCHANGED validateVars
    BY <1>1 DEF validateVars, AcceptsExactlyPolicy
  <1>2. CASE Check
    <2> DEFINE c == validateCall.cert
               k == validateCall.key
               I == validateCall.intermediates
    <2>1. c \in Certificate
      BY DEF ValidateCalls
    <2>2. ValidateCertificate(c, k, I) <=> MeetsLocalhostPolicy(c, k, I)
      BY <2>1, ValidationExact
    <2>3. validateCall' = validateCall
      BY <1>2 DEF Check
    <2> HIDE DEF c, k, I
    <2>4. validateVerdict' = IF ValidateCertificate(c, k, I) THEN "accepted" ELSE "rejected"
      BY <1>2 DEF Check, c, k, I
    <2>5. (validateVerdict' = "accepted") = MeetsLocalhostPolicy(c, k, I)
      <3>1. MeetsLocalhostPolicy(c, k, I) \in BOOLEAN
        BY DEF MeetsLocalhostPolicy
      <3>2. (validateVerdict' = "accepted") <=> MeetsLocalhostPolicy(c, k, I)
        BY <2>2, <2>4
      <3> QED BY <3>1, <3>2
    <2> QED BY <2>3, <2>5 DEF AcceptsExactlyPolicy, c, k, I
  <1> QED BY <1>1, <1>2

\* Whatever the arguments of a call of ValidateCertificate are, the verdict it
\* returns is the policy's (ValidateCertificate, validate.go).
THEOREM ValidationAccepts == ValidationSpec => []AcceptsExactlyPolicy
  <1> DEFINE Inv == validateCall \in ValidateCalls /\ AcceptsExactlyPolicy
  <1>1. ValidationInit => Inv
    BY DEF ValidationInit, AcceptsExactlyPolicy
  <1>2. Inv /\ [Check]_validateVars => Inv'
    BY VerdictStep
  <1>3. Inv => AcceptsExactlyPolicy
    OBVIOUS
  <1> QED BY <1>1, <1>2, <1>3, PTL DEF ValidationSpec
=============================================================================
