---------------------------- MODULE MCValidation ----------------------------
(***************************************************************************)
(* ValidateCertificate checked against the policy over bounded inputs: one *)
(* state for each certificate, expected key and pool of intermediates, and *)
(* one step that runs the checks.  Names, widths and orders of the SANs,   *)
(* usages, validity windows around Now, keys and issuers vary together.    *)
(***************************************************************************)
EXTENDS ValidationCall

DNSNameLists == {<<>>, <<"localhost">>, <<"LOCALHOST">>, <<"host.example">>,
                 <<"localhost", "host.example">>}

Addresses == {[bytes |-> 4, addr |-> "127.0.0.1"], [bytes |-> 16, addr |-> "127.0.0.1"],
              [bytes |-> 16, addr |-> "::1"], [bytes |-> 4, addr |-> "10.0.0.1"]}

IPLists == (UNION {[1..n -> Addresses] : n \in 0..2})
              \cup {<<i, i, j>> : i, j \in Addresses}

Certificates ==
    [notBefore : {1, 2}, notAfter : {1, 2}, dnsNames : {<<"localhost">>},
     ipAddresses : {<<[bytes |-> 4, addr |-> "127.0.0.1"], [bytes |-> 16, addr |-> "::1"]>>},
     otherNames : 0..1, extKeyUsage : {{}, {"serverAuth"}, {"clientAuth", "any"}},
     unknownExtKeyUsage : {{}, {"smartcardLogon"}},
     keyUsage : {{"digitalSignature"}, {"keyEncipherment"}},
     publicKey : {"k1"}, issuer : {"root"}]
    \cup
    [notBefore : {1}, notAfter : {3}, dnsNames : DNSNameLists, ipAddresses : IPLists,
     otherNames : {0}, extKeyUsage : {{"serverAuth"}}, unknownExtKeyUsage : {{}},
     keyUsage : {{"digitalSignature"}}, publicKey : {"k1"}, issuer : {"root"}]
    \cup
    [notBefore : {1}, notAfter : {3}, dnsNames : {<<"localhost">>},
     ipAddresses : {<<[bytes |-> 16, addr |-> "::1"], [bytes |-> 4, addr |-> "127.0.0.1"]>>},
     otherNames : {0}, extKeyUsage : {{"serverAuth"}}, unknownExtKeyUsage : {{}},
     keyUsage : {{"digitalSignature"}}, publicKey : {"k1", "k2"}, issuer : Authorities]

\* root signs itself and sub, sub signs leafCA; rogue signs itself and is
\* nobody's root; old is a sub-CA that may not issue server certificates.
MCIssuer == [ca \in Authorities |->
               CASE ca = "leafCA" -> "sub" [] ca = "rogue" -> "rogue" [] OTHER -> "root"]

MCCalls == [cert : Certificates, key : {"k1", NoPublicKey},
            intermediates : SUBSET (Authorities \ {"root"})]

\* The calls of ValidationInit, cut down to the bounded ones.
MCInit == validateCall \in MCCalls /\ ValidationInit

MCSpec == MCInit /\ [][Check]_validateVars
=============================================================================
