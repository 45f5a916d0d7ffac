--------------------------- MODULE ChainExtraction ---------------------------
(***************************************************************************)
(* parsePKCS7Certificates of pkcs7.go on the chain file of certreq         *)
(* -submit.  The file is abstracted to what each decoding step finds in    *)
(* it; the certificates field is a run of elements, perhaps behind a SET of *)
(* elements.  encoding/asn1 is external: the progress guard of the loop    *)
(* assumes nothing of what it leaves.                                      *)
(***************************************************************************)
EXTENDS Naturals, Sequences, SequencesExt

CONSTANTS
    Certs,     \* elements that parse as X.509 certificates
    Junk,      \* a DER element that does not
    Garbage,   \* bytes that are not a DER element
    Stuck,     \* bytes asn1.Unmarshal would accept without consuming any
    ChainFiles \* the chain files that occur

Elements == Certs \cup {Junk, Garbage, Stuck}

\* asDER: the bytes decode as a ContentInfo; asBase64: stripped of whitespace
\* they are base64 of one, of something else, or not base64 at all; wrapped: the
\* certificates field starts with a SET that decodes, set is its content and run
\* what follows it; otherwise run is the whole field.
ChainFile == [asDER : BOOLEAN, asBase64 : {"contentInfo", "other", "no"},
              signedData : BOOLEAN, body : BOOLEAN, wrapped : BOOLEAN,
              set : Seq(Elements), run : Seq(Elements)]

ASSUME ChainAssumption ==
    /\ ChainFiles \subseteq ChainFile
    /\ {Junk, Garbage, Stuck} \cap Certs = {}

VARIABLES
    file,    \* the chain file
    xpc,     \* the next step
    rest,    \* what decodeCertElements has still to parse
    out,     \* the raw elements it has parsed
    certs,   \* the certificates parsed from them
    verdict  \* "none", "error", or "chain" with certs

chainVars == <<file, xpc, rest, out, certs, verdict>>

ChainInit ==
    /\ file \in ChainFiles
    /\ xpc = "decode"
    /\ rest = << >> /\ out = << >> /\ certs = << >>
    /\ verdict = "none"

Verdict(v) == xpc' = "done" /\ verdict' = v

\* decodePKCS7DER and the two ContentInfo checks: DER first, else base64.
IsSignedData ==
    /\ file.asDER \/ file.asBase64 = "contentInfo"
    /\ file.signedData
    /\ file.body

\* What the element loop starts from: a leading SET is entered, and what follows
\* it is not looked at any more.
LoopInput == IF file.wrapped THEN file.set ELSE file.run

\* SignedData without certificates has no loop.
DecodeHeader ==
    /\ xpc = "decode"
    /\ \/ /\ ~IsSignedData
          /\ Verdict("error")
          /\ UNCHANGED rest
       \/ /\ IsSignedData
          /\ ~file.wrapped /\ file.run = << >>
          /\ Verdict("chain")
          /\ UNCHANGED rest
       \/ /\ IsSignedData
          /\ file.wrapped \/ file.run # << >>
          /\ rest' = LoopInput
          /\ xpc' = "element"
          /\ UNCHANGED verdict
    /\ UNCHANGED <<file, out, certs>>

\* External: what asn1.Unmarshal leaves of b after its first element.
Unmarshal(b) == IF Head(b) = Stuck THEN b ELSE Tail(b)

\* Mutated form: the loop ends at the first element it cannot decode.
ParseElement_StopAtGarbage ==
    /\ xpc = "element"
    /\ rest # << >>
    /\ IF Head(rest) = Garbage \/ Len(Unmarshal(rest)) >= Len(rest)
       THEN rest' = << >> /\ UNCHANGED <<xpc, out>>
       ELSE /\ rest' = Unmarshal(rest)
            /\ out' = Append(out, Head(rest))
            /\ UNCHANGED xpc
    /\ UNCHANGED <<file, certs, verdict>>

\* Mutated form: without progress the loop goes on instead of giving up.
ParseElement_ContinueStuck ==
    /\ xpc = "element"
    /\ rest # << >>
    /\ \/ /\ Head(rest) = Garbage
          /\ Verdict("error")
          /\ UNCHANGED <<rest, out>>
       \/ /\ Head(rest) # Garbage
          /\ Len(Unmarshal(rest)) < Len(rest)
          /\ rest' = Unmarshal(rest)
          /\ out' = Append(out, Head(rest))
          /\ UNCHANGED <<xpc, verdict>>
    /\ UNCHANGED <<file, certs>>

\* One turn of the loop of decodeCertElements, with its progress guard.
ParseElement ==
    /\ xpc = "element"
    /\ rest # << >>
    /\ \/ /\ Head(rest) = Garbage \/ Len(Unmarshal(rest)) >= Len(rest)
          /\ Verdict("error")
          /\ UNCHANGED <<rest, out>>
       \/ /\ Head(rest) # Garbage
          /\ Len(Unmarshal(rest)) < Len(rest)
          /\ rest' = Unmarshal(rest)
          /\ out' = Append(out, Head(rest))
          /\ UNCHANGED <<xpc, verdict>>
    /\ UNCHANGED <<file, certs>>

\* The elements are parsed as certificates, all or none.
ParseCertificates ==
    /\ xpc = "element"
    /\ rest = << >>
    /\ IF ToSet(out) \subseteq Certs
       THEN certs' = out /\ Verdict("chain")
       ELSE UNCHANGED certs /\ Verdict("error")
    /\ UNCHANGED <<file, rest, out>>

ChainNext == DecodeHeader \/ ParseElement \/ ParseCertificates

ChainSpec == ChainInit /\ [][ChainNext]_chainVars /\ WF_chainVars(ChainNext)

-----------------------------------------------------------------------------
(* Properties *)

\* What Provider.Enroll makes of the verdict: an error and an empty chain are
\* both StatusInvalidCertificate.
UsableChain == verdict = "chain" /\ certs # << >>

\* Fail closed (provider.go, "a chain that is present but rejected by the
\* extractor ... is invalid-certificate"): a chain is used only when the file is
\* SignedData and every element the loop was given, first to last, is a
\* certificate; one damaged or foreign element costs the whole chain.  What is
\* given to the loop is the whole field, or the content of a leading SET.
LoopSkipsNothing ==
    UsableChain => /\ IsSignedData
                   /\ ToSet(certs) \subseteq Certs
                   /\ \/ file.wrapped /\ certs = file.set
                      \/ ~file.wrapped /\ certs = file.run

\* "parsePKCS7Certificates extracts every certificate embedded in a PKCS#7
\* SignedData structure" (pkcs7.go).  The code does not: it drops what follows
\* a leading SET, unread.
EveryCertificateExtracted ==
    UsableChain => (ToSet(file.set) \cup ToSet(file.run)) \cap Certs \subseteq ToSet(certs)

\* "A progress guard prevents any possibility of a non-terminating loop on
\* malformed input" (decodeCertElements).
ExtractionEnds == <>(xpc = "done")
=============================================================================
