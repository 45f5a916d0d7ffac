----------------------- MODULE ChainExtractionProofs -----------------------
(***************************************************************************)
(* Theorems of ChainExtraction for every chain file and every set of       *)
(* certificates.                                                           *)
(***************************************************************************)
EXTENDS ChainExtraction, SequenceTheorems, TLAPS

\* Moving the first element from the end of one sequence to the other keeps
\* their concatenation.
LEMMA MoveHead ==
    ASSUME NEW S, NEW s \in Seq(S), NEW t \in Seq(S), t # << >>
    PROVE  /\ Head(t) \in S /\ Tail(t) \in Seq(S) /\ Append(s, Head(t)) \in Seq(S)
           /\ Append(s, Head(t)) \o Tail(t) = s \o t
  <1>1. Head(t) \in S /\ Tail(t) \in Seq(S)
    BY HeadTailProperties
  <1>2. Append(s, Head(t)) \in Seq(S) /\ Append(s, Head(t)) = s \o <<Head(t)>>
    BY <1>1, AppendProperties, AppendIsConcat
  <1>3. <<Head(t)>> \in Seq(S) /\ <<Head(t)>> \o Tail(t) = t
    BY <1>1, ConcatProperties
  <1>4. (s \o <<Head(t)>>) \o Tail(t) = s \o (<<Head(t)>> \o Tail(t))
    BY <1>1, <1>3, ConcatAssociative
  <1> QED BY <1>1, <1>2, <1>3, <1>4

\* A turn of the loop that goes on has consumed exactly one element.
LEMMA LoopTurn ==
    ASSUME ParseElement, rest \in Seq(Elements), xpc' = "element"
    PROVE  rest' = Tail(rest) /\ out' = Append(out, Head(rest)) /\ UNCHANGED <<file, certs, verdict>>
  <1>1. Len(Unmarshal(rest)) < Len(rest) /\ rest' = Unmarshal(rest) /\ out' = Append(out, Head(rest))
    BY DEF ParseElement, Verdict
  <1>2. Unmarshal(rest) # rest
    BY <1>1
  <1> QED BY <1>1, <1>2 DEF ParseElement, Unmarshal, Verdict

\* What the extractor has kept and what it has still to read are, in order and
\* with nothing lost in between, what the loop was given: the certificates field
\* of a SignedData file, or the content of its leading SET, whose followers are
\* not given to it (decodeCertElements).
LoopAccounts ==
    /\ file \in ChainFile
    /\ xpc \in {"decode", "element", "done"}
    /\ xpc = "decode" => out = << >>
    /\ xpc # "done" => verdict = "none" /\ certs = << >>
    /\ xpc = "element" =>
          /\ IsSignedData
          /\ rest \in Seq(Elements) /\ out \in Seq(Elements)
          /\ out \o rest = LoopInput

ChainIInv == LoopAccounts /\ LoopSkipsNothing

LEMMA ChainInductive == ChainSpec => []ChainIInv
  <1>1. ChainInit => ChainIInv
    BY ChainAssumption DEF ChainInit, ChainIInv, LoopAccounts, LoopSkipsNothing, UsableChain
  <1>2. ChainIInv /\ [ChainNext]_chainVars => ChainIInv'
    <2> SUFFICES ASSUME LoopAccounts, LoopSkipsNothing, [ChainNext]_chainVars
                 PROVE  LoopAccounts' /\ LoopSkipsNothing'
      BY DEF ChainIInv
    <2>1. CASE DecodeHeader
      <3>1. LoopInput \in Seq(Elements) /\ out = << >>
        BY <2>1 DEF DecodeHeader, LoopAccounts, ChainFile, LoopInput
      <3>2. << >> \in Seq(Elements) /\ << >> \o LoopInput = LoopInput
        BY <3>1, EmptySeq, ConcatEmptySeq
      <3>3. file' = file /\ LoopInput' = LoopInput /\ (IsSignedData' <=> IsSignedData)
        BY <2>1 DEF DecodeHeader, LoopInput, IsSignedData
      <3>4. LoopAccounts'
        <4>1. /\ file \in ChainFile /\ certs' = << >> /\ out' = << >> /\ xpc' \in {"element", "done"}
              /\ xpc' = "element" => rest' = LoopInput /\ IsSignedData /\ verdict' = "none"
          BY <2>1, <3>1 DEF DecodeHeader, Verdict, LoopAccounts
        <4> QED BY <3>1, <3>2, <3>3, <4>1 DEF LoopAccounts
      <3>5. certs' = << >>
        BY <2>1 DEF DecodeHeader, LoopAccounts
      <3> QED BY <3>4, <3>5 DEF LoopSkipsNothing, UsableChain
    <2>2. CASE ParseElement
      <3>0. /\ xpc = "element" /\ rest # << >> /\ verdict = "none" /\ certs = << >>
            /\ rest \in Seq(Elements) /\ out \in Seq(Elements) /\ out \o rest = LoopInput
            /\ IsSignedData /\ file \in ChainFile
        BY <2>2 DEF ParseElement, LoopAccounts
      <3>1. CASE xpc' = "element"
        <4>1. rest' = Tail(rest) /\ out' = Append(out, Head(rest)) /\ UNCHANGED <<file, certs, verdict>>
          BY <2>2, <3>0, <3>1, LoopTurn
        <4>2. rest' \in Seq(Elements) /\ out' \in Seq(Elements) /\ out' \o rest' = LoopInput
          <5>1. /\ Append(out, Head(rest)) \in Seq(Elements) /\ Tail(rest) \in Seq(Elements)
                /\ Append(out, Head(rest)) \o Tail(rest) = out \o rest
            BY <3>0, MoveHead
          <5> QED BY <3>0, <4>1, <5>1
        <4> QED BY <3>0, <3>1, <4>1, <4>2
                DEF LoopAccounts, LoopSkipsNothing, UsableChain, IsSignedData, LoopInput
      <3>2. CASE xpc' # "element"
        BY <2>2, <3>0, <3>2 DEF ParseElement, Verdict, LoopAccounts, LoopSkipsNothing, UsableChain, LoopInput
      <3> QED BY <3>1, <3>2
    <2>3. CASE ParseCertificates
      <3>1. out = LoopInput /\ IsSignedData /\ file \in ChainFile
        <4>1. out \in Seq(Elements) /\ out \o << >> = LoopInput /\ IsSignedData /\ file \in ChainFile
          BY <2>3 DEF ParseCertificates, LoopAccounts
        <4> QED BY <4>1, ConcatEmptySeq
      <3> QED BY <2>3, <3>1 DEF ParseCertificates, Verdict, LoopAccounts, LoopSkipsNothing, UsableChain,
                                IsSignedData, LoopInput
    <2>4. CASE UNCHANGED chainVars
      BY <2>4 DEF chainVars, LoopAccounts, LoopSkipsNothing, UsableChain, IsSignedData, LoopInput
    <2> QED BY <2>1, <2>2, <2>3, <2>4 DEF ChainNext
  <1> QED BY <1>1, <1>2, PTL DEF ChainSpec

\* While the loop runs, what it has kept and what it has still to read are what it
\* was given.  What follows a leading SET is not given to it.
THEOREM ElementsAccounted == ChainSpec => []LoopAccounts
  <1>1. ChainIInv => LoopAccounts
    BY DEF ChainIInv
  <1> QED BY <1>1, ChainInductive, PTL

\* The extractor fails closed on what it reads: a chain that is used is all of a
\* certificates field without a SET, or all of the leading SET, and every element
\* of it is a certificate.  What follows the SET is dropped unread and is not
\* covered (EveryCertificateExtracted does not hold).
THEOREM ChainFailsClosed == ChainSpec => []LoopSkipsNothing
  <1>1. ChainIInv => LoopSkipsNothing
    BY DEF ChainIInv
  <1> QED BY <1>1, ChainInductive, PTL

-----------------------------------------------------------------------------
(* Why the extraction ends *)

\* Every step answers, or starts the loop, or shortens what is left to parse, and
\* what is left never grows again.
ChainDescends ==
    [][\/ xpc # "done" /\ xpc' = "done"
       \/ xpc = "decode" /\ xpc' = "element"
       \/ xpc = "element" /\ xpc' = "element" /\ Len(rest') < Len(rest)]_chainVars

\* "A progress guard prevents any possibility of a non-terminating loop on
\* malformed input": nothing that encoding/asn1 may leave of an element keeps
\* the loop of decodeCertElements going for ever.
THEOREM ExtractionDescends == ChainSpec => ChainDescends
  <1>1. [ChainNext]_chainVars =>
           [\/ xpc # "done" /\ xpc' = "done"
            \/ xpc = "decode" /\ xpc' = "element"
            \/ xpc = "element" /\ xpc' = "element" /\ Len(rest') < Len(rest)]_chainVars
    <2>1. DecodeHeader => \/ xpc # "done" /\ xpc' = "done"
                          \/ xpc = "decode" /\ xpc' = "element"
      BY DEF DecodeHeader, Verdict
    <2>2. ParseElement => \/ xpc # "done" /\ xpc' = "done"
                          \/ xpc = "element" /\ xpc' = "element" /\ Len(rest') < Len(rest)
      BY DEF ParseElement, Verdict
    <2>3. ParseCertificates => xpc # "done" /\ xpc' = "done"
      BY DEF ParseCertificates, Verdict
    <2> QED BY <2>1, <2>2, <2>3 DEF ChainNext
  <1> QED BY <1>1, PTL DEF ChainSpec, ChainDescends
=============================================================================
