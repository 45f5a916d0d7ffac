------------------------- MODULE KeyProvInfoProofs -------------------------
(***************************************************************************)
(* Theorems of KeyProvInfo for every address space, every place and size   *)
(* of the buffer, every content and every pair of pointers: no read leaves *)
(* the buffer, no integer wraps, and both strings are decoded completely.  *)
(***************************************************************************)
EXTENDS KeyProvInfo, SequenceTheorems, TLAPS

KpiInv == KpiTypeOK /\ DecodeInv

-----------------------------------------------------------------------------
(* Machine integers *)

\* In a process the buffer lies in the lower half of the address space, so the
\* difference of an address and its base keeps its sign as an int.
LEMMA OffsetExact ==
    ASSUME NEW addr \in Addresses
    PROVE  Offset(addr) = addr - Base /\ Offset(addr) \in Int /\ addr \in Nat
  BY UserModeAssumption DEF Offset, Wrap

\* Neither i + 1 nor i + 2 wraps for an offset i of the buffer.
LEMMA NextExact ==
    ASSUME NEW k \in Int, k <= MaxSize
    PROVE  Next1(k) = k + 1 /\ (k < MaxSize => Wrap(k + 2) = k + 2)
  BY UserModeAssumption DEF Next1, Wrap

\* The guards of utf16StringAt let exactly the addresses pass at which a whole
\* code unit lies in the buffer.
LEMMA OutsideExact ==
    ASSUME NEW addr \in Addresses, size \in 0 .. MaxSize
    PROVE  OutsideBuffer(addr) <=> (addr < Base \/ addr - Base + 1 >= size)
  BY OffsetExact, UserModeAssumption DEF OutsideBuffer, Next1, Wrap

\* An address at which no whole unit lies in the buffer holds the empty string.
LEMMA OutsideIsEmpty ==
    ASSUME NEW addr \in Addresses, size \in 0 .. MaxSize, OutsideBuffer(addr)
    PROVE  IsStringAt(<< >>, addr)
  <1>1. addr \in Nat /\ (addr < Base \/ addr - Base + 1 >= size)
    BY OutsideExact, OffsetExact
  <1>2. WholeUnits(addr) = 0
    BY <1>1, UserModeAssumption DEF WholeUnits
  <1> QED BY <1>2 DEF IsStringAt

-----------------------------------------------------------------------------
(* The inductive invariant *)

\* The steps have different names.
LEMMA StepNames ==
    /\ Fields = {"provName", "containerName"}
    /\ Decoding("provName") = "decodeProvName"
    /\ Decoding("containerName") = "decodeContainerName"
    /\ After("provName") = {"done", "containerName", "decodeContainerName"}
    /\ After("containerName") = {"done"}
  BY DEF Decoding, Fields, After

\* The part of DecodeInv that speaks of one string.
Decoded(f) ==
    /\ kpc = Decoding(f) => InLoop(f)
    /\ kpc \in After(f) => outcome = "error" \/ IsStringAt(units[f], pointer[f])
    /\ kpc \notin {Decoding(f)} \cup After(f) => units[f] = << >>

LEMMA DecodeInvParts ==
    DecodeInv <=> /\ kpc \in Fields \cup {Decoding(f) : f \in Fields} => HeaderSize <= size
                  /\ kpc = "done" <=> outcome # "none"
                  /\ \A f \in Fields : Decoded(f)
  BY DEF DecodeInv, Decoded

LEMMA InitKpi == KpiInit => KpiInv
  BY StepNames, UserModeAssumption DEF KpiInit, KpiInv, KpiTypeOK, DecodeInv, Fields

\* The loop reads whole units within the buffer, which are numbers.
LEMMA UnitTyped ==
    ASSUME KpiTypeOK, NEW k \in Nat, k + 1 < size
    PROVE  {k, k + 1} \subseteq DOMAIN buf /\ Unit(k) \in Nat
  <1>1. k \in 0 .. size - 1 /\ k + 1 \in 0 .. size - 1
    BY DEF KpiTypeOK
  <1>2. buf[k] \in Nat /\ buf[k + 1] \in Nat
    BY <1>1, UserModeAssumption DEF KpiTypeOK
  <1> QED BY <1>1, <1>2 DEF Unit, KpiTypeOK

\* A decoded string stays what it is while the buffer does.
LEMMA StringStays ==
    ASSUME UNCHANGED <<buf, size, pointer>>, NEW f \in Fields, units'[f] = units[f]
    PROVE  IsStringAt(units[f], pointer[f])' <=> IsStringAt(units[f], pointer[f])
  BY DEF IsStringAt, WholeUnits, Unit

\* The three calls before the decoding.
LEMMA CallsStep ==
    ASSUME KpiInv, CallFails \/ GetSize \/ GetContent
    PROVE  KpiInv'
  <1> USE StepNames
  <1>0. KpiTypeOK /\ DecodeInv
    BY DEF KpiInv
  <1>1. kpc \in {"size", "content"} /\ units["provName"] = << >> /\ units["containerName"] = << >>
    BY <1>0 DEF CallFails, GetSize, GetContent, DecodeInv
  <1>2. CASE CallFails
    BY <1>0, <1>1, <1>2 DEF CallFails, Finish, KpiInv, KpiTypeOK, DecodeInv
  <1>3. CASE GetSize
    <2>1. PICK n \in 1 .. MaxSize : size' = n /\ buf' = [k \in 0 .. n - 1 |-> 0]
      BY <1>3 DEF GetSize
    <2>2. buf' \in [0 .. size' - 1 -> Bytes] /\ size' \in 0 .. MaxSize
      BY <2>1, UserModeAssumption
    <2> QED BY <1>0, <1>1, <1>3, <2>2 DEF GetSize, KpiInv, KpiTypeOK, DecodeInv
  <1>4. CASE GetContent
    <2>1. CASE size < HeaderSize /\ Finish("error") /\ UNCHANGED pointer
      BY <1>0, <1>1, <1>4, <2>1 DEF GetContent, Finish, KpiInv, KpiTypeOK, DecodeInv
    <2>2. CASE size >= HeaderSize /\ pointer' \in [Fields -> Addresses] /\ kpc' = "provName"
               /\ UNCHANGED outcome
      BY <1>0, <1>1, <1>4, <2>2, UserModeAssumption
      DEF GetContent, KpiInv, KpiTypeOK, DecodeInv
    <2> QED BY <1>4, <2>1, <2>2 DEF GetContent
  <1> QED BY <1>2, <1>3, <1>4

\* A string is complete: what is left is the one after it, or nothing.
LEMMA StringComplete ==
    ASSUME KpiInv, NEW f \in Fields, kpc \in {f, Decoding(f)}, EndOfString(f),
           UNCHANGED <<buf, size, pointer, i, units>>, IsStringAt(units[f], pointer[f])
    PROVE  KpiInv'
  <1> USE StepNames
  <1>0. KpiTypeOK /\ DecodeInv
    BY DEF KpiInv
  <1>1. KpiTypeOK' /\ (kpc' = "done" <=> outcome' # "none") /\ HeaderSize <= size'
    BY <1>0 DEF EndOfString, Finish, KpiTypeOK, DecodeInv
  <1>2. IsStringAt(units[f], pointer[f])'
    BY StringStays
  <1>3. CASE f = "provName"
    <2>1. kpc' = "containerName" /\ units'["containerName"] = << >>
      BY <1>0, <1>3 DEF EndOfString, DecodeInv, Decoded
    <2> QED BY <1>1, <1>2, <1>3, <2>1 DEF KpiInv, DecodeInv, Decoded
  <1>4. CASE f = "containerName"
    <2>1. kpc' = "done" /\ kpc # "done" /\ outcome = "none" /\ outcome' = "info"
      BY <1>0, <1>4 DEF EndOfString, Finish, DecodeInv, KpiTypeOK
    <2>2. IsStringAt(units["provName"], pointer["provName"])
      BY <1>0, <1>4, <2>1 DEF DecodeInv, Decoded
    <2>3. IsStringAt(units["provName"], pointer["provName"])'
      BY <2>2, StringStays
    <2> QED BY <1>1, <1>2, <1>4, <2>1, <2>3 DEF KpiInv, DecodeInv, Decoded
  <1> QED BY <1>3, <1>4

\* The loop in plain arithmetic.
LEMMA LoopExact ==
    ASSUME KpiInv, NEW f \in Fields, kpc = Decoding(f)
    PROVE  LET start == pointer[f] - Base IN
           /\ start \in Nat /\ start + 1 < size /\ size \in Nat /\ size <= MaxSize
           /\ Len(units[f]) \in Nat
           /\ i \in Nat /\ i = start + 2 * Len(units[f]) /\ i <= size
           /\ MoreUnits <=> i + 1 < size
           /\ \A k \in 1 .. Len(units[f]) :
                 units[f][k] = Unit(start + 2 * (k - 1)) /\ units[f][k] # 0
  <1> DEFINE start == pointer[f] - Base
  <1>1. KpiTypeOK /\ InLoop(f)
    BY DEF KpiInv, DecodeInv
  <1>2. start \in Int /\ size \in Nat /\ size <= MaxSize /\ MaxSize \in Nat /\ i \in Nat
    <2>1. pointer[f] \in Addresses /\ size \in 0 .. MaxSize /\ i \in 0 .. MaxSize
      BY <1>1 DEF KpiTypeOK
    <2>2. start \in Int
      BY <2>1, OffsetExact
    <2>3. MaxSize \in Nat
      BY UserModeAssumption
    <2> QED BY <2>1, <2>2, <2>3
  <1>3. Len(units[f]) \in Nat
    BY <1>1, LenProperties DEF KpiTypeOK
  <1>4. 0 <= start /\ start + 1 < size /\ i = start + 2 * Len(units[f]) /\ i <= size
    BY <1>1 DEF InLoop
  <1>5. MoreUnits <=> i + 1 < size
    BY <1>2, <1>4, NextExact DEF MoreUnits
  <1> QED BY <1>1, <1>2, <1>3, <1>4, <1>5 DEF InLoop

\* The loop runs over one string and has completed the one before.
LEMMA StringsStep ==
    ASSUME KpiInv, NEW f \in Fields,
           StringOutside(f) \/ StringBegins(f) \/ DecodeUnit(f) \/ StringEnds(f)
    PROVE  KpiInv'
  <1>0. KpiTypeOK /\ DecodeInv /\ pointer[f] \in Addresses /\ size \in 0 .. MaxSize
        /\ units[f] \in Seq(Nat) /\ Decoding(f) \in {Decoding(g) : g \in Fields}
    BY DEF KpiInv, KpiTypeOK
  \* The other string is not touched.
  <1>a. ASSUME kpc \in {f, Decoding(f)}, kpc' = Decoding(f), NEW g \in Fields, g # f,
               UNCHANGED <<buf, size, pointer, outcome>>, units'[g] = units[g]
        PROVE  Decoded(g)'
    <2>1. Decoded(g)
      BY <1>0, DecodeInvParts
    <2>2. IsStringAt(units[g], pointer[g])' <=> IsStringAt(units[g], pointer[g])
      BY <1>a, StringStays
    <2> QED BY <1>a, <2>1, <2>2, StepNames DEF Decoded
  <1>1. CASE StringOutside(f)
    <2>1. units[f] = << >>
      BY <1>0, <1>1, StepNames DEF StringOutside, DecodeInv
    <2>2. IsStringAt(units[f], pointer[f])
      BY <1>0, <1>1, <2>1, OutsideIsEmpty DEF StringOutside
    <2> QED BY <1>1, <2>2, StringComplete DEF StringOutside
  <1>2. CASE StringEnds(f)
    <2> DEFINE start == pointer[f] - Base
               n == Len(units[f])
    <2>1. /\ start \in Nat /\ start + 1 < size /\ size \in Nat /\ n \in Nat
          /\ i \in Nat /\ i = start + 2 * n /\ i <= size
          /\ MoreUnits <=> i + 1 < size
          /\ \A k \in 1 .. n : units[f][k] = Unit(start + 2 * (k - 1)) /\ units[f][k] # 0
      BY <1>2, LoopExact DEF StringEnds
    <2>2. pointer[f] \in Base .. Base + size - 1 /\ Base + size - pointer[f] = size - start
      <3>1. pointer[f] \in Nat /\ Base \in Nat
        BY <1>0, OffsetExact, UserModeAssumption
      <3>2. start = pointer[f] - Base /\ start \in Nat /\ start + 1 < size /\ size \in Nat
        BY <2>1
      <3> HIDE DEF start
      <3>3. pointer[f] = Base + start
        BY <3>1, <3>2
      <3> QED BY <3>1, <3>2, <3>3
    <2>3. WholeUnits(pointer[f]) = (size - start) \div 2
      BY <2>2 DEF WholeUnits
    <2> HIDE DEF start, n
    <2>4. n <= WholeUnits(pointer[f])
      BY <2>1, <2>3
    <2>5. n < WholeUnits(pointer[f]) => i + 1 < size
      BY <2>1, <2>3
    <2>6. n < WholeUnits(pointer[f]) => Unit(start + 2 * n) = 0
      BY <1>2, <2>1, <2>5 DEF StringEnds
    <2>7. IsStringAt(units[f], pointer[f])
      BY <2>1, <2>4, <2>6 DEF IsStringAt, start, n
    <2> QED BY <1>2, <2>7, StringComplete DEF StringEnds
  <1>3. CASE StringBegins(f)
    <2>1. pointer[f] >= Base /\ pointer[f] - Base + 1 < size /\ i' = pointer[f] - Base
      BY <1>0, <1>3, OutsideExact, OffsetExact, UserModeAssumption DEF StringBegins
    <2>2. i' \in 0 .. MaxSize
      BY <1>0, <2>1, OffsetExact, UserModeAssumption
    <2>3. units[f] = << >> /\ HeaderSize <= size
      BY <1>0, <1>3, StepNames DEF StringBegins, DecodeInv
    <2>4. KpiTypeOK'
      BY <1>0, <1>3, <2>2 DEF StringBegins, KpiTypeOK
    <2>5. InLoop(f)'
      BY <1>0, <1>3, <2>1, <2>3, OffsetExact, UserModeAssumption DEF StringBegins, InLoop
    <2>6. kpc # "done" /\ kpc' = Decoding(f) /\ Decoding(f) \notin After(f) \cup {"done"}
      BY <1>3, StepNames DEF StringBegins
    <2>7. ASSUME NEW g \in Fields, g # f PROVE Decoded(g)'
      BY <1>3, <1>a, <2>7 DEF StringBegins
    <2>8. Decoded(f)'
      BY <2>5, <2>6 DEF Decoded
    <2>9. (kpc' = "done" <=> outcome' # "none") /\ HeaderSize <= size'
      BY <1>0, <1>3, <2>3, <2>6 DEF StringBegins, DecodeInv
    <2> QED BY <2>4, <2>7, <2>8, <2>9 DEF KpiInv, DecodeInv, Decoded
  <1>4. CASE DecodeUnit(f)
    <2> DEFINE start == pointer[f] - Base
               n == Len(units[f])
    <2>1. /\ start \in Nat /\ start + 1 < size /\ size \in Nat /\ size <= MaxSize /\ n \in Nat
          /\ i \in Nat /\ i = start + 2 * n /\ i + 1 < size
          /\ \A k \in 1 .. n : units[f][k] = Unit(start + 2 * (k - 1)) /\ units[f][k] # 0
      BY <1>4, LoopExact DEF DecodeUnit
    <2>2. i' = i + 2 /\ i' \in 0 .. MaxSize /\ i' <= size
      <3>1. i' = Wrap(i + 2) /\ MaxSize \in Nat
        BY <1>4, UserModeAssumption DEF DecodeUnit
      <3>2. i \in Int /\ i < MaxSize
        BY <2>1, <3>1
      <3>3. Wrap(i + 2) = i + 2
        BY <3>1, <3>2, NextExact
      <3> QED BY <2>1, <3>1, <3>3
    <2>3. Unit(i) \in Nat /\ Unit(i) # 0
      BY <1>0, <1>4, <2>1, UnitTyped DEF DecodeUnit
    <2>4. units' = [units EXCEPT ![f] = Append(units[f], Unit(i))]
      BY <1>4 DEF DecodeUnit
    <2>5. units' \in [Fields -> Seq(Nat)] /\ units'[f] = Append(units[f], Unit(i))
      BY <1>0, <2>3, <2>4 DEF KpiTypeOK
    <2>6. KpiTypeOK'
      BY <1>0, <1>4, <2>2, <2>5 DEF DecodeUnit, KpiTypeOK
    <2>7. Len(units'[f]) = n + 1 /\ units'[f][n + 1] = Unit(i)
          /\ \A k \in 1 .. n : units'[f][k] = units[f][k]
      BY <1>0, <2>3, <2>5, AppendProperties
    <2>8. \A k \in 1 .. n + 1 : units'[f][k] = Unit(start + 2 * (k - 1)) /\ units'[f][k] # 0
      <3> TAKE k \in 1 .. n + 1
      <3>1. CASE k \in 1 .. n
        BY <2>1, <2>7, <3>1
      <3>2. CASE k = n + 1
        <4>1. start + 2 * (k - 1) = i
          BY <2>1, <3>2
        <4> QED BY <2>3, <2>7, <3>2, <4>1
      <3> QED BY <2>1, <3>1, <3>2
    <2>9. InLoop(f)'
      <3>1. UNCHANGED <<buf, size, pointer>>
        BY <1>4 DEF DecodeUnit
      <3>2. i' = start + 2 * (n + 1)
        BY <2>1, <2>2
      <3> QED BY <2>1, <2>2, <2>7, <2>8, <3>1, <3>2 DEF InLoop, Unit
    <2>10. kpc = Decoding(f) /\ kpc' = kpc /\ Decoding(f) \notin After(f) \cup {"done"}
      BY <1>4, StepNames DEF DecodeUnit
    <2>11. ASSUME NEW g \in Fields, g # f PROVE Decoded(g)'
      BY <1>0, <1>4, <1>a, <2>4, <2>10, <2>11 DEF DecodeUnit, KpiTypeOK
    <2>12. Decoded(f)'
      BY <2>9, <2>10 DEF Decoded
    <2>13. (kpc' = "done" <=> outcome' # "none") /\ HeaderSize <= size'
      BY <1>0, <1>4, <2>10 DEF DecodeUnit, DecodeInv
    <2> QED BY <2>6, <2>11, <2>12, <2>13 DEF KpiInv, DecodeInv, Decoded
  <1> QED BY <1>1, <1>2, <1>3, <1>4

LEMMA KpiInductive == KpiSpec => []KpiInv
  <1>1. KpiInv /\ [KpiNext]_kpiVars => KpiInv'
    <2> SUFFICES ASSUME KpiInv, [KpiNext]_kpiVars PROVE KpiInv'
      OBVIOUS
    <2>1. CASE UNCHANGED kpiVars
      <3>1. \A f \in Fields : IsStringAt(units[f], pointer[f])' <=> IsStringAt(units[f], pointer[f])
        BY <2>1, StringStays DEF kpiVars
      <3>2. \A f \in Fields : InLoop(f)' <=> InLoop(f)
        BY <2>1 DEF kpiVars, InLoop, Unit
      <3> QED BY <2>1, <3>1, <3>2 DEF kpiVars, KpiInv, KpiTypeOK, DecodeInv
    <2> QED BY <2>1, CallsStep, StringsStep DEF KpiNext
  <1> QED BY <1>1, InitKpi, PTL DEF KpiSpec

-----------------------------------------------------------------------------
(* The theorems *)

\* KpiTypeOK holds of every reachable state: the loop variable stays an offset of
\* the buffer or its end, and never wraps (utf16StringAt).
THEOREM KpiTyped == KpiSpec => []KpiTypeOK
  <1>1. KpiInv => KpiTypeOK
    BY DEF KpiInv
  <1> QED BY <1>1, KpiInductive, PTL

\* DecodeInv holds of every reachable state (readKeyProvInfo, utf16StringAt).
THEOREM DecodingHolds == KpiSpec => []DecodeInv
  <1>1. KpiInv => DecodeInv
    BY DEF KpiInv
  <1> QED BY <1>1, KpiInductive, PTL

\* Wherever the header's pointers point, no read leaves the buffer (utf16StringAt).
THEOREM InBounds == KpiSpec => []ReadsInBounds
  <1>1. KpiInv => ReadsInBounds
    <2> SUFFICES ASSUME KpiInv PROVE ReadsInBounds
      OBVIOUS
    <2>0. KpiTypeOK /\ DecodeInv
      BY DEF KpiInv
    <2>1. ASSUME NEW f \in Fields, kpc = Decoding(f), MoreUnits
          PROVE  {i, i + 1} \subseteq DOMAIN buf
      <3>1. i \in Nat /\ i + 1 < size
        BY <2>1, LoopExact
      <3> QED BY <2>0, <3>1, UnitTyped
    <2> QED BY <2>0, <2>1 DEF ReadsInBounds, DecodeInv
  <1> QED BY <1>1, KpiInductive, PTL

\* A keyProvInfo that is returned holds both strings of the header, complete and in
\* this order (readKeyProvInfo).
THEOREM StringsDecoded == KpiSpec => []DecodesBothStrings
  <1>1. KpiInv => DecodesBothStrings
    BY StepNames DEF KpiInv, KpiTypeOK, DecodeInv, DecodesBothStrings
  <1> QED BY <1>1, KpiInductive, PTL

-----------------------------------------------------------------------------
(* Why the read ends *)

\* The steps in the order in which readKeyProvInfo takes them.
StepRank(step) ==
    CASE step = "size"                -> 6
      [] step = "content"             -> 5
      [] step = "provName"            -> 4
      [] step = "decodeProvName"      -> 3
      [] step = "containerName"       -> 2
      [] step = "decodeContainerName" -> 1
      [] OTHER                        -> 0

\* Every step of readKeyProvInfo either goes on to a later one or, in the loop of
\* utf16StringAt, takes the loop variable further up the same buffer without
\* wrapping: a variant that no behaviour can lower for ever.
KpiDescends ==
    [][\/ StepRank(kpc') < StepRank(kpc)
       \/ kpc' = kpc /\ size' = size /\ i < i' /\ i' <= size]_kpiVars

LEMMA StepDescends ==
    ASSUME KpiInv, KpiInv', KpiNext
    PROVE  \/ StepRank(kpc') < StepRank(kpc)
           \/ kpc' = kpc /\ size' = size /\ i < i' /\ i' <= size
  <1> USE StepNames
  <1>1. CASE CallFails \/ GetSize \/ GetContent
    BY <1>1 DEF CallFails, GetSize, GetContent, Finish, StepRank
  <1>2. ASSUME NEW f \in Fields, StringOutside(f) \/ StringBegins(f) \/ StringEnds(f)
        PROVE  StepRank(kpc') < StepRank(kpc)
    BY <1>2 DEF StringOutside, StringBegins, StringEnds, EndOfString, Finish, StepRank
  <1>3. ASSUME NEW f \in Fields, DecodeUnit(f)
        PROVE  kpc' = kpc /\ size' = size /\ i < i' /\ i' <= size
    <2>1. kpc = Decoding(f) /\ kpc' = kpc /\ size' = size /\ MoreUnits /\ i' = Wrap(i + 2)
      BY <1>3 DEF DecodeUnit
    <2>2. i \in Nat /\ i + 1 < size /\ size <= MaxSize
      BY <2>1, LoopExact DEF KpiInv, KpiTypeOK
    <2>3. i < MaxSize
      BY <2>2, UserModeAssumption DEF KpiInv, KpiTypeOK
    <2>4. i' = i + 2
      BY <2>1, <2>2, <2>3, NextExact, UserModeAssumption
    <2> QED BY <2>1, <2>2, <2>4 DEF KpiInv, KpiTypeOK
  <1> QED BY <1>1, <1>2, <1>3 DEF KpiNext

\* The loop of utf16StringAt always advances within the buffer and no other step is
\* ever taken twice, so readKeyProvInfo cannot run for ever, whatever the buffer
\* holds and whether or not its strings are terminated.
THEOREM ReadDescends == KpiSpec => KpiDescends
  <1>1. KpiInv /\ KpiInv' /\ [KpiNext]_kpiVars =>
           [\/ StepRank(kpc') < StepRank(kpc)
            \/ kpc' = kpc /\ size' = size /\ i < i' /\ i' <= size]_kpiVars
    BY StepDescends
  <1> QED BY <1>1, KpiInductive, PTL DEF KpiSpec, KpiDescends
=============================================================================
