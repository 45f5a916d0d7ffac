----------------------------- MODULE KeyProvInfo -----------------------------
(***************************************************************************)
(* readKeyProvInfo and utf16StringAt of cleanup_win.go: the association of *)
(* a certificate context is read in two calls, its size and its content,   *)
(* into a buffer whose header holds the absolute addresses of two UTF-16   *)
(* strings in the same buffer.  The code never dereferences an address: it *)
(* turns it into an offset of the buffer, in machine integers.             *)
(*                                                                         *)
(* uintptr has the values 0..2*Half-1 and int the values -Half..Half-1.    *)
(***************************************************************************)
EXTENDS Integers, Sequences

CONSTANTS
    Half,        \* 2^63 on the platforms the code runs on
    Base,        \* address of the buffer
    MaxSize,     \* bound of this model on the size of the property
    HeaderSize,  \* unsafe.Sizeof(cryptKeyProvInfo{})
    Bytes,       \* the byte values that occur; 0 is one of them
    Addresses    \* the addresses that occur in the header; 0 is NULL

\* Windows gives a process the lower half of the address space, page 0 excepted,
\* and crypt32 puts nothing else into the header.
ASSUME UserModeAssumption ==
    /\ Half \in Nat /\ MaxSize \in Nat /\ HeaderSize \in Nat \ {0}
    /\ Base \in Nat \ {0, 1} /\ Base + MaxSize <= Half
    /\ Addresses \subseteq 0 .. Half - 1 /\ 0 \in Addresses
    /\ Bytes \subseteq Nat /\ 0 \in Bytes

VARIABLES
    kpc,      \* the next step of readKeyProvInfo
    buf,      \* the buffer: buf[i] for i \in 0 .. Len - 1
    size,     \* len(buf), the size the first call gave
    pointer,  \* pointer[f]: the address of string f in the header
    i,        \* the loop variable of utf16StringAt
    units,    \* units[f]: the code units decoded for string f
    outcome   \* what readKeyProvInfo returned: a keyProvInfo or an error

kpiVars == <<kpc, buf, size, pointer, i, units, outcome>>

Fields == {"provName", "containerName"}

\* The step at which the loop of utf16StringAt runs over string f.
Decoding(f) == IF f = "provName" THEN "decodeProvName" ELSE "decodeContainerName"

\* int arithmetic, and the uintptr difference addr - Base converted to int.
Wrap(n) == IF n >= Half THEN n - 2 * Half ELSE n
Offset(addr) == Wrap(IF addr >= Base THEN addr - Base ELSE addr - Base + 2 * Half)
Next1(n) == Wrap(n + 1)

KpiInit ==
    /\ kpc = "size"
    /\ buf = << >>
    /\ size = 0
    /\ pointer = [f \in Fields |-> 0]
    /\ i = 0
    /\ units = [f \in Fields |-> << >>]
    /\ outcome = "none"

Finish(what) ==
    /\ kpc' = "done"
    /\ outcome' = what

\* Either call fails, the first one also with the size 0 of no property and the
\* second one for instance because the property has grown.
CallFails ==
    /\ kpc \in {"size", "content"}
    /\ Finish("error")
    /\ UNCHANGED <<buf, size, pointer, i, units>>

\* The first call gives the size and a zeroed buffer is made.
GetSize ==
    /\ kpc = "size"
    /\ \E n \in 1 .. MaxSize :
          /\ size' = n
          /\ buf' = [k \in 0 .. n - 1 |-> 0]
    /\ kpc' = "content"
    /\ UNCHANGED <<pointer, i, units, outcome>>

\* The second call fills the buffer, or a part of it, and the header is read
\* when the buffer is long enough for one.
GetContent ==
    /\ kpc = "content"
    /\ buf' \in [0 .. size - 1 -> Bytes]
    /\ \/ /\ size < HeaderSize
          /\ Finish("error")
          /\ UNCHANGED pointer
       \/ /\ size >= HeaderSize
          /\ pointer' \in [Fields -> Addresses]
          /\ kpc' = "provName"
          /\ UNCHANGED outcome
    /\ UNCHANGED <<size, i, units>>

\* The string after f, or the end of readKeyProvInfo.
EndOfString(f) ==
    IF f = "provName" THEN kpc' = "containerName" /\ UNCHANGED outcome
                      ELSE Finish("info")

\* Mutated form: the address is not compared with the base of the buffer.
OutsideBuffer_NoBase(addr) ==
    Next1(Offset(addr)) >= size

\* The guards of utf16StringAt: the string at addr has no unit in the buffer.
OutsideBuffer(addr) ==
    \/ addr < Base
    \/ Offset(addr) < 0
    \/ Next1(Offset(addr)) >= size

StringOutside(f) ==
    /\ kpc = f
    /\ OutsideBuffer(pointer[f])
    /\ EndOfString(f)
    /\ UNCHANGED <<buf, size, pointer, i, units>>

StringBegins(f) ==
    /\ kpc = f
    /\ ~OutsideBuffer(pointer[f])
    /\ i' = Offset(pointer[f])
    /\ kpc' = Decoding(f)
    /\ UNCHANGED <<buf, size, pointer, units, outcome>>

\* The code unit at offset k, little-endian.
Unit(k) == buf[k] + 256 * buf[k + 1]

\* Mutated form: the loop runs to the last byte and not to the last whole unit.
MoreUnits_LastByte == i < size

\* The condition of the loop.
MoreUnits == Next1(i) < size

DecodeUnit(f) ==
    /\ kpc = Decoding(f)
    /\ MoreUnits
    /\ Unit(i) # 0
    /\ units' = [units EXCEPT ![f] = Append(@, Unit(i))]
    /\ i' = Wrap(i + 2)
    /\ UNCHANGED <<kpc, buf, size, pointer, outcome>>

\* Mutated form: the loop stays at a NUL unit.
StringEnds_StayAtNul(f) ==
    /\ kpc = Decoding(f)
    /\ ~MoreUnits
    /\ EndOfString(f)
    /\ UNCHANGED <<buf, size, pointer, i, units>>

\* Mutated form: a NUL unit is skipped and the decoding goes on.
StringEnds_SkipNul(f) ==
    /\ kpc = Decoding(f)
    /\ \/ /\ MoreUnits
          /\ Unit(i) = 0
          /\ i' = Wrap(i + 2)
          /\ UNCHANGED <<kpc, outcome>>
       \/ /\ ~MoreUnits
          /\ EndOfString(f)
          /\ UNCHANGED i
    /\ UNCHANGED <<buf, size, pointer, units>>

\* A NUL, or the end of the buffer.
StringEnds(f) ==
    /\ kpc = Decoding(f)
    /\ MoreUnits => Unit(i) = 0
    /\ EndOfString(f)
    /\ UNCHANGED <<buf, size, pointer, i, units>>

KpiNext ==
    \/ CallFails \/ GetSize \/ GetContent
    \/ \E f \in Fields :
          StringOutside(f) \/ StringBegins(f) \/ DecodeUnit(f) \/ StringEnds(f)

KpiSpec == KpiInit /\ [][KpiNext]_kpiVars /\ WF_kpiVars(KpiNext)

-----------------------------------------------------------------------------
(* Properties *)

\* Type invariant: among others the loop variable never wraps to a negative one.
KpiTypeOK ==
    /\ kpc \in {"size", "content", "done"} \cup Fields \cup {Decoding(f) : f \in Fields}
    /\ size \in 0 .. MaxSize
    /\ buf \in [0 .. size - 1 -> Bytes]
    /\ pointer \in [Fields -> Addresses]
    /\ i \in 0 .. MaxSize
    /\ units \in [Fields -> Seq(Nat)]
    /\ outcome \in {"none", "error", "info"}

\* No read of readKeyProvInfo leaves the buffer, wherever the pointers of the
\* header point: the header lies in it when it is read, and so do both bytes of
\* every unit the loop looks at.
ReadsInBounds ==
    /\ kpc \in Fields => HeaderSize <= size
    /\ \A f \in Fields :
          kpc = Decoding(f) /\ MoreUnits => {i, i + 1} \subseteq DOMAIN buf

\* The string at an address, as the layout of CRYPT_KEY_PROV_INFO defines it:
\* the units up to the first NUL or the end of the buffer, none for an address
\* outside it.
WholeUnits(addr) ==
    IF addr \in Base .. Base + size - 1 THEN (Base + size - addr) \div 2 ELSE 0
IsStringAt(s, addr) ==
    /\ Len(s) <= WholeUnits(addr)
    /\ \A k \in 1 .. Len(s) : s[k] = Unit(addr - Base + 2 * (k - 1)) /\ s[k] # 0
    /\ Len(s) < WholeUnits(addr) => Unit(addr - Base + 2 * Len(s)) = 0

\* What is returned is the association of the context: the provider and the
\* container are the strings the header points to, complete and in this order.
DecodesBothStrings ==
    outcome = "info" => \A f \in Fields : IsStringAt(units[f], pointer[f])

\* The loop over string f has decoded what lies behind it.
InLoop(f) ==
    LET start == pointer[f] - Base IN
    /\ 0 <= start /\ start + 1 < size
    /\ i = start + 2 * Len(units[f]) /\ i <= size
    /\ \A k \in 1 .. Len(units[f]) :
          units[f][k] = Unit(start + 2 * (k - 1)) /\ units[f][k] # 0

\* The steps after the decoding of string f.
After(f) == {"done"} \cup
    (IF f = "provName" THEN {"containerName", Decoding("containerName")} ELSE {})

\* The loop of utf16StringAt is at every iteration two bytes per decoded unit past
\* the start of its string and within the buffer, the string before it is
\* complete, and a result is there exactly when readKeyProvInfo has returned: the
\* inductive invariant.
DecodeInv ==
    /\ kpc \in Fields \cup {Decoding(f) : f \in Fields} => HeaderSize <= size
    /\ kpc = "done" <=> outcome # "none"
    /\ \A f \in Fields :
          /\ kpc = Decoding(f) => InLoop(f)
          /\ kpc \in After(f) => outcome = "error" \/ IsStringAt(units[f], pointer[f])
          /\ kpc \notin {Decoding(f)} \cup After(f) => units[f] = << >>

\* The read ends, with strings that are not terminated too.
ReadEnds == <>(kpc = "done")
=============================================================================
