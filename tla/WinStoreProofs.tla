--------------------------- MODULE WinStoreProofs ---------------------------
(***************************************************************************)
(* Theorems of WinStore for every set of clients, certificates and         *)
(* associations: contexts and handles are given back exactly once, and the *)
(* operations over Win32 implement CertStore.                              *)
(***************************************************************************)
EXTENDS WinStore, TLAPS

WinInv == WinTypeOK /\ ContextDiscipline /\ SearchComplete

LEMMA InitWinInv == WinInit => WinInv
  BY DEF WinInit, WinInv, WinTypeOK, ContextDiscipline, SearchComplete, NoReferences, Owning,
         Interface!Entry, Interface!Answers

-----------------------------------------------------------------------------
(* Type correctness *)

\* Giving back the context of a call leaves it no reference.
LEMMA GiveBackAll ==
    ASSUME WinTypeOK, ContextDiscipline, NEW p \in Clients, wpc[p] = "enumerate"
    PROVE  GiveBack(p, ctx[p]) = NoReferences
  BY SentinelAssumption
  DEF WinTypeOK, ContextDiscipline, GiveBack, Released, NoReferences, Owning

LEMMA ReleaseAll ==
    ASSUME WinTypeOK, ContextDiscipline, NEW p \in Clients, wpc[p] \in Owning
    PROVE  Released(p, ctx[p]) = NoReferences
  BY DEF WinTypeOK, ContextDiscipline, Released, NoReferences, Owning

\* The enumeration hands over one reference to the context it returns and none to
\* the one before.
LEMMA EnumerateHeld ==
    ASSUME WinTypeOK, ContextDiscipline, NEW p \in Clients, wpc[p] = "enumerate",
           NEW l \in Leaves
    PROVE  [GiveBack(p, ctx[p]) EXCEPT ![l] = @ + 1] = [k \in Leaves |-> IF k = l THEN 1 ELSE 0]
  BY GiveBackAll DEF NoReferences

\* The steps of a call.
Steps == {"idle", "open", "enumerate", "compare", "use", "free", "close", "returned"}

LEMMA DecideTyped ==
    ASSUME WinTypeOK, NEW p \in Clients, NEW a \in Interface!Answers, NEW step \in Steps,
           Decide(p, a, step)
    PROVE  wpc' \in [Clients -> Steps] /\ answer' \in [Clients -> Interface!Answers]
  BY DEF WinTypeOK, Decide, Continue, Steps

LEMMA StepWinTyped ==
    ASSUME WinInv, [WinNext]_winVars
    PROVE  WinTypeOK'
  <1> USE DEF Continue, Decide
  <1>0. WinTypeOK /\ ContextDiscipline /\ SearchComplete
    BY DEF WinInv
  \* What the operations may answer.
  <1>a. {Interface!NoAnswer, Interface!Error, Interface!NotFound, Interface!Deleted}
           \subseteq Interface!Answers
    BY DEF Interface!Answers
  <1>b. \A l \in Leaves : Interface!Certificate(l) \in Interface!Answers
    BY DEF Interface!Answers
  <1>c. \A e \in Associations : Interface!KeyInfo(e) \in Interface!Answers
    BY DEF Interface!Answers
  <1>1. ASSUME NEW p \in Clients, Begin(p) PROVE WinTypeOK'
    BY <1>0, <1>a, <1>1 DEF Begin, WinTypeOK, Interface!Entry
  <1>2. ASSUME NEW p \in Clients, OpenFails(p) PROVE WinTypeOK'
    BY <1>0, <1>a, <1>2 DEF OpenFails, WinTypeOK
  <1>3. ASSUME NEW p \in Clients, Open(p) PROVE WinTypeOK'
    <2>1. {l \in Leaves : store[l] # NotInstalled} \in SUBSET Leaves
      OBVIOUS
    <2>2. remaining' \in [Clients -> SUBSET Leaves]
      BY <1>0, <1>3, <2>1 DEF Open, WinTypeOK
    <2> QED BY <1>0, <1>3, <2>2 DEF Open, WinTypeOK
  <1>4. ASSUME NEW p \in Clients, EnumerateNext(p) PROVE WinTypeOK'
    <2>1. PICK l \in remaining[p] :
            /\ remaining' = [remaining EXCEPT ![p] = @ \ {l}]
            /\ held' = [held EXCEPT ![p] = [GiveBack(p, ctx[p]) EXCEPT ![l] = @ + 1]]
            /\ ctx' = [ctx EXCEPT ![p] = l]
      BY <1>4 DEF EnumerateNext
    <2>2. l \in Leaves /\ wpc[p] = "enumerate"
      BY <1>0, <1>4, <2>1 DEF EnumerateNext, WinTypeOK
    <2>3. held' = [held EXCEPT ![p] = [k \in Leaves |-> IF k = l THEN 1 ELSE 0]]
      BY <1>0, <2>1, <2>2, EnumerateHeld
    <2>4. held' \in [Clients -> [Leaves -> {0, 1}]]
      BY <1>0, <2>3 DEF WinTypeOK
    <2> QED BY <1>0, <1>4, <2>1, <2>2, <2>4 DEF EnumerateNext, WinTypeOK
  <1>5. ASSUME NEW p \in Clients, EnumerationEnds(p) PROVE WinTypeOK'
    <2>1. held' = [held EXCEPT ![p] = NoReferences]
      BY <1>0, <1>5, GiveBackAll DEF EnumerationEnds
    <2>2. held' \in [Clients -> [Leaves -> {0, 1}]]
      BY <1>0, <2>1 DEF WinTypeOK, NoReferences
    <2>3. PICK a \in Interface!Answers : Decide(p, a, "close")
      BY <1>a, <1>5 DEF EnumerationEnds
    <2>4. wpc' \in [Clients -> Steps] /\ answer' \in [Clients -> Interface!Answers]
      BY <1>0, <2>3, DecideTyped DEF Steps
    <2> HIDE DEF Decide
    <2> QED BY <1>0, <1>5, <2>2, <2>4 DEF EnumerationEnds, WinTypeOK, Steps
  <1>6. ASSUME NEW p \in Clients, Compare(p) \/ CopyLeaf(p) \/ ReadProperty(p) PROVE WinTypeOK'
    <2>1. CASE Compare(p)
      BY <1>0, <2>1 DEF Compare, WinTypeOK
    <2>2. CASE CopyLeaf(p)
      <3>1. ctx[p] \in Leaves
        BY <1>0, <2>2 DEF CopyLeaf, ContextDiscipline, Owning
      <3> QED BY <1>0, <1>b, <2>2, <3>1 DEF CopyLeaf, WinTypeOK
    <2>3. CASE ReadProperty(p)
      <3>1. ctx[p] \in Leaves /\ view[p][ctx[p]] # NotInstalled
        BY <1>0, <2>3 DEF ReadProperty, ContextDiscipline, SearchComplete, Owning
      <3>2. view[p][ctx[p]] \in Associations
        BY <1>0, <3>1 DEF WinTypeOK, Interface!Entry
      <3>3. PICK a \in Interface!Answers : Decide(p, a, "free")
        BY <1>a, <1>c, <2>3, <3>2 DEF ReadProperty
      <3>4. wpc' \in [Clients -> Steps] /\ answer' \in [Clients -> Interface!Answers]
        BY <1>0, <3>3, DecideTyped DEF Steps
      <3> HIDE DEF Decide
      <3> QED BY <1>0, <2>3, <3>4 DEF ReadProperty, WinTypeOK, Steps
    <2> QED BY <1>6, <2>1, <2>2, <2>3
  <1>7. ASSUME NEW p \in Clients, DeleteContext(p) PROVE WinTypeOK'
    <2>1. held' = [held EXCEPT ![p] = NoReferences]
      BY <1>0, <1>7, ReleaseAll DEF DeleteContext, Owning
    <2>2. held' \in [Clients -> [Leaves -> {0, 1}]]
      BY <1>0, <2>1 DEF WinTypeOK, NoReferences
    <2>3. store' \in [Leaves -> Interface!Entry]
      BY <1>0, <1>7 DEF DeleteContext, WinTypeOK, Interface!Entry
    <2>4. PICK a \in Interface!Answers : Decide(p, a, "close")
      BY <1>a, <1>7 DEF DeleteContext
    <2>5. wpc' \in [Clients -> Steps] /\ answer' \in [Clients -> Interface!Answers]
      BY <1>0, <2>4, DecideTyped DEF Steps
    <2> HIDE DEF Decide
    <2> QED BY <1>0, <1>7, <2>2, <2>3, <2>5 DEF DeleteContext, WinTypeOK, Steps
  <1>8. ASSUME NEW p \in Clients, FreeContext(p) PROVE WinTypeOK'
    <2>1. held' = [held EXCEPT ![p] = NoReferences]
      BY <1>0, <1>8, ReleaseAll DEF FreeContext, Owning
    <2>2. held' \in [Clients -> [Leaves -> {0, 1}]]
      BY <1>0, <2>1 DEF WinTypeOK, NoReferences
    <2> QED BY <1>0, <1>8, <2>2 DEF FreeContext, WinTypeOK
  <1>9. ASSUME NEW p \in Clients, CloseStore(p) PROVE WinTypeOK'
    BY <1>0, <1>9 DEF CloseStore, WinTypeOK
  <1>10. CASE OthersChange
    BY <1>0, <1>10 DEF OthersChange, WinTypeOK
  <1>11. CASE UNCHANGED winVars
    BY <1>0, <1>11 DEF winVars, WinTypeOK
  <1> QED BY <1>1, <1>2, <1>3, <1>4, <1>5, <1>6, <1>7, <1>8, <1>9, <1>10, <1>11 DEF WinNext, WinStep

-----------------------------------------------------------------------------
(* Contexts, handles and the search *)

\* A step of one client leaves the call of every other client alone.
LEMMA OtherClients ==
    ASSUME WinTypeOK, NEW p \in Clients, Begin(p) \/ WinStep(p), NEW q \in Clients, q # p
    PROVE  /\ asked'[q] = asked[q] /\ wpc'[q] = wpc[q] /\ handle'[q] = handle[q]
           /\ view'[q] = view[q] /\ remaining'[q] = remaining[q]
           /\ ctx'[q] = ctx[q] /\ held'[q] = held[q] /\ answer'[q] = answer[q]
  <1> USE DEF Continue, Decide
  <1>0. /\ DOMAIN asked = Clients /\ DOMAIN wpc = Clients /\ DOMAIN handle = Clients
        /\ DOMAIN view = Clients /\ DOMAIN remaining = Clients /\ DOMAIN ctx = Clients
        /\ DOMAIN held = Clients /\ DOMAIN answer = Clients
    BY DEF WinTypeOK
  <1>1. CASE Begin(p)
    BY <1>0, <1>1 DEF Begin
  <1>2. CASE OpenFails(p) \/ Open(p)
    BY <1>0, <1>2 DEF OpenFails, Open
  <1>3. CASE EnumerateNext(p)
    BY <1>0, <1>3 DEF EnumerateNext
  <1>4. CASE EnumerationEnds(p)
    BY <1>0, <1>4 DEF EnumerationEnds
  <1>5. CASE Compare(p) \/ CopyLeaf(p) \/ ReadProperty(p)
    BY <1>0, <1>5 DEF Compare, CopyLeaf, ReadProperty
  <1>6. CASE DeleteContext(p)
    BY <1>0, <1>6 DEF DeleteContext
  <1>7. CASE FreeContext(p) \/ CloseStore(p)
    BY <1>0, <1>7 DEF FreeContext, CloseStore
  <1> QED BY <1>1, <1>2, <1>3, <1>4, <1>5, <1>6, <1>7 DEF WinStep

\* The part of ContextDiscipline that speaks of one client.
Disciplined(p) ==
    /\ \A l \in Leaves :
          held[p][l] = IF \/ wpc[p] \in Owning /\ ctx[p] = l
                          \/ wpc[p] = "enumerate" /\ ctx[p] = l
                       THEN 1 ELSE 0
    /\ wpc[p] \in Owning => ctx[p] \in Leaves
    /\ handle[p] <=> wpc[p] \in Owning \cup {"enumerate", "close"}

\* Every step of a client leaves it with exactly the context of its next step.
LEMMA OwnDiscipline ==
    ASSUME WinTypeOK, ContextDiscipline, NEW p \in Clients, Begin(p) \/ WinStep(p)
    PROVE  Disciplined(p)'
  <1> USE DEF Continue, Decide
  <1>0. Disciplined(p)
    BY DEF ContextDiscipline, Disciplined
  <1>1. CASE Begin(p) \/ OpenFails(p)
    BY <1>0, <1>1 DEF Begin, OpenFails, WinTypeOK, Disciplined, Owning
  <1>2. CASE Open(p)
    BY <1>0, <1>2, SentinelAssumption DEF Open, WinTypeOK, Disciplined, Owning
  <1>3. CASE EnumerateNext(p)
    <2>1. PICK l \in remaining[p] :
            /\ held' = [held EXCEPT ![p] = [GiveBack(p, ctx[p]) EXCEPT ![l] = @ + 1]]
            /\ ctx' = [ctx EXCEPT ![p] = l]
      BY <1>3 DEF EnumerateNext
    <2>2. l \in Leaves /\ wpc[p] = "enumerate"
      BY <1>3, <2>1 DEF EnumerateNext, WinTypeOK
    <2>3. held' = [held EXCEPT ![p] = [k \in Leaves |-> IF k = l THEN 1 ELSE 0]]
      BY <2>1, <2>2, EnumerateHeld
    <2>4. wpc'[p] = "compare" /\ handle'[p] = handle[p] /\ ctx'[p] = l
          /\ held'[p] = [k \in Leaves |-> IF k = l THEN 1 ELSE 0]
      BY <1>3, <2>1, <2>3 DEF EnumerateNext, WinTypeOK
    <2> QED BY <1>0, <2>2, <2>4 DEF Disciplined, Owning
  <1>4. CASE EnumerationEnds(p)
    <2>1. held'[p] = NoReferences /\ wpc'[p] = "close" /\ handle'[p] = handle[p]
      BY <1>4, GiveBackAll DEF EnumerationEnds, WinTypeOK
    <2> QED BY <1>0, <1>4, <2>1 DEF EnumerationEnds, Disciplined, Owning, NoReferences
  <1>5. CASE Compare(p) \/ CopyLeaf(p) \/ ReadProperty(p)
    BY <1>0, <1>5 DEF Compare, CopyLeaf, ReadProperty, WinTypeOK, Disciplined, Owning
  <1>6. CASE DeleteContext(p) \/ FreeContext(p)
    <2>1. held'[p] = NoReferences /\ wpc'[p] = "close" /\ handle'[p] = handle[p]
      BY <1>6, ReleaseAll DEF DeleteContext, FreeContext, WinTypeOK, Owning
    <2> QED BY <1>0, <1>6, <2>1 DEF DeleteContext, FreeContext, Disciplined, Owning, NoReferences
  <1>7. CASE CloseStore(p)
    BY <1>0, <1>7 DEF CloseStore, WinTypeOK, Disciplined, Owning
  <1> QED BY <1>1, <1>2, <1>3, <1>4, <1>5, <1>6, <1>7 DEF WinStep

LEMMA StepDiscipline ==
    ASSUME WinTypeOK, ContextDiscipline, [WinNext]_winVars
    PROVE  ContextDiscipline'
  <1> SUFFICES ASSUME NEW q \in Clients PROVE Disciplined(q)'
    BY DEF ContextDiscipline, Disciplined
  <1>0. Disciplined(q)
    BY DEF ContextDiscipline, Disciplined
  <1>1. ASSUME NEW p \in Clients, Begin(p) \/ WinStep(p) PROVE Disciplined(q)'
    <2>1. CASE q = p
      BY <1>1, <2>1, OwnDiscipline
    <2>2. CASE q # p
      BY <1>0, <1>1, <2>2, OtherClients DEF Disciplined
    <2> QED BY <2>1, <2>2
  <1>2. ASSUME OthersChange \/ UNCHANGED winVars PROVE Disciplined(q)'
    BY <1>0, <1>2 DEF OthersChange, winVars, Disciplined
  <1> QED BY <1>1, <1>2 DEF WinNext

\* The part of SearchComplete that speaks of one client.
Complete(p) ==
    LET l == asked[p].leaf IN
    /\ wpc[p] \in {"enumerate", "compare"} =>
          \A k \in remaining[p] : view[p][k] # NotInstalled
    /\ wpc[p] = "enumerate" /\ view[p][l] # NotInstalled => l \in remaining[p]
    /\ wpc[p] = "compare" /\ view[p][l] # NotInstalled => l \in remaining[p] \cup {ctx[p]}
    /\ wpc[p] \in Owning => view[p][ctx[p]] # NotInstalled
    /\ wpc[p] \in {"use", "free"} => ctx[p] = l

\* Every step of a client keeps the leaf it searches for within reach.
LEMMA OwnSearch ==
    ASSUME WinInv, NEW p \in Clients, Begin(p) \/ WinStep(p)
    PROVE  Complete(p)'
  <1> USE DEF Continue, Decide
  <1>0. Complete(p) /\ WinTypeOK /\ asked[p].leaf \in Leaves
    BY DEF WinInv, SearchComplete, Complete, WinTypeOK, Interface!Call
  <1>1. CASE Begin(p) \/ OpenFails(p)
    BY <1>0, <1>1 DEF Begin, OpenFails, WinTypeOK, Complete, Owning
  <1>2. CASE Open(p)
    <2>1. /\ wpc'[p] = "enumerate" /\ view'[p] = store /\ asked'[p] = asked[p]
          /\ remaining'[p] = {l \in Leaves : store[l] # NotInstalled}
      BY <1>0, <1>2 DEF Open, WinTypeOK
    <2> QED BY <1>0, <2>1 DEF Complete, Owning
  <1>3. CASE EnumerateNext(p)
    <2>1. PICK l \in remaining[p] :
            /\ remaining' = [remaining EXCEPT ![p] = @ \ {l}]
            /\ ctx' = [ctx EXCEPT ![p] = l]
      BY <1>3 DEF EnumerateNext
    <2>2. /\ wpc[p] = "enumerate" /\ wpc'[p] = "compare" /\ view'[p] = view[p]
          /\ asked'[p] = asked[p] /\ ctx'[p] = l /\ remaining'[p] = remaining[p] \ {l}
      BY <1>0, <1>3, <2>1 DEF EnumerateNext, WinTypeOK
    <2> QED BY <1>0, <2>1, <2>2 DEF Complete, Owning
  <1>4. CASE EnumerationEnds(p)
    <2>1. wpc'[p] = "close"
      BY <1>0, <1>4 DEF EnumerationEnds, WinTypeOK
    <2> QED BY <2>1 DEF Complete, Owning
  <1>5. CASE Compare(p)
    <2>1. /\ wpc[p] = "compare" /\ view'[p] = view[p] /\ asked'[p] = asked[p]
          /\ ctx'[p] = ctx[p] /\ remaining'[p] = remaining[p]
          /\ wpc'[p] = IF ctx[p] = asked[p].leaf THEN "use" ELSE "enumerate"
      BY <1>0, <1>5 DEF Compare, WinTypeOK
    <2> QED BY <1>0, <2>1 DEF Complete, Owning
  <1>6. CASE CopyLeaf(p) \/ ReadProperty(p)
    <2>1. /\ wpc[p] = "use" /\ wpc'[p] = "free" /\ view'[p] = view[p] /\ asked'[p] = asked[p]
          /\ ctx'[p] = ctx[p]
      BY <1>0, <1>6 DEF CopyLeaf, ReadProperty, WinTypeOK
    <2> QED BY <1>0, <2>1 DEF Complete, Owning
  <1>7. CASE DeleteContext(p) \/ FreeContext(p) \/ CloseStore(p)
    <2>1. wpc'[p] \in {"close", "returned"}
      BY <1>0, <1>7 DEF DeleteContext, FreeContext, CloseStore, WinTypeOK
    <2> QED BY <2>1 DEF Complete, Owning
  <1> QED BY <1>1, <1>2, <1>3, <1>4, <1>5, <1>6, <1>7 DEF WinStep

LEMMA StepSearch ==
    ASSUME WinInv, [WinNext]_winVars
    PROVE  SearchComplete'
  <1> SUFFICES ASSUME NEW q \in Clients PROVE Complete(q)'
    BY DEF SearchComplete, Complete
  <1>0. Complete(q) /\ WinTypeOK
    BY DEF WinInv, SearchComplete, Complete
  <1>1. ASSUME NEW p \in Clients, Begin(p) \/ WinStep(p) PROVE Complete(q)'
    <2>1. CASE q = p
      BY <1>1, <2>1, OwnSearch
    <2>2. CASE q # p
      BY <1>0, <1>1, <2>2, OtherClients DEF Complete
    <2> QED BY <2>1, <2>2
  <1>2. ASSUME OthersChange \/ UNCHANGED winVars PROVE Complete(q)'
    BY <1>0, <1>2 DEF OthersChange, winVars, Complete
  <1> QED BY <1>1, <1>2 DEF WinNext

LEMMA WinInductive == WinSpec => []WinInv
  <1>1. WinInv /\ [WinNext]_winVars => WinInv'
    BY StepWinTyped, StepDiscipline, StepSearch DEF WinInv
  <1> QED BY <1>1, InitWinInv, PTL DEF WinSpec

\* WinTypeOK holds of every reachable state; in particular no context is ever
\* referenced twice, or owed a free it has had (findContext and its callers).
THEOREM WinTyped == WinSpec => []WinTypeOK
  <1>1. WinInv => WinTypeOK
    BY DEF WinInv
  <1> QED BY <1>1, WinInductive, PTL

\* The operations neither leak a context or a handle nor free one twice nor read a
\* freed one, whichever call fails (winStore, the deferred frees and closes).
THEOREM ContextsOwned == WinSpec => []ContextDiscipline
  <1>1. WinInv => ContextDiscipline
    BY DEF WinInv
  <1> QED BY <1>1, WinInductive, PTL

\* findContext passes no matching certificate by and returns no other (winStore).
THEOREM SearchIsComplete == WinSpec => []SearchComplete
  <1>1. WinInv => SearchComplete
    BY DEF WinInv
  <1> QED BY <1>1, WinInductive, PTL

-----------------------------------------------------------------------------
(* The operations over Win32 implement the certStore interface *)

LEMMA InitMaps == WinInit => Interface!StoreInit
  BY DEF WinInit, Interface!StoreInit, Stage, StageAt, Seen, Interface!Call

\* The interface sees a step of a call as a move of that call alone.
LEMMA StageMoves ==
    ASSUME WinTypeOK, NEW p \in Clients, NEW step \in Steps, Continue(p, step)
    PROVE  Stage' = [Stage EXCEPT ![p] = StageAt(step)]
  BY DEF WinTypeOK, Continue, Stage, StageAt, Steps

\* A call of which neither the handle nor the request changes has seen what it had.
LEMMA SeenStays ==
    ASSUME UNCHANGED <<view, asked>>
    PROVE  UNCHANGED Seen
  BY DEF Seen

\* An answer of a call over Win32 is an answer of the interface.
LEMMA DecideMaps ==
    ASSUME WinTypeOK, NEW p \in Clients, NEW a, NEW step \in {"free", "close", "returned"},
           Decide(p, a, step), UNCHANGED <<view, asked>>
    PROVE  Interface!Answered(p, a)
  BY StageMoves, SeenStays DEF Decide, Interface!Answered, StageAt, Steps

\* A step that only moves between two stages the interface does not tell apart.
LEMMA StutterMaps ==
    ASSUME WinTypeOK, NEW p \in Clients, NEW step \in Steps, Continue(p, step),
           StageAt(step) = StageAt(wpc[p]), UNCHANGED <<store, asked, view, answer>>
    PROVE  UNCHANGED Interface!storeVars
  BY StageMoves, SeenStays DEF Interface!storeVars, Stage, WinTypeOK

\* Each step of a client is a step of the interface, or none it can see.
LEMMA ClientStepMaps ==
    ASSUME WinInv, NEW p \in Clients, Begin(p) \/ WinStep(p)
    PROVE  Interface!Begin(p) \/ Interface!Serve(p) \/ UNCHANGED Interface!storeVars
  <1>0. /\ WinTypeOK /\ Disciplined(p) /\ Complete(p)
        /\ Stage[p] = StageAt(wpc[p]) /\ Seen[p] = view[p][asked[p].leaf]
        /\ asked[p].leaf \in Leaves
    BY DEF WinInv, ContextDiscipline, Disciplined, SearchComplete, Complete, Stage, Seen,
           WinTypeOK, Interface!Call
  <1>1. CASE Begin(p)
    <2>1. Stage' = [Stage EXCEPT ![p] = "called"]
      BY <1>0, <1>1, StageMoves DEF Begin, Decide, Steps, StageAt
    <2>2. Stage[p] \in {"idle", "answered"}
      BY <1>0, <1>1 DEF Begin, StageAt
    <2>3. \A q \in Clients : asked'[q].leaf \in Leaves
      BY <1>0, <1>1 DEF Begin, WinTypeOK, Interface!Call
    <2>4. Seen' = [Seen EXCEPT ![p] = NotInstalled]
      BY <1>0, <1>1, <2>3 DEF Begin, WinTypeOK, Seen
    <2> QED BY <1>1, <2>1, <2>2, <2>4 DEF Begin, Decide, Interface!Begin
  <1>2. CASE OpenFails(p)
    <2>1. Interface!Answered(p, Interface!Error)
      BY <1>0, <1>2, DecideMaps DEF OpenFails
    <2> QED BY <1>0, <1>2, <2>1 DEF OpenFails, StageAt, Interface!AnswerError, Interface!Serve
  <1>3. CASE Open(p)
    <2>1. Stage' = [Stage EXCEPT ![p] = "looked"] /\ Stage[p] = "called"
      BY <1>0, <1>3, StageMoves DEF Open, Steps, StageAt
    <2>2. Seen' = [Seen EXCEPT ![p] = store[asked[p].leaf]]
      BY <1>0, <1>3 DEF Open, WinTypeOK, Seen
    <2> QED BY <1>3, <2>1, <2>2 DEF Open, Interface!Look, Interface!Serve
  <1>4. CASE EnumerateNext(p)
    BY <1>0, <1>4, StutterMaps DEF EnumerateNext, Steps, StageAt
  <1>5. CASE EnumerationEnds(p)
    <2>1. CASE Decide(p, Interface!Error, "close")
      <3>1. Interface!Answered(p, Interface!Error)
        BY <1>0, <1>5, <2>1, DecideMaps DEF EnumerationEnds
      <3> QED BY <1>0, <1>5, <3>1
              DEF EnumerationEnds, StageAt, Interface!AnswerError, Interface!Serve
    <2>2. CASE remaining[p] = {} /\ Decide(p, Interface!NotFound, "close")
      <3>1. Interface!Answered(p, Interface!NotFound)
        BY <1>0, <1>5, <2>2, DecideMaps DEF EnumerationEnds
      <3>2. view[p][asked[p].leaf] = NotInstalled
        BY <1>0, <1>5, <2>2 DEF EnumerationEnds, Complete
      <3> QED BY <1>0, <1>5, <3>1, <3>2
              DEF EnumerationEnds, StageAt, Interface!AnswerNotFound, Interface!Serve
    <2> QED BY <1>5, <2>1, <2>2 DEF EnumerationEnds
  <1>6. CASE Compare(p)
    BY <1>0, <1>6, StutterMaps DEF Compare, Steps, StageAt
  <1>7. CASE CopyLeaf(p)
    <2>1. ctx[p] = asked[p].leaf /\ view[p][asked[p].leaf] # NotInstalled
      BY <1>0, <1>7 DEF CopyLeaf, Complete, Owning
    <2>2. Interface!Answered(p, Interface!Certificate(asked[p].leaf))
      BY <1>0, <1>7, <2>1, DecideMaps DEF CopyLeaf
    <2> QED BY <1>0, <1>7, <2>1, <2>2
            DEF CopyLeaf, StageAt, Interface!AnswerRead, Interface!Serve
  <1>8. CASE ReadProperty(p)
    <2>1. ctx[p] = asked[p].leaf /\ view[p][asked[p].leaf] # NotInstalled
      BY <1>0, <1>8 DEF ReadProperty, Complete, Owning
    <2>2. \/ Interface!Answered(p, Interface!KeyInfo(view[p][asked[p].leaf]))
          \/ Interface!Answered(p, Interface!Error)
      BY <1>0, <1>8, <2>1, DecideMaps DEF ReadProperty
    <2> QED BY <1>0, <1>8, <2>1, <2>2
            DEF ReadProperty, StageAt, Interface!AnswerRead, Interface!AnswerError, Interface!Serve
  <1>9. CASE DeleteContext(p)
    <2>1. ctx[p] = asked[p].leaf /\ view[p][asked[p].leaf] # NotInstalled
      BY <1>0, <1>9 DEF DeleteContext, Complete, Owning
    <2>2. CASE store' = [store EXCEPT ![ctx[p]] = NotInstalled]
               /\ Decide(p, Interface!Deleted, "close")
      <3>1. Interface!Answered(p, Interface!Deleted)
        BY <1>0, <1>9, <2>2, DecideMaps DEF DeleteContext
      <3> QED BY <1>0, <1>9, <2>1, <2>2, <3>1
              DEF DeleteContext, StageAt, Interface!AnswerDeleted, Interface!Serve
    <2>3. CASE UNCHANGED store /\ Decide(p, Interface!Error, "close")
      <3>1. Interface!Answered(p, Interface!Error)
        BY <1>0, <1>9, <2>3, DecideMaps DEF DeleteContext
      <3> QED BY <1>0, <1>9, <2>3, <3>1
              DEF DeleteContext, StageAt, Interface!AnswerError, Interface!Serve
    <2> QED BY <1>9, <2>2, <2>3 DEF DeleteContext
  <1>10. CASE FreeContext(p)
    BY <1>0, <1>10, StutterMaps DEF FreeContext, Steps, StageAt
  <1>11. CASE CloseStore(p)
    BY <1>0, <1>11, StutterMaps DEF CloseStore, Steps, StageAt
  <1> QED BY <1>1, <1>2, <1>3, <1>4, <1>5, <1>6, <1>7, <1>8, <1>9, <1>10, <1>11 DEF WinStep

\* The three operations over Win32 implement the certStore interface that Uninstall
\* is written against, for any number of certificates, callers and concurrent
\* changes of the store (winStore, certStore).
THEOREM StoreContract == WinSpec => ImplementsCertStore
  <1>1. WinInv /\ [WinNext]_winVars => [Interface!StoreNext]_(Interface!storeVars)
    <2> SUFFICES ASSUME WinInv, [WinNext]_winVars
                 PROVE  Interface!StoreNext \/ UNCHANGED Interface!storeVars
      OBVIOUS
    <2>1. ASSUME NEW p \in Clients, Begin(p) \/ WinStep(p)
          PROVE  Interface!StoreNext \/ UNCHANGED Interface!storeVars
      BY <2>1, ClientStepMaps DEF Interface!StoreNext
    <2>2. CASE OthersChange
      BY <2>2, SeenStays DEF OthersChange, Stage, Interface!StoreChanges, Interface!StoreNext
    <2>3. CASE UNCHANGED winVars
      BY <2>3, SeenStays DEF winVars, Stage, Interface!storeVars
    <2> QED BY <2>1, <2>2, <2>3 DEF WinNext
  <1> QED BY <1>1, InitMaps, WinInductive, PTL DEF WinSpec, ImplementsCertStore, Interface!StoreSpec

-----------------------------------------------------------------------------
(* Why the operations end *)

\* The steps after the opening of the store, in the order of one turn of findContext
\* and of what follows it.
Rank(step) ==
    CASE step = "compare"   -> 5
      [] step = "enumerate" -> 4
      [] step = "use"       -> 3
      [] step = "free"      -> 2
      [] step = "close"     -> 1
      [] OTHER              -> 0

\* What a step of p's call does to the call: it opens the store once, or returns;
\* from then on it has fewer certificates still to come, or as many and is
\* further down the turn.
CallDescends(p) ==
    \/ wpc[p] = "open" /\ wpc'[p] \in {"enumerate", "returned"}
    \/ /\ wpc[p] \in {"enumerate", "compare", "use", "free", "close"}
       /\ \/ remaining'[p] \subseteq remaining[p] /\ remaining'[p] # remaining[p]
          \/ remaining'[p] = remaining[p] /\ Rank(wpc'[p]) < Rank(wpc[p])

\* Every step descends so, whatever the other clients and programs do to the store
\* meanwhile: only a new call goes up again.
WinDescends ==
    [][\A p \in Clients :
          \/ WinStep(p) /\ CallDescends(p)
          \/ Begin(p)
          \/ wpc'[p] = wpc[p] /\ remaining'[p] = remaining[p]]_winVars

LEMMA OwnDescends ==
    ASSUME WinTypeOK, NEW p \in Clients, WinStep(p)
    PROVE  CallDescends(p)
  <1> USE DEF Continue, Decide, Rank, CallDescends
  <1>0. /\ wpc \in [Clients -> Steps]
        /\ remaining \in [Clients -> SUBSET Leaves]
    BY DEF WinTypeOK, Steps
  <1>1. CASE OpenFails(p) \/ Open(p)
    BY <1>0, <1>1 DEF OpenFails, Open
  <1>2. CASE EnumerateNext(p)
    <2>1. PICK l \in remaining[p] : remaining' = [remaining EXCEPT ![p] = @ \ {l}]
      BY <1>2 DEF EnumerateNext
    <2>2. remaining'[p] = remaining[p] \ {l}
      BY <1>0, <2>1
    <2> QED BY <1>2, <2>1, <2>2 DEF EnumerateNext
  <1>3. CASE EnumerationEnds(p)
    BY <1>0, <1>3 DEF EnumerationEnds
  <1>4. CASE Compare(p)
    BY <1>0, <1>4 DEF Compare
  <1>5. CASE CopyLeaf(p) \/ ReadProperty(p)
    BY <1>0, <1>5 DEF CopyLeaf, ReadProperty
  <1>6. CASE DeleteContext(p)
    BY <1>0, <1>6 DEF DeleteContext
  <1>7. CASE FreeContext(p) \/ CloseStore(p)
    BY <1>0, <1>7 DEF FreeContext, CloseStore
  <1> QED BY <1>1, <1>2, <1>3, <1>4, <1>5, <1>6, <1>7 DEF WinStep

\* The enumeration always comes nearer to the end of the store that
\* the handle shows, with concurrent insertions and deletions too, and no call
\* after it is made twice (findContext and its three callers).
THEOREM OperationsDescend == WinSpec => WinDescends
  <1>1. WinInv /\ [WinNext]_winVars =>
           [\A p \in Clients :
               \/ WinStep(p) /\ CallDescends(p)
               \/ Begin(p)
               \/ wpc'[p] = wpc[p] /\ remaining'[p] = remaining[p]]_winVars
    <2> SUFFICES ASSUME WinTypeOK, WinNext, NEW p \in Clients
                 PROVE  \/ WinStep(p) /\ CallDescends(p)
                        \/ Begin(p)
                        \/ wpc'[p] = wpc[p] /\ remaining'[p] = remaining[p]
      BY DEF WinInv
    <2>1. ASSUME NEW q \in Clients, Begin(q) \/ WinStep(q), q # p
          PROVE  wpc'[p] = wpc[p] /\ remaining'[p] = remaining[p]
      BY <2>1, OtherClients
    <2>2. CASE OthersChange
      BY <2>2 DEF OthersChange
    <2> QED BY <2>1, <2>2, OwnDescends DEF WinNext
  <1> QED BY <1>1, WinInductive, PTL DEF WinSpec, WinDescends
=============================================================================
