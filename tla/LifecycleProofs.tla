--------------------------- MODULE LifecycleProofs ---------------------------
(***************************************************************************)
(* Theorems of Lifecycle for every set of attempts, callers, containers    *)
(* and leaves.  The steps of an enrollment and of an uninstall keep their  *)
(* own invariants by the lemmas of EnrollmentProofs and CleanupProofs;     *)
(* what is proved here is that each also keeps the invariant of the other, *)
(* and that the metadata they pass through the caller stays exact.         *)
(***************************************************************************)
EXTENDS Lifecycle, EnrollmentProofs, CleanupProofs

\* All that holds of the composition, without its two claims about the answers
\* of Uninstall.
BaseInv == CoreInv /\ CleanupTypeOK /\ UninstallInv /\ HandoverInv

LifecycleIInv == BaseInv /\ SuccessNeverRefused /\ UninstalledStaysGone

LEMMA LifecycleInitInv == LifecycleInit => LifecycleIInv
  <1> SUFFICES ASSUME LifecycleInit PROVE LifecycleIInv
    OBVIOUS
  <1>1. CoreInv
    <2>1. Init
      BY DEF LifecycleInit, Init, MachineInit
    <2> QED BY <2>1, InitIInv DEF IInv
  <1>2. CleanupTypeOK /\ UninstallInv
    BY <1>1 DEF LifecycleInit, CleanupInit, CoreInv, EnrollTypeOK, CleanupTypeOK, CleanupSteps,
                UninstallInv, CallInProgress, GuardsHold, LeafGone
  <1>3. HandoverInv
    BY SentinelAssumption DEF LifecycleInit, EnrollInit, CleanupInit, HandoverInv, ContainersApart,
                              MetadataHasOrigin, MetadataExact, Handed, Owners
  <1>4. SuccessNeverRefused /\ UninstalledStaysGone
    BY DEF LifecycleInit, EnrollInit, SuccessNeverRefused, UninstalledStaysGone, ActsFor, Handed
  <1> QED BY <1>1, <1>2, <1>3, <1>4 DEF LifecycleIInv, BaseInv

-----------------------------------------------------------------------------
(* What callers hold *)

\* A caller holds the exact metadata of one attempt, by its leaf and container.
LEMMA OriginOf ==
    ASSUME BaseInv, NEW u \in Callers, NEW a \in Attempts, ActsFor(u, a)
    PROVE  /\ pc[a] = "done" /\ meta[u] = result[a].cleanup /\ meta[u] # NoInfo
           /\ Vetted(a) /\ Contents[meta[u].leafSHA256].publicKey = a
           /\ meta[u].leafSHA256 = issued[a].leaf /\ meta[u].leafSHA256 \in Leaves
           /\ Matches(meta[u])
           /\ meta[u].provider = ExpectedCNGProvider
           /\ meta[u].containerName = container[a] /\ container[a] \in Containers
           /\ meta[u].containerName # NoContainer /\ meta[u].provider # NoProvider
           /\ \/ /\ result[a].status = "success"
                 /\ Installed(issued[a].leaf) => store[issued[a].leaf] = Recorded(meta[u])
              \/ /\ result[a].status = "enrollment-incomplete"
                 /\ meta[u].providerType = 0 /\ meta[u].keySpec = 0
  <1>1. Handed(a) /\ meta[u] = result[a].cleanup
    BY DEF ActsFor
  <1>2. MetadataExact
    BY DEF BaseInv, HandoverInv
  <1>3. issued[a].leaf \in Leaves /\ Contents[issued[a].leaf].publicKey = a
    BY <1>1, <1>2, VettedKey DEF MetadataExact
  <1> QED BY <1>1, <1>2, <1>3, SentinelAssumption, ProviderAssumption
          DEF MetadataExact, Handed, Matches

\* Two attempts never hand out the same metadata.
LEMMA OneOrigin ==
    ASSUME BaseInv, NEW u \in Callers, NEW a \in Attempts, NEW b \in Attempts,
           ActsFor(u, a), ActsFor(u, b)
    PROVE  a = b
  BY OriginOf

LEMMA SomeOrigin ==
    ASSUME BaseInv, NEW u \in Callers, meta[u] # NoInfo
    PROVE  \E a \in Attempts : ActsFor(u, a)
  BY DEF BaseInv, HandoverInv, MetadataHasOrigin

-----------------------------------------------------------------------------
(* A step of an enrollment *)

EnrollStep(a) == /\ (Enroll(a) /\ FreshContainer(a)) \/ Crash(a)
                 /\ UNCHANGED cleanupVars

\* An attempt that has returned is left alone by every step, so is the leaf it
\* installed unless it goes away, and no other attempt touches its key.
LEMMA ReturnedStays ==
    ASSUME CoreInv, NEW a \in Attempts, EnrollStep(a), NEW b \in Attempts, pc[b] = "done"
    PROVE  /\ b # a
           /\ pc'[b] = "done" /\ result'[b] = result[b]
           /\ container'[b] = container[b] /\ issued'[b] = issued[b]
           /\ \A l \in Leaves : Contents[l].publicKey = b => store'[l] = store[l]
           /\ \A c \in Containers : keys'[c] = b => keys[c] = b
  <1>0. TypeInv /\ AcceptVetted /\ (Enroll(a) \/ Crash(a))
    BY DEF CoreInv, OwnershipInv, TypeInv, EnrollStep
  <1>1. b # a
    BY <1>0, ControlOfStep
  <1>2. /\ pc'[b] = "done" /\ result'[b] = result[b]
        /\ container'[b] = container[b] /\ issued'[b] = issued[b]
    BY <1>0, <1>1, OthersUnchanged
  <1>3. ASSUME NEW l \in Leaves, Contents[l].publicKey = b PROVE store'[l] = store[l]
    <2>1. pc[a] = "accept" => Contents[issued[a].leaf].publicKey = a
      BY <1>0, VettedKey DEF AcceptVetted
    <2> QED BY <1>0, <1>1, <1>3, <2>1, StoreOfStep DEF TypeInv, EnrollTypeOK, MachineTypeOK
  <1>4. ASSUME NEW c \in Containers, keys'[c] = b PROVE keys[c] = b
    <2>1. b # NoKey
      BY SentinelAssumption DEF Owners
    <2> QED BY <1>0, <1>1, <1>4, <2>1, KeysOfStep DEF TypeInv, EnrollTypeOK, MachineTypeOK
  <1> QED BY <1>1, <1>2, <1>3, <1>4

\* The metadata an attempt hands out when it returns is exact.
LEMMA HandsOutExact ==
    ASSUME CoreInv, NEW a \in Attempts, EnrollStep(a), Handed(a)'
    PROVE  LET info == result'[a].cleanup
           IN /\ Vetted(a)'
              /\ info.leafSHA256 = issued'[a].leaf /\ info.identity = issued'[a].leaf
              /\ info.provider = ExpectedCNGProvider
              /\ info.containerName = container'[a] /\ container'[a] \in Containers
              /\ Contents[info.leafSHA256].publicKey = a
              /\ \/ /\ result'[a].status = "success"
                    /\ store'[issued'[a].leaf] = Recorded(info)
                 \/ /\ result'[a].status = "enrollment-incomplete"
                    /\ info.providerType = 0 /\ info.keySpec = 0
  <1>0. TypeInv /\ AcceptVetted /\ FailureRecorded /\ (Enroll(a) \/ Crash(a))
    BY DEF CoreInv, OwnershipInv, TypeInv, EnrollStep
  <1>1. pc'[a] = "done" /\ result'[a].cleanup # NoInfo
    BY DEF Handed
  <1>2. /\ pc[a] = "capture"
        /\ \/ /\ result'[a].status = "enrollment-incomplete"
              /\ result'[a].cleanup = RetryCleanup(issued[a].leaf, container[a])
           \/ result'[a].status = "success"
    BY <1>0, <1>1, ResultOfStep DEF FailureRecorded
  <1>3. Vetted(a) /\ issued'[a] = issued[a] /\ container'[a] = container[a]
    BY <1>0, <1>2, ChoicesStable DEF AcceptVetted
  <1>4. container[a] \in Containers /\ Contents[issued[a].leaf].publicKey = a
    BY <1>0, <1>2, <1>3, VettedKey DEF TypeInv, ChoicesMade, Running, LocalSteps
  <1>5. CASE /\ result'[a].status = "enrollment-incomplete"
             /\ result'[a].cleanup = RetryCleanup(issued[a].leaf, container[a])
    BY <1>3, <1>4, <1>5 DEF RetryCleanup, CleanupInfoForCert, Vetted
  <1>6. CASE result'[a].status = "success"
    <2>1. Returned(a, "success")'
      BY <1>1, <1>6 DEF Returned
    <2>2. LET r == result'[a] IN
          /\ store' = store
          /\ r.cleanup.leafSHA256 = issued[a].leaf /\ r.cleanup.identity = issued[a].leaf
          /\ r.cleanup.provider = ExpectedCNGProvider /\ r.cleanup.containerName = container[a]
          /\ store[r.cleanup.leafSHA256] =
                [provider |-> ExpectedCNGProvider, containerName |-> container[a],
                 providerType |-> r.cleanup.providerType, keySpec |-> r.cleanup.keySpec]
      BY <1>0, <2>1, SuccessOfCapture
    <2> QED BY <1>3, <1>4, <1>6, <2>2 DEF Recorded, Vetted
  <1> QED BY <1>2, <1>5, <1>6

LEMMA EnrollKeepsHandover ==
    ASSUME BaseInv, NEW a \in Attempts, EnrollStep(a)
    PROVE  HandoverInv'
  <1>0. /\ CoreInv /\ TypeInv /\ CleanupTypeOK /\ ContainersApart /\ MetadataHasOrigin /\ MetadataExact
        /\ \A c \in Containers : keys[c] # Foreign
        /\ (Enroll(a) /\ FreshContainer(a)) \/ Crash(a)
        /\ meta' = meta
    BY DEF BaseInv, HandoverInv, CoreInv, OwnershipInv, TypeInv, EnrollStep, cleanupVars
  <1>1. ContainersApart'
    <2> SUFFICES ASSUME NEW b \in Attempts, NEW d \in Attempts, container'[b] = container'[d],
                        container'[b] # NoContainer, b # d
                 PROVE  FALSE
      BY DEF ContainersApart
    <2>1. \A e \in Attempts \ {a} : container'[e] = container[e]
      BY <1>0, OthersUnchanged
    <2>2. CASE container'[a] = container[a]
      BY <1>0, <2>1, <2>2 DEF ContainersApart
    <2>3. CASE container'[a] # container[a]
      <3>1. pc[a] = "idle"
        BY <1>0, <2>3, ChoicesStable
      <3>2. ~Crash(a)
        BY <3>1 DEF Crash, Running, ToolSteps, LocalSteps
      <3>3. \A e \in Attempts \ {a} : container'[a] # NoContainer => container'[a] # container[e]
        BY <1>0, <3>1, <3>2 DEF FreshContainer
      <3> QED BY <1>0, <2>1, <3>3 DEF ContainersApart
    <2> QED BY <2>2, <2>3
  <1>2. \A c \in Containers : keys'[c] # Foreign
    <2>1. a # Foreign /\ NoKey # Foreign
      BY SentinelAssumption DEF Owners
    <2> QED BY <1>0, <2>1, KeysOfStep DEF TypeInv, EnrollTypeOK, MachineTypeOK
  <1>3. MetadataHasOrigin'
    <2> SUFFICES ASSUME NEW u \in Callers, meta'[u] # NoInfo
                 PROVE  \E b \in Attempts : ActsFor(u, b)'
      BY DEF MetadataHasOrigin
    <2>1. PICK b \in Attempts : ActsFor(u, b)
      BY <1>0 DEF MetadataHasOrigin
    <2>2. pc'[b] = "done" /\ result'[b] = result[b]
      BY <1>0, <2>1, ReturnedStays DEF ActsFor, Handed
    <2> QED BY <1>0, <2>1, <2>2 DEF ActsFor, Handed
  <1>4. MetadataExact'
    <2> SUFFICES ASSUME NEW b \in Attempts, Handed(b)'
                 PROVE  LET info == result'[b].cleanup
                        IN /\ Vetted(b)'
                           /\ info.leafSHA256 = issued'[b].leaf /\ info.identity = issued'[b].leaf
                           /\ info.provider = ExpectedCNGProvider
                           /\ info.containerName = container'[b] /\ container'[b] \in Containers
                           /\ \/ /\ result'[b].status = "success"
                                 /\ Installed(issued[b].leaf)' =>
                                       store'[issued'[b].leaf] = Recorded(info)
                              \/ /\ result'[b].status = "enrollment-incomplete"
                                 /\ info.providerType = 0 /\ info.keySpec = 0
      BY DEF MetadataExact, Recorded
    <2>1. CASE b = a
      BY <1>0, <2>1, HandsOutExact
    <2>2. CASE b # a
      <3>1. pc[b] = "done" /\ Handed(b)
        BY <1>0, <2>2, OthersUnchanged DEF Handed
      <3>2. /\ result'[b] = result[b] /\ container'[b] = container[b] /\ issued'[b] = issued[b]
            /\ \A l \in Leaves : Contents[l].publicKey = b => store'[l] = store[l]
        BY <1>0, <3>1, ReturnedStays
      <3>3. issued[b].leaf \in Leaves /\ Contents[issued[b].leaf].publicKey = b
        BY <1>0, <3>1, VettedKey DEF MetadataExact
      <3> QED BY <1>0, <3>1, <3>2, <3>3 DEF MetadataExact, Vetted, Installed
    <2> QED BY <2>1, <2>2
  <1> QED BY <1>1, <1>2, <1>3, <1>4 DEF HandoverInv

LEMMA EnrollKeepsBase ==
    ASSUME BaseInv, NEW a \in Attempts, EnrollStep(a)
    PROVE  BaseInv'
  <1>0. CoreInv /\ CleanupTypeOK /\ UninstallInv
    BY DEF BaseInv
  <1>1. CoreInv'
    BY <1>0, CoreStep DEF EnrollStep, EnrollNext
  <1>2. CleanupTypeOK'
    BY <1>0, <1>1 DEF EnrollStep, cleanupVars, CleanupTypeOK, CoreInv, EnrollTypeOK
  <1>3. UninstallInv'
    <2>1. ASSUME NEW u \in Callers, meta[u] # NoInfo
          PROVE  store'[meta[u].leafSHA256] = store[meta[u].leafSHA256]
      <3>1. PICK b \in Attempts : ActsFor(u, b)
        BY <2>1, SomeOrigin
      <3> QED BY <1>0, <3>1, OriginOf, ReturnedStays
    <2> QED BY <1>0, <2>1, OthersStepInv DEF EnrollStep
  <1> QED BY <1>1, <1>2, <1>3, EnrollKeepsHandover DEF BaseInv

-----------------------------------------------------------------------------
(* A step of an uninstall *)

CallStep(u) == /\ \/ \E a \in Attempts : Handed(a) /\ CallUninstall(u, result[a].cleanup)
                  \/ UninstallStep(u)
                  \/ CallerCrashes(u)
               /\ UNCHANGED enrollVars

\* What Enroll hands out is metadata that Uninstall takes.
LEMMA CallStepIsCallerStep ==
    ASSUME BaseInv, NEW u \in Callers, CallStep(u)
    PROVE  CallerStep(u)
  <1>1. \A a \in Attempts : Handed(a) => result[a].cleanup \in CleanupInfo
    BY DEF BaseInv, CoreInv, EnrollTypeOK, Result, Handed
  <1> QED BY <1>1 DEF CallStep, CallerStep

\* The metadata of a caller is kept, or is that of the attempt it calls for.
LEMMA MetaOfCall ==
    ASSUME BaseInv, NEW u \in Callers, CallStep(u)
    PROVE  \/ meta' = meta
           \/ \E a \in Attempts : /\ Handed(a)
                                  /\ meta[u] \in {NoInfo, result[a].cleanup}
                                  /\ meta' = [meta EXCEPT ![u] = result[a].cleanup]
  <1>1. ASSUME UninstallStep(u) PROVE meta' = meta
    BY <1>1, StepOutcome DEF Proceed, Uninstalled
  <1> QED BY <1>1 DEF CallStep, CallUninstall, CallerCrashes

\* A key that an uninstall deletes is that of the attempt whose metadata the
\* caller was given, which has returned and whose leaf is gone.
LEMMA KeyOfCall ==
    ASSUME BaseInv, NEW u \in Callers, CallStep(u), keys' # keys
    PROVE  \E a \in Attempts :
              /\ upc[u] = "deleteKey" /\ ActsFor(u, a)
              /\ container[a] \in Containers /\ keys[container[a]] = a
              /\ keys' = [keys EXCEPT ![container[a]] = NoKey]
              /\ ~Installed(issued[a].leaf)
              /\ store' = store
  <1>1. /\ upc[u] = "deleteKey"
        /\ keys' = [keys EXCEPT ![meta[u].containerName] = NoKey]
        /\ store' = store
    BY CallStepIsCallerStep, MachineOfCaller
  <1>2. meta[u] # NoInfo /\ ~Installed(meta[u].leafSHA256)
    BY <1>1 DEF BaseInv, UninstallInv, LeafGone
  <1>3. PICK a \in Attempts : ActsFor(u, a)
    BY <1>2, SomeOrigin
  <1>4. /\ meta[u].containerName = container[a] /\ container[a] \in Containers
        /\ meta[u].leafSHA256 = issued[a].leaf
    BY <1>3, OriginOf
  <1>5. keys[container[a]] = a
    <2>1. keys \in [Containers -> Owners \cup {NoKey}] /\ KeyOrigin /\ ContainersApart
          /\ \A c \in Containers : keys[c] # Foreign
      BY DEF BaseInv, CoreInv, EnrollTypeOK, MachineTypeOK, OwnershipInv, HandoverInv
    <2>2. keys[container[a]] # NoKey
      BY <1>1, <1>4, <2>1
    <2>3. PICK b \in Attempts : keys[container[a]] = b
      BY <1>4, <2>1, <2>2 DEF Owners
    <2>4. container[b] = container[a]
      BY <1>4, <2>1, <2>3 DEF KeyOrigin
    <2> QED BY <1>4, <2>1, <2>3, <2>4, SentinelAssumption DEF ContainersApart
  <1> QED BY <1>1, <1>2, <1>3, <1>4, <1>5

LEMMA CallKeepsCore ==
    ASSUME BaseInv, NEW u \in Callers, CallStep(u)
    PROVE  CoreInv'
  <1>0. /\ CoreInv /\ OwnershipInv /\ CleanupTypeOK /\ MachineTypeOK /\ CallerStep(u)
        /\ UNCHANGED <<pc, container, request, issued, result>>
    BY CallStepIsCallerStep DEF BaseInv, CoreInv, EnrollTypeOK, CallStep, enrollVars
  <1>1. EnrollTypeOK'
    <2>1. CleanupTypeOK'
      BY <1>0, CallerStepTyped
    <2> QED BY <1>0, <2>1 DEF CleanupTypeOK, CoreInv, EnrollTypeOK
  <1>2. (ChoicesMade /\ AcceptVetted /\ FailureRecorded /\ SuccessRecorded)'
    BY <1>0 DEF OwnershipInv, ChoicesMade, AcceptVetted, Vetted, FailureRecorded, SuccessRecorded,
                Returned
  <1>3. KeyOrigin' /\ KeyHeld'
    <2>1. CASE keys' = keys
      BY <1>0, <2>1 DEF OwnershipInv, KeyOrigin, KeyHeld
    <2>2. CASE keys' # keys
      <3>1. PICK a \in Attempts :
              /\ ActsFor(u, a) /\ container[a] \in Containers /\ keys[container[a]] = a
              /\ keys' = [keys EXCEPT ![container[a]] = NoKey]
        BY <2>2, KeyOfCall
      <3>2. pc[a] = "done"
        BY <3>1 DEF ActsFor, Handed
      <3>3. \A b \in Attempts : b # NoKey
        BY SentinelAssumption DEF Owners
      <3>4. KeyOrigin'
        BY <1>0, <3>1, <3>3 DEF OwnershipInv, KeyOrigin, MachineTypeOK
      <3>5. KeyHeld'
        <4> SUFFICES ASSUME NEW b \in Attempts, pc[b] \in Holding
                     PROVE  /\ keys'[container[b]] = b
                            /\ pc[b] \in Holding \ {"cleanup"} => request[b] = b
          BY <1>0 DEF KeyHeld
        <4>1. container[b] \in Containers /\ keys[container[b]] = b
          BY <1>0 DEF OwnershipInv, KeyHeld, ChoicesMade, Holding, Running,
                      ToolSteps, LocalSteps
        <4>2. container[b] # container[a]
          BY <3>1, <3>2, <4>1 DEF Holding
        <4> QED BY <1>0, <3>1, <4>1, <4>2 DEF OwnershipInv, KeyHeld, MachineTypeOK
      <3> QED BY <3>4, <3>5
    <2> QED BY <2>1, <2>2
  <1>4. LeafOrigin'
    <2>1. \A l \in Leaves : Installed(l)' => Installed(l)
      BY <1>0, LeavesOnlyGo DEF Installed
    <2> QED BY <1>0, <2>1 DEF OwnershipInv, LeafOrigin, Vetted
  <1> QED BY <1>1, <1>2, <1>3, <1>4 DEF CoreInv, OwnershipInv

LEMMA CallKeepsHandover ==
    ASSUME BaseInv, NEW u \in Callers, CallStep(u)
    PROVE  HandoverInv'
  <1>0. /\ HandoverInv /\ CleanupTypeOK /\ MachineTypeOK /\ CallerStep(u)
        /\ UNCHANGED <<pc, container, request, issued, result>>
    BY CallStepIsCallerStep DEF BaseInv, CleanupTypeOK, CallStep, enrollVars
  <1>1. ContainersApart'
    BY <1>0 DEF HandoverInv, ContainersApart
  <1>2. \A c \in Containers : keys'[c] # Foreign
    <2>1. NoKey # Foreign
      BY SentinelAssumption DEF Owners
    <2> QED BY <1>0, <2>1, MachineOfCaller DEF HandoverInv, MachineTypeOK
  <1>3. MetadataHasOrigin'
    BY <1>0, MetaOfCall DEF HandoverInv, MetadataHasOrigin, ActsFor, Handed, CleanupTypeOK
  <1>4. MetadataExact'
    <2> SUFFICES ASSUME NEW a \in Attempts, Handed(a)
                 PROVE  LET info == result[a].cleanup
                        IN /\ Vetted(a)
                           /\ info.leafSHA256 = issued[a].leaf /\ info.identity = issued[a].leaf
                           /\ info.provider = ExpectedCNGProvider
                           /\ info.containerName = container[a] /\ container[a] \in Containers
                           /\ \/ /\ result[a].status = "success"
                                 /\ Installed(issued[a].leaf)' =>
                                       store'[issued[a].leaf] = Recorded(info)
                              \/ /\ result[a].status = "enrollment-incomplete"
                                 /\ info.providerType = 0 /\ info.keySpec = 0
      BY <1>0 DEF MetadataExact, Recorded, Handed, Vetted, Installed
    <2>1. issued[a].leaf \in Leaves
      BY <1>0, VettedKey DEF HandoverInv, MetadataExact
    <2>2. store'[issued[a].leaf] \in {store[issued[a].leaf], NotInstalled}
      BY <1>0, <2>1, LeavesOnlyGo
    <2> QED BY <1>0, <2>2 DEF HandoverInv, MetadataExact, Installed
  <1> QED BY <1>1, <1>2, <1>3, <1>4 DEF HandoverInv

LEMMA CallKeepsBase ==
    ASSUME BaseInv, NEW u \in Callers, CallStep(u)
    PROVE  BaseInv'
  BY CallStepIsCallerStep, CallerStepTyped, CallerStepInv, CallKeepsCore, CallKeepsHandover DEF BaseInv

-----------------------------------------------------------------------------
(* The administrator *)

AdminStep == /\ \E l \in Leaves : AdminRemovesLeaf(l)
             /\ UNCHANGED <<enrollVars, cleanupVars>>

LEMMA AdminKeepsBase ==
    ASSUME BaseInv, AdminStep
    PROVE  BaseInv'
  <1>0. /\ CoreInv /\ CleanupTypeOK /\ UninstallInv /\ HandoverInv /\ MachineTypeOK
        /\ keys' = keys
        /\ UNCHANGED <<pc, container, request, issued, result, upc, meta, uresult, deleted>>
        /\ UNCHANGED enrollVars /\ UNCHANGED cleanupVars
    BY DEF BaseInv, CleanupTypeOK, AdminStep, AdminRemovesLeaf, enrollVars, cleanupVars
  <1>1. \A l \in Leaves : store'[l] \in {store[l], NotInstalled}
    BY <1>0 DEF AdminStep, AdminRemovesLeaf, MachineTypeOK
  <1>2. CoreInv'
    BY <1>0, CoreStep DEF AdminStep, EnrollNext, Environment
  <1>3. CleanupTypeOK'
    BY <1>0, <1>2 DEF CleanupTypeOK, CoreInv, EnrollTypeOK
  <1>4. UninstallInv'
    BY <1>0, <1>1, OthersStepInv
  <1>5. HandoverInv'
    <2>1. MetadataExact'
      <3> SUFFICES ASSUME NEW a \in Attempts, Handed(a)
                   PROVE  LET info == result[a].cleanup
                          IN /\ Vetted(a)
                             /\ info.leafSHA256 = issued[a].leaf /\ info.identity = issued[a].leaf
                             /\ info.provider = ExpectedCNGProvider
                             /\ info.containerName = container[a] /\ container[a] \in Containers
                             /\ \/ /\ result[a].status = "success"
                                   /\ Installed(issued[a].leaf)' =>
                                         store'[issued[a].leaf] = Recorded(info)
                                \/ /\ result[a].status = "enrollment-incomplete"
                                   /\ info.providerType = 0 /\ info.keySpec = 0
        BY <1>0 DEF MetadataExact, Recorded, Handed, Vetted, Installed
      <3>1. issued[a].leaf \in Leaves
        BY <1>0, VettedKey DEF HandoverInv, MetadataExact
      <3> QED BY <1>0, <1>1, <3>1 DEF HandoverInv, MetadataExact, Installed
    <2> QED BY <1>0, <2>1 DEF HandoverInv, ContainersApart, MetadataHasOrigin, ActsFor, Handed
  <1> QED BY <1>2, <1>3, <1>4, <1>5 DEF BaseInv

-----------------------------------------------------------------------------
(* What Uninstall answers *)

\* An enrollment step gives no caller new metadata.
LEMMA EnrollKeepsOrigin ==
    ASSUME BaseInv, NEW e \in Attempts, EnrollStep(e),
           NEW u \in Callers, NEW a \in Attempts, ActsFor(u, a)'
    PROVE  ActsFor(u, a) /\ a # e /\ result'[a] = result[a] /\ meta'[u] = meta[u]
  <1>0. CoreInv /\ TypeInv /\ (Enroll(e) \/ Crash(e)) /\ meta' = meta
    BY DEF BaseInv, CoreInv, OwnershipInv, TypeInv, EnrollStep, cleanupVars
  <1>1. Handed(a)' /\ meta[u] = result'[a].cleanup /\ meta[u] # NoInfo
    BY <1>0 DEF ActsFor, Handed
  <1>2. a # e
    <2> SUFFICES ASSUME a = e PROVE FALSE
      OBVIOUS
    <2>1. PICK b \in Attempts : ActsFor(u, b)
      BY <1>1, SomeOrigin
    <2>2. Contents[meta[u].leafSHA256].publicKey = b /\ b # e
      BY <1>0, <2>1, OriginOf, ReturnedStays
    <2>3. Contents[meta[u].leafSHA256].publicKey = e
      BY <1>0, <1>1, HandsOutExact
    <2> QED BY <2>2, <2>3
  <1>3. pc'[a] = pc[a] /\ result'[a] = result[a]
    BY <1>0, <1>2, OthersUnchanged
  <1> QED BY <1>0, <1>1, <1>2, <1>3 DEF ActsFor, Handed

\* A call that is under way acts for an attempt.
LEMMA RunningOrigin ==
    ASSUME BaseInv, NEW u \in Callers, UninstallStep(u)
    PROVE  /\ uresult[u] = "none"
           /\ \E a \in Attempts : ActsFor(u, a)
  <1>1. upc[u] \in CleanupSteps
    BY DEF UninstallStep, FindLeaf, ReadAssociation, DeleteLeaf, DeleteKey, CleanupSteps
  <1> QED BY <1>1, SomeOrigin DEF BaseInv, UninstallInv, CallInProgress

\* The metadata of an attempt is refused for one reason only: the leaf is there
\* and its association is not the one the metadata records.
LEMMA RefusalOfStep ==
    ASSUME BaseInv, NEW u \in Callers, UninstallStep(u), uresult'[u] = "ErrOwnershipMismatch"
    PROVE  /\ Installed(meta[u].leafSHA256)
           /\ ~AssociationMatches(meta[u], store[meta[u].leafSHA256])
           /\ meta' = meta
  <1>1. PICK a \in Attempts : ActsFor(u, a)
    BY RunningOrigin
  <1>2. meta[u].containerName # NoContainer /\ meta[u].provider # NoProvider /\ Matches(meta[u])
    BY <1>1, OriginOf
  <1>3. \A err : Uninstalled(u, err) => err = "ErrOwnershipMismatch"
    BY DEF Uninstalled, BaseInv, CleanupTypeOK
  <1>4. \A step : ~Proceed(u, step)
    BY RunningOrigin DEF Proceed
  <1>5. ~RemoveOrphanKey(u)
    BY <1>2, <1>4 DEF RemoveOrphanKey
  <1>6. ~FindLeaf(u) /\ ~DeleteLeaf(u) /\ ~DeleteKey(u)
    BY <1>2, <1>3, <1>4, <1>5 DEF FindLeaf, DeleteLeaf, DeleteKey
  <1>7. ReadAssociation(u)
    BY <1>6 DEF UninstallStep
  <1> QED BY <1>3, <1>4, <1>5, <1>7 DEF ReadAssociation, Uninstalled

\* Only a retry whose leaf carries another association than the one assumed for
\* an incomplete enrollment is refused.
LEMMA RefusalCause ==
    ASSUME BaseInv, NEW u \in Callers, UninstallStep(u), uresult'[u] = "ErrOwnershipMismatch",
           NEW a \in Attempts, ActsFor(u, a)
    PROVE  /\ Returned(a, "enrollment-incomplete")
           /\ Installed(meta[u].leafSHA256)
           /\ store[meta[u].leafSHA256] # Recorded(meta[u])
           /\ Recorded(meta[u]) = [provider |-> ExpectedCNGProvider, containerName |-> container[a],
                                   providerType |-> 0, keySpec |-> 0]
  <1>1. /\ Installed(meta[u].leafSHA256)
        /\ store[meta[u].leafSHA256] # Recorded(meta[u])
    BY RefusalOfStep DEF AssociationMatches, Recorded
  <1> QED BY <1>1, OriginOf DEF Returned, Recorded

\* A step of caller v leaves every other caller its answer and its metadata, and
\* v itself either answers anew, for an attempt, or starts or stops a call.
LEMMA AnswerOfCall ==
    ASSUME BaseInv, NEW v \in Callers, CallStep(v), NEW u \in Callers,
           uresult'[u] \in {"nil", "ErrOwnershipMismatch"}
    PROVE  /\ meta'[u] = meta[u]
           /\ uresult'[u] = uresult[u] \/ (u = v /\ UninstallStep(u))
  <1>0. CleanupTypeOK /\ CallerStep(v)
    BY CallStepIsCallerStep DEF BaseInv
  <1>1. CASE u # v
    BY <1>0, <1>1, OtherCallers
  <1>2. CASE u = v
    <2>1. \A ci : ~CallUninstall(u, ci)
      BY <1>0 DEF CallUninstall, CleanupTypeOK
    <2>2. CASE UninstallStep(u)
      BY <1>2, <2>2, StepOutcome DEF Proceed, Uninstalled
    <2>3. CASE CallerCrashes(u)
      BY <2>3 DEF CallerCrashes
    <2> QED BY <1>2, <2>1, <2>2, <2>3 DEF CallStep
  <1> QED BY <1>1, <1>2

LEMMA RefusalKept ==
    ASSUME BaseInv, SuccessNeverRefused, [LifecycleNext]_lifecycleVars
    PROVE  SuccessNeverRefused'
  <1> SUFFICES ASSUME NEW u \in Callers, NEW a \in Attempts, ActsFor(u, a)', Returned(a, "success")',
                      uresult'[u] = "ErrOwnershipMismatch"
               PROVE  FALSE
    BY DEF SuccessNeverRefused
  <1>1. ASSUME NEW e \in Attempts, EnrollStep(e) PROVE FALSE
    <2>1. ActsFor(u, a) /\ result'[a] = result[a] /\ uresult' = uresult
      BY <1>1, EnrollKeepsOrigin DEF EnrollStep, cleanupVars
    <2> QED BY <2>1 DEF SuccessNeverRefused, Returned, ActsFor, Handed
  <1>2. ASSUME NEW v \in Callers, CallStep(v) PROVE FALSE
    <2>1. /\ meta'[u] = meta[u]
          /\ uresult'[u] = uresult[u] \/ (u = v /\ UninstallStep(u))
      BY <1>2, AnswerOfCall
    <2>2. ActsFor(u, a) /\ Returned(a, "success")
      BY <1>2, <2>1 DEF CallStep, enrollVars, ActsFor, Handed, Returned
    <2>3. CASE uresult'[u] = uresult[u]
      BY <2>2, <2>3 DEF SuccessNeverRefused
    <2>4. CASE UninstallStep(u)
      BY <2>2, <2>4, RefusalCause DEF Returned
    <2> QED BY <2>1, <2>3, <2>4
  <1>3. ASSUME UNCHANGED <<enrollVars, cleanupVars>> PROVE FALSE
    BY <1>3 DEF enrollVars, cleanupVars, SuccessNeverRefused, ActsFor, Handed, Returned
  <1>4. UNCHANGED lifecycleVars => UNCHANGED <<enrollVars, cleanupVars>>
    BY DEF lifecycleVars, enrollVars, cleanupVars
  <1> QED BY <1>1, <1>2, <1>3, <1>4 DEF LifecycleNext, EnrollStep, CallStep

LEMMA GoneKept ==
    ASSUME BaseInv, UninstalledStaysGone, [LifecycleNext]_lifecycleVars
    PROVE  UninstalledStaysGone'
  <1> SUFFICES ASSUME NEW u \in Callers, NEW a \in Attempts, ActsFor(u, a)', uresult'[u] = "nil"
               PROVE  /\ store'[meta'[u].leafSHA256] = NotInstalled
                      /\ \A c \in Containers \ Hidden : keys'[c] # a
    BY DEF UninstalledStaysGone, Installed
  <1>0. a # NoKey
    BY SentinelAssumption DEF Owners
  \* What held before the step, when the call had already returned nil.
  <1>1. ASSUME ActsFor(u, a), uresult[u] = "nil"
        PROVE  /\ store[meta[u].leafSHA256] = NotInstalled
               /\ meta[u].leafSHA256 \in Leaves
               /\ \A c \in Containers \ Hidden : keys[c] # a
    BY <1>1, OriginOf DEF UninstalledStaysGone, Installed
  <1>2. ASSUME NEW e \in Attempts, EnrollStep(e)
        PROVE  /\ store'[meta'[u].leafSHA256] = NotInstalled
               /\ \A c \in Containers \ Hidden : keys'[c] # a
    <2>1. /\ ActsFor(u, a) /\ meta'[u] = meta[u] /\ uresult' = uresult /\ pc[a] = "done"
          /\ Contents[meta[u].leafSHA256].publicKey = a
      BY <1>2, EnrollKeepsOrigin, OriginOf DEF EnrollStep, cleanupVars
    <2>2. /\ \A l \in Leaves : Contents[l].publicKey = a => store'[l] = store[l]
          /\ \A c \in Containers : keys'[c] = a => keys[c] = a
      BY <1>2, <2>1, ReturnedStays DEF BaseInv
    <2> QED BY <1>1, <2>1, <2>2
  <1>3. ASSUME NEW v \in Callers, CallStep(v)
        PROVE  /\ store'[meta'[u].leafSHA256] = NotInstalled
               /\ \A c \in Containers \ Hidden : keys'[c] # a
    <2>0. CleanupTypeOK /\ MachineTypeOK /\ UninstallInv /\ KeyOrigin /\ CallerStep(v)
      BY <1>3, CallStepIsCallerStep DEF BaseInv, CleanupTypeOK, CoreInv, OwnershipInv
    <2>1. /\ meta'[u] = meta[u]
          /\ uresult'[u] = uresult[u] \/ (u = v /\ UninstallStep(u))
      BY <1>3, AnswerOfCall
    <2>2. ActsFor(u, a)
      BY <1>3, <2>1 DEF CallStep, enrollVars, ActsFor, Handed
    <2>3. /\ \A l \in Leaves : store'[l] \in {store[l], NotInstalled}
          /\ \A c \in Containers : keys'[c] = a => keys[c] = a
      BY <1>0, <2>0, LeavesOnlyGo, MachineOfCaller DEF MachineTypeOK
    <2>4. CASE uresult'[u] = uresult[u]
      BY <1>1, <2>1, <2>2, <2>3, <2>4
    <2>5. CASE UninstallStep(u)
      <3>1. /\ store' = store /\ store[meta[u].leafSHA256] = NotInstalled
            /\ keys'[container[a]] = NoKey \/ container[a] \in Hidden
        BY <2>0, <2>2, <2>5, NilStep, OriginOf DEF Installed
      <3>2. \A c \in Containers : keys'[c] = a => container[a] = c
        BY <2>0, <2>3 DEF KeyOrigin
      <3> QED BY <1>0, <2>1, <3>1, <3>2
    <2> QED BY <2>1, <2>4, <2>5
  <1>4. ASSUME UNCHANGED <<keys, enrollVars, cleanupVars>>,
               \A l \in Leaves : store'[l] \in {store[l], NotInstalled}
        PROVE  /\ store'[meta'[u].leafSHA256] = NotInstalled
               /\ \A c \in Containers \ Hidden : keys'[c] # a
    BY <1>1, <1>4 DEF enrollVars, cleanupVars, ActsFor, Handed
  <1>5. ASSUME AdminStep
        PROVE  /\ UNCHANGED <<keys, enrollVars, cleanupVars>>
               /\ \A l \in Leaves : store'[l] \in {store[l], NotInstalled}
    BY <1>5 DEF AdminStep, AdminRemovesLeaf, BaseInv, CleanupTypeOK, MachineTypeOK
  <1>6. UNCHANGED lifecycleVars => UNCHANGED <<keys, store, enrollVars, cleanupVars>>
    BY DEF lifecycleVars, enrollVars, cleanupVars
  <1> QED BY <1>2, <1>3, <1>4, <1>5, <1>6 DEF LifecycleNext, EnrollStep, CallStep, AdminStep

-----------------------------------------------------------------------------
(* The theorems *)

LEMMA LifecycleStep == LifecycleIInv /\ [LifecycleNext]_lifecycleVars => LifecycleIInv'
  <1> SUFFICES ASSUME LifecycleIInv, [LifecycleNext]_lifecycleVars PROVE LifecycleIInv'
    OBVIOUS
  <1>0. BaseInv
    BY DEF LifecycleIInv
  <1>1. CASE UNCHANGED lifecycleVars
    <2>1. CoreInv' /\ CleanupTypeOK' /\ UninstallInv'
      BY <1>0, <1>1, CoreStep, OthersStepInv
      DEF lifecycleVars, BaseInv, vars, cleanupVars, CleanupTypeOK, MachineTypeOK
    <2>2. HandoverInv'
      BY <1>0, <1>1 DEF lifecycleVars, BaseInv, HandoverInv, ContainersApart, MetadataHasOrigin,
                        MetadataExact, ActsFor, Handed, Vetted, Installed, Recorded
    <2> QED BY <1>0, <1>1, <2>1, <2>2, RefusalKept, GoneKept DEF LifecycleIInv, BaseInv
  <1>2. CASE LifecycleNext
    <2>1. BaseInv'
      BY <1>0, <1>2, EnrollKeepsBase, CallKeepsBase, AdminKeepsBase
      DEF LifecycleNext, EnrollStep, CallStep, AdminStep
    <2> QED BY <1>0, <2>1, RefusalKept, GoneKept DEF LifecycleIInv
  <1> QED BY <1>1, <1>2

LEMMA LifecycleInductive == LifecycleSpec => []LifecycleIInv
  BY LifecycleInitInv, LifecycleStep, PTL DEF LifecycleSpec

\* Type correctness of enrollments and uninstalls that share a machine.
THEOREM LifecycleTyped == LifecycleSpec => []LifecycleTypeOK
  <1>1. LifecycleIInv => LifecycleTypeOK
    BY DEF LifecycleIInv, BaseInv, CoreInv, LifecycleTypeOK
  <1> QED BY <1>1, LifecycleInductive, PTL

\* The metadata a caller carries from Enroll to Uninstall stays exact, whatever
\* other attempts and other callers do.
THEOREM HandoverHolds == LifecycleSpec => []HandoverInv
  <1>1. LifecycleIInv => HandoverInv
    BY DEF LifecycleIInv, BaseInv
  <1> QED BY <1>1, LifecycleInductive, PTL

\* What a successful Enroll hands out is never refused by Uninstall.
THEOREM SuccessRemovable == LifecycleSpec => []SuccessNeverRefused
  <1>1. LifecycleIInv => SuccessNeverRefused
    BY DEF LifecycleIInv
  <1> QED BY <1>1, LifecycleInductive, PTL

\* What Uninstall reported as removed does not come back.
THEOREM GoneForGood == LifecycleSpec => []UninstalledStaysGone
  <1>1. LifecycleIInv => UninstalledStaysGone
    BY DEF LifecycleIInv
  <1> QED BY <1>1, LifecycleInductive, PTL

\* Uninstall refuses only the retry metadata of an incomplete enrollment, while
\* its leaf is there with another association than the one assumed.
THEOREM RefusalExplained == LifecycleSpec => RefusalHasCause
  <1> DEFINE Cause(u, a) ==
                 /\ ActsFor(u, a)
                 /\ Returned(a, "enrollment-incomplete")
                 /\ Installed(meta[u].leafSHA256)
                 /\ store[meta[u].leafSHA256] #
                       [provider |-> ExpectedCNGProvider, containerName |-> container[a],
                        providerType |-> 0, keySpec |-> 0]
             Explained == \A u \in Callers :
                              uresult[u] = "none" /\ uresult'[u] = "ErrOwnershipMismatch" =>
                                  \E a \in Attempts : Cause(u, a)
  <1>1. LifecycleIInv /\ [LifecycleNext]_lifecycleVars => [Explained]_lifecycleVars
    <2> SUFFICES ASSUME BaseInv, LifecycleNext, NEW u \in Callers,
                        uresult[u] = "none", uresult'[u] = "ErrOwnershipMismatch"
                 PROVE  \E a \in Attempts : Cause(u, a)
      BY DEF LifecycleIInv
    <2>1. PICK v \in Callers : CallStep(v)
      BY DEF LifecycleNext, CallStep, cleanupVars
    <2>2. UninstallStep(u)
      BY <2>1, AnswerOfCall
    <2>3. PICK a \in Attempts : ActsFor(u, a)
      BY <2>2, RunningOrigin
    <2> QED BY <2>2, <2>3, RefusalCause
  <1> QED BY <1>1, LifecycleInductive, PTL DEF LifecycleSpec, RefusalHasCause

\* Concurrent enrollments, a renewal and the uninstall of an older certificate do
\* not reach each other's key or certificate.
THEOREM OwnPairs == LifecycleSpec => OwnPairOnly
  <1> DEFINE Own == /\ \A c \in Containers : keys'[c] # keys[c] /\ keys[c] # NoKey =>
                          \E a \in Attempts :
                              /\ keys[c] = a
                              /\ \/ pc[a] = "cleanup" /\ pc'[a] = "done"
                                 \/ \E u \in Callers : upc[u] = "deleteKey" /\ ActsFor(u, a)
                    /\ \A u \in Callers : deleted'[u] # deleted[u] /\ upc[u] = "deleteLeaf" =>
                          \E a \in Attempts : /\ ActsFor(u, a)
                                              /\ Contents[meta[u].leafSHA256].publicKey = a
  <1>1. LifecycleIInv /\ [LifecycleNext]_lifecycleVars => [Own]_lifecycleVars
    <2> SUFFICES ASSUME BaseInv, LifecycleNext PROVE Own
      BY DEF LifecycleIInv
    <2>0. CoreInv /\ TypeInv /\ KeyHeld /\ MachineTypeOK /\ CleanupTypeOK
      BY DEF BaseInv, CoreInv, OwnershipInv, TypeInv, EnrollTypeOK
    <2>1. ASSUME NEW c \in Containers, keys'[c] # keys[c], keys[c] # NoKey
          PROVE  \E a \in Attempts :
                     /\ keys[c] = a
                     /\ \/ pc[a] = "cleanup" /\ pc'[a] = "done"
                        \/ \E u \in Callers : upc[u] = "deleteKey" /\ ActsFor(u, a)
      <3>1. ASSUME NEW a \in Attempts, EnrollStep(a)
            PROVE  keys[c] = a /\ pc[a] = "cleanup" /\ pc'[a] = "done"
        <4>1. pc[a] = "cleanup" /\ pc'[a] = "done" /\ container[a] = c
          BY <2>0, <2>1, <3>1, KeysOfStep DEF EnrollStep, MachineTypeOK
        <4> QED BY <2>0, <4>1 DEF KeyHeld, Holding
      <3>2. ASSUME NEW u \in Callers, CallStep(u)
            PROVE  \E a \in Attempts : keys[c] = a /\ upc[u] = "deleteKey" /\ ActsFor(u, a)
        BY <2>0, <2>1, <3>2, KeyOfCall DEF MachineTypeOK
      <3>3. ~AdminStep
        BY <2>1 DEF AdminStep, AdminRemovesLeaf
      <3> QED BY <3>1, <3>2, <3>3 DEF LifecycleNext, EnrollStep, CallStep, AdminStep
    <2>2. ASSUME NEW u \in Callers, deleted'[u] # deleted[u], upc[u] = "deleteLeaf"
          PROVE  \E a \in Attempts : /\ ActsFor(u, a)
                                     /\ Contents[meta[u].leafSHA256].publicKey = a
      <3>1. meta[u] # NoInfo
        BY <2>2 DEF BaseInv, UninstallInv, CallInProgress, CleanupSteps
      <3> QED BY <3>1, SomeOrigin, OriginOf
    <2> QED BY <2>1, <2>2
  <1> QED BY <1>1, LifecycleInductive, PTL DEF LifecycleSpec, OwnPairOnly

\* Enrollments and uninstalls together still do to the keys and certificates of
\* the attempts only what Artifacts allows: a certificate goes before its key,
\* and a key only after the report that handed out its metadata.
THEOREM LifecycleContract == LifecycleSpec => ImplementsArtifacts
  <1>1. LifecycleIInv /\ [LifecycleNext]_lifecycleVars
            => [Contract!ArtifactsNext]_(Contract!artifactVars)
    <2> SUFFICES ASSUME BaseInv, [LifecycleNext]_lifecycleVars
                 PROVE  Contract!ArtifactsNext \/ UNCHANGED Contract!artifactVars
      BY DEF LifecycleIInv
    <2>0. CoreInv /\ MachineTypeOK
      BY DEF BaseInv, CoreInv, EnrollTypeOK
    <2>1. ASSUME NEW a \in Attempts, EnrollStep(a)
          PROVE  Contract!ArtifactsNext \/ UNCHANGED Contract!artifactVars
      BY <2>0, <2>1, AttemptMaps DEF EnrollStep
    <2>2. ASSUME NEW u \in Callers, CallStep(u)
          PROVE  Contract!ArtifactsNext \/ UNCHANGED Contract!artifactVars
      <3>0. UNCHANGED <<pc, result>> /\ CallerStep(u)
        BY <2>2, CallStepIsCallerStep DEF CallStep, enrollVars
      <3>1. CASE keys' # keys
        <4>1. PICK a \in Attempts :
                /\ ActsFor(u, a) /\ container[a] \in Containers /\ keys[container[a]] = a
                /\ keys' = [keys EXCEPT ![container[a]] = NoKey]
                /\ ~Installed(issued[a].leaf)
                /\ store' = store
          BY <2>2, <3>1, KeyOfCall
        <4>2. \A c \in Containers : keys[c] = a => c = container[a]
          BY <2>0 DEF CoreInv, OwnershipInv, KeyOrigin
        <4>3. HasKey' = [HasKey EXCEPT ![a] = FALSE]
          BY <2>0, <4>1, <4>2, KeyRemoved
        <4>4. ~HasLeaf[a]
          <5>1. ASSUME NEW l \in Leaves, Installed(l), Contents[l].publicKey = a PROVE FALSE
            <6>1. PICK b \in Attempts : Vetted(b) /\ issued[b].leaf = l
              BY <2>0, <5>1 DEF CoreInv, OwnershipInv, LeafOrigin
            <6>2. b = a
              BY <5>1, <6>1, VettedKey
            <6> QED BY <4>1, <5>1, <6>1, <6>2
          <5> QED BY <5>1 DEF HasLeaf
        <4>5. /\ Reported[a].status \in {"success", "enrollment-incomplete"}
              /\ Reported[a] # NotReported
          BY <4>1, OriginOf DEF Reported, NotReported
        <4>6. HasLeaf' = HasLeaf /\ Reported' = Reported
          BY <3>0, <4>1 DEF HasLeaf, Reported, Installed
        <4> QED BY <4>3, <4>4, <4>5, <4>6 DEF Contract!ArtifactsNext, Contract!RemoveKey
      <3>2. CASE keys' = keys /\ store' # store
        <4>1. /\ upc[u] = "deleteLeaf"
              /\ store' = [store EXCEPT ![meta[u].leafSHA256] = NotInstalled]
          BY <3>0, <3>2, MachineOfCaller
        <4>2. meta[u].leafSHA256 \in Leaves
          BY <4>1 DEF BaseInv, UninstallInv, CallInProgress, CleanupSteps
        <4> QED BY <2>0, <3>0, <3>2, <4>1, <4>2, WithdrawalMaps
      <3>3. CASE keys' = keys /\ store' = store
        BY <3>0, <3>3 DEF HasKey, HasLeaf, Reported, Installed, Contract!artifactVars
      <3> QED BY <3>1, <3>2, <3>3
    <2>3. ASSUME AdminStep
          PROVE  Contract!ArtifactsNext \/ UNCHANGED Contract!artifactVars
      BY <2>0, <2>3, WithdrawalMaps DEF AdminStep, AdminRemovesLeaf, enrollVars
    <2>4. ASSUME UNCHANGED lifecycleVars PROVE UNCHANGED Contract!artifactVars
      BY <2>4 DEF lifecycleVars, HasKey, HasLeaf, Reported, Installed, Contract!artifactVars
    <2> QED BY <2>1, <2>2, <2>3, <2>4 DEF LifecycleNext, EnrollStep, CallStep, AdminStep
  <1>2. LifecycleInit => Contract!ArtifactsInit
    BY InitArtifacts DEF LifecycleInit, Init, MachineInit
  <1> QED BY <1>1, <1>2, LifecycleInductive, PTL
          DEF LifecycleSpec, ImplementsArtifacts, Contract!ArtifactsSpec

\* The Result can be relied on whoever uninstalls what: the certificate of a success
\* has its key for as long as it is installed, and an uninstall never leaves a
\* certificate without its key (Uninstall, finishOwnedFailure).
THEOREM LifecycleReliable == LifecycleSpec => []ReportIsReliable
  BY LifecycleContract, ContractIsReliable, PTL

\* What is in the store met the localhost policy, over uninstalls and renewals too.
THEOREM LifecycleVetted == LifecycleSpec => []InstalledVetted
  <1>1. LifecycleIInv => LeafOrigin
    BY DEF LifecycleIInv, BaseInv, CoreInv, OwnershipInv
  <1> QED BY <1>1, OriginIsVetted, LifecycleInductive, PTL
=============================================================================
