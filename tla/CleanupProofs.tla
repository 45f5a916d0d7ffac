--------------------------- MODULE CleanupProofs ---------------------------
(***************************************************************************)
(* Theorems of Cleanup for every set of callers, containers, leaves and    *)
(* persisted metadata, on a machine in any initial state.                  *)
(***************************************************************************)
EXTENDS Cleanup, TLAPS

\* A step of one caller, whatever metadata a new call is given.
CallerStep(u) ==
    \/ \E ci \in CleanupInfo : CallUninstall(u, ci)
    \/ UninstallStep(u)
    \/ CallerCrashes(u)

-----------------------------------------------------------------------------
(* Type correctness *)

\* Entering another step, and returning, keep the records of the caller typed.
LEMMA ProceedTyped ==
    ASSUME CleanupTypeOK, NEW u \in Callers, NEW step \in CleanupSteps, Proceed(u, step)
    PROVE  /\ upc' \in [Callers -> CleanupSteps \cup {"idle", "returned", "crashed"}]
           /\ uresult' \in [Callers -> Errors \cup {"none"}]
           /\ meta' = meta
  BY DEF CleanupTypeOK, Proceed

LEMMA UninstalledTyped ==
    ASSUME CleanupTypeOK, NEW u \in Callers, NEW err \in Errors, Uninstalled(u, err)
    PROVE  /\ upc' \in [Callers -> CleanupSteps \cup {"idle", "returned", "crashed"}]
           /\ uresult' \in [Callers -> Errors \cup {"none"}]
           /\ meta' = meta
  BY DEF CleanupTypeOK, Uninstalled

\* A caller goes on to the deletion of the key or is refused when its
\* certificate is absent, and in no other way.
LEMMA OrphanOutcome ==
    ASSUME NEW u \in Callers, RemoveOrphanKey(u)
    PROVE  \/ /\ Proceed(u, "deleteKey")
              /\ meta[u].containerName # NoContainer
              /\ meta[u].provider # NoProvider
           \/ Uninstalled(u, "ErrOwnershipMismatch")
  BY DEF RemoveOrphanKey

\* Every step of a caller either enters a step of runCleanup or returns.
LEMMA StepOutcome ==
    ASSUME NEW u \in Callers, UninstallStep(u)
    PROVE  \/ \E step \in CleanupSteps : Proceed(u, step)
           \/ \E err \in Errors : Uninstalled(u, err)
  <1> USE DEF CleanupSteps, Errors
  <1>1. CASE FindLeaf(u)
    BY <1>1, OrphanOutcome DEF FindLeaf
  <1>2. CASE ReadAssociation(u)
    BY <1>2, OrphanOutcome DEF ReadAssociation
  <1>3. CASE DeleteLeaf(u)
    BY <1>3, OrphanOutcome DEF DeleteLeaf
  <1>4. CASE DeleteKey(u)
    BY <1>4 DEF DeleteKey
  <1> QED BY <1>1, <1>2, <1>3, <1>4 DEF UninstallStep

\* A step of a caller takes away the leaf or the key of its metadata, notes what
\* it took, and changes nothing else on the machine.
LEMMA MachineOfCaller ==
    ASSUME NEW u \in Callers, CallerStep(u)
    PROVE  /\ \/ keys' = keys
              \/ /\ upc[u] = "deleteKey"
                 /\ meta[u].provider = ExpectedCNGProvider
                 /\ meta[u].containerName \in Containers
                 /\ keys' = [keys EXCEPT ![meta[u].containerName] = NoKey]
           /\ \/ store' = store
              \/ /\ upc[u] = "deleteLeaf"
                 /\ store' = [store EXCEPT ![meta[u].leafSHA256] = NotInstalled]
           /\ \/ deleted' = deleted
              \/ /\ upc[u] = "deleteLeaf"
                 /\ Installed(meta[u].leafSHA256)
                 /\ store' = [store EXCEPT ![meta[u].leafSHA256] = NotInstalled]
                 /\ deleted' = [deleted EXCEPT ![u] = @ \cup {"leaf"}]
              \/ /\ upc[u] = "deleteLeaf"
                 /\ deleted' = [deleted EXCEPT ![u] = @ \cup {}]
              \/ /\ upc[u] = "deleteKey"
                 /\ NamesKey(meta[u])
                 /\ deleted' = [deleted EXCEPT ![u] = @ \cup {"key"}]
  <1>1. CASE \E ci \in CleanupInfo : CallUninstall(u, ci)
    BY <1>1 DEF CallUninstall
  <1>2. CASE FindLeaf(u) \/ ReadAssociation(u)
    BY <1>2 DEF FindLeaf, ReadAssociation
  <1>3. CASE DeleteLeaf(u)
    BY <1>3 DEF DeleteLeaf, DeleteLeafBySHA256
  <1>4. CASE DeleteKey(u)
    BY <1>4, ProviderAssumption DEF DeleteKey, DeleteCNGKey, NamesKey
  <1>5. CASE CallerCrashes(u)
    BY <1>5 DEF CallerCrashes
  <1> QED BY <1>1, <1>2, <1>3, <1>4, <1>5 DEF CallerStep, UninstallStep

LEMMA CallerStepTyped ==
    ASSUME CleanupTypeOK, NEW u \in Callers, CallerStep(u)
    PROVE  CleanupTypeOK'
  <1>1. MachineTypeOK' /\ deleted' \in [Callers -> SUBSET {"leaf", "key"}]
    BY MachineOfCaller DEF CleanupTypeOK, MachineTypeOK
  <1>2. /\ upc' \in [Callers -> CleanupSteps \cup {"idle", "returned", "crashed"}]
        /\ uresult' \in [Callers -> Errors \cup {"none"}]
        /\ meta' \in [Callers -> CleanupInfo \cup {NoInfo}]
    <2>1. CASE \E ci \in CleanupInfo : CallUninstall(u, ci)
      BY <2>1 DEF CallUninstall, CleanupTypeOK, CleanupSteps, Errors
    <2>2. CASE UninstallStep(u)
      BY <2>2, StepOutcome, ProceedTyped, UninstalledTyped DEF CleanupTypeOK
    <2>3. CASE CallerCrashes(u)
      BY <2>3 DEF CallerCrashes, CleanupTypeOK
    <2> QED BY <2>1, <2>2, <2>3 DEF CallerStep
  <1> QED BY <1>1, <1>2 DEF CleanupTypeOK

\* A step of one caller leaves the records of every other caller alone.
LEMMA OtherCallers ==
    ASSUME CleanupTypeOK, NEW u \in Callers, CallerStep(u), NEW v \in Callers, v # u
    PROVE  /\ upc'[v] = upc[v]
           /\ meta'[v] = meta[v]
           /\ uresult'[v] = uresult[v]
           /\ deleted'[v] = deleted[v]
  <1>1. deleted'[v] = deleted[v]
    BY MachineOfCaller DEF CleanupTypeOK
  <1>2. CASE \E ci \in CleanupInfo : CallUninstall(u, ci)
    BY <1>1, <1>2 DEF CallUninstall, CleanupTypeOK
  <1>3. CASE UninstallStep(u)
    BY <1>1, <1>3, StepOutcome DEF Proceed, Uninstalled, CleanupTypeOK
  <1>4. CASE CallerCrashes(u)
    BY <1>1, <1>4 DEF CallerCrashes, CleanupTypeOK
  <1> QED BY <1>2, <1>3, <1>4 DEF CallerStep

-----------------------------------------------------------------------------
(* The inductive invariant *)

\* No step of a caller installs a leaf or rebinds one.
LEMMA LeavesOnlyGo ==
    ASSUME CleanupTypeOK, NEW u \in Callers, CallerStep(u), NEW l \in Leaves
    PROVE  store'[l] \in {store[l], NotInstalled}
  BY MachineOfCaller DEF CleanupTypeOK, MachineTypeOK

\* The metadata of a caller that goes on to the key names that key.
LEMMA OrphanNames ==
    ASSUME NEW ci \in CleanupInfo, ci.containerName # NoContainer, ci.provider # NoProvider
    PROVE  NamesKey(ci)
  BY DEF CleanupInfo, NamesKey

\* What the step of a caller establishes for the caller itself.
LEMMA OwnStep ==
    ASSUME CleanupTypeOK, UninstallInv, NEW u \in Callers, CallerStep(u)
    PROVE  /\ upc'[u] \in CleanupSteps =>
                 /\ meta'[u] # NoInfo
                 /\ meta'[u].leafSHA256 \in Leaves
                 /\ uresult'[u] = "none"
           /\ upc'[u] \in {"association", "deleteLeaf"} => Matches(meta'[u])
           /\ upc'[u] = "deleteLeaf" /\ store'[meta'[u].leafSHA256] # NotInstalled =>
                 AssociationMatches(meta'[u], store'[meta'[u].leafSHA256])
           /\ upc'[u] = "deleteKey" \/ deleted'[u] # {} =>
                 /\ meta'[u] # NoInfo
                 /\ meta'[u].leafSHA256 \in Leaves
                 /\ store'[meta'[u].leafSHA256] = NotInstalled
                 /\ "key" \in deleted'[u] => NamesKey(meta'[u])
  <1> DEFINE ci == meta[u]
             l == meta[u].leafSHA256
  <1>1. ASSUME NEW new \in CleanupInfo, CallUninstall(u, new)
        PROVE  /\ upc'[u] \in {"find", "returned"}
               /\ deleted' = deleted /\ store' = store
               /\ meta'[u] = new /\ meta[u] \in {NoInfo, new}
               /\ upc'[u] = "find" => new.leafSHA256 \in Leaves /\ uresult'[u] = "none"
    BY <1>1 DEF CallUninstall, CleanupTypeOK, CleanupInfo
  <1>2. CASE \E new \in CleanupInfo : CallUninstall(u, new)
    <2>1. PICK new \in CleanupInfo : CallUninstall(u, new)
      BY <1>2
    <2>2. new # NoInfo
      BY SentinelAssumption
    <2> QED BY <1>1, <2>1, <2>2 DEF UninstallInv, LeafGone, Installed, CleanupSteps
  <1>3. ASSUME UninstallStep(u)
        PROVE  upc[u] \in CleanupSteps /\ ci \in CleanupInfo /\ l \in Leaves /\ meta' = meta
    <2>1. upc[u] \in CleanupSteps
      BY <1>3 DEF UninstallStep, FindLeaf, ReadAssociation, DeleteLeaf, DeleteKey, CleanupSteps
    <2>2. ci \in CleanupInfo /\ l \in Leaves
      BY <2>1 DEF UninstallInv, CallInProgress, CleanupTypeOK
    <2>3. meta' = meta
      BY <1>3, StepOutcome DEF Proceed, Uninstalled
    <2> QED BY <2>1, <2>2, <2>3
  \* The answer of a call leaves only what was deleted to account for.
  <1>4. ASSUME UninstallStep(u), NEW step \in CleanupSteps, Proceed(u, step)
        PROVE  upc'[u] = step /\ uresult'[u] = "none" /\ ci # NoInfo
    BY <1>3, <1>4 DEF Proceed, CleanupTypeOK, UninstallInv, CallInProgress
  <1>5. ASSUME NEW err, Uninstalled(u, err)
        PROVE  upc'[u] = "returned"
    BY <1>5 DEF Uninstalled, CleanupTypeOK
  <1>6. ASSUME UninstallStep(u), RemoveOrphanKey(u)
        PROVE  \/ Proceed(u, "deleteKey")
               \/ Uninstalled(u, "ErrOwnershipMismatch")
    BY <1>6, OrphanOutcome
  <1>7. CASE FindLeaf(u)
    <2>1. UninstallStep(u) /\ deleted' = deleted /\ store' = store
      BY <1>7 DEF FindLeaf, UninstallStep
    <2>2. \/ upc'[u] = "returned"
          \/ upc'[u] = "deleteKey" /\ ~Installed(l)
          \/ upc'[u] = "association" /\ Matches(ci)
      BY <1>4, <1>5, <1>6, <1>7, <2>1 DEF FindLeaf, CleanupSteps
    <2>3. upc'[u] \in CleanupSteps => uresult'[u] = "none" /\ ci # NoInfo
      BY <1>3, <1>4, <1>5, <2>1, StepOutcome DEF CleanupSteps
    <2> QED BY <1>3, <2>1, <2>2, <2>3 DEF UninstallInv, LeafGone, Installed, CleanupSteps
  <1>8. CASE ReadAssociation(u)
    <2>1. UninstallStep(u) /\ deleted' = deleted /\ store' = store
      BY <1>8 DEF ReadAssociation, UninstallStep
    <2>2. \/ upc'[u] = "returned"
          \/ upc'[u] = "deleteKey" /\ ~Installed(l)
          \/ upc'[u] = "deleteLeaf" /\ Installed(l) /\ AssociationMatches(ci, store[l])
      BY <1>4, <1>5, <1>6, <1>8, <2>1 DEF ReadAssociation, CleanupSteps
    <2>3. Matches(ci)
      BY <1>8 DEF ReadAssociation, UninstallInv, GuardsHold
    <2>4. upc'[u] \in CleanupSteps => uresult'[u] = "none" /\ ci # NoInfo
      BY <1>3, <1>4, <1>5, <2>1, StepOutcome DEF CleanupSteps
    <2> QED BY <1>3, <2>1, <2>2, <2>3, <2>4 DEF UninstallInv, LeafGone, Installed, CleanupSteps
  <1>9. CASE DeleteLeaf(u)
    <2>1. /\ UninstallStep(u) /\ upc[u] = "deleteLeaf"
          /\ "key" \in deleted'[u] => "key" \in deleted[u]
      BY <1>9, MachineOfCaller DEF DeleteLeaf, UninstallStep, CleanupTypeOK
    <2>2. PICK outcome \in DeleteOutcomes :
            /\ DeleteLeafBySHA256(l, outcome)
            /\ \/ /\ outcome = "deleted"
                  /\ Proceed(u, "deleteKey")
               \/ /\ outcome = "notFound"
                  /\ UNCHANGED deleted
                  /\ RemoveOrphanKey(u)
               \/ /\ outcome = "error"
                  /\ UNCHANGED deleted
                  /\ Uninstalled(u, "ErrCleanupFailed")
      BY <1>9 DEF DeleteLeaf
    <2>3. CASE outcome = "deleted"
      <3>1. store'[l] = NotInstalled
        BY <1>3, <2>1, <2>2, <2>3 DEF DeleteLeafBySHA256, CleanupTypeOK, MachineTypeOK
      <3>2. upc'[u] = "deleteKey" /\ uresult'[u] = "none" /\ ci # NoInfo
        BY <1>4, <2>1, <2>2, <2>3 DEF CleanupSteps
      <3>3. "key" \in deleted'[u] => NamesKey(ci)
        BY <2>1 DEF UninstallInv, LeafGone
      <3> QED BY <1>3, <2>1, <3>1, <3>2, <3>3
    <2>4. CASE outcome = "notFound"
      <3>1. ~Installed(l) /\ store' = store /\ deleted' = deleted
        BY <2>2, <2>4 DEF DeleteLeafBySHA256
      <3>2. \/ upc'[u] = "deleteKey" /\ uresult'[u] = "none" /\ ci # NoInfo
            \/ upc'[u] = "returned"
        BY <1>4, <1>5, <1>6, <2>1, <2>2, <2>4 DEF CleanupSteps
      <3> QED BY <1>3, <2>1, <3>1, <3>2 DEF UninstallInv, LeafGone, Installed, CleanupSteps
    <2>5. CASE outcome = "error"
      <3>1. store' = store /\ deleted' = deleted /\ upc'[u] = "returned"
        BY <1>5, <2>2, <2>5 DEF DeleteLeafBySHA256
      <3> QED BY <1>3, <2>1, <3>1 DEF UninstallInv, LeafGone, Installed, CleanupSteps
    <2> QED BY <2>2, <2>3, <2>4, <2>5
  <1>10. CASE DeleteKey(u)
    <2>1. UninstallStep(u) /\ upc[u] = "deleteKey" /\ store' = store
      BY <1>10 DEF DeleteKey, UninstallStep
    <2>2. upc'[u] = "returned"
      BY <1>5, <1>10 DEF DeleteKey
    <2>3. "key" \in deleted'[u] => NamesKey(ci)
      BY <2>1, MachineOfCaller DEF UninstallInv, LeafGone, CleanupTypeOK
    <2> QED BY <1>3, <2>1, <2>2, <2>3 DEF UninstallInv, LeafGone, Installed, CleanupSteps
  <1>11. CASE CallerCrashes(u)
    BY <1>11 DEF CallerCrashes, CleanupTypeOK, CleanupSteps, UninstallInv, LeafGone, Installed
  <1> QED BY <1>2, <1>7, <1>8, <1>9, <1>10, <1>11 DEF CallerStep, UninstallStep

\* A step of any caller keeps what every caller has established.
LEMMA CallerStepInv ==
    ASSUME CleanupTypeOK, UninstallInv, NEW u \in Callers, CallerStep(u)
    PROVE  UninstallInv'
  <1> SUFFICES ASSUME NEW v \in Callers
               PROVE  /\ upc'[v] \in CleanupSteps =>
                            /\ meta'[v] # NoInfo
                            /\ meta'[v].leafSHA256 \in Leaves
                            /\ uresult'[v] = "none"
                      /\ upc'[v] \in {"association", "deleteLeaf"} => Matches(meta'[v])
                      /\ upc'[v] = "deleteLeaf" /\ store'[meta'[v].leafSHA256] # NotInstalled =>
                            AssociationMatches(meta'[v], store'[meta'[v].leafSHA256])
                      /\ upc'[v] = "deleteKey" \/ deleted'[v] # {} =>
                            /\ meta'[v] # NoInfo
                            /\ meta'[v].leafSHA256 \in Leaves
                            /\ store'[meta'[v].leafSHA256] = NotInstalled
                            /\ "key" \in deleted'[v] => NamesKey(meta'[v])
    BY DEF UninstallInv, CallInProgress, GuardsHold, LeafGone, Installed
  <1>1. CASE v = u
    BY <1>1, OwnStep
  <1>2. CASE v # u
    <2>1. \A l \in Leaves : store'[l] \in {store[l], NotInstalled}
      BY LeavesOnlyGo
    <2> QED BY <1>2, <2>1, OtherCallers
            DEF UninstallInv, CallInProgress, GuardsHold, LeafGone, Installed, CleanupSteps
  <1> QED BY <1>1, <1>2

\* So does a step of anybody else that does not reinstall or rebind the leaf of
\* a caller.
LEMMA OthersStepInv ==
    ASSUME UninstallInv, UNCHANGED cleanupVars,
           \A u \in Callers : meta[u] # NoInfo /\ meta[u].leafSHA256 \in Leaves =>
               store'[meta[u].leafSHA256] \in {store[meta[u].leafSHA256], NotInstalled}
    PROVE  UninstallInv'
  BY DEF cleanupVars, UninstallInv, CallInProgress, GuardsHold, LeafGone, Installed, CleanupSteps

\* Once a caller has deleted the leaf it can only be refused because its metadata
\* lacks a name, and then it has not deleted a key.
LEMMA RefusalStep ==
    ASSUME CleanupTypeOK, UninstallInv, RefusalMeansUntouched, NEW u \in Callers, CallerStep(u)
    PROVE  RefusalMeansUntouched'
  <1> SUFFICES ASSUME NEW v \in Callers, uresult'[v] = "ErrOwnershipMismatch"
               PROVE  \/ deleted'[v] = {}
                      \/ deleted'[v] = {"leaf"} /\ ~NamesKey(meta'[v])
    BY DEF RefusalMeansUntouched
  <1>1. CASE v # u
    BY <1>1, OtherCallers DEF RefusalMeansUntouched
  <1>2. CASE v = u /\ \E ci \in CleanupInfo : CallUninstall(u, ci)
    BY <1>2 DEF CallUninstall, CleanupTypeOK
  <1>3. CASE v = u /\ CallerCrashes(u)
    BY <1>3 DEF CallerCrashes, RefusalMeansUntouched
  <1>4. CASE v = u /\ UninstallStep(u)
    <2>1. uresult[u] = "none" /\ meta' = meta
      BY <1>4, StepOutcome
      DEF UninstallStep, FindLeaf, ReadAssociation, DeleteLeaf, DeleteKey, CleanupSteps,
          UninstallInv, CallInProgress, Proceed, Uninstalled
    <2>2. \A err : Uninstalled(u, err) => err = "ErrOwnershipMismatch"
      BY <1>4 DEF Uninstalled, CleanupTypeOK
    <2>3. \A step : ~Proceed(u, step)
      BY <1>4, <2>1 DEF Proceed
    <2>4. deleted' = deleted /\ (Installed(meta[u].leafSHA256) \/ RemoveOrphanKey(u))
      <3>1. CASE FindLeaf(u) \/ ReadAssociation(u)
        BY <2>2, <3>1 DEF FindLeaf, ReadAssociation
      <3>2. CASE DeleteLeaf(u)
        BY <2>2, <2>3, <3>2 DEF DeleteLeaf
      <3>3. CASE DeleteKey(u)
        BY <2>2, <3>3 DEF DeleteKey
      <3> QED BY <1>4, <3>1, <3>2, <3>3 DEF UninstallStep
    <2>5. RemoveOrphanKey(u) => ~NamesKey(meta[u])
      BY <2>3, SentinelAssumption DEF RemoveOrphanKey, NamesKey
    <2>6. deleted[u] # {} => ~NamesKey(meta[u]) /\ "key" \notin deleted[u]
      BY <2>4, <2>5 DEF UninstallInv, LeafGone
    <2>7. deleted[u] \subseteq {"leaf", "key"}
      BY DEF CleanupTypeOK
    <2> QED BY <1>4, <2>1, <2>4, <2>6, <2>7
  <1> QED BY <1>1, <1>2, <1>3, <1>4 DEF CallerStep

\* A call that answers nil does so after the attempt to delete the key, which
\* found nothing or deleted it.
LEMMA NilStep ==
    ASSUME CleanupTypeOK, UninstallInv, NEW u \in Callers, UninstallStep(u), uresult'[u] = "nil"
    PROVE  /\ meta' = meta /\ store' = store
           /\ ~Installed(meta[u].leafSHA256)
           /\ meta[u].provider = ExpectedCNGProvider
           /\ \A c \in Containers \ Hidden : c = meta[u].containerName => keys'[c] = NoKey
  <1>0. uresult[u] = "none"
    BY DEF UninstallStep, FindLeaf, ReadAssociation, DeleteLeaf, DeleteKey, CleanupSteps,
           UninstallInv, CallInProgress
  <1>1. DeleteKey(u)
    <2>1. \A err : Uninstalled(u, err) => err = "nil"
      BY DEF Uninstalled, CleanupTypeOK
    <2>2. \A step : ~Proceed(u, step)
      BY <1>0 DEF Proceed
    <2>3. ~RemoveOrphanKey(u)
      BY <2>1, <2>2, OrphanOutcome
    <2>4. ~FindLeaf(u) /\ ~ReadAssociation(u) /\ ~DeleteLeaf(u)
      BY <2>1, <2>2, <2>3 DEF FindLeaf, ReadAssociation, DeleteLeaf
    <2> QED BY <2>4 DEF UninstallStep
  <1>2. ~Installed(meta[u].leafSHA256)
    BY <1>1 DEF DeleteKey, UninstallInv, LeafGone
  <1>3. PICK outcome \in DeleteOutcomes :
          /\ DeleteCNGKey(meta[u].provider, meta[u].containerName, outcome)
          /\ Uninstalled(u, IF outcome = "error" THEN "ErrCleanupFailed" ELSE "nil")
    BY <1>1 DEF DeleteKey
  <1>4. outcome # "error" /\ meta' = meta
    BY <1>3 DEF Uninstalled, CleanupTypeOK
  <1>5. /\ meta[u].provider = ExpectedCNGProvider
        /\ \A c \in Containers \ Hidden : c = meta[u].containerName => keys'[c] = NoKey
    BY <1>3, <1>4 DEF DeleteCNGKey, CleanupTypeOK, MachineTypeOK
  <1> QED BY <1>1, <1>2, <1>4, <1>5 DEF DeleteKey

-----------------------------------------------------------------------------
(* The theorems *)

UninstallIInv == CleanupTypeOK /\ UninstallInv /\ RefusalMeansUntouched

LEMMA UninstallInductive == UninstallSpec => []UninstallIInv
  <1>1. UninstallInit => UninstallIInv
    BY DEF UninstallInit, CleanupInit, UninstallIInv, CleanupTypeOK, CleanupSteps, UninstallInv,
           CallInProgress, GuardsHold, LeafGone, RefusalMeansUntouched
  <1>2. UninstallIInv /\ [UninstallNext]_uninstallVars => UninstallIInv'
    <2> SUFFICES ASSUME UninstallIInv, [UninstallNext]_uninstallVars PROVE UninstallIInv'
      OBVIOUS
    <2>1. CleanupTypeOK /\ UninstallInv /\ RefusalMeansUntouched
      BY DEF UninstallIInv
    <2>2. ASSUME NEW u \in Callers, CallerStep(u) PROVE UninstallIInv'
      BY <2>1, <2>2, CallerStepTyped, CallerStepInv, RefusalStep DEF UninstallIInv
    <2>3. ASSUME Environment \/ UNCHANGED machineVars, UNCHANGED cleanupVars PROVE UninstallIInv'
      <3>1. MachineTypeOK'
        BY <2>1, <2>3 DEF Environment, ForeignKeyAppears, AdminRemovesLeaf, machineVars,
                          CleanupTypeOK, MachineTypeOK, Owners
      <3>2. CleanupTypeOK' /\ RefusalMeansUntouched'
        BY <2>1, <2>3, <3>1 DEF cleanupVars, CleanupTypeOK, RefusalMeansUntouched
      <3>3. \A l \in Leaves : store'[l] \in {store[l], NotInstalled}
        BY <2>1, <2>3 DEF Environment, ForeignKeyAppears, AdminRemovesLeaf, machineVars,
                          CleanupTypeOK, MachineTypeOK
      <3>4. UninstallInv'
        BY <2>1, <2>3, <3>3, OthersStepInv
      <3> QED BY <3>2, <3>4 DEF UninstallIInv
    <2>4. UninstallNext => \/ \E u \in Callers : CallerStep(u)
                           \/ Environment /\ UNCHANGED cleanupVars
      BY PersistedAssumption DEF UninstallNext, CallerStep
    <2>5. UNCHANGED uninstallVars => UNCHANGED machineVars /\ UNCHANGED cleanupVars
      BY DEF uninstallVars, machineVars, cleanupVars
    <2> QED BY <2>2, <2>3, <2>4, <2>5
  <1> QED BY <1>1, <1>2, PTL DEF UninstallSpec

\* Type correctness of Uninstall: a call answers nil or one of its two errors.
THEOREM UninstallTyped == UninstallSpec => []CleanupTypeOK
  <1>1. UninstallIInv => CleanupTypeOK
    BY DEF UninstallIInv
  <1> QED BY <1>1, UninstallInductive, PTL

\* The guards of runCleanup stay true up to the deletion they guard, although
\* each store and key operation is a step of its own.
THEOREM GuardsStay == UninstallSpec => []UninstallInv
  <1>1. UninstallIInv => UninstallInv
    BY DEF UninstallIInv
  <1> QED BY <1>1, UninstallInductive, PTL

\* ErrOwnershipMismatch means that the caller has deleted nothing, in this call or
\* in an earlier one, or only the leaf on metadata that names no key.
THEOREM RefusedUntouched == UninstallSpec => []RefusalMeansUntouched
  <1>1. UninstallIInv => RefusalMeansUntouched
    BY DEF UninstallIInv
  <1> QED BY <1>1, UninstallInductive, PTL

\* A key goes only after its leaf, by a caller whose metadata names it.
THEOREM KeyAfterLeaf == UninstallSpec => LeafBeforeKey
  <1> DEFINE Ordered == \A c \in Containers :
                            keys[c] # NoKey /\ keys'[c] = NoKey =>
                                \E u \in Callers :
                                    /\ upc[u] = "deleteKey" /\ upc'[u] = "returned"
                                    /\ meta[u].containerName = c
                                    /\ meta[u].provider = ExpectedCNGProvider
                                    /\ ~Installed(meta[u].leafSHA256)
  <1>1. UninstallIInv /\ [UninstallNext]_uninstallVars => [Ordered]_uninstallVars
    <2> SUFFICES ASSUME UninstallIInv, UninstallNext,
                        NEW c \in Containers, keys[c] # NoKey, keys'[c] = NoKey
                 PROVE  \E u \in Callers :
                            /\ upc[u] = "deleteKey" /\ upc'[u] = "returned"
                            /\ meta[u].containerName = c
                            /\ meta[u].provider = ExpectedCNGProvider
                            /\ ~Installed(meta[u].leafSHA256)
      OBVIOUS
    <2>1. ASSUME Environment PROVE FALSE
      BY <2>1, SentinelAssumption
      DEF Environment, ForeignKeyAppears, AdminRemovesLeaf, UninstallIInv, CleanupTypeOK,
          MachineTypeOK, Owners
    <2>2. PICK u \in Callers : CallerStep(u)
      BY <2>1, PersistedAssumption DEF UninstallNext, CallerStep
    <2>3. /\ upc[u] = "deleteKey"
          /\ meta[u].containerName = c
          /\ meta[u].provider = ExpectedCNGProvider
      BY <2>2, MachineOfCaller DEF UninstallIInv, CleanupTypeOK, MachineTypeOK
    <2>4. upc'[u] = "returned"
      <3>1. DeleteKey(u) \/ CallerCrashes(u)
        BY <2>2, <2>3 DEF CallerStep, CallUninstall, UninstallStep, FindLeaf, ReadAssociation, DeleteLeaf
      <3>2. ~CallerCrashes(u)
        BY DEF CallerCrashes
      <3> QED BY <3>1, <3>2 DEF DeleteKey, Uninstalled, UninstallIInv, CleanupTypeOK
    <2> QED BY <2>3, <2>4 DEF UninstallIInv, UninstallInv, LeafGone
  <1> QED BY <1>1, UninstallInductive, PTL DEF UninstallSpec, LeafBeforeKey

\* A leaf is deleted only while it is the one the metadata identifies, with the
\* association the metadata records.
THEOREM DeletesVerified == UninstallSpec => DeletesOnlyVerified
  <1> DEFINE Exact(u) == LET ci == meta[u] IN
                         /\ Matches(ci)
                         /\ store[ci.leafSHA256] =
                               [provider |-> ci.provider, containerName |-> ci.containerName,
                                providerType |-> ci.providerType, keySpec |-> ci.keySpec]
                         /\ store'[ci.leafSHA256] = NotInstalled
             Verified == \A u \in Callers :
                             upc[u] = "deleteLeaf" /\ deleted'[u] # deleted[u] => Exact(u)
  <1>1. UninstallIInv /\ [UninstallNext]_uninstallVars => [Verified]_uninstallVars
    <2> SUFFICES ASSUME UninstallIInv, UninstallNext,
                        NEW u \in Callers, upc[u] = "deleteLeaf", deleted'[u] # deleted[u]
                 PROVE  Exact(u)
      OBVIOUS
    <2>0. CleanupTypeOK /\ UninstallInv /\ u \in Callers
      BY DEF UninstallIInv
    <2>1. CallerStep(u)
      <3>1. PICK v \in Callers : CallerStep(v)
        BY PersistedAssumption DEF UninstallNext, CallerStep, cleanupVars
      <3> QED BY <2>0, <3>1, OtherCallers
    <2>2. /\ Installed(meta[u].leafSHA256)
          /\ store' = [store EXCEPT ![meta[u].leafSHA256] = NotInstalled]
      BY <2>0, <2>1, MachineOfCaller DEF CleanupTypeOK
    <2>3. /\ Matches(meta[u])
          /\ AssociationMatches(meta[u], store[meta[u].leafSHA256])
      BY <2>0, <2>2 DEF UninstallInv, GuardsHold
    <2>4. meta[u].leafSHA256 \in Leaves
      BY <2>0 DEF UninstallInv, CallInProgress, CleanupSteps
    <2>5. store[meta[u].leafSHA256] \in KeyProvInfo /\ store'[meta[u].leafSHA256] = NotInstalled
      BY <2>0, <2>2, <2>4 DEF CleanupTypeOK, MachineTypeOK, Installed
    <2>6. store[meta[u].leafSHA256] =
             [provider |-> meta[u].provider, containerName |-> meta[u].containerName,
              providerType |-> meta[u].providerType, keySpec |-> meta[u].keySpec]
      BY <2>3, <2>5 DEF AssociationMatches, KeyProvInfo
    <2> QED BY <2>3, <2>5, <2>6
  <1> QED BY <1>1, UninstallInductive, PTL DEF UninstallSpec, DeletesOnlyVerified

\* A nil return means that the leaf and the key that the metadata names are gone, as
\* far as CNG tells.
THEOREM NilIsGone == UninstallSpec => NilMeansGone
  <1> DEFINE Gone(u) == /\ ~Installed(meta[u].leafSHA256)
                        /\ meta[u].provider = ExpectedCNGProvider
                        /\ \A c \in Containers \ Hidden :
                              c = meta[u].containerName => keys'[c] = NoKey
             Answers(u) == upc[u] # "returned" /\ upc'[u] = "returned" /\ uresult'[u] = "nil"
             Truthful == \A u \in Callers : Answers(u) => Gone(u)
  <1>1. UninstallIInv /\ [UninstallNext]_uninstallVars => [Truthful]_uninstallVars
    <2> SUFFICES ASSUME UninstallIInv, UninstallNext, NEW u \in Callers, Answers(u)
                 PROVE  Gone(u)
      OBVIOUS
    <2>0. CleanupTypeOK /\ UninstallInv /\ u \in Callers
      BY DEF UninstallIInv
    <2>1. CallerStep(u)
      <3>1. PICK v \in Callers : CallerStep(v)
        BY PersistedAssumption DEF UninstallNext, CallerStep, cleanupVars
      <3> QED BY <2>0, <3>1, OtherCallers
    <2>2. UninstallStep(u)
      BY <2>0, <2>1 DEF CallerStep, CallerCrashes, CallUninstall, CleanupTypeOK
    <2>3. /\ ~Installed(meta[u].leafSHA256)
          /\ meta[u].provider = ExpectedCNGProvider
          /\ \A c \in Containers \ Hidden : c = meta[u].containerName => keys'[c] = NoKey
      BY <2>0, <2>2, NilStep
    <2> QED BY <2>3
  <1> QED BY <1>1, UninstallInductive, PTL DEF UninstallSpec, NilMeansGone
=============================================================================
