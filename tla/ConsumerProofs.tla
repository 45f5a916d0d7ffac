--------------------------- MODULE ConsumerProofs ---------------------------
(***************************************************************************)
(* Theorems of Consumer for any number of runs of the two example          *)
(* programs, at any time, over one CLEANUP_FILE.  Every step of a program  *)
(* is a step of Lifecycle or leaves its state alone, so the theorems of    *)
(* LifecycleProofs hold of the programs.                                   *)
(***************************************************************************)
EXTENDS Consumer, LifecycleProofs

ConsumerIInv == LifecycleIInv /\ FileInv /\ PersistedUntilRenewed

LEMMA ConsumerInitInv == ConsumerInit => ConsumerIInv
  <1> SUFFICES ASSUME ConsumerInit PROVE ConsumerIInv
    OBVIOUS
  <1>1. LifecycleIInv
    BY LifecycleInitInv DEF ConsumerInit
  <1>2. FileInv
    BY FileAssumption DEF ConsumerInit, LifecycleInit, CleanupInit, FileInv, MainSteps
  <1>3. PersistedUntilRenewed
    BY DEF ConsumerInit, PersistedUntilRenewed
  <1> QED BY <1>1, <1>2, <1>3 DEF ConsumerIInv

-----------------------------------------------------------------------------
(* The steps, as those of Lifecycle *)

\* A successful attempt has handed out its metadata.
LEMMA SuccessHanded ==
    ASSUME LifecycleIInv, NEW a \in Attempts, Returned(a, "success")
    PROVE  Handed(a) /\ result[a].cleanup \in CleanupInfo
  <1>1. result[a].cleanup \in CleanupInfo
    BY DEF LifecycleIInv, BaseInv, CoreInv, OwnershipInv, SuccessRecorded
  <1> QED BY <1>1, SentinelAssumption DEF Handed, Returned

\* The uninstall program calls with what an attempt handed out.
LEMMA ProgramCall ==
    ASSUME ConsumerIInv, NEW u \in Callers, UninstallMain(u)
    PROVE  \E a \in Attempts : /\ Returned(a, "success") /\ Handed(a)
                               /\ CallUninstall(u, result[a].cleanup)
  BY SuccessHanded DEF ConsumerIInv, FileInv, UninstallMain

FileStep(a) == EnrollMain(a) /\ UNCHANGED <<machineVars, enrollVars, cleanupVars>>

ProgramStep(u) == /\ UninstallMain(u) \/ UninstallStep(u) \/ CallerCrashes(u)
                  /\ UNCHANGED <<enrollVars, main, disk>>

LEMMA ProgramStepIsCallStep ==
    ASSUME ConsumerIInv, NEW u \in Callers, ProgramStep(u)
    PROVE  CallStep(u)
  BY ProgramCall DEF ProgramStep, CallStep

LEMMA StepsOfLifecycle ==
    ASSUME ConsumerIInv, [ConsumerNext]_consumerVars
    PROVE  [LifecycleNext]_lifecycleVars
  <1>1. CASE UNCHANGED consumerVars
    BY <1>1 DEF consumerVars, lifecycleVars
  <1>2. ASSUME NEW a \in Attempts, FileStep(a) PROVE UNCHANGED lifecycleVars
    BY <1>2 DEF FileStep, machineVars, enrollVars, cleanupVars, lifecycleVars
  <1>3. ASSUME NEW u \in Callers, ProgramStep(u) PROVE LifecycleNext
    BY <1>3, ProgramStepIsCallStep DEF CallStep, LifecycleNext
  <1>4. CASE ConsumerNext
    BY <1>2, <1>3, <1>4 DEF ConsumerNext, LifecycleNext, FileStep, ProgramStep
  <1> QED BY <1>1, <1>4

-----------------------------------------------------------------------------
(* The file *)

\* A successful attempt keeps its Result in every step of the composition.
LEMMA SuccessKept ==
    ASSUME LifecycleIInv, [LifecycleNext]_lifecycleVars, NEW a \in Attempts, Returned(a, "success")
    PROVE  Returned(a, "success")' /\ result'[a] = result[a]
  <1>1. ASSUME NEW e \in Attempts, EnrollStep(e)
        PROVE  pc'[a] = "done" /\ result'[a] = result[a]
    BY <1>1, ReturnedStays DEF LifecycleIInv, BaseInv, Returned
  <1>2. UNCHANGED enrollVars => pc' = pc /\ result' = result
    BY DEF enrollVars
  <1>3. UNCHANGED lifecycleVars => pc' = pc /\ result' = result
    BY DEF lifecycleVars
  <1> QED BY <1>1, <1>2, <1>3 DEF LifecycleNext, EnrollStep, Returned

\* Moving one run to another step after it has opened the file keeps in mind who
\* has opened it.
LEMMA OpenedKept ==
    ASSUME FileInv, UNCHANGED <<pc, result>>, NEW a \in Attempts, NEW step \in MainSteps,
           MainGoto(a, step), main[a] = "enroll" \/ step \in {"persisted", "failed", "crashed"},
           NEW c \in Attempts, OpenedByOther(c)
    PROVE  OpenedByOther(c)'
  <1>1. PICK b \in Attempts \ {c} :
          Returned(b, "success") /\ main[b] \in {"write", "persisted", "failed", "crashed"}
    BY DEF OpenedByOther
  <1>2. main'[b] \in {"write", "persisted", "failed", "crashed"}
    BY <1>1 DEF MainGoto, FileInv
  <1> QED BY <1>1, <1>2 DEF OpenedByOther, Returned

\* A run that opens the file or writes to it has opened it for every other run.
LEMMA OpenedNow ==
    ASSUME FileInv, UNCHANGED <<pc, result>>, NEW a \in Attempts, Returned(a, "success"),
           NEW step \in {"write", "persisted", "failed", "crashed"}, MainGoto(a, step),
           NEW c \in Attempts, c # a
    PROVE  OpenedByOther(c)'
  BY DEF OpenedByOther, Returned, MainGoto, FileInv

\* The programs persist only the metadata of a success, and read only that.
LEMMA FileStepInv ==
    ASSUME ConsumerIInv, [ConsumerNext]_consumerVars
    PROVE  FileInv' /\ PersistedUntilRenewed'
  <1>0. LifecycleIInv /\ FileInv /\ PersistedUntilRenewed /\ [LifecycleNext]_lifecycleVars
    BY StepsOfLifecycle DEF ConsumerIInv
  <1>1. \A a \in Attempts : Returned(a, "success") => Returned(a, "success")' /\ result'[a] = result[a]
    BY <1>0, SuccessKept
  <1>2. ASSUME UNCHANGED <<main, disk>>
        PROVE  /\ \A a \in Attempts : OpenedByOther(a) => OpenedByOther(a)'
               /\ PersistedUntilRenewed'
               /\ meta' = meta => FileInv'
    <2>1. \A a \in Attempts : OpenedByOther(a) => OpenedByOther(a)'
      BY <1>1, <1>2 DEF OpenedByOther
    <2>2. PersistedUntilRenewed'
      BY <1>0, <1>1, <1>2, <2>1 DEF PersistedUntilRenewed, FileInv
    <2> QED BY <1>0, <1>1, <1>2, <2>1, <2>2 DEF FileInv
  <1>3. ASSUME NEW a \in Attempts, FileStep(a) PROVE FileInv' /\ PersistedUntilRenewed'
    <2>0. UNCHANGED <<meta, pc, result>>
      BY <1>3 DEF FileStep, cleanupVars, enrollVars
    <2>1. CASE ReportFailure(a) \/ NotPersisted(a)
      <3>1. PICK step \in {"exit 0", "exit 1"} : MainGoto(a, step)
        BY <2>1 DEF ReportFailure, NotPersisted
      <3>2. main[a] = "enroll" /\ disk' = disk
        BY <2>1 DEF ReportFailure, NotPersisted
      <3>3. \A c \in Attempts : OpenedByOther(c) => OpenedByOther(c)'
        BY <1>0, <2>0, <3>1, <3>2, OpenedKept DEF MainSteps
      <3> QED BY <1>0, <2>0, <3>1, <3>2, <3>3
              DEF MainGoto, FileInv, MainSteps, Returned, PersistedUntilRenewed
    <2>2. CASE OpenFile(a)
      <3>1. Returned(a, "success") /\ main[a] = "enroll" /\ MainGoto(a, "write") /\ disk' = Empty
        BY <2>2 DEF OpenFile, Returned
      <3>2. \A c \in Attempts \ {a} : OpenedByOther(c)'
        BY <1>0, <2>0, <3>1, OpenedNow
      <3> QED BY <1>0, <2>0, <3>1, <3>2, FileAssumption
              DEF MainGoto, FileInv, MainSteps, Returned, PersistedUntilRenewed
    <2>3. CASE WriteFile(a) \/ MainCrashes(a)
      <3>1. Returned(a, "success") /\ main[a] = "write"
        BY <1>0, <2>3 DEF WriteFile, MainCrashes, FileInv
      <3>2. PICK step \in {"persisted", "failed", "crashed"} :
              /\ MainGoto(a, step)
              /\ \/ disk' = result[a].cleanup /\ step = "persisted"
                 \/ disk # Empty /\ disk' = Torn /\ step = "persisted"
                 \/ disk' \in {disk, Torn} /\ step # "persisted"
        BY <2>3 DEF WriteFile, MainCrashes
      <3>3. \A c \in Attempts \ {a} : OpenedByOther(c)'
        BY <1>0, <2>0, <3>1, <3>2, OpenedNow
      <3>4. disk # Empty => OpenedByOther(a)'
        BY <1>0, <2>0, <3>1, <3>2, OpenedKept DEF FileInv, MainSteps
      <3>5. PersistedUntilRenewed'
        BY <1>0, <2>0, <3>2, <3>3, <3>4 DEF MainGoto, FileInv, PersistedUntilRenewed
      <3>6. FileInv'
        BY <1>0, <2>0, <3>1, <3>2, <3>3, FileAssumption
        DEF MainGoto, FileInv, MainSteps, Returned
      <3> QED BY <3>5, <3>6
    <2> QED BY <1>3, <2>1, <2>2, <2>3 DEF FileStep, EnrollMain
  <1>4. ASSUME NEW u \in Callers, ProgramStep(u) PROVE FileInv' /\ PersistedUntilRenewed'
    <2>0. main' = main /\ disk' = disk
      BY <1>4 DEF ProgramStep
    <2>1. CASE UninstallMain(u)
      <3>1. PICK a \in Attempts : Returned(a, "success") /\ CallUninstall(u, result[a].cleanup)
        BY <2>1, ProgramCall
      <3>2. meta' = [meta EXCEPT ![u] = result[a].cleanup]
        BY <3>1 DEF CallUninstall
      <3>3. meta \in [Callers -> CleanupInfo \cup {NoInfo}]
        BY <1>0 DEF LifecycleIInv, BaseInv, CleanupTypeOK
      <3> QED BY <1>0, <1>1, <1>2, <2>0, <3>1, <3>2, <3>3 DEF FileInv
    <2>2. CASE UninstallStep(u) \/ CallerCrashes(u)
      <3>1. meta' = meta
        BY <2>2, StepOutcome DEF Proceed, Uninstalled, CallerCrashes
      <3> QED BY <1>2, <2>0, <3>1
    <2> QED BY <1>4, <2>1, <2>2 DEF ProgramStep
  <1> QED BY <1>2, <1>3, <1>4
          DEF ConsumerNext, FileStep, ProgramStep, cleanupVars, consumerVars

-----------------------------------------------------------------------------
(* The theorems *)

LEMMA ConsumerInductive == ConsumerSpec => []ConsumerIInv
  <1>1. ConsumerIInv /\ [ConsumerNext]_consumerVars => ConsumerIInv'
    BY StepsOfLifecycle, LifecycleStep, FileStepInv DEF ConsumerIInv
  <1> QED BY <1>1, ConsumerInitInv, PTL DEF ConsumerSpec

\* What is written, read and passed on is the metadata of a success.
THEOREM FileHolds == ConsumerSpec => []FileInv
  <1>1. ConsumerIInv => FileInv
    BY DEF ConsumerIInv
  <1> QED BY <1>1, ConsumerInductive, PTL

\* The uninstall program is never refused, and acts only on the complete metadata
\* of a Result with StatusSuccess.
THEOREM FileTrusted == ConsumerSpec => []FileIsTrustworthy
  <1>1. ConsumerIInv => FileIsTrustworthy
    <2> SUFFICES ASSUME LifecycleIInv, FileInv, NEW u \in Callers, meta[u] # NoInfo
                 PROVE  /\ uresult[u] # "ErrOwnershipMismatch"
                        /\ \E a \in Attempts :
                              Returned(a, "success") /\ meta[u] = result[a].cleanup
      BY DEF ConsumerIInv, FileIsTrustworthy
    <2>1. PICK a \in Attempts : Returned(a, "success") /\ meta[u] = result[a].cleanup
      BY DEF FileInv
    <2>2. ActsFor(u, a)
      BY <2>1, SuccessHanded DEF ActsFor
    <2> QED BY <2>1, <2>2 DEF LifecycleIInv, SuccessNeverRefused
  <1> QED BY <1>1, ConsumerInductive, PTL

\* The programs use the package as Lifecycle allows.
THEOREM ProgramsUseLifecycle == ConsumerSpec => UsesLifecycle
  <1>1. ConsumerInit => LifecycleInit
    BY DEF ConsumerInit
  <1>2. ConsumerIInv /\ [ConsumerNext]_consumerVars => [LifecycleNext]_lifecycleVars
    BY StepsOfLifecycle
  <1> QED BY <1>1, <1>2, ConsumerInductive, PTL DEF ConsumerSpec, UsesLifecycle, LifecycleSpec

\* What a run has persisted stays in the file until another successful run opens it.
THEOREM PersistedStays == ConsumerSpec => []PersistedUntilRenewed
  <1>1. ConsumerIInv => PersistedUntilRenewed
    BY DEF ConsumerIInv
  <1> QED BY <1>1, ConsumerInductive, PTL

\* What Artifacts promises holds of the two programs.
THEOREM ProgramsReliable == ConsumerSpec => ImplementsArtifacts /\ []ReportIsReliable
  BY ProgramsUseLifecycle, LifecycleContract, LifecycleReliable DEF UsesLifecycle
=============================================================================
