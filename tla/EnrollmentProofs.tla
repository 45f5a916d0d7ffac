-------------------------- MODULE EnrollmentProofs --------------------------
(***************************************************************************)
(* Theorems of Enrollment for every set of attempts, containers, leaves    *)
(* and answers of the CA, and every policy the validation may implement.   *)
(***************************************************************************)
EXTENDS Enrollment, ValidationProofs

\* The checks between -submit and -accept end in one of three verdicts.
LEMMA MaterialStatusType ==
    ASSUME NEW m, NEW k
    PROVE  MaterialStatus(m, k) \in {"enrollment-failed", "invalid-certificate", "success"}
  BY DEF MaterialStatus

\* A tool failure is classified as unavailable or enrollment-failed.
LEMMA ClassifyType ==
    ASSUME NEW phase, NEW failure
    PROVE  ClassifyToolError(phase, failure) \in {"unavailable", "enrollment-failed"}
  BY DEF ClassifyToolError

LEMMA NoResultType == NoResult \in Result
  BY DEF NoResult, Result, Statuses, KeyStates

\* The metadata computed from a parsed leaf is CleanupInfo.
LEMMA RetryCleanupType ==
    ASSUME NEW l \in Leaves, NEW c \in Containers
    PROVE  RetryCleanup(l, c) \in CleanupInfo
  BY ProviderAssumption DEF RetryCleanup, CleanupInfoForCert, CleanupInfo

\* Captured metadata is CleanupInfo or nil.
LEMMA CaptureType ==
    ASSUME MachineTypeOK, NEW l \in Leaves, NEW c \in Containers, NEW f \in BOOLEAN
    PROVE  CaptureCleanupInfo(l, c, f) \in CleanupInfo \cup {NoInfo}
  <1>1. CASE store[l] = NotInstalled
    BY <1>1 DEF CaptureCleanupInfo, Installed
  <1>2. CASE store[l] \in KeyProvInfo
    BY <1>2 DEF CaptureCleanupInfo, CleanupInfoForCert, KeyProvInfo, CleanupInfo
  <1> QED BY <1>1, <1>2 DEF MachineTypeOK

-----------------------------------------------------------------------------
(* Type correctness *)

LEMMA InitTyped == Init => EnrollTypeOK
  BY NoResultType, AttemptAssumption
  DEF Init, MachineInit, EnrollInit, EnrollTypeOK, MachineTypeOK, Owners, Steps, Running

\* Returning a well-formed Result, and recording an owned failure, keep the
\* types of the program counter and of the results.
LEMMA ReturnTyped ==
    ASSUME EnrollTypeOK, NEW a \in Attempts, NEW r \in Result, Return(a, r)
    PROVE  /\ pc' \in [Attempts -> Steps]
           /\ result' \in [Attempts -> Result]
  BY DEF EnrollTypeOK, Return, Goto, Steps

LEMMA OwnedFailureTyped ==
    ASSUME EnrollTypeOK, NEW a \in Attempts, NEW status \in Statuses,
           FinishOwnedFailure(a, status)
    PROVE  /\ pc' \in [Attempts -> Steps]
           /\ result' \in [Attempts -> Result]
  BY NoResultType DEF EnrollTypeOK, FinishOwnedFailure, Goto, Steps, Running, LocalSteps, Result

\* Generating a key, deleting one and installing a leaf keep the machine typed.
LEMMA NewKeyTyped ==
    ASSUME MachineTypeOK, NEW a \in Attempts, NEW c \in Containers
    PROVE  NewKey(a, c) \in [Containers -> Owners \cup {NoKey}]
  BY DEF MachineTypeOK, NewKey, Owners

LEMMA DeleteKeyTyped ==
    ASSUME MachineTypeOK, NEW p, NEW c, NEW outcome, DeleteCNGKey(p, c, outcome)
    PROVE  keys' \in [Containers -> Owners \cup {NoKey}]
  BY DEF MachineTypeOK, DeleteCNGKey

LEMMA InstallTyped ==
    ASSUME MachineTypeOK, NEW a, Install(a)
    PROVE  store' \in [Leaves -> KeyProvInfo \cup {NotInstalled}]
  BY DEF MachineTypeOK, Install

TypeInv == EnrollTypeOK /\ ChoicesMade

LEMMA InitTypeInv == Init => TypeInv
  <1> SUFFICES ASSUME Init PROVE TypeInv
    OBVIOUS
  <1>1. EnrollTypeOK
    BY InitTyped
  <1>2. ChoicesMade
    BY DEF Init, EnrollInit, ChoicesMade, Running, ToolSteps, LocalSteps
  <1> QED BY <1>1, <1>2 DEF TypeInv

\* Every step of an attempt and of its environment keeps the types.
LEMMA StepTyped == TypeInv /\ [EnrollNext]_vars => EnrollTypeOK'
  <1> SUFFICES ASSUME TypeInv, [EnrollNext]_vars PROVE EnrollTypeOK'
    OBVIOUS
  <1> USE DEF TypeInv
  <1>1. ASSUME NEW a \in Attempts, Start(a) PROVE EnrollTypeOK'
    <2>1. CASE NotConfigured(a)
      <3>1. [NoResult EXCEPT !.status = "not-configured"] \in Result
        BY NoResultType DEF Result, Statuses
      <3> QED BY <2>1, <3>1, ReturnTyped DEF NotConfigured, EnrollTypeOK, MachineTypeOK
    <2>2. CASE AllocateContainer(a)
      BY <2>2 DEF AllocateContainer, Goto, EnrollTypeOK, MachineTypeOK, Steps, Running, LocalSteps
    <2>3. CASE ContainerFails(a)
      <3>1. [NoResult EXCEPT !.status = "enrollment-failed"] \in Result
        BY NoResultType DEF Result, Statuses
      <3> QED BY <2>3, <3>1, ReturnTyped DEF ContainerFails, EnrollTypeOK, MachineTypeOK
    <2> QED BY <1>1, <2>1, <2>2, <2>3 DEF Start
  <1>2. ASSUME NEW a \in Attempts, LocalStep(a) PROVE EnrollTypeOK'
    <2>1. CASE Prepare(a)
      BY <2>1 DEF Prepare, Goto, EnrollTypeOK, MachineTypeOK, Steps, Running, ToolSteps
    <2>2. CASE PrepareFails(a)
      <3>1. container[a] \in Containers
        BY <2>2 DEF PrepareFails, ChoicesMade, Running, LocalSteps
      <3>2. [NoResult EXCEPT !.status = "enrollment-failed", !.keyContainer = container[a]] \in Result
        BY <3>1, NoResultType DEF Result, Statuses
      <3> QED BY <2>2, <3>2, ReturnTyped DEF PrepareFails, EnrollTypeOK, MachineTypeOK
    <2>3. CASE ReadRequest(a)
      <3>1. CASE Goto(a, "submit") /\ UNCHANGED result
        BY <2>3, <3>1 DEF ReadRequest, Goto, EnrollTypeOK, MachineTypeOK, Steps, Running, ToolSteps
      <3>2. CASE FinishOwnedFailure(a, "enrollment-failed")
        <4>1. "enrollment-failed" \in Statuses
          BY DEF Statuses
        <4> QED BY <2>3, <3>2, <4>1, OwnedFailureTyped DEF ReadRequest, EnrollTypeOK, MachineTypeOK
      <3> QED BY <2>3, <3>1, <3>2 DEF ReadRequest
    <2>4. CASE Validate(a)
      <3>1. CASE Goto(a, "accept") /\ UNCHANGED result
        BY <2>4, <3>1 DEF Validate, Goto, EnrollTypeOK, MachineTypeOK, Steps, Running, ToolSteps
      <3>2. CASE FinishOwnedFailure(a, MaterialStatus(issued[a], request[a]))
        <4>1. MaterialStatus(issued[a], request[a]) \in Statuses
          BY MaterialStatusType DEF Statuses
        <4> QED BY <2>4, <3>2, <4>1, OwnedFailureTyped DEF Validate, EnrollTypeOK, MachineTypeOK
      <3> QED BY <2>4, <3>1, <3>2 DEF Validate
    <2>5. CASE Capture(a)
      <3>1. container[a] \in Containers /\ issued[a].leaf \in Leaves
        BY <2>5, MaterialAssumption DEF Capture, ChoicesMade, Running, LocalSteps, MaterialType
      <3>2. PICK f \in BOOLEAN :
              LET l == issued[a].leaf
                  info == CaptureCleanupInfo(l, container[a], f)
                  returned == [NoResult EXCEPT !.keyContainer = container[a], !.certificate = l]
              IN \/ /\ info # NoInfo
                    /\ Return(a, [returned EXCEPT !.status = "success", !.cleanup = info])
                 \/ /\ info = NoInfo
                    /\ Return(a, [returned EXCEPT !.status = "enrollment-incomplete",
                                                  !.keyState = "present",
                                                  !.cleanup = RetryCleanup(l, container[a])])
        BY <2>5 DEF Capture
      <3> DEFINE l == issued[a].leaf
                 info == CaptureCleanupInfo(l, container[a], f)
                 returned == [NoResult EXCEPT !.keyContainer = container[a], !.certificate = l]
                 success == [returned EXCEPT !.status = "success", !.cleanup = info]
                 incomplete == [returned EXCEPT !.status = "enrollment-incomplete",
                                                !.keyState = "present",
                                                !.cleanup = RetryCleanup(l, container[a])]
      <3>3. returned \in Result
        BY <3>1, NoResultType DEF Result
      <3>4. success \in Result
        <4>1. info \in CleanupInfo \cup {NoInfo}
          BY <3>1, CaptureType DEF EnrollTypeOK
        <4> HIDE DEF info, returned
        <4> QED BY <3>3, <4>1 DEF Result, Statuses
      <3>5. incomplete \in Result
        <4>1. RetryCleanup(l, container[a]) \in CleanupInfo
          BY <3>1, RetryCleanupType
        <4> HIDE DEF returned
        <4> QED BY <3>3, <4>1 DEF Result, Statuses, KeyStates
      <3>6. Return(a, success) \/ Return(a, incomplete)
        BY <3>2
      <3>7. pc' \in [Attempts -> Steps] /\ result' \in [Attempts -> Result]
        <4> HIDE DEF success, incomplete
        <4> QED BY <3>4, <3>5, <3>6, ReturnTyped
      <3> QED BY <2>5, <3>7 DEF Capture, EnrollTypeOK, MachineTypeOK
    <2>6. CASE CleanupOwnedKey(a)
      <3>1. PICK outcome \in DeleteOutcomes :
              /\ DeleteCNGKey(ExpectedCNGProvider, container[a], outcome)
              /\ Return(a, [result[a] EXCEPT
                    !.keyState = KeyStateAfter(outcome),
                    !.keyCleanupErr = IF outcome = "deleted" THEN "nil" ELSE outcome])
        BY <2>6 DEF CleanupOwnedKey
      <3>2. [result[a] EXCEPT
               !.keyState = KeyStateAfter(outcome),
               !.keyCleanupErr = IF outcome = "deleted" THEN "nil" ELSE outcome] \in Result
        BY DEF EnrollTypeOK, Result, KeyStates, KeyStateAfter, DeleteOutcomes
      <3>3. pc' \in [Attempts -> Steps] /\ result' \in [Attempts -> Result]
        BY <3>1, <3>2, ReturnTyped
      <3>4. keys' \in [Containers -> Owners \cup {NoKey}]
        BY <3>1, DeleteKeyTyped DEF EnrollTypeOK
      <3> QED BY <2>6, <3>3, <3>4 DEF CleanupOwnedKey, EnrollTypeOK, MachineTypeOK
    <2> QED BY <1>2, <2>1, <2>2, <2>3, <2>4, <2>5, <2>6 DEF LocalStep
  <1>3. ASSUME NEW a \in Attempts, ToolStep(a) PROVE EnrollTypeOK'
    <2>0. pc[a] \in ToolSteps /\ container[a] \in Containers
      BY <1>3 DEF ToolStep, NewSucceeds, NewFails, SubmitSucceeds, SubmitFails, AcceptSucceeds,
                  AcceptFails, ToolSteps, ChoicesMade, Running
    <2>1. CASE NewSucceeds(a)
      <3>1. keys' = NewKey(a, container[a]) /\ request' = [request EXCEPT ![a] = keys'[container[a]]]
        BY <2>1 DEF NewSucceeds, BuildRequestINF
      <3>2. keys' \in [Containers -> Owners \cup {NoKey}]
        BY <2>0, <3>1, NewKeyTyped DEF EnrollTypeOK
      <3>3. keys'[container[a]] \in Owners
        BY <2>0, <3>1 DEF NewKey, EnrollTypeOK, MachineTypeOK, Owners
      <3> QED BY <2>1, <3>1, <3>2, <3>3 DEF NewSucceeds, Goto, EnrollTypeOK, MachineTypeOK, Steps,
                                            Running, LocalSteps
    <2>2. CASE NewFails(a)
      <3>1. PICK failure \in ToolFailures :
              /\ keys' = keys \/ keys' = NewKey(a, container[a])
              /\ Return(a, [NoResult EXCEPT !.status = ClassifyToolError("new", failure),
                                            !.keyContainer = container[a],
                                            !.keyState = "unproven"])
        BY <2>2 DEF NewFails
      <3>2. [NoResult EXCEPT !.status = ClassifyToolError("new", failure),
                             !.keyContainer = container[a],
                             !.keyState = "unproven"] \in Result
        BY <2>0, NoResultType, ClassifyType DEF Result, Statuses, KeyStates
      <3>3. keys' \in [Containers -> Owners \cup {NoKey}]
        BY <2>0, <3>1, NewKeyTyped DEF EnrollTypeOK, MachineTypeOK
      <3> QED BY <2>2, <3>1, <3>2, <3>3, ReturnTyped DEF NewFails, EnrollTypeOK, MachineTypeOK
    <2>3. CASE SubmitSucceeds(a)
      BY <2>3 DEF SubmitSucceeds, Goto, EnrollTypeOK, MachineTypeOK, Steps, Running, LocalSteps
    <2>4. CASE SubmitFails(a)
      <3>1. PICK failure : FinishOwnedFailure(a, ClassifyToolError("submit", failure))
        BY <2>4 DEF SubmitFails
      <3>2. ClassifyToolError("submit", failure) \in Statuses
        BY ClassifyType DEF Statuses
      <3> QED BY <2>4, <3>1, <3>2, OwnedFailureTyped DEF SubmitFails, EnrollTypeOK, MachineTypeOK
    <2>5. CASE AcceptSucceeds(a)
      BY <2>5, InstallTyped DEF AcceptSucceeds, Goto, EnrollTypeOK, MachineTypeOK, Steps, Running,
                                LocalSteps
    <2>6. CASE AcceptFails(a)
      <3>1. PICK failure :
              /\ UNCHANGED store \/ Install(a)
              /\ FinishOwnedFailure(a, ClassifyToolError("accept", failure))
        BY <2>6 DEF AcceptFails
      <3>2. ClassifyToolError("accept", failure) \in Statuses
        BY ClassifyType DEF Statuses
      <3>3. store' \in [Leaves -> KeyProvInfo \cup {NotInstalled}]
        BY <3>1, InstallTyped DEF EnrollTypeOK, MachineTypeOK
      <3> QED BY <2>6, <3>1, <3>2, <3>3, OwnedFailureTyped DEF AcceptFails, EnrollTypeOK, MachineTypeOK
    <2> QED BY <1>3, <2>1, <2>2, <2>3, <2>4, <2>5, <2>6 DEF ToolStep
  <1>4. ASSUME NEW a \in Attempts, Crash(a) PROVE EnrollTypeOK'
    BY <1>4 DEF Crash, Goto, EnrollTypeOK, MachineTypeOK, Steps
  <1>5. ASSUME Environment, UNCHANGED enrollVars PROVE EnrollTypeOK'
    BY <1>5 DEF Environment, ForeignKeyAppears, AdminRemovesLeaf, enrollVars, EnrollTypeOK,
                MachineTypeOK, Owners
  <1>6. ASSUME UNCHANGED vars PROVE EnrollTypeOK'
    BY <1>6 DEF vars, EnrollTypeOK, MachineTypeOK
  <1> QED BY <1>1, <1>2, <1>3, <1>4, <1>5, <1>6 DEF EnrollNext, Enroll

-----------------------------------------------------------------------------
(* What one step can change *)

\* A step of attempt a leaves the records of every other attempt alone.
LEMMA OthersUnchanged ==
    ASSUME TypeInv, NEW a \in Attempts, Enroll(a) \/ Crash(a), NEW b \in Attempts, b # a
    PROVE  /\ pc'[b] = pc[b]
           /\ container'[b] = container[b]
           /\ request'[b] = request[b]
           /\ issued'[b] = issued[b]
           /\ result'[b] = result[b]
  <1> USE DEF TypeInv, EnrollTypeOK, Goto, Return, FinishOwnedFailure
  <1>1. CASE Start(a)
    BY <1>1 DEF Start, NotConfigured, AllocateContainer, ContainerFails
  <1>2. CASE LocalStep(a)
    BY <1>2 DEF LocalStep, Prepare, PrepareFails, ReadRequest, Validate, Capture, CleanupOwnedKey
  <1>3. CASE ToolStep(a)
    BY <1>3 DEF ToolStep, NewSucceeds, NewFails, SubmitSucceeds, SubmitFails, AcceptSucceeds,
                AcceptFails
  <1>4. CASE Crash(a)
    BY <1>4 DEF Crash
  <1> QED BY <1>1, <1>2, <1>3, <1>4 DEF Enroll

\* The choices of an attempt are made once: the container when it starts, the
\* request by -new and the material by -submit.
LEMMA ChoicesStable ==
    ASSUME TypeInv, NEW a \in Attempts, Enroll(a) \/ Crash(a)
    PROVE  /\ container'[a] # container[a] => pc[a] = "idle"
           /\ request'[a] # request[a] => pc[a] = "new" /\ pc'[a] = "readRequest"
           /\ issued'[a] # issued[a] => pc[a] = "submit" /\ pc'[a] = "validate"
  <1> USE DEF TypeInv, EnrollTypeOK, Goto
  <1>1. CASE Start(a)
    BY <1>1 DEF Start, NotConfigured, AllocateContainer, ContainerFails
  <1>2. CASE LocalStep(a)
    BY <1>2 DEF LocalStep, Prepare, PrepareFails, ReadRequest, Validate, Capture, CleanupOwnedKey
  <1>3. CASE ToolStep(a)
    BY <1>3 DEF ToolStep, NewSucceeds, NewFails, SubmitSucceeds, SubmitFails, AcceptSucceeds,
                AcceptFails
  <1>4. CASE Crash(a)
    BY <1>4 DEF Crash
  <1> QED BY <1>1, <1>2, <1>3, <1>4 DEF Enroll

\* A step of attempt a changes the keys in two ways only: -new generates its key
\* in its empty container, and its clean-up empties its container.
LEMMA KeysOfStep ==
    ASSUME TypeInv, NEW a \in Attempts, Enroll(a) \/ Crash(a)
    PROVE  \/ keys' = keys
           \/ /\ pc[a] = "new"
              /\ pc'[a] \in {"readRequest", "done"}
              /\ container[a] \in Containers
              /\ keys[container[a]] = NoKey
              /\ keys' = [keys EXCEPT ![container[a]] = a]
           \/ /\ pc[a] = "cleanup"
              /\ pc'[a] = "done"
              /\ container[a] \in Containers
              /\ keys[container[a]] # NoKey
              /\ keys' = [keys EXCEPT ![container[a]] = NoKey]
              /\ result'[a].keyState = "removed"
  <1> USE DEF TypeInv, EnrollTypeOK, Goto, Return
  <1>1. CASE Start(a)
    BY <1>1 DEF Start, NotConfigured, AllocateContainer, ContainerFails
  <1>2. CASE LocalStep(a)
    <2>1. CASE CleanupOwnedKey(a)
      <3>1. PICK outcome \in DeleteOutcomes :
              /\ DeleteCNGKey(ExpectedCNGProvider, container[a], outcome)
              /\ Return(a, [result[a] EXCEPT
                    !.keyState = KeyStateAfter(outcome),
                    !.keyCleanupErr = IF outcome = "deleted" THEN "nil" ELSE outcome])
        BY <2>1 DEF CleanupOwnedKey
      <3>2. pc[a] = "cleanup" /\ pc'[a] = "done" /\ container[a] \in Containers
        BY <2>1, <3>1 DEF CleanupOwnedKey, ChoicesMade, Running, LocalSteps
      <3>3. result'[a].keyState = KeyStateAfter(outcome)
        <4>1. result' = [result EXCEPT ![a] = [result[a] EXCEPT
                           !.keyState = KeyStateAfter(outcome),
                           !.keyCleanupErr = IF outcome = "deleted" THEN "nil" ELSE outcome]]
          BY <3>1
        <4>2. result[a] \in Result
          OBVIOUS
        <4> QED BY <4>1, <4>2 DEF Result
      <3>4. DeleteCNGKey(ExpectedCNGProvider, container[a], outcome)
        BY <3>1
      <3>5. outcome = "deleted" \/ keys' = keys
        BY <3>4 DEF DeleteCNGKey
      <3>6. CASE outcome = "deleted"
        BY <3>2, <3>4, <3>6, <3>3 DEF DeleteCNGKey, KeyStateAfter
      <3> QED BY <3>5, <3>6
    <2>2. CASE ~CleanupOwnedKey(a)
      BY <1>2, <2>2 DEF LocalStep, Prepare, PrepareFails, ReadRequest, Validate, Capture
    <2> QED BY <2>1, <2>2
  <1>3. CASE ToolStep(a)
    BY <1>3 DEF ToolStep, NewSucceeds, NewFails, SubmitSucceeds, SubmitFails, AcceptSucceeds,
                AcceptFails, BuildRequestINF, NewCanUse, NewKey, ChoicesMade, Running, ToolSteps
  <1>4. CASE Crash(a)
    BY <1>4 DEF Crash
  <1> QED BY <1>1, <1>2, <1>3, <1>4 DEF Enroll

\* A step of attempt a changes the store only when -accept installs its leaf,
\* and a failure after that is not "unavailable".
LEMMA StoreOfStep ==
    ASSUME TypeInv, NEW a \in Attempts, Enroll(a) \/ Crash(a)
    PROVE  \/ store' = store
           \/ /\ pc[a] = "accept"
              /\ \/ pc'[a] = "capture"
                 \/ pc'[a] = "cleanup" /\ result'[a].status = "enrollment-failed"
              /\ \E kpi \in KeyProvInfo : store' = [store EXCEPT ![issued[a].leaf] = kpi]
  <1> USE DEF TypeInv, EnrollTypeOK, Goto, Return
  <1>1. CASE Start(a)
    BY <1>1 DEF Start, NotConfigured, AllocateContainer, ContainerFails
  <1>2. CASE LocalStep(a)
    BY <1>2 DEF LocalStep, Prepare, PrepareFails, ReadRequest, Validate, Capture, CleanupOwnedKey
  <1>3. CASE ToolStep(a)
    <2>1. CASE AcceptFails(a)
      <3>1. PICK failure \in ToolFailures :
              /\ UNCHANGED store \/ (MayHaveActed(failure) /\ Install(a))
              /\ FinishOwnedFailure(a, ClassifyToolError("accept", failure))
        BY <2>1 DEF AcceptFails
      <3>2. CASE UNCHANGED store
        BY <3>2
      <3>3. CASE MayHaveActed(failure) /\ Install(a)
        <4>1. ClassifyToolError("accept", failure) = "enrollment-failed"
          BY <3>3 DEF MayHaveActed, ClassifyToolError
        <4>2. pc'[a] = "cleanup" /\ result'[a].status = "enrollment-failed"
          BY <3>1, <4>1, NoResultType DEF FinishOwnedFailure, Result
        <4> QED BY <2>1, <3>3, <4>2 DEF AcceptFails, Install
      <3> QED BY <3>1, <3>2, <3>3
    <2>2. CASE AcceptSucceeds(a)
      BY <2>2 DEF AcceptSucceeds, Install
    <2> QED BY <1>3, <2>1, <2>2 DEF ToolStep, NewSucceeds, NewFails, SubmitSucceeds, SubmitFails
  <1>4. CASE Crash(a)
    BY <1>4 DEF Crash
  <1> QED BY <1>1, <1>2, <1>3, <1>4 DEF Enroll

\* Where an attempt that reaches a step comes from.
LEMMA ControlOfStep ==
    ASSUME TypeInv, NEW a \in Attempts, Enroll(a) \/ Crash(a)
    PROVE  /\ pc[a] \notin {"done", "crashed"}
           /\ pc'[a] # "idle"
           /\ pc'[a] = "crashed" => pc[a] # "idle"
           /\ pc'[a] = "prepare" => pc[a] = "idle" /\ container'[a] \in Containers
           /\ pc'[a] = "new" => pc[a] = "prepare"
           /\ pc'[a] = "readRequest" =>
                 pc[a] = "new" /\ keys'[container[a]] = a /\ request'[a] = a
           /\ pc'[a] = "submit" => pc[a] = "readRequest"
           /\ pc'[a] = "validate" => pc[a] = "submit" /\ issued'[a] \in Material
           /\ pc'[a] = "accept" =>
                 pc[a] = "validate" /\ MaterialStatus(issued[a], request[a]) = "success"
           /\ pc'[a] = "capture" => pc[a] = "accept"
           /\ pc'[a] = "cleanup" => pc[a] \in {"readRequest", "submit", "validate", "accept"}
  <1> USE DEF TypeInv, EnrollTypeOK, Goto, Return, FinishOwnedFailure
  <1>1. CASE Start(a)
    BY <1>1 DEF Start, NotConfigured, AllocateContainer, ContainerFails
  <1>2. CASE LocalStep(a)
    BY <1>2 DEF LocalStep, Prepare, PrepareFails, ReadRequest, Validate, Capture, CleanupOwnedKey
  <1>3. CASE ToolStep(a)
    <2>1. CASE NewSucceeds(a)
      BY <2>1 DEF NewSucceeds, BuildRequestINF, NewCanUse, NewKey, ChoicesMade, Running, ToolSteps,
                  MachineTypeOK
    <2> QED BY <1>3, <2>1 DEF ToolStep, NewFails, SubmitSucceeds, SubmitFails, AcceptSucceeds,
                              AcceptFails
  <1>4. CASE Crash(a)
    BY <1>4 DEF Crash, Running, ToolSteps, LocalSteps
  <1> QED BY <1>1, <1>2, <1>3, <1>4 DEF Enroll

\* What a step records in the Result: nothing before the end, the failure when
\* the key clean-up is entered, and on return one of four kinds of Result.
LEMMA ResultOfStep ==
    ASSUME TypeInv, NEW a \in Attempts, Enroll(a) \/ Crash(a)
    PROVE  /\ pc'[a] \notin {"cleanup", "done"} => result'[a] = result[a]
           /\ pc'[a] = "cleanup" =>
                 /\ result'[a].keyContainer = container[a]
                 /\ result'[a].status \in {"unavailable", "enrollment-failed", "invalid-certificate"}
                 /\ result'[a].cleanup = NoInfo
           /\ pc'[a] = "done" =>
                 \/ /\ pc[a] \in {"idle", "prepare"}
                    /\ result'[a].status \in {"not-configured", "enrollment-failed"}
                    /\ result'[a].keyState = "none"
                    /\ result'[a].cleanup = NoInfo
                 \/ /\ pc[a] = "new"
                    /\ result'[a].keyContainer = container[a]
                    /\ result'[a].keyState = "unproven"
                    /\ result'[a].status \in {"unavailable", "enrollment-failed"}
                    /\ result'[a].cleanup = NoInfo
                 \/ /\ pc[a] = "cleanup"
                    /\ result'[a].keyContainer = result[a].keyContainer
                    /\ result'[a].status = result[a].status
                    /\ result'[a].cleanup = result[a].cleanup
                    /\ \/ result'[a].keyState = "present" /\ keys' = keys
                       \/ /\ result'[a].keyState = "removed"
                          /\ keys' = [keys EXCEPT ![container[a]] = NoKey]
                 \/ /\ pc[a] = "capture"
                    /\ result'[a].keyContainer = container[a]
                    /\ \/ /\ result'[a].status = "enrollment-incomplete"
                          /\ result'[a].keyState = "present"
                          /\ result'[a].cleanup = RetryCleanup(issued[a].leaf, container[a])
                       \/ /\ result'[a].status = "success"
                          /\ result'[a].keyState = "none"
                          /\ result'[a].cleanup # NoInfo
                          /\ \E f \in BOOLEAN : result'[a].cleanup =
                                CaptureCleanupInfo(issued[a].leaf, container[a], f)
  <1> USE DEF TypeInv, EnrollTypeOK, Goto, Return, FinishOwnedFailure
  <1>1. CASE Start(a)
    BY <1>1 DEF Start, NotConfigured, AllocateContainer, ContainerFails, NoResult
  <1>2. CASE LocalStep(a)
    <2>1. CASE Prepare(a) \/ PrepareFails(a)
      BY <2>1 DEF Prepare, PrepareFails, NoResult
    <2>2. CASE ReadRequest(a)
      BY <2>2 DEF ReadRequest, NoResult
    <2>3. CASE Validate(a)
      <3> DEFINE status == MaterialStatus(issued[a], request[a])
      <3>1. pc[a] = "validate" /\ status \in {"enrollment-failed", "invalid-certificate", "success"}
        BY <2>3, MaterialStatusType DEF Validate
      <3>2. \/ Goto(a, "accept") /\ UNCHANGED result
            \/ status # "success" /\ FinishOwnedFailure(a, status)
        BY <2>3 DEF Validate
      <3> HIDE DEF status
      <3> QED BY <3>1, <3>2 DEF NoResult
    <2>4. CASE Capture(a)
      <3>1. PICK f \in BOOLEAN :
              LET l == issued[a].leaf
                  info == CaptureCleanupInfo(l, container[a], f)
                  returned == [NoResult EXCEPT !.keyContainer = container[a], !.certificate = l]
              IN \/ /\ info # NoInfo
                    /\ Return(a, [returned EXCEPT !.status = "success", !.cleanup = info])
                 \/ /\ info = NoInfo
                    /\ Return(a, [returned EXCEPT !.status = "enrollment-incomplete",
                                                  !.keyState = "present",
                                                  !.cleanup = RetryCleanup(l, container[a])])
        BY <2>4 DEF Capture
      <3> DEFINE l == issued[a].leaf
                 info == CaptureCleanupInfo(l, container[a], f)
                 retry == RetryCleanup(l, container[a])
                 returned == [NoResult EXCEPT !.keyContainer = container[a], !.certificate = l]
      <3>2. pc[a] = "capture"
        BY <2>4 DEF Capture
      <3>3. \/ info # NoInfo /\ Return(a, [returned EXCEPT !.status = "success", !.cleanup = info])
            \/ Return(a, [returned EXCEPT !.status = "enrollment-incomplete",
                                          !.keyState = "present", !.cleanup = retry])
        BY <3>1
      <3>4. /\ info = CaptureCleanupInfo(issued[a].leaf, container[a], f)
            /\ retry = RetryCleanup(issued[a].leaf, container[a])
        OBVIOUS
      <3> HIDE DEF info, retry
      <3>5. pc'[a] = "done"
        BY <3>3
      <3>6. CASE info # NoInfo /\ Return(a, [returned EXCEPT !.status = "success", !.cleanup = info])
        <4>1. result'[a] = [returned EXCEPT !.status = "success", !.cleanup = info]
          BY <3>6
        <4>2. /\ result'[a].keyContainer = container[a]
              /\ result'[a].status = "success"
              /\ result'[a].keyState = "none"
              /\ result'[a].cleanup = info
          BY <4>1 DEF NoResult
        <4> QED BY <3>2, <3>4, <3>5, <3>6, <4>2
      <3>7. CASE Return(a, [returned EXCEPT !.status = "enrollment-incomplete",
                                            !.keyState = "present", !.cleanup = retry])
        <4>1. result'[a] = [returned EXCEPT !.status = "enrollment-incomplete",
                                            !.keyState = "present", !.cleanup = retry]
          BY <3>7
        <4>2. /\ result'[a].keyContainer = container[a]
              /\ result'[a].status = "enrollment-incomplete"
              /\ result'[a].keyState = "present"
              /\ result'[a].cleanup = retry
          BY <4>1 DEF NoResult
        <4> QED BY <3>2, <3>4, <3>5, <4>2
      <3> QED BY <3>3, <3>6, <3>7
    <2>5. CASE CleanupOwnedKey(a)
      <3>1. PICK outcome \in DeleteOutcomes :
              /\ DeleteCNGKey(ExpectedCNGProvider, container[a], outcome)
              /\ Return(a, [result[a] EXCEPT
                    !.keyState = KeyStateAfter(outcome),
                    !.keyCleanupErr = IF outcome = "deleted" THEN "nil" ELSE outcome])
        BY <2>5 DEF CleanupOwnedKey
      <3>2. pc[a] = "cleanup" /\ pc'[a] = "done"
        BY <2>5, <3>1 DEF CleanupOwnedKey
      <3>3. /\ result'[a].keyState = KeyStateAfter(outcome)
            /\ result'[a].keyContainer = result[a].keyContainer
            /\ result'[a].status = result[a].status
            /\ result'[a].cleanup = result[a].cleanup
        <4>1. result' = [result EXCEPT ![a] = [result[a] EXCEPT
                           !.keyState = KeyStateAfter(outcome),
                           !.keyCleanupErr = IF outcome = "deleted" THEN "nil" ELSE outcome]]
          BY <3>1
        <4>2. result[a] \in Result
          OBVIOUS
        <4> QED BY <4>1, <4>2 DEF Result
      <3>4. DeleteCNGKey(ExpectedCNGProvider, container[a], outcome)
        BY <3>1
      <3>5. \/ KeyStateAfter(outcome) = "present" /\ keys' = keys
            \/ KeyStateAfter(outcome) = "removed" /\ keys' = [keys EXCEPT ![container[a]] = NoKey]
        BY <3>4 DEF DeleteCNGKey, KeyStateAfter
      <3> QED BY <3>2, <3>3, <3>5
    <2> QED BY <1>2, <2>1, <2>2, <2>3, <2>4, <2>5 DEF LocalStep
  <1>3. CASE ToolStep(a)
    <2>1. CASE NewSucceeds(a) \/ SubmitSucceeds(a) \/ AcceptSucceeds(a)
      BY <2>1 DEF NewSucceeds, SubmitSucceeds, AcceptSucceeds
    <2>2. CASE NewFails(a)
      BY <2>2, ClassifyType DEF NewFails, NoResult
    <2>3. CASE SubmitFails(a)
      BY <2>3, ClassifyType DEF SubmitFails, NoResult
    <2>4. CASE AcceptFails(a)
      BY <2>4, ClassifyType DEF AcceptFails, NoResult
    <2> QED BY <1>3, <2>1, <2>2, <2>3, <2>4 DEF ToolStep
  <1>4. CASE Crash(a)
    BY <1>4 DEF Crash
  <1> QED BY <1>1, <1>2, <1>3, <1>4 DEF Enroll

-----------------------------------------------------------------------------
(* The inductive invariant *)

\* The part that a composition with uninstalls keeps, and all of it.
CoreInv == EnrollTypeOK /\ OwnershipInv

IInv == CoreInv /\ KeyAccounting /\ SuccessIsUsable

LEMMA InitIInv == Init => IInv
  <1> SUFFICES ASSUME Init PROVE IInv
    OBVIOUS
  <1>1. EnrollTypeOK /\ ChoicesMade
    BY InitTypeInv DEF TypeInv
  <1>2. \A a \in Attempts : pc[a] = "idle"
    BY DEF Init, EnrollInit
  <1>3. \A a \in Attempts, c \in Containers : keys[c] # a
    BY SentinelAssumption DEF Init, MachineInit, Owners
  <1>4. \A l \in Leaves : ~Installed(l)
    BY DEF Init, MachineInit, Installed
  <1> QED BY <1>1, <1>2, <1>3, <1>4
          DEF IInv, CoreInv, OwnershipInv, KeyOrigin, KeyHeld, AcceptVetted, FailureRecorded, LeafOrigin,
              SuccessRecorded, KeyAccounting, SuccessIsUsable, Returned, Holding

LEMMA ChoicesStep == TypeInv /\ [EnrollNext]_vars => ChoicesMade'
  <1> SUFFICES ASSUME TypeInv, [EnrollNext]_vars PROVE ChoicesMade'
    OBVIOUS
  <1>1. ASSUME NEW a \in Attempts, Enroll(a) \/ Crash(a) PROVE ChoicesMade'
    <2> SUFFICES ASSUME NEW b \in Attempts
                 PROVE  /\ pc'[b] \in Running => container'[b] \in Containers
                        /\ pc'[b] \in {"validate", "accept", "capture"} => issued'[b] \in Material
      BY DEF ChoicesMade
    <2>1. CASE b = a
      BY <1>1, <2>1, ControlOfStep, ChoicesStable
      DEF TypeInv, ChoicesMade, Running, ToolSteps, LocalSteps
    <2>2. CASE b # a
      BY <1>1, <2>2, OthersUnchanged DEF TypeInv, ChoicesMade
    <2> QED BY <2>1, <2>2
  <1>2. ASSUME UNCHANGED enrollVars PROVE ChoicesMade'
    BY <1>2 DEF enrollVars, TypeInv, ChoicesMade
  <1> QED BY <1>1, <1>2 DEF EnrollNext, vars, enrollVars

\* The keys of the attempts stay where they were generated.
LEMMA KeysInvStep == CoreInv /\ [EnrollNext]_vars => (KeyOrigin /\ KeyHeld)'
  <1> SUFFICES ASSUME CoreInv, [EnrollNext]_vars PROVE KeyOrigin' /\ KeyHeld'
    OBVIOUS
  <1>0. TypeInv /\ KeyOrigin /\ KeyHeld
    BY DEF CoreInv, OwnershipInv, TypeInv
  <1>1. ASSUME NEW a \in Attempts, Enroll(a) \/ Crash(a) PROVE KeyOrigin' /\ KeyHeld'
    <2>1. KeyOrigin'
      <3> SUFFICES ASSUME NEW b \in Attempts, NEW c \in Containers, keys'[c] = b
                   PROVE  container'[b] = c /\ pc'[b] \in Holding \cup {"done", "crashed"}
        BY DEF KeyOrigin
      <3>1. keys[c] = b \/ (b = a /\ pc[a] = "new" /\ container[a] = c /\ pc'[a] \in {"readRequest", "done"})
        BY <1>0, <1>1, KeysOfStep, SentinelAssumption
        DEF TypeInv, EnrollTypeOK, MachineTypeOK, Owners
      <3>2. CASE keys[c] = b /\ b = a
        <4>1. pc'[a] \in Steps
          BY <1>0, StepTyped DEF EnrollTypeOK
        <4> QED BY <1>0, <1>1, <3>2, <4>1, ControlOfStep, ChoicesStable
                DEF KeyOrigin, Holding, Steps, Running, ToolSteps, LocalSteps
      <3>3. CASE keys[c] = b /\ b # a
        BY <1>0, <1>1, <3>3, OthersUnchanged DEF KeyOrigin
      <3>4. CASE keys[c] # b
        BY <1>0, <1>1, <3>1, <3>4, ChoicesStable DEF Holding
      <3> QED BY <3>2, <3>3, <3>4
    <2>2. KeyHeld'
      <3> SUFFICES ASSUME NEW b \in Attempts
                   PROVE  /\ pc'[b] \in Holding => keys'[container'[b]] = b
                          /\ pc'[b] \in Holding \ {"cleanup"} => request'[b] = b
        BY DEF KeyHeld
      <3>1. CASE b = a
        BY <1>0, <1>1, <3>1, ControlOfStep, ChoicesStable, KeysOfStep DEF KeyHeld, Holding
      <3>2. CASE b # a
        <4>1. ASSUME pc[b] \in Holding PROVE keys'[container[b]] = b
          <5>1. container[b] \in Containers /\ keys[container[b]] = b
            BY <1>0, <4>1 DEF KeyHeld, TypeInv, ChoicesMade, Holding, Running, ToolSteps, LocalSteps
          <5>2. pc[a] = "cleanup" => keys[container[a]] = a
            BY <1>0 DEF KeyHeld, Holding
          <5>3. b # NoKey
            BY SentinelAssumption DEF Owners
          <5> QED BY <1>0, <1>1, <3>2, <5>1, <5>2, <5>3, KeysOfStep
                  DEF TypeInv, EnrollTypeOK, MachineTypeOK
        <4> QED BY <1>0, <1>1, <3>2, <4>1, OthersUnchanged DEF KeyHeld
      <3> QED BY <3>1, <3>2
    <2> QED BY <2>1, <2>2
  <1>2. ASSUME Environment, UNCHANGED enrollVars PROVE KeyOrigin' /\ KeyHeld'
    <2>1. \A c \in Containers, b \in Attempts : keys'[c] = b <=> keys[c] = b
      BY <1>0, <1>2, SentinelAssumption
      DEF Environment, ForeignKeyAppears, AdminRemovesLeaf, TypeInv, EnrollTypeOK, MachineTypeOK, Owners
    <2>2. \A b \in Attempts : pc[b] \in Holding => container[b] \in Containers
      BY <1>0 DEF TypeInv, ChoicesMade, Holding, Running, ToolSteps, LocalSteps
    <2> QED BY <1>0, <1>2, <2>1, <2>2 DEF enrollVars, KeyOrigin, KeyHeld
  <1>3. ASSUME UNCHANGED vars PROVE KeyOrigin' /\ KeyHeld'
    BY <1>0, <1>3 DEF vars, KeyOrigin, KeyHeld
  <1> QED BY <1>1, <1>2, <1>3 DEF EnrollNext

\* Only vetted material reaches -accept, and a vetted attempt keeps its material.
LEMMA VettedStep == CoreInv /\ [EnrollNext]_vars => AcceptVetted'
  <1> SUFFICES ASSUME CoreInv, [EnrollNext]_vars PROVE AcceptVetted'
    OBVIOUS
  <1>0. TypeInv /\ AcceptVetted /\ KeyHeld
    BY DEF CoreInv, OwnershipInv, TypeInv
  <1>1. ASSUME NEW a \in Attempts, Enroll(a) \/ Crash(a) PROVE AcceptVetted'
    <2> SUFFICES ASSUME NEW b \in Attempts, pc'[b] \in {"accept", "capture"} PROVE Vetted(b)'
      BY DEF AcceptVetted
    <2>1. CASE b = a /\ pc'[a] = "accept"
      <3>1. /\ pc[a] = "validate" /\ issued'[a] = issued[a]
            /\ MaterialStatus(issued[a], request[a]) = "success"
        BY <1>0, <1>1, <2>1, ControlOfStep, ChoicesStable
      <3>2. request[a] = a /\ issued[a] \in Material
        BY <1>0, <3>1 DEF KeyHeld, Holding, TypeInv, ChoicesMade
      <3> QED BY <2>1, <3>1, <3>2 DEF Vetted
    <2>2. CASE b = a /\ pc'[a] = "capture"
      <3>1. pc[a] = "accept" /\ issued'[a] = issued[a]
        BY <1>0, <1>1, <2>2, ControlOfStep, ChoicesStable
      <3> QED BY <1>0, <2>2, <3>1 DEF AcceptVetted, Vetted
    <2>3. CASE b # a
      BY <1>0, <1>1, <2>3, OthersUnchanged DEF AcceptVetted, Vetted
    <2> QED BY <2>1, <2>2, <2>3
  <1>2. ASSUME UNCHANGED enrollVars PROVE AcceptVetted'
    BY <1>0, <1>2 DEF enrollVars, AcceptVetted, Vetted
  <1> QED BY <1>1, <1>2 DEF EnrollNext, vars, enrollVars

LEMMA FailureStep == CoreInv /\ [EnrollNext]_vars => FailureRecorded'
  <1> SUFFICES ASSUME CoreInv, [EnrollNext]_vars PROVE FailureRecorded'
    OBVIOUS
  <1>0. TypeInv /\ FailureRecorded
    BY DEF CoreInv, OwnershipInv, TypeInv
  <1>1. ASSUME NEW a \in Attempts, Enroll(a) \/ Crash(a) PROVE FailureRecorded'
    <2> SUFFICES ASSUME NEW b \in Attempts, pc'[b] = "cleanup"
                 PROVE  /\ result'[b].keyContainer = container'[b]
                        /\ result'[b].status \in {"unavailable", "enrollment-failed", "invalid-certificate"}
                        /\ result'[b].cleanup = NoInfo
      BY DEF FailureRecorded
    <2>1. CASE b = a
      BY <1>0, <1>1, <2>1, ResultOfStep, ControlOfStep, ChoicesStable
    <2>2. CASE b # a
      BY <1>0, <1>1, <2>2, OthersUnchanged DEF FailureRecorded
    <2> QED BY <2>1, <2>2
  <1>2. ASSUME UNCHANGED enrollVars PROVE FailureRecorded'
    BY <1>0, <1>2 DEF enrollVars, FailureRecorded
  <1> QED BY <1>1, <1>2 DEF EnrollNext, vars, enrollVars

\* Material that passes the checks for the key of a is a certificate of that key.
LEMMA VettedKey ==
    ASSUME NEW a \in Attempts, Vetted(a)
    PROVE  issued[a].leaf \in Leaves /\ Contents[issued[a].leaf].publicKey = a
  <1> DEFINE m == issued[a]
             intermediates == IF m.chainFile = "read" THEN m.chain ELSE {}
  <1>1. m \in MaterialType /\ m.leaf \in Leaves
    BY MaterialAssumption DEF Vetted, MaterialType
  <1>2. ValidateCertificate(Contents[m.leaf], a, intermediates)
    BY DEF Vetted, MaterialStatus
  <1>3. a # NoPublicKey
    BY AttemptAssumption, ValidateOptionsAssumption DEF Owners
  <1> QED BY <1>1, <1>2, <1>3 DEF ValidateCertificate, PublicKeysEqual

\* An installed leaf always has the attempt that vetted and installed it.
LEMMA LeafOriginStep == CoreInv /\ [EnrollNext]_vars => LeafOrigin'
  <1> SUFFICES ASSUME CoreInv, [EnrollNext]_vars PROVE LeafOrigin'
    OBVIOUS
  <1>0. TypeInv /\ LeafOrigin /\ AcceptVetted
    BY DEF CoreInv, OwnershipInv, TypeInv
  <1> DEFINE Origin(l, a) == /\ Vetted(a)
                             /\ issued[a].leaf = l
                             /\ \/ pc[a] \in {"capture", "crashed"}
                                \/ pc[a] \in {"cleanup", "done"} /\ result[a].status \in MayLeaveLeaf
  <1>1. ASSUME NEW a \in Attempts, Enroll(a) \/ Crash(a) PROVE LeafOrigin'
    <2>1. ASSUME NEW b \in Attempts, NEW l \in Leaves, Origin(l, b) PROVE Origin(l, b)'
      <3>1. CASE b = a
        <4>1. pc[a] \in {"capture", "cleanup"} /\ issued'[a] = issued[a]
          BY <1>0, <1>1, <2>1, <3>1, ControlOfStep, ChoicesStable
        <4>2. pc'[a] \in {"crashed", "done"}
          <5>1. pc'[a] \in Steps
            BY <1>0, StepTyped DEF EnrollTypeOK
          <5> QED BY <1>0, <1>1, <4>1, <5>1, ControlOfStep
                  DEF Steps, Running, ToolSteps, LocalSteps
        <4>3. pc'[a] = "done" => result'[a].status \in MayLeaveLeaf
          BY <1>0, <1>1, <2>1, <3>1, <4>1, ResultOfStep DEF MayLeaveLeaf
        <4> QED BY <2>1, <3>1, <4>1, <4>2, <4>3 DEF Vetted
      <3>2. CASE b # a
        BY <1>0, <1>1, <2>1, <3>2, OthersUnchanged DEF Vetted
      <3> QED BY <3>1, <3>2
    <2>2. CASE store' = store
      <3> SUFFICES ASSUME NEW l \in Leaves, Installed(l) PROVE \E b \in Attempts : Origin(l, b)'
        BY <2>2 DEF LeafOrigin, Installed
      <3> QED BY <1>0, <2>1 DEF LeafOrigin
    <2>3. CASE store' # store
      <3>1. /\ pc[a] = "accept"
            /\ pc'[a] = "capture" \/ (pc'[a] = "cleanup" /\ result'[a].status = "enrollment-failed")
            /\ \A l \in Leaves : l # issued[a].leaf => store'[l] = store[l]
        BY <1>0, <1>1, <2>3, StoreOfStep DEF TypeInv, EnrollTypeOK, MachineTypeOK
      <3>2. Vetted(a) /\ issued'[a] = issued[a]
        BY <1>0, <1>1, <3>1, ChoicesStable DEF AcceptVetted
      <3>3. Origin(issued[a].leaf, a)'
        BY <3>1, <3>2 DEF Vetted, MayLeaveLeaf
      <3> SUFFICES ASSUME NEW l \in Leaves, Installed(l)' PROVE \E b \in Attempts : Origin(l, b)'
        BY DEF LeafOrigin
      <3>4. CASE l = issued[a].leaf
        BY <3>2, <3>3, <3>4
      <3>5. CASE l # issued[a].leaf
        BY <1>0, <2>1, <3>1, <3>5 DEF LeafOrigin, Installed
      <3> QED BY <3>4, <3>5
    <2> QED BY <2>2, <2>3
  <1>2. ASSUME Environment, UNCHANGED enrollVars PROVE LeafOrigin'
    <2>1. \A l \in Leaves : Installed(l)' => Installed(l)
      BY <1>0, <1>2 DEF Environment, ForeignKeyAppears, AdminRemovesLeaf, Installed, TypeInv,
                        EnrollTypeOK, MachineTypeOK
    <2> QED BY <1>0, <1>2, <2>1 DEF enrollVars, LeafOrigin, Vetted
  <1>3. ASSUME UNCHANGED vars PROVE LeafOrigin'
    BY <1>0, <1>3 DEF vars, LeafOrigin, Vetted, Installed
  <1> QED BY <1>1, <1>2, <1>3 DEF EnrollNext

\* Captured metadata names the leaf and records its association, which is that
\* of the expected container under the expected provider.
LEMMA CaptureExact ==
    ASSUME MachineTypeOK, NEW l \in Leaves, NEW c \in Containers, NEW f \in BOOLEAN,
           NEW info, info = CaptureCleanupInfo(l, c, f), info # NoInfo
    PROVE  /\ info \in CleanupInfo
           /\ info.leafSHA256 = l /\ info.identity = l
           /\ info.provider = ExpectedCNGProvider /\ info.containerName = c
           /\ store[l] = [provider |-> ExpectedCNGProvider, containerName |-> c,
                          providerType |-> info.providerType, keySpec |-> info.keySpec]
  <1>1. info \in CleanupInfo
    BY CaptureType
  <1>2. store[l] \in KeyProvInfo /\ store[l].provider = ExpectedCNGProvider /\ store[l].containerName = c
    BY DEF CaptureCleanupInfo, Installed, MachineTypeOK
  <1>3. info = [CleanupInfoForCert(l) EXCEPT !.provider = store[l].provider,
                                             !.containerName = store[l].containerName,
                                             !.providerType = store[l].providerType,
                                             !.keySpec = store[l].keySpec]
    BY DEF CaptureCleanupInfo
  <1>4. /\ info.leafSHA256 = l /\ info.identity = l
        /\ info.provider = store[l].provider /\ info.containerName = store[l].containerName
        /\ info.providerType = store[l].providerType /\ info.keySpec = store[l].keySpec
    BY <1>3 DEF CleanupInfoForCert
  <1> QED BY <1>1, <1>2, <1>4 DEF KeyProvInfo

\* The step in which an attempt returns a success.
LEMMA SuccessOfCapture ==
    ASSUME CoreInv, NEW a \in Attempts, Enroll(a) \/ Crash(a), Returned(a, "success")'
    PROVE  LET r == result'[a] IN
           /\ keys' = keys /\ store' = store
           /\ container[a] \in Containers /\ keys[container[a]] = a
           /\ r.keyContainer = container[a]
           /\ r.cleanup \in CleanupInfo
           /\ r.cleanup.leafSHA256 \in Leaves
           /\ r.cleanup.leafSHA256 = issued[a].leaf /\ r.cleanup.identity = issued[a].leaf
           /\ r.cleanup.provider = ExpectedCNGProvider /\ r.cleanup.containerName = container[a]
           /\ Contents[r.cleanup.leafSHA256].publicKey = a
           /\ store[r.cleanup.leafSHA256] =
                 [provider |-> ExpectedCNGProvider, containerName |-> container[a],
                  providerType |-> r.cleanup.providerType, keySpec |-> r.cleanup.keySpec]
  <1>0. TypeInv /\ KeyHeld /\ AcceptVetted /\ FailureRecorded /\ MachineTypeOK
    BY DEF CoreInv, OwnershipInv, TypeInv, EnrollTypeOK
  <1>1. pc'[a] = "done" /\ result'[a].status = "success"
    BY DEF Returned
  <1>2. /\ pc[a] = "capture"
        /\ result'[a].keyContainer = container[a]
        /\ result'[a].cleanup # NoInfo
        /\ \E f \in BOOLEAN :
              result'[a].cleanup = CaptureCleanupInfo(issued[a].leaf, container[a], f)
    BY <1>0, <1>1, ResultOfStep DEF FailureRecorded
  <1>3. keys' = keys /\ store' = store
    BY <1>0, <1>2, KeysOfStep, StoreOfStep
  <1>4. container[a] \in Containers /\ keys[container[a]] = a
    BY <1>0, <1>2 DEF TypeInv, ChoicesMade, Running, LocalSteps, KeyHeld, Holding
  <1>5. Vetted(a)
    BY <1>0, <1>2 DEF AcceptVetted
  <1>6. issued[a].leaf \in Leaves /\ Contents[issued[a].leaf].publicKey = a
    BY <1>5, VettedKey
  <1>7. PICK f \in BOOLEAN :
          result'[a].cleanup = CaptureCleanupInfo(issued[a].leaf, container[a], f)
    BY <1>2
  <1>8. /\ result'[a].cleanup \in CleanupInfo
        /\ result'[a].cleanup.leafSHA256 = issued[a].leaf
        /\ result'[a].cleanup.identity = issued[a].leaf
        /\ result'[a].cleanup.provider = ExpectedCNGProvider
        /\ result'[a].cleanup.containerName = container[a]
        /\ store[issued[a].leaf] =
              [provider |-> ExpectedCNGProvider, containerName |-> container[a],
               providerType |-> result'[a].cleanup.providerType,
               keySpec |-> result'[a].cleanup.keySpec]
    BY <1>0, <1>2, <1>4, <1>6, <1>7, CaptureExact
  <1> QED BY <1>2, <1>3, <1>4, <1>6, <1>8

LEMMA RecordedStep == CoreInv /\ [EnrollNext]_vars => SuccessRecorded'
  <1> SUFFICES ASSUME CoreInv, [EnrollNext]_vars, NEW b \in Attempts, Returned(b, "success")'
               PROVE  /\ result'[b].keyContainer \in Containers
                      /\ result'[b].cleanup \in CleanupInfo
                      /\ result'[b].cleanup.leafSHA256 \in Leaves
    BY DEF SuccessRecorded
  <1>0. TypeInv /\ SuccessRecorded
    BY DEF CoreInv, OwnershipInv, TypeInv
  <1>1. ASSUME NEW a \in Attempts, Enroll(a) \/ Crash(a), b = a
        PROVE  /\ result'[b].keyContainer \in Containers
               /\ result'[b].cleanup \in CleanupInfo
               /\ result'[b].cleanup.leafSHA256 \in Leaves
    BY <1>1, SuccessOfCapture
  <1>2. ASSUME NEW a \in Attempts, Enroll(a) \/ Crash(a), b # a
        PROVE  Returned(b, "success") /\ result'[b] = result[b]
    BY <1>0, <1>2, OthersUnchanged DEF Returned
  <1>3. ASSUME UNCHANGED enrollVars
        PROVE  Returned(b, "success") /\ result'[b] = result[b]
    BY <1>3 DEF enrollVars, Returned
  <1> QED BY <1>0, <1>1, <1>2, <1>3 DEF EnrollNext, vars, enrollVars, SuccessRecorded

LEMMA CoreStep == CoreInv /\ [EnrollNext]_vars => CoreInv'
  <1> SUFFICES ASSUME CoreInv, [EnrollNext]_vars PROVE CoreInv'
    OBVIOUS
  <1>1. TypeInv
    BY DEF CoreInv, OwnershipInv, TypeInv
  <1>2. EnrollTypeOK' /\ ChoicesMade'
    BY <1>1, StepTyped, ChoicesStep
  <1>3. KeyOrigin' /\ KeyHeld' /\ AcceptVetted' /\ FailureRecorded' /\ LeafOrigin'
    BY KeysInvStep, VettedStep, FailureStep, LeafOriginStep
  <1> QED BY <1>2, <1>3, RecordedStep DEF CoreInv, OwnershipInv

LEMMA SuccessStep == IInv /\ [EnrollNext]_vars => (SuccessRecorded /\ SuccessIsUsable)'
  <1> SUFFICES ASSUME IInv, [EnrollNext]_vars, NEW b \in Attempts, Returned(b, "success")'
               PROVE  LET r == result'[b] IN
                      /\ r.keyContainer \in Containers
                      /\ r.cleanup \in CleanupInfo
                      /\ r.cleanup.leafSHA256 \in Leaves
                      /\ keys'[r.keyContainer] = b
                      /\ Contents[r.cleanup.leafSHA256].publicKey = b
                      /\ store'[r.cleanup.leafSHA256] # NotInstalled =>
                            store'[r.cleanup.leafSHA256] =
                               [provider |-> ExpectedCNGProvider,
                                containerName |-> r.keyContainer,
                                providerType |-> r.cleanup.providerType,
                                keySpec |-> r.cleanup.keySpec]
    BY DEF SuccessRecorded, SuccessIsUsable, Installed, Returned
  <1> DEFINE info == result[b].cleanup
             c == result[b].keyContainer
  <1>0. TypeInv /\ KeyHeld /\ KeyOrigin /\ AcceptVetted /\ SuccessRecorded /\ SuccessIsUsable
    BY DEF IInv, CoreInv, OwnershipInv, TypeInv
  \* What held of b before the step when b had already returned.
  <1>1. ASSUME Returned(b, "success")
        PROVE  /\ c \in Containers /\ info \in CleanupInfo /\ info.leafSHA256 \in Leaves
               /\ keys[c] = b
               /\ Contents[info.leafSHA256].publicKey = b
               /\ store[info.leafSHA256] # NotInstalled =>
                     store[info.leafSHA256] =
                        [provider |-> ExpectedCNGProvider, containerName |-> c,
                         providerType |-> info.providerType, keySpec |-> info.keySpec]
    BY <1>0, <1>1 DEF SuccessRecorded, SuccessIsUsable, Installed
  <1>2. ASSUME NEW a \in Attempts, Enroll(a) \/ Crash(a), b = a
        PROVE  LET r == result'[b] IN
               /\ r.keyContainer \in Containers
               /\ r.cleanup \in CleanupInfo
               /\ r.cleanup.leafSHA256 \in Leaves
               /\ keys'[r.keyContainer] = b
               /\ Contents[r.cleanup.leafSHA256].publicKey = b
               /\ store'[r.cleanup.leafSHA256] =
                     [provider |-> ExpectedCNGProvider, containerName |-> r.keyContainer,
                      providerType |-> r.cleanup.providerType, keySpec |-> r.cleanup.keySpec]
    <2>1. Returned(a, "success")'
      BY <1>2
    <2>2. LET r == result'[a] IN
          /\ keys' = keys /\ store' = store
          /\ container[a] \in Containers /\ keys[container[a]] = a
          /\ r.keyContainer = container[a]
          /\ r.cleanup \in CleanupInfo
          /\ r.cleanup.leafSHA256 \in Leaves
          /\ Contents[r.cleanup.leafSHA256].publicKey = a
          /\ store[r.cleanup.leafSHA256] =
                [provider |-> ExpectedCNGProvider, containerName |-> container[a],
                 providerType |-> r.cleanup.providerType, keySpec |-> r.cleanup.keySpec]
      BY <1>2, <2>1, SuccessOfCapture DEF IInv
    <2> QED BY <1>2, <2>2
  <1>3. ASSUME NEW a \in Attempts, Enroll(a) \/ Crash(a), b # a
        PROVE  /\ Returned(b, "success") /\ result'[b] = result[b]
               /\ keys'[c] = b
               /\ store'[info.leafSHA256] = store[info.leafSHA256]
    <2>1. Returned(b, "success") /\ result'[b] = result[b]
      BY <1>0, <1>3, OthersUnchanged DEF Returned
    <2>2. keys'[c] = b
      <3>1. pc[a] = "cleanup" => keys[container[a]] = a
        BY <1>0 DEF KeyHeld, Holding
      <3>2. b # NoKey
        BY SentinelAssumption DEF Owners
      <3> QED BY <1>0, <1>1, <1>3, <2>1, <3>1, <3>2, KeysOfStep
              DEF TypeInv, EnrollTypeOK, MachineTypeOK
    <2>3. store'[info.leafSHA256] = store[info.leafSHA256]
      <3>1. pc[a] = "accept" => Contents[issued[a].leaf].publicKey = a
        BY <1>0, VettedKey DEF AcceptVetted
      <3> QED BY <1>0, <1>1, <1>3, <2>1, <3>1, StoreOfStep
              DEF TypeInv, EnrollTypeOK, MachineTypeOK
    <2> QED BY <2>1, <2>2, <2>3
  <1>4. ASSUME Environment, UNCHANGED enrollVars
        PROVE  /\ Returned(b, "success") /\ result'[b] = result[b]
               /\ keys'[c] = b
               /\ store'[info.leafSHA256] \in {store[info.leafSHA256], NotInstalled}
    <2>1. Returned(b, "success") /\ result'[b] = result[b]
      BY <1>4 DEF enrollVars, Returned
    <2>2. b # NoKey
      BY SentinelAssumption DEF Owners
    <2> QED BY <1>0, <1>1, <1>4, <2>1, <2>2
            DEF Environment, ForeignKeyAppears, AdminRemovesLeaf, TypeInv, EnrollTypeOK, MachineTypeOK
  <1>5. ASSUME UNCHANGED vars
        PROVE  /\ Returned(b, "success") /\ result'[b] = result[b]
               /\ keys' = keys /\ store' = store
    BY <1>5 DEF vars, Returned
  <1> QED BY <1>1, <1>2, <1>3, <1>4, <1>5 DEF EnrollNext

LEMMA AccountingStep == IInv /\ [EnrollNext]_vars => KeyAccounting'
  <1> SUFFICES ASSUME IInv, [EnrollNext]_vars, NEW b \in Attempts, NEW c \in Containers,
                      pc'[b] = "done", keys'[c] = b
               PROVE  /\ result'[b].keyContainer = c
                      /\ \/ result'[b].status = "success"
                         \/ result'[b].keyState \in {"present", "unproven"}
    BY DEF KeyAccounting
  <1>0. TypeInv /\ KeyOrigin /\ KeyHeld /\ KeyAccounting /\ FailureRecorded
    BY DEF IInv, CoreInv, OwnershipInv, TypeInv
  <1>1. b # NoKey /\ b # Foreign
    BY SentinelAssumption DEF Owners
  <1>2. ASSUME NEW a \in Attempts, Enroll(a) \/ Crash(a), b = a
        PROVE  /\ result'[b].keyContainer = c
               /\ \/ result'[b].status = "success"
                  \/ result'[b].keyState \in {"present", "unproven"}
    <2>1. CASE pc[a] \in {"idle", "prepare"}
      <3>1. keys' = keys
        BY <1>0, <1>2, <2>1, KeysOfStep
      <3> QED BY <1>0, <1>2, <2>1, <3>1 DEF KeyOrigin, Holding
    <2>2. CASE pc[a] = "new"
      <3>1. container[a] = c
        BY <1>0, <1>1, <1>2, <2>2, KeysOfStep DEF KeyOrigin, Holding, TypeInv, EnrollTypeOK, MachineTypeOK
      <3> QED BY <1>0, <1>2, <2>2, <3>1, ResultOfStep
    <2>3. CASE pc[a] \in {"cleanup", "capture"}
      <3>1. keys[c] = b
        BY <1>0, <1>1, <1>2, <2>3, KeysOfStep DEF TypeInv, EnrollTypeOK, MachineTypeOK
      <3>2. container[a] = c
        BY <1>0, <1>2, <3>1 DEF KeyOrigin
      <3>3. result'[a].keyContainer = c
        BY <1>0, <1>2, <2>3, <3>2, ResultOfStep DEF FailureRecorded
      <3>4. keys' # [keys EXCEPT ![container[a]] = NoKey]
        BY <1>0, <1>1, <3>2 DEF TypeInv, EnrollTypeOK, MachineTypeOK
      <3> QED BY <1>0, <1>2, <2>3, <3>3, <3>4, ResultOfStep
    <2> QED BY <1>0, <1>2, <2>1, <2>2, <2>3, ResultOfStep
  <1>3. ASSUME NEW a \in Attempts, Enroll(a) \/ Crash(a), b # a
        PROVE  pc[b] = "done" /\ keys[c] = b /\ result'[b] = result[b]
    BY <1>0, <1>1, <1>3, OthersUnchanged, KeysOfStep DEF TypeInv, EnrollTypeOK, MachineTypeOK
  <1>4. ASSUME Environment, UNCHANGED enrollVars
        PROVE  pc[b] = "done" /\ keys[c] = b /\ result'[b] = result[b]
    BY <1>0, <1>1, <1>4 DEF Environment, ForeignKeyAppears, AdminRemovesLeaf, enrollVars, TypeInv,
                            EnrollTypeOK, MachineTypeOK
  <1>5. ASSUME UNCHANGED vars
        PROVE  pc[b] = "done" /\ keys[c] = b /\ result'[b] = result[b]
    BY <1>5 DEF vars
  <1> QED BY <1>0, <1>2, <1>3, <1>4, <1>5 DEF EnrollNext, KeyAccounting

LEMMA IInvStep == IInv /\ [EnrollNext]_vars => IInv'
  BY CoreStep, SuccessStep, AccountingStep DEF IInv

-----------------------------------------------------------------------------
(* The theorems *)

LEMMA Inductive == Spec => []IInv
  BY InitIInv, IInvStep, PTL DEF Spec

\* Type correctness of every reachable state of Enrollment.
THEOREM EnrollmentTyped == Spec => []EnrollTypeOK
  <1>1. IInv => EnrollTypeOK
    BY DEF IInv, CoreInv
  <1> QED BY <1>1, Inductive, PTL

\* The ownership invariant: an attempt that passed -new holds its key in its own
\* container until it returns, only vetted material is accepted, and every
\* installed leaf has the attempt that vetted it.
THEOREM Ownership == Spec => []OwnershipInv
  <1>1. IInv => OwnershipInv
    BY DEF IInv, CoreInv
  <1> QED BY <1>1, Inductive, PTL

\* No key is lost silently: a key that outlives the return of Enroll is in the
\* container the Result names, and the Result says that it may remain.
THEOREM KeysAccounted == Spec => []KeyAccounting
  <1>1. IInv => KeyAccounting
    BY DEF IInv, CoreInv
  <1> QED BY <1>1, Inductive, PTL

\* A success stays usable and removable: the key is in its container and the
\* association of the installed leaf is the recorded one.
THEOREM SuccessUsable == Spec => []SuccessIsUsable
  <1>1. IInv => SuccessIsUsable
    BY DEF IInv, CoreInv
  <1> QED BY <1>1, Inductive, PTL

\* A caller that falls back on "unavailable" never leaves an installed
\* certificate of that attempt behind.
THEOREM UnavailableIsSafe == Spec => []UnavailableIsFallbackSafe
  <1>1. IInv => UnavailableIsFallbackSafe
    <2> SUFFICES ASSUME IInv, NEW a \in Attempts, NEW l \in Leaves, Returned(a, "unavailable"),
                        Installed(l), Contents[l].publicKey = a
                 PROVE  FALSE
      BY DEF UnavailableIsFallbackSafe
    <2>1. PICK b \in Attempts :
            /\ Vetted(b)
            /\ issued[b].leaf = l
            /\ \/ pc[b] \in {"capture", "crashed"}
               \/ pc[b] \in {"cleanup", "done"} /\ result[b].status \in MayLeaveLeaf
      BY DEF IInv, CoreInv, OwnershipInv, LeafOrigin
    <2>2. b = a
      BY <2>1, VettedKey
    <2> QED BY <2>1, <2>2 DEF Returned, MayLeaveLeaf
  <1> QED BY <1>1, Inductive, PTL

\* A leaf whose origin is known met the localhost policy for the key of the
\* attempt that installed it.
LEMMA OriginIsVetted == LeafOrigin => InstalledVetted
  <1> SUFFICES ASSUME LeafOrigin, NEW l \in Leaves, Installed(l)
               PROVE  \E a \in Attempts :
                        /\ issued[a] # NoMaterial
                        /\ issued[a].leaf = l
                        /\ \/ /\ issued[a].chainFile = "absent"
                              /\ MeetsLocalhostPolicy(Contents[l], a, {})
                           \/ /\ issued[a].chainFile = "read"
                              /\ issued[a].chain # {}
                              /\ MeetsLocalhostPolicy(Contents[l], a, issued[a].chain)
    BY DEF InstalledVetted
  <1>1. PICK a \in Attempts : Vetted(a) /\ issued[a].leaf = l
    BY DEF LeafOrigin
  <1> DEFINE m == issued[a]
             intermediates == IF m.chainFile = "read" THEN m.chain ELSE {}
  <1>2. m \in MaterialType /\ m # NoMaterial
    BY <1>1, MaterialAssumption DEF Vetted
  <1>3. /\ ValidateCertificate(Contents[l], a, intermediates)
        /\ m.chainFile # "rejected"
        /\ ~(m.chainFile = "read" /\ m.chain = {})
    BY <1>1 DEF Vetted, MaterialStatus
  <1>4. Contents[l] \in Certificate
    BY MaterialAssumption
  <1>5. MeetsLocalhostPolicy(Contents[l], a, intermediates)
    BY <1>3, <1>4, ValidationSound
  <1>6. m.chainFile \in {"absent", "read"}
    BY <1>2, <1>3 DEF MaterialType
  <1> QED BY <1>1, <1>2, <1>3, <1>5, <1>6

\* Whatever is installed met the localhost policy for the key of the attempt that
\* installed it, with intermediates of an accepted chain only.
THEOREM InstalledIsVetted == Spec => []InstalledVetted
  <1>1. IInv => LeafOrigin
    BY DEF IInv, CoreInv, OwnershipInv
  <1> QED BY <1>1, OriginIsVetted, Inductive, PTL

\* A key is deleted only by the clean-up of the attempt that generated it.
THEOREM DeletesOwnKeyOnly == Spec => OwnKeyOnly
  <1> DEFINE Own == \A c \in Containers :
                       keys[c] # NoKey /\ keys'[c] # keys[c] =>
                           \E a \in Attempts : /\ keys[c] = a
                                               /\ container[a] = c
                                               /\ pc[a] = "cleanup"
                                               /\ pc'[a] = "done"
  <1>1. IInv /\ [EnrollNext]_vars => [Own]_vars
    <2> SUFFICES ASSUME IInv, EnrollNext, NEW c \in Containers, keys[c] # NoKey, keys'[c] # keys[c]
                 PROVE  \E a \in Attempts : /\ keys[c] = a
                                            /\ container[a] = c
                                            /\ pc[a] = "cleanup"
                                            /\ pc'[a] = "done"
      OBVIOUS
    <2>0. TypeInv /\ KeyHeld
      BY DEF IInv, CoreInv, OwnershipInv, TypeInv
    <2>1. ASSUME NEW a \in Attempts, Enroll(a) \/ Crash(a)
          PROVE  keys[c] = a /\ container[a] = c /\ pc[a] = "cleanup" /\ pc'[a] = "done"
      <3>1. pc[a] = "cleanup" /\ pc'[a] = "done" /\ container[a] = c
        BY <2>0, <2>1, KeysOfStep DEF TypeInv, EnrollTypeOK, MachineTypeOK
      <3> QED BY <2>0, <3>1 DEF KeyHeld, Holding
    <2>2. ASSUME Environment PROVE FALSE
      BY <2>0, <2>2 DEF Environment, ForeignKeyAppears, AdminRemovesLeaf, TypeInv, EnrollTypeOK, MachineTypeOK
    <2> QED BY <2>1, <2>2 DEF EnrollNext
  <1> QED BY <1>1, Inductive, PTL DEF Spec, OwnKeyOnly

-----------------------------------------------------------------------------
(* Enrollment implements Artifacts *)

\* How the changes of the machine show in the artifacts of the attempts.
LEMMA KeyGenerated ==
    ASSUME MachineTypeOK, NEW a \in Attempts, NEW c \in Containers, keys[c] = NoKey,
           keys' = [keys EXCEPT ![c] = a]
    PROVE  HasKey' = [HasKey EXCEPT ![a] = TRUE]
  <1>1. \A b \in Attempts : b # NoKey
    BY SentinelAssumption DEF Owners
  <1>2. ASSUME NEW b \in Attempts
        PROVE  (\E d \in Containers : keys'[d] = b) <=> (b = a \/ \E d \in Containers : keys[d] = b)
    BY <1>1 DEF MachineTypeOK
  <1> QED BY <1>2 DEF HasKey

LEMMA KeyRemoved ==
    ASSUME MachineTypeOK, NEW a \in Attempts, NEW c \in Containers, keys[c] = a,
           \A d \in Containers : keys[d] = a => d = c,
           keys' = [keys EXCEPT ![c] = NoKey]
    PROVE  HasKey' = [HasKey EXCEPT ![a] = FALSE]
  <1>1. \A b \in Attempts : b # NoKey
    BY SentinelAssumption DEF Owners
  <1>2. ASSUME NEW b \in Attempts
        PROVE  (\E d \in Containers : keys'[d] = b) <=> (b # a /\ \E d \in Containers : keys[d] = b)
    BY <1>1 DEF MachineTypeOK
  <1> QED BY <1>2 DEF HasKey

LEMMA LeafInstalled ==
    ASSUME MachineTypeOK, NEW a \in Attempts, NEW l \in Leaves, Contents[l].publicKey = a,
           NEW kpi \in KeyProvInfo, store' = [store EXCEPT ![l] = kpi]
    PROVE  HasLeaf' = [HasLeaf EXCEPT ![a] = TRUE]
  <1>1. ASSUME NEW b \in Attempts
        PROVE  (\E k \in Leaves : Installed(k)' /\ Contents[k].publicKey = b)
                   <=> (b = a \/ \E k \in Leaves : Installed(k) /\ Contents[k].publicKey = b)
    BY SentinelAssumption DEF MachineTypeOK, Installed
  <1> QED BY <1>1 DEF HasLeaf

LEMMA LeafRemoved ==
    ASSUME MachineTypeOK, NEW l \in Leaves, store' = [store EXCEPT ![l] = NotInstalled]
    PROVE  \/ HasLeaf' = HasLeaf
           \/ \E a \in Attempts : HasLeaf' = [HasLeaf EXCEPT ![a] = FALSE]
  <1> DEFINE k == Contents[l].publicKey
  <1>1. \A m \in Leaves : Installed(m)' <=> Installed(m) /\ m # l
    BY DEF MachineTypeOK, Installed
  <1>2. ASSUME NEW b \in Attempts, b # k PROVE HasLeaf'[b] = HasLeaf[b]
    BY <1>1, <1>2 DEF HasLeaf
  <1>3. k \in Attempts => (HasLeaf'[k] => HasLeaf[k])
    BY <1>1 DEF HasLeaf
  <1>4. HasLeaf \in [Attempts -> BOOLEAN] /\ HasLeaf' \in [Attempts -> BOOLEAN]
    BY DEF HasLeaf
  <1> HIDE DEF k
  <1>5. CASE k \notin Attempts \/ HasLeaf'[k] = HasLeaf[k]
    BY <1>2, <1>4, <1>5
  <1>6. CASE k \in Attempts /\ ~HasLeaf'[k]
    <2>1. HasLeaf' = [HasLeaf EXCEPT ![k] = FALSE]
      BY <1>2, <1>4, <1>6
    <2> QED BY <1>6, <2>1
  <1> QED BY <1>3, <1>4, <1>5, <1>6

\* What a step of attempt a reports.
LEMMA ReportOfStep ==
    ASSUME TypeInv, NEW a \in Attempts, Enroll(a) \/ Crash(a)
    PROVE  /\ Reported[a] = NotReported
           /\ pc'[a] # "done" => Reported' = Reported
           /\ pc'[a] = "done" => Reported' = [Reported EXCEPT ![a] =
                 [status |-> result'[a].status, keyState |-> result'[a].keyState]]
  <1>1. pc[a] # "done"
    BY ControlOfStep
  <1>2. \A b \in Attempts \ {a} : pc'[b] = pc[b] /\ result'[b] = result[b]
    BY OthersUnchanged
  <1> QED BY <1>1, <1>2 DEF Reported

\* The attempt under way has its key exactly in the steps that hold it, and its
\* leaf only where LeafOrigin says so.
LEMMA OwnArtifacts ==
    ASSUME CoreInv, NEW a \in Attempts
    PROVE  /\ pc[a] \in Holding => HasKey[a] /\ container[a] \in Containers /\ keys[container[a]] = a
           /\ pc[a] \notin Holding \cup {"done", "crashed"} => ~HasKey[a]
           /\ HasLeaf[a] =>
                 /\ Vetted(a)
                 /\ \/ pc[a] \in {"capture", "crashed"}
                    \/ pc[a] \in {"cleanup", "done"} /\ result[a].status \in MayLeaveLeaf
  <1>1. KeyHeld /\ KeyOrigin /\ ChoicesMade /\ LeafOrigin
    BY DEF CoreInv, OwnershipInv
  <1>2. pc[a] \in Holding => HasKey[a] /\ container[a] \in Containers /\ keys[container[a]] = a
    BY <1>1 DEF KeyHeld, ChoicesMade, Holding, Running, ToolSteps, LocalSteps, HasKey
  <1>3. pc[a] \notin Holding \cup {"done", "crashed"} => ~HasKey[a]
    BY <1>1 DEF KeyOrigin, HasKey
  <1>4. ASSUME HasLeaf[a]
        PROVE  /\ Vetted(a)
               /\ \/ pc[a] \in {"capture", "crashed"}
                  \/ pc[a] \in {"cleanup", "done"} /\ result[a].status \in MayLeaveLeaf
    <2>1. PICK l \in Leaves : Installed(l) /\ Contents[l].publicKey = a
      BY <1>4 DEF HasLeaf
    <2>2. PICK b \in Attempts :
            /\ Vetted(b) /\ issued[b].leaf = l
            /\ \/ pc[b] \in {"capture", "crashed"}
               \/ pc[b] \in {"cleanup", "done"} /\ result[b].status \in MayLeaveLeaf
      BY <1>1, <2>1 DEF LeafOrigin
    <2>3. b = a
      BY <2>1, <2>2, VettedKey
    <2> QED BY <2>2, <2>3
  <1> QED BY <1>2, <1>3, <1>4

\* Each step of an attempt does to its artifacts what Artifacts allows.
LEMMA AttemptMaps ==
    ASSUME CoreInv, NEW a \in Attempts, Enroll(a) \/ Crash(a)
    PROVE  Contract!ArtifactsNext \/ UNCHANGED Contract!artifactVars
  <1>0. TypeInv /\ MachineTypeOK /\ FailureRecorded /\ AcceptVetted
    BY DEF CoreInv, OwnershipInv, TypeInv, EnrollTypeOK
  <1> DEFINE r == [status |-> result'[a].status, keyState |-> result'[a].keyState]
             Reports == Reported' = [Reported EXCEPT ![a] = r]
  <1>1. Reported[a] = NotReported /\ (pc'[a] = "done" => Reports) /\ (pc'[a] # "done" => Reported' = Reported)
    BY <1>0, ReportOfStep
  <1>2. keys' = keys => HasKey' = HasKey
    BY DEF HasKey
  <1>3. store' = store => HasLeaf' = HasLeaf
    BY DEF HasLeaf, Installed
  <1>4. HasKey \in [Attempts -> BOOLEAN] /\ HasLeaf \in [Attempts -> BOOLEAN]
    BY DEF HasKey, HasLeaf
  <1>5. CASE store' # store
    <2>1. pc[a] = "accept" /\ pc'[a] # "done"
          /\ \E kpi \in KeyProvInfo : store' = [store EXCEPT ![issued[a].leaf] = kpi]
      BY <1>0, <1>5, StoreOfStep
    <2>2. issued[a].leaf \in Leaves /\ Contents[issued[a].leaf].publicKey = a
      BY <1>0, <2>1, VettedKey DEF AcceptVetted
    <2>3. HasLeaf' = [HasLeaf EXCEPT ![a] = TRUE]
      BY <1>0, <2>1, <2>2, LeafInstalled
    <2>4. HasKey[a] /\ keys' = keys
      BY <1>0, <2>1, OwnArtifacts, KeysOfStep DEF Holding
    <2> QED BY <1>1, <1>2, <2>1, <2>3, <2>4 DEF Contract!ArtifactsNext, Contract!Install
  <1>6. CASE store' = store /\ pc'[a] # "done"
    <2>1. CASE keys' = keys
      BY <1>1, <1>2, <1>3, <1>6, <2>1 DEF Contract!artifactVars
    <2>2. CASE keys' # keys
      <3>1. /\ pc[a] = "new" /\ container[a] \in Containers /\ keys[container[a]] = NoKey
            /\ keys' = [keys EXCEPT ![container[a]] = a]
        BY <1>0, <1>6, <2>2, KeysOfStep
      <3>2. HasKey' = [HasKey EXCEPT ![a] = TRUE] /\ ~HasKey[a]
        BY <1>0, <3>1, KeyGenerated, OwnArtifacts DEF Holding
      <3> QED BY <1>1, <1>3, <1>6, <3>2 DEF Contract!ArtifactsNext, Contract!Generate
    <2> QED BY <2>1, <2>2
  <1>7. CASE store' = store /\ pc'[a] = "done"
    <2> HIDE DEF r
    <2>0. Reported' = [Reported EXCEPT ![a] = r]
      BY <1>1, <1>7
    <2>1. CASE /\ pc[a] \in {"idle", "prepare"}
               /\ result'[a].status \in {"not-configured", "enrollment-failed"}
               /\ result'[a].keyState = "none"
      <3>1. keys' = keys /\ ~HasKey[a] /\ ~HasLeaf[a]
        BY <1>0, <2>1, KeysOfStep, OwnArtifacts DEF Holding
      <3>2. HasKey' = [HasKey EXCEPT ![a] = FALSE]
        BY <1>2, <1>4, <3>1
      <3> QED BY <1>1, <1>3, <1>7, <2>0, <2>1, <3>1, <3>2
              DEF r, Contract!ArtifactsNext, Contract!ReportFailure, Contract!Failures, Contract!Reports
    <2>2. CASE /\ pc[a] = "new" /\ result'[a].keyState = "unproven"
               /\ result'[a].status \in {"unavailable", "enrollment-failed"}
      <3>1. ~HasKey[a] /\ ~HasLeaf[a]
        BY <2>2, OwnArtifacts DEF Holding
      <3>2. CASE keys' = keys
        <4>1. HasKey' = [HasKey EXCEPT ![a] = FALSE]
          BY <1>2, <1>4, <3>1, <3>2
        <4> QED BY <1>1, <1>3, <1>7, <2>0, <2>2, <3>1, <4>1
                DEF r, Contract!ArtifactsNext, Contract!ReportFailure, Contract!Failures, Contract!Reports
      <3>3. CASE keys' # keys
        <4>1. /\ container[a] \in Containers /\ keys[container[a]] = NoKey
              /\ keys' = [keys EXCEPT ![container[a]] = a]
          BY <1>0, <2>2, <3>3, KeysOfStep
        <4>2. HasKey' = [HasKey EXCEPT ![a] = TRUE]
          BY <1>0, <4>1, KeyGenerated
        <4> QED BY <1>1, <1>3, <1>7, <2>0, <2>2, <3>1, <4>2
                DEF r, Contract!ArtifactsNext, Contract!Generate, Contract!Unproven, Contract!Reports
      <3> QED BY <3>2, <3>3
    <2>3. CASE /\ pc[a] = "cleanup" /\ result'[a].status = result[a].status
               /\ \/ result'[a].keyState = "present" /\ keys' = keys
                  \/ /\ result'[a].keyState = "removed"
                     /\ keys' = [keys EXCEPT ![container[a]] = NoKey]
      <3>1. /\ HasKey[a] /\ container[a] \in Containers /\ keys[container[a]] = a
            /\ HasLeaf[a] => result[a].status = "enrollment-failed"
            /\ result[a].status \in {"unavailable", "enrollment-failed", "invalid-certificate"}
        BY <1>0, <2>3, OwnArtifacts DEF Holding, FailureRecorded, MayLeaveLeaf
      <3>2. CASE result'[a].keyState = "present" /\ keys' = keys
        <4>1. HasKey' = [HasKey EXCEPT ![a] = TRUE]
          BY <1>2, <1>4, <3>1, <3>2
        <4> QED BY <1>1, <1>3, <1>7, <2>0, <2>3, <3>1, <3>2, <4>1
                DEF r, Contract!ArtifactsNext, Contract!ReportFailure, Contract!Failures, Contract!Reports
      <3>3. CASE result'[a].keyState = "removed" /\ keys' = [keys EXCEPT ![container[a]] = NoKey]
        <4>1. \A c \in Containers : keys[c] = a => c = container[a]
          BY DEF CoreInv, OwnershipInv, KeyOrigin
        <4>2. HasKey' = [HasKey EXCEPT ![a] = FALSE]
          BY <1>0, <3>1, <3>3, <4>1, KeyRemoved
        <4> QED BY <1>1, <1>3, <1>7, <2>0, <2>3, <3>1, <3>3, <4>2
                DEF r, Contract!ArtifactsNext, Contract!ReportFailure, Contract!Failures, Contract!Reports
      <3> QED BY <2>3, <3>2, <3>3
    <2>4. CASE /\ pc[a] = "capture"
               /\ result'[a].status = "enrollment-incomplete" /\ result'[a].keyState = "present"
      <3>1. HasKey[a] /\ keys' = keys
        BY <1>0, <2>4, OwnArtifacts, KeysOfStep DEF Holding
      <3> QED BY <1>1, <1>2, <1>3, <1>7, <2>0, <2>4, <3>1
              DEF r, Contract!ArtifactsNext, Contract!ReportIncomplete, Contract!Reports
    <2>5. CASE /\ pc[a] = "capture"
               /\ result'[a].status = "success" /\ result'[a].keyState = "none"
      <3>1. HasKey[a] /\ keys' = keys
        BY <1>0, <2>5, OwnArtifacts, KeysOfStep DEF Holding
      <3>2. HasLeaf[a]
        <4>1. Returned(a, "success")'
          BY <1>7, <2>5 DEF Returned
        <4> DEFINE info == result'[a].cleanup
                   kpi == [provider |-> ExpectedCNGProvider, containerName |-> container[a],
                           providerType |-> info.providerType, keySpec |-> info.keySpec]
        <4>2. /\ info.leafSHA256 \in Leaves /\ Contents[info.leafSHA256].publicKey = a
              /\ info \in CleanupInfo /\ container[a] \in Containers
              /\ store[info.leafSHA256] = kpi
          BY <4>1, SuccessOfCapture
        <4>3. kpi \in KeyProvInfo
          BY <4>2, ProviderAssumption DEF CleanupInfo, KeyProvInfo
        <4>4. kpi # NotInstalled
          BY <4>3, SentinelAssumption
        <4> HIDE DEF kpi
        <4> QED BY <4>2, <4>4 DEF HasLeaf, Installed
      <3> QED BY <1>1, <1>2, <1>3, <1>7, <2>0, <2>5, <3>1, <3>2
              DEF r, Contract!ArtifactsNext, Contract!ReportSuccess, Contract!Reports
    <2> QED BY <1>0, <1>7, <2>1, <2>2, <2>3, <2>4, <2>5, ResultOfStep
  <1> QED BY <1>5, <1>6, <1>7

\* A leaf that goes away takes its attempt's artifact with it and nothing else.
LEMMA WithdrawalMaps ==
    ASSUME MachineTypeOK, NEW l \in Leaves, store' = [store EXCEPT ![l] = NotInstalled],
           UNCHANGED <<keys, pc, result>>
    PROVE  Contract!ArtifactsNext \/ UNCHANGED Contract!artifactVars
  <1>1. HasKey' = HasKey /\ Reported' = Reported
    BY DEF HasKey, Reported
  <1> QED BY <1>1, LeafRemoved DEF Contract!ArtifactsNext, Contract!Withdraw, Contract!artifactVars

LEMMA InitArtifacts == Init => Contract!ArtifactsInit
  <1> SUFFICES ASSUME Init PROVE Contract!ArtifactsInit
    OBVIOUS
  <1>1. \A a \in Attempts, c \in Containers : keys[c] # a
    BY SentinelAssumption DEF Init, MachineInit, Owners
  <1> QED BY <1>1 DEF Init, MachineInit, EnrollInit, Contract!ArtifactsInit, HasKey, HasLeaf, Reported,
                      Installed

\* Over every interleaving, crash and failure of certreq, the attempts do to their
\* keys and certificates only what Artifacts allows, and report it truthfully
\* (Provider.Enroll, finishOwnedFailure, status.go).
THEOREM EnrollmentContract == Spec => ImplementsArtifacts
  <1>1. IInv /\ [EnrollNext]_vars => [Contract!ArtifactsNext]_(Contract!artifactVars)
    <2> SUFFICES ASSUME IInv, [EnrollNext]_vars
                 PROVE  Contract!ArtifactsNext \/ UNCHANGED Contract!artifactVars
      OBVIOUS
    <2>0. CoreInv /\ MachineTypeOK
      BY DEF IInv, CoreInv, EnrollTypeOK
    <2>1. ASSUME NEW a \in Attempts, Enroll(a) \/ Crash(a)
          PROVE  Contract!ArtifactsNext \/ UNCHANGED Contract!artifactVars
      BY <2>0, <2>1, AttemptMaps
    <2>2. ASSUME NEW c \in Containers, ForeignKeyAppears(c), UNCHANGED enrollVars
          PROVE  UNCHANGED Contract!artifactVars
      <3>1. \A d \in Containers, a \in Attempts : keys'[d] = a <=> keys[d] = a
        BY <2>0, <2>2, SentinelAssumption DEF ForeignKeyAppears, MachineTypeOK, Owners
      <3> QED BY <2>2, <3>1 DEF ForeignKeyAppears, enrollVars, HasKey, HasLeaf, Reported, Installed,
                                Contract!artifactVars
    <2>3. ASSUME NEW l \in Leaves, AdminRemovesLeaf(l), UNCHANGED enrollVars
          PROVE  Contract!ArtifactsNext \/ UNCHANGED Contract!artifactVars
      BY <2>0, <2>3, WithdrawalMaps DEF AdminRemovesLeaf, enrollVars
    <2>4. ASSUME UNCHANGED vars PROVE UNCHANGED Contract!artifactVars
      BY <2>4 DEF vars, HasKey, HasLeaf, Reported, Installed, Contract!artifactVars
    <2> QED BY <2>1, <2>2, <2>3, <2>4 DEF EnrollNext, Environment
  <1> QED BY <1>1, InitArtifacts, Inductive, PTL
          DEF Spec, ImplementsArtifacts, Contract!ArtifactsSpec

\* What Artifacts promises is enough for what it lets a caller rely on, so every
\* system that implements it can be relied on.
LEMMA ContractIsReliable == ImplementsArtifacts => []ReportIsReliable
  <1>1. Contract!ArtifactsInit => ReportIsReliable
    BY DEF Contract!ArtifactsInit, ReportIsReliable, Contract!ReportIsReliable
  <1>2. ReportIsReliable /\ [Contract!ArtifactsNext]_(Contract!artifactVars) => ReportIsReliable'
    <2> SUFFICES ASSUME ReportIsReliable, [Contract!ArtifactsNext]_(Contract!artifactVars)
                 PROVE  ReportIsReliable'
      OBVIOUS
    <2> DEFINE Reliable(b) ==
                 /\ HasLeaf[b] /\ Reported[b] # NotReported =>
                       Reported[b].status \in {"success", "enrollment-incomplete", "enrollment-failed"}
                 /\ HasKey[b] /\ Reported[b] # NotReported =>
                       Reported[b].status = "success" \/ Reported[b].keyState \in {"present", "unproven"}
                 /\ HasLeaf[b] /\ ~HasKey[b] =>
                       Reported[b] = [status |-> "enrollment-failed", keyState |-> "removed"]
    <2>1. \A b \in Attempts : Reliable(b)
      BY DEF ReportIsReliable, Contract!ReportIsReliable
    <2>2. /\ HasKey \in [Attempts -> BOOLEAN] /\ HasLeaf \in [Attempts -> BOOLEAN]
          /\ Reported = [b \in Attempts |-> Reported[b]]
      <3>1. Reported = [b \in Attempts |-> Reported[b]]
        BY DEF Reported
      <3> QED BY <3>1 DEF HasKey, HasLeaf
    <2>3. ASSUME NEW a \in Attempts, Contract!ArtifactsNext!(a), NEW b \in Attempts
          PROVE  Reliable(b)'
      <3>1. CASE Contract!Generate(a)
        <4>1. Reported[a] = NotReported /\ ~HasKey[a] /\ HasLeaf' = HasLeaf
              /\ HasKey' = [HasKey EXCEPT ![a] = TRUE]
          BY <3>1 DEF Contract!Generate
        <4>2. ~HasLeaf[a]
          BY <2>1, <4>1 DEF NotReported
        <4>3. CASE Reported' = Reported
          BY <2>1, <2>2, <4>1, <4>3
        <4>4. ASSUME NEW status \in Contract!Unproven, Contract!Reports(a, status, "unproven")
              PROVE  Reliable(b)'
          <5>1. Reported' = [Reported EXCEPT ![a] = [status |-> status, keyState |-> "unproven"]]
            BY <4>4 DEF Contract!Reports
          <5> QED BY <2>1, <2>2, <4>1, <4>2, <5>1
        <4> QED BY <3>1, <4>3, <4>4 DEF Contract!Generate
      <3>2. CASE Contract!Install(a)
        BY <2>1, <2>2, <3>2 DEF Contract!Install
      <3>3. CASE Contract!ReportSuccess(a)
        BY <2>1, <2>2, <3>3 DEF Contract!ReportSuccess, Contract!Reports
      <3>4. CASE Contract!ReportIncomplete(a)
        BY <2>1, <2>2, <3>4 DEF Contract!ReportIncomplete, Contract!Reports
      <3>5. CASE Contract!ReportFailure(a)
        <4>1. PICK status \in Contract!Failures,
                   keyState \in {"none", "removed", "present", "unproven"} :
                /\ HasLeaf[a] => status = "enrollment-failed"
                /\ keyState \in {"none", "unproven"} => ~HasKey[a]
                /\ HasKey' = [HasKey EXCEPT ![a] = keyState = "present"]
                /\ Reported' = [Reported EXCEPT ![a] = [status |-> status, keyState |-> keyState]]
                /\ keyState \in {"removed", "present"} => HasKey[a]
          BY <3>5 DEF Contract!ReportFailure, Contract!Reports
        <4>2. Reported[a] = NotReported /\ HasLeaf' = HasLeaf
          BY <3>5 DEF Contract!ReportFailure
        <4>3. HasKey'[a] <=> keyState = "present"
          BY <2>2, <4>1
        <4>4. Reported'[a] = [status |-> status, keyState |-> keyState]
          BY <2>2, <4>1
        <4>5. CASE b = a
          <5>1. ~HasKey[a] => ~HasLeaf[a]
            BY <2>1, <4>2 DEF NotReported
          <5> HIDE DEF Reliable
          <5>2. HasLeaf[a] => keyState \in {"removed", "present"}
            BY <4>1, <5>1
          <5>3. HasLeaf'[a] /\ ~HasKey'[a] => Reported'[a] = [status |-> "enrollment-failed", keyState |-> "removed"]
            BY <4>1, <4>2, <4>3, <4>4, <5>2
          <5>4. HasLeaf'[a] => Reported'[a].status = "enrollment-failed"
            BY <4>1, <4>2, <4>4
          <5>5. HasKey'[a] => Reported'[a].keyState = "present"
            BY <4>3, <4>4
          <5> QED BY <4>5, <5>3, <5>4, <5>5 DEF Reliable
        <4>6. CASE b # a
          <5>1. HasKey'[b] = HasKey[b] /\ HasLeaf'[b] = HasLeaf[b] /\ Reported'[b] = Reported[b]
            BY <2>2, <4>1, <4>2, <4>6
          <5> QED BY <2>1, <5>1
        <4> QED BY <4>5, <4>6
      <3>6. CASE Contract!Withdraw(a)
        BY <2>1, <2>2, <3>6 DEF Contract!Withdraw
      <3>7. CASE Contract!RemoveKey(a)
        BY <2>1, <2>2, <3>7 DEF Contract!RemoveKey
      <3> QED BY <2>3, <3>1, <3>2, <3>3, <3>4, <3>5, <3>6, <3>7
    <2>4. CASE UNCHANGED Contract!artifactVars
      BY <2>1, <2>4 DEF Contract!artifactVars, ReportIsReliable, Contract!ReportIsReliable
    <2> QED BY <2>3, <2>4 DEF Contract!ArtifactsNext, ReportIsReliable, Contract!ReportIsReliable
  <1> QED BY <1>1, <1>2, PTL DEF ImplementsArtifacts, Contract!ArtifactsSpec

\* The Result of Enroll can be relied on: a certificate that is installed without
\* its key belongs to an attempt that has reported "enrollment-failed" and its
\* key as removed (finishOwnedFailure after -accept), and to no other.
THEOREM ResultReliable == Spec => []ReportIsReliable
  BY EnrollmentContract, ContractIsReliable, PTL

-----------------------------------------------------------------------------
(* Why an attempt ends *)

\* The place of a step in the text of Enroll; the deferred clean-up is the last.
Place(step) ==
    CASE step = "idle"        -> 0
      [] step = "prepare"     -> 1
      [] step = "new"         -> 2
      [] step = "readRequest" -> 3
      [] step = "submit"      -> 4
      [] step = "validate"    -> 5
      [] step = "accept"      -> 6
      [] step = "capture"     -> 7
      [] step = "cleanup"     -> 8
      [] step = "done"        -> 9
      [] OTHER                -> 10

\* An attempt takes each step at most once and never goes back, whatever fails and
\* whatever the other attempts do: no certreq call is ever repeated, and after
\* at most nine steps of its own the attempt has returned.
StepsOnce ==
    [][\A a \in Attempts :
          /\ Enroll(a) => Place(pc[a]) < Place(pc'[a])
          /\ Place(pc[a]) <= Place(pc'[a])]_vars

LEMMA PlaceOfStep ==
    ASSUME TypeInv, EnrollTypeOK', NEW a \in Attempts, Enroll(a) \/ Crash(a)
    PROVE  Place(pc[a]) < Place(pc'[a])
  <1>1. pc[a] \in Steps \ {"done", "crashed"} /\ pc'[a] \in Steps \ {"idle"}
    BY ControlOfStep DEF TypeInv, EnrollTypeOK
  <1>2. CASE pc'[a] \in {"done", "crashed"}
    BY <1>1, <1>2 DEF Place, Steps, Running, ToolSteps, LocalSteps
  <1>3. CASE pc'[a] \notin {"done", "crashed"}
    BY <1>1, <1>3, ControlOfStep DEF Place, Steps, Running, ToolSteps, LocalSteps
  <1> QED BY <1>2, <1>3

\* Enroll runs each of -new, -submit and -accept at most once per attempt and its
\* deferred clean-up last (Provider.Enroll).
THEOREM NoStepTwice == Spec => StepsOnce
  <1>1. IInv /\ IInv' /\ [EnrollNext]_vars =>
           [\A a \in Attempts :
               /\ Enroll(a) => Place(pc[a]) < Place(pc'[a])
               /\ Place(pc[a]) <= Place(pc'[a])]_vars
    <2> SUFFICES ASSUME IInv, IInv', EnrollNext, NEW a \in Attempts
                 PROVE  /\ Enroll(a) => Place(pc[a]) < Place(pc'[a])
                        /\ Place(pc[a]) <= Place(pc'[a])
      OBVIOUS
    <2>0. TypeInv /\ EnrollTypeOK'
      BY DEF IInv, CoreInv, OwnershipInv, TypeInv
    <2>1. Place(pc[a]) \in Nat /\ Place(pc'[a]) \in Nat
      BY DEF Place
    <2>2. Enroll(a) \/ Crash(a) => Place(pc[a]) < Place(pc'[a])
      BY <2>0, PlaceOfStep
    <2>3. ~(Enroll(a) \/ Crash(a)) => pc'[a] = pc[a]
      BY <2>0, OthersUnchanged DEF EnrollNext, enrollVars
    <2> QED BY <2>1, <2>2, <2>3
  <1> QED BY <1>1, Inductive, PTL DEF Spec, StepsOnce
=============================================================================
