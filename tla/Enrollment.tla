----------------------------- MODULE Enrollment -----------------------------
(***************************************************************************)
(* Provider.Enroll of provider.go.  Any number of attempts run             *)
(* concurrently, each in its own call, and share the machine's keys and    *)
(* certificate store.  An attempt is a sequence of steps: the local        *)
(* preparation, certreq -new, reading the request, certreq -submit,        *)
(* validating the material, certreq -accept, capturing the clean-up        *)
(* metadata and, on a failure that owns a key, deleting that key.          *)
(*                                                                         *)
(* certreq.exe is external.  It may fail without having had its effect     *)
(* and, once launched, after having had it: a context that expires kills   *)
(* it at any point, and os/exec reports the expiry even when it finished.  *)
(***************************************************************************)
EXTENDS Machine, Validation

CONSTANTS
    Configured,    \* attempts whose Config names a CA
    WithDeadline,  \* attempts called with a context that expires
    Contents,      \* Contents[l]: the parsed certificate of leaf l
    Material,      \* what certreq -submit may leave in issued.cer and chain.p7b
    NoMaterial     \* nothing submitted yet

VARIABLES
    pc,         \* pc[a]: the step of Enroll attempt a is about to take
    container,  \* container[a]: the key container name selected for a
    request,    \* request[a]: the key in the PKCS#10 request file of a
    issued,     \* issued[a]: the files -submit left
    result      \* result[a]: the Result, complete once pc[a] = "done"

enrollVars == <<pc, container, request, issued, result>>
vars == <<keys, store, pc, container, request, issued, result>>

MaterialType == [file : {"missing", "empty", "malformed", "certificate"},
                 leaf : Leaves, chainFile : {"absent", "rejected", "read"},
                 chain : SUBSET Authorities]

ASSUME AttemptAssumption ==
    /\ Configured \subseteq Attempts
    /\ WithDeadline \subseteq Attempts
    /\ Owners \subseteq PublicKeys

ASSUME MaterialAssumption ==
    /\ Material \subseteq MaterialType
    /\ NoMaterial \notin Material
    /\ Contents \in [Leaves -> Certificate]

Statuses == {"unknown", "not-configured", "unavailable", "enrollment-failed",
             "invalid-certificate", "success", "enrollment-incomplete"}
KeyStates == {"none", "removed", "present", "unproven"}

Result == [status : Statuses, keyState : KeyStates,
           keyContainer : Containers \cup {NoContainer},
           keyCleanupErr : {"nil", "notFound", "error"},
           certificate : Leaves \cup {NoLeaf},
           cleanup : CleanupInfo \cup {NoInfo}]

NoResult == [status |-> "unknown", keyState |-> "none", keyContainer |-> NoContainer,
             keyCleanupErr |-> "nil", certificate |-> NoLeaf, cleanup |-> NoInfo]

ToolSteps  == {"new", "submit", "accept"}
LocalSteps == {"prepare", "readRequest", "validate", "capture", "cleanup"}
Running    == ToolSteps \cup LocalSteps
Steps      == {"idle", "done", "crashed"} \cup Running

\* Type invariant: among others every Result carries a status and a key state of
\* status.go, and clean-up metadata that Uninstall can take or none.
EnrollTypeOK ==
    /\ MachineTypeOK
    /\ pc \in [Attempts -> Steps]
    /\ container \in [Attempts -> Containers \cup {NoContainer}]
    /\ request \in [Attempts -> Owners \cup {NoPublicKey}]
    /\ issued \in [Attempts -> Material \cup {NoMaterial}]
    /\ result \in [Attempts -> Result]

EnrollInit ==
    /\ pc = [a \in Attempts |-> "idle"]
    /\ container = [a \in Attempts |-> NoContainer]
    /\ request = [a \in Attempts |-> NoPublicKey]
    /\ issued = [a \in Attempts |-> NoMaterial]
    /\ result = [a \in Attempts |-> NoResult]

-----------------------------------------------------------------------------
(* Control *)

\* Attempt a goes on to its next step.
Goto(a, step) == pc' = [pc EXCEPT ![a] = step]

\* Enroll returns r.
Return(a, r) ==
    /\ Goto(a, "done")
    /\ result' = [result EXCEPT ![a] = r]

\* finishOwnedFailure, first half: the failure is recorded with the container
\* and the owned key is about to be deleted.  failOwned only builds the Result.
FinishOwnedFailure(a, status) ==
    /\ Goto(a, "cleanup")
    /\ result' = [result EXCEPT ![a] =
                    [NoResult EXCEPT !.status = status, !.keyContainer = container[a]]]

-----------------------------------------------------------------------------
(* certreq.exe *)

\* How a call of certreq.exe can fail: exec.ErrNotFound, an exit code on the
\* reachability list, or anything else (another exit code, a kill, an expired
\* context).
ToolFailures == {"missing", "unreachable", "failed"}

\* A tool that was never launched has no effect; one that was may have had it.
MayHaveActed(failure) == failure # "missing"

\* Mutated form: reachability codes count in every phase.
ClassifyToolError_AnyPhase(phase, failure) ==
    IF failure \in {"missing", "unreachable"} THEN "unavailable" ELSE "enrollment-failed"

\* classifyToolError, with the outcomes above for exit codes and errors.
ClassifyToolError(phase, failure) ==
    IF failure = "missing" \/ (phase = "submit" /\ failure = "unreachable")
    THEN "unavailable"
    ELSE "enrollment-failed"

\* Mutated form: -new may take over the key it finds.
BuildRequestINF_Reuse(keyContainer) ==
    [keyContainer |-> keyContainer, useExistingKeySet |-> TRUE]

\* The directives of the request INF that select the key.
BuildRequestINF(keyContainer) ==
    [keyContainer |-> keyContainer, useExistingKeySet |-> FALSE]

\* External: -new can use the container when it is empty, or when the INF lets
\* it use the key that is already there.
NewCanUse(inf) == keys[inf.keyContainer] = NoKey \/ inf.useExistingKeySet

\* External: what -new does to the keys when it gets that far.
NewKey(a, c) == IF keys[c] = NoKey THEN [keys EXCEPT ![c] = a] ELSE keys

-----------------------------------------------------------------------------
(* The steps of Enroll *)

NotConfigured(a) ==
    /\ pc[a] = "idle"
    /\ a \notin Configured
    /\ Return(a, [NoResult EXCEPT !.status = "not-configured"])
    /\ UNCHANGED <<keys, store, container, request, issued>>

\* The container name is chosen before any certreq call.
AllocateContainer(a) ==
    /\ pc[a] = "idle"
    /\ a \in Configured
    /\ \E c \in Containers : container' = [container EXCEPT ![a] = c]
    /\ Goto(a, "prepare")
    /\ UNCHANGED <<keys, store, request, issued, result>>

\* rand.Read fails.
ContainerFails(a) ==
    /\ pc[a] = "idle"
    /\ a \in Configured
    /\ Return(a, [NoResult EXCEPT !.status = "enrollment-failed"])
    /\ UNCHANGED <<keys, store, container, request, issued>>

\* The temporary directory and the INF are written.
Prepare(a) ==
    /\ pc[a] = "prepare"
    /\ Goto(a, "new")
    /\ UNCHANGED <<keys, store, container, request, issued, result>>

PrepareFails(a) ==
    /\ pc[a] = "prepare"
    /\ Return(a, [NoResult EXCEPT !.status = "enrollment-failed",
                                  !.keyContainer = container[a]])
    /\ UNCHANGED <<keys, store, container, request, issued>>

\* certreq -new exits 0: the container holds the key of the request.
NewSucceeds(a) ==
    /\ pc[a] = "new"
    /\ LET inf == BuildRequestINF(container[a]) IN
          /\ NewCanUse(inf)
          /\ keys' = NewKey(a, inf.keyContainer)
          /\ request' = [request EXCEPT ![a] = keys'[inf.keyContainer]]
    /\ Goto(a, "readRequest")
    /\ UNCHANGED <<store, container, issued, result>>

\* certreq -new fails, perhaps after generating the key: ownership is unproven
\* and the container is left alone.
NewFails(a) ==
    /\ pc[a] = "new"
    /\ \E failure \in ToolFailures :
          /\ \/ UNCHANGED keys
             \/ /\ MayHaveActed(failure)
                /\ keys' = NewKey(a, container[a])
          /\ Return(a, [NoResult EXCEPT !.status = ClassifyToolError("new", failure),
                                        !.keyContainer = container[a],
                                        !.keyState = "unproven"])
    /\ UNCHANGED <<store, container, request, issued>>

\* The request file is read and its public key extracted.
ReadRequest(a) ==
    /\ pc[a] = "readRequest"
    /\ \/ /\ Goto(a, "submit")
          /\ UNCHANGED result
       \/ FinishOwnedFailure(a, "enrollment-failed")
    /\ UNCHANGED <<keys, store, container, request, issued>>

\* certreq -submit exits 0.  A request that is pending at the CA leaves no
\* certificate file.
SubmitSucceeds(a) ==
    /\ pc[a] = "submit"
    /\ \E m \in Material : issued' = [issued EXCEPT ![a] = m]
    /\ Goto(a, "validate")
    /\ UNCHANGED <<keys, store, container, request, result>>

SubmitFails(a) ==
    /\ pc[a] = "submit"
    /\ \E failure \in ToolFailures :
          FinishOwnedFailure(a, ClassifyToolError("submit", failure))
    /\ UNCHANGED <<keys, store, container, request, issued>>

\* Mutated form: a chain the extractor rejects is treated as not returned.
MaterialStatus_IgnoreBadChain(m, expectedKey) ==
    CASE m.file \in {"missing", "empty"} -> "enrollment-failed"
      [] m.file = "malformed" -> "invalid-certificate"
      [] OTHER ->
           LET intermediates == IF m.chainFile = "read" THEN m.chain ELSE {} IN
           IF ValidateCertificate(Contents[m.leaf], expectedKey, intermediates)
           THEN "success"
           ELSE "invalid-certificate"

\* The checks between -submit and -accept: the status Enroll fails with, or
\* "success" when the material may be installed.
MaterialStatus(m, expectedKey) ==
    CASE m.file \in {"missing", "empty"} -> "enrollment-failed"
      [] m.file = "malformed" -> "invalid-certificate"
      [] m.chainFile = "rejected" -> "invalid-certificate"
      [] m.chainFile = "read" /\ m.chain = {} -> "invalid-certificate"
      [] OTHER ->
           LET intermediates == IF m.chainFile = "read" THEN m.chain ELSE {} IN
           IF ValidateCertificate(Contents[m.leaf], expectedKey, intermediates)
           THEN "success"
           ELSE "invalid-certificate"

\* Mutated form: a request that is still pending is submitted again until the CA
\* answers.
Validate_PollPending(a) ==
    /\ pc[a] = "validate"
    /\ LET status == MaterialStatus(issued[a], request[a]) IN
          \/ /\ issued[a].file = "missing"
             /\ Goto(a, "submit")
             /\ UNCHANGED result
          \/ /\ status = "success"
             /\ Goto(a, "accept")
             /\ UNCHANGED result
          \/ /\ status # "success"
             /\ issued[a].file # "missing"
             /\ FinishOwnedFailure(a, status)
    /\ UNCHANGED <<keys, store, container, request, issued>>

\* The checks between -submit and -accept, and their early returns.
Validate(a) ==
    /\ pc[a] = "validate"
    /\ LET status == MaterialStatus(issued[a], request[a]) IN
          \/ /\ status = "success"
             /\ Goto(a, "accept")
             /\ UNCHANGED result
          \/ /\ status # "success"
             /\ FinishOwnedFailure(a, status)
    /\ UNCHANGED <<keys, store, container, request, issued>>

\* External: -accept puts the leaf into the store with some key association.
Install(a) ==
    \E kpi \in KeyProvInfo : store' = [store EXCEPT ![issued[a].leaf] = kpi]

AcceptSucceeds(a) ==
    /\ pc[a] = "accept"
    /\ Install(a)
    /\ Goto(a, "capture")
    /\ UNCHANGED <<keys, container, request, issued, result>>

AcceptFails(a) ==
    /\ pc[a] = "accept"
    /\ \E failure \in ToolFailures :
          /\ \/ UNCHANGED store
             \/ MayHaveActed(failure) /\ Install(a)
          /\ FinishOwnedFailure(a, ClassifyToolError("accept", failure))
    /\ UNCHANGED <<keys, container, request, issued>>

\* Mutated form: the key spec of the installed leaf is not copied.
CaptureCleanupInfo_NoKeySpec(l, expectedContainer, readFails) ==
    LET kpi == store[l] IN
    IF \/ readFails
       \/ ~Installed(l)
       \/ kpi.provider # ExpectedCNGProvider
       \/ kpi.containerName # expectedContainer
    THEN NoInfo
    ELSE [CleanupInfoForCert(l) EXCEPT !.provider = kpi.provider,
                                       !.containerName = kpi.containerName,
                                       !.providerType = kpi.providerType]

\* Mutated form: any container of the expected provider is taken for the own one.
CaptureCleanupInfo_AnyContainer(l, expectedContainer, readFails) ==
    LET kpi == store[l] IN
    IF readFails \/ ~Installed(l) \/ kpi.provider # ExpectedCNGProvider
    THEN NoInfo
    ELSE [CleanupInfoForCert(l) EXCEPT !.provider = kpi.provider,
                                       !.containerName = kpi.containerName,
                                       !.providerType = kpi.providerType,
                                       !.keySpec = kpi.keySpec]

\* captureCleanupInfo: the metadata, or NoInfo when the association of the
\* installed leaf cannot be read or is not that of the selected container.
CaptureCleanupInfo(l, expectedContainer, readFails) ==
    LET kpi == store[l] IN
    IF \/ readFails
       \/ ~Installed(l)
       \/ kpi.provider # ExpectedCNGProvider
       \/ kpi.containerName # expectedContainer
    THEN NoInfo
    ELSE [CleanupInfoForCert(l) EXCEPT !.provider = kpi.provider,
                                       !.containerName = kpi.containerName,
                                       !.providerType = kpi.providerType,
                                       !.keySpec = kpi.keySpec]

\* Mutated forms: the metadata of an incomplete enrollment has no key names; or it
\* has them, both of them strings, in each other's field.
RetryCleanup_NoKey(l, c) == CleanupInfoForCert(l)
RetryCleanup_Swapped(l, c) ==
    [CleanupInfoForCert(l) EXCEPT !.provider = c, !.containerName = ExpectedCNGProvider]

\* The best-effort metadata of an incomplete enrollment.
RetryCleanup(l, c) ==
    [CleanupInfoForCert(l) EXCEPT !.provider = ExpectedCNGProvider, !.containerName = c]

Capture(a) ==
    /\ pc[a] = "capture"
    /\ \E readFails \in BOOLEAN :
          LET l == issued[a].leaf
              info == CaptureCleanupInfo(l, container[a], readFails)
              returned == [NoResult EXCEPT !.keyContainer = container[a],
                                           !.certificate = l]
          IN \/ /\ info # NoInfo
                /\ Return(a, [returned EXCEPT !.status = "success", !.cleanup = info])
             \/ /\ info = NoInfo
                /\ Return(a, [returned EXCEPT !.status = "enrollment-incomplete",
                                              !.keyState = "present",
                                              !.cleanup = RetryCleanup(l, container[a])])
    /\ UNCHANGED <<keys, store, container, request, issued>>

\* Mutated form: a key that was not found is reported as removed.
KeyStateAfter_NotFoundIsRemoved(outcome) == IF outcome = "error" THEN "present" ELSE "removed"

\* The key state finishOwnedFailure reports for the outcome of the deletion.
KeyStateAfter(outcome) == IF outcome = "deleted" THEN "removed" ELSE "present"

\* finishOwnedFailure, second half: the exact owned key is deleted and what
\* became of it is recorded.
CleanupOwnedKey(a) ==
    /\ pc[a] = "cleanup"
    /\ \E outcome \in DeleteOutcomes :
          /\ DeleteCNGKey(ExpectedCNGProvider, container[a], outcome)
          /\ Return(a, [result[a] EXCEPT
                !.keyState = KeyStateAfter(outcome),
                !.keyCleanupErr = IF outcome = "deleted" THEN "nil" ELSE outcome])
    /\ UNCHANGED <<store, container, request, issued>>

\* The calling process dies between two steps: Enroll never returns.
Crash(a) ==
    /\ pc[a] \in Running
    /\ Goto(a, "crashed")
    /\ UNCHANGED <<keys, store, container, request, issued, result>>

-----------------------------------------------------------------------------
(* Specification *)

LocalStep(a) ==
    \/ Prepare(a) \/ PrepareFails(a) \/ ReadRequest(a)
    \/ Validate(a) \/ Capture(a) \/ CleanupOwnedKey(a)

ToolStep(a) ==
    \/ NewSucceeds(a) \/ NewFails(a)
    \/ SubmitSucceeds(a) \/ SubmitFails(a)
    \/ AcceptSucceeds(a) \/ AcceptFails(a)

Start(a) == NotConfigured(a) \/ AllocateContainer(a) \/ ContainerFails(a)

Enroll(a) == Start(a) \/ LocalStep(a) \/ ToolStep(a)

EnrollNext ==
    \/ \E a \in Attempts : Enroll(a) \/ Crash(a)
    \/ Environment /\ UNCHANGED enrollVars

Init == MachineInit /\ EnrollInit

Spec == Init /\ [][EnrollNext]_vars

\* A call that has started runs its own code; certreq.exe returns, or is
\* killed, only when the context expires.
FairSpec ==
    /\ Spec
    /\ \A a \in Attempts : WF_vars(LocalStep(a))
    /\ \A a \in WithDeadline : WF_vars(ToolStep(a))

-----------------------------------------------------------------------------
(* Properties *)

Returned(a, status) == pc[a] = "done" /\ result[a].status = status

\* Every key an attempt generated is accounted for when Enroll returns: it is in
\* the container the Result names, and either the enrollment succeeded or the
\* key state says that a key may remain.  In particular errKeyNotFound is never
\* reported as a removal (finishOwnedFailure, KeyState).
KeyAccounting ==
    \A a \in Attempts, c \in Containers :
        pc[a] = "done" /\ keys[c] = a =>
            /\ result[a].keyContainer = c
            /\ \/ result[a].status = "success"
               \/ result[a].keyState \in {"present", "unproven"}

\* A key disappears only in the clean-up step of the attempt that generated it,
\* never because another attempt or another component uses the same container
\* name (UseExistingKeySet = FALSE, and -new failures never delete).
OwnKeyOnly ==
    [][\A c \in Containers :
          keys[c] # NoKey /\ keys'[c] # keys[c] =>
              \E a \in Attempts : /\ keys[c] = a
                                  /\ container[a] = c
                                  /\ pc[a] = "cleanup"
                                  /\ pc'[a] = "done"]_vars

\* What Enroll installs in LocalMachine\My meets the localhost policy for the
\* key of an attempt, with the intermediates of a chain the extractor accepted
\* (ValidateCertificate before -accept, fail closed on a bad chain).
InstalledVetted ==
    \A l \in Leaves : Installed(l) =>
        \E a \in Attempts :
            /\ issued[a] # NoMaterial
            /\ issued[a].leaf = l
            /\ \/ issued[a].chainFile = "absent" /\ MeetsLocalhostPolicy(Contents[l], a, {})
               \/ /\ issued[a].chainFile = "read"
                  /\ issued[a].chain # {}
                  /\ MeetsLocalhostPolicy(Contents[l], a, issued[a].chain)

\* "Unavailable" is reserved for fallback-safe conditions (certreqPhase,
\* classifyToolError): no certificate for the key of that attempt is installed.
UnavailableIsFallbackSafe ==
    \A a \in Attempts, l \in Leaves :
        Returned(a, "unavailable") => ~(Installed(l) /\ Contents[l].publicKey = a)

\* A successful attempt leaves a usable and removable pair: its own key is still
\* in its container, and while the leaf is installed its key association is
\* the one the clean-up metadata records, field by field.
SuccessIsUsable ==
    \A a \in Attempts : Returned(a, "success") =>
        LET info == result[a].cleanup
            kpi  == store[info.leafSHA256]
        IN /\ keys[result[a].keyContainer] = a
           /\ Contents[info.leafSHA256].publicKey = a
           /\ Installed(info.leafSHA256) =>
                 kpi = [provider |-> ExpectedCNGProvider,
                        containerName |-> result[a].keyContainer,
                        providerType |-> info.providerType,
                        keySpec |-> info.keySpec]

\* Enroll returns (or its process dies) once it has started, when its context
\* expires: neither a pending request nor the key clean-up is tried again.
EnrollReturns ==
    \A a \in WithDeadline : pc[a] # "idle" ~> pc[a] \in {"done", "crashed"}

\* provider.go: the key container "must be removed on any subsequent failure
\* before a certificate is installed", and finishOwnedFailure "removes the exact
\* key immediately where safe".  A certificate that is installed for the key of
\* an attempt keeps that key: the attempt has not reported it as removed.
InstalledKeepsKey ==
    \A a \in Attempts, l \in Leaves :
        pc[a] = "done" /\ Installed(l) /\ Contents[l].publicKey = a =>
            result[a].keyState # "removed"

-----------------------------------------------------------------------------
(* The contract *)

\* What a caller can tell of the attempts and of their artifacts.
NotReported == [status |-> "unknown", keyState |-> "none"]
HasKey   == [a \in Attempts |-> \E c \in Containers : keys[c] = a]
HasLeaf  == [a \in Attempts |->
                \E l \in Leaves : Installed(l) /\ Contents[l].publicKey = a]
Reported == [a \in Attempts |->
                IF pc[a] = "done"
                THEN [status |-> result[a].status, keyState |-> result[a].keyState]
                ELSE NotReported]

Contract == INSTANCE Artifacts WITH
    Pending <- NotReported, key <- HasKey, leaf <- HasLeaf, report <- Reported

\* Enrollments, with every failure of certreq, every crash and every other actor,
\* do to the keys and certificates of each attempt only what Artifacts allows,
\* and report it truthfully.
ImplementsArtifacts == Contract!ArtifactsSpec

\* What Artifacts lets a caller rely on holds of the keys and certificates
\* themselves (Status and KeyState of status.go).  In particular the certificate
\* of a success can be used for as long as it is installed, whoever uninstalls
\* what meanwhile, and a certificate without its key is always the trace of one
\* attempt that failed in -accept.
ReportIsReliable == Contract!ReportIsReliable

-----------------------------------------------------------------------------
(* The inductive invariant behind the safety properties *)

\* The steps at which the key of the attempt is in its container.
Holding == {"readRequest", "submit", "validate", "accept", "capture", "cleanup"}

\* Past "idle" an attempt has a container, and past "submit" its material.
ChoicesMade ==
    \A a \in Attempts :
        /\ pc[a] \in Running => container[a] \in Containers
        /\ pc[a] \in {"validate", "accept", "capture"} => issued[a] \in Material

\* A key of an attempt is in the container of that attempt and nowhere else.
KeyOrigin ==
    \A a \in Attempts, c \in Containers :
        keys[c] = a => container[a] = c /\ pc[a] \in Holding \cup {"done", "crashed"}

\* From the success of -new to the end of the attempt its container holds its
\* key, and the request asks for a certificate of that key.
KeyHeld ==
    \A a \in Attempts :
        /\ pc[a] \in Holding => keys[container[a]] = a
        /\ pc[a] \in Holding \ {"cleanup"} => request[a] = a

\* The material of attempt a passed every check for the key of a.
Vetted(a) == issued[a] \in Material /\ MaterialStatus(issued[a], a) = "success"

\* Only vetted material reaches -accept.
AcceptVetted == \A a \in Attempts : pc[a] \in {"accept", "capture"} => Vetted(a)

\* The failure that waits for the key clean-up names the container, is one of the
\* three failures after -new and carries no clean-up metadata.
FailureRecorded ==
    \A a \in Attempts : pc[a] = "cleanup" =>
        /\ result[a].keyContainer = container[a]
        /\ result[a].status \in {"unavailable", "enrollment-failed", "invalid-certificate"}
        /\ result[a].cleanup = NoInfo

\* The statuses with which a certificate may be left in the store.
MayLeaveLeaf == {"success", "enrollment-incomplete", "enrollment-failed"}

\* An installed leaf was installed by an attempt that vetted it and that has not
\* reported, or reports a status that lets one expect it.
LeafOrigin ==
    \A l \in Leaves : Installed(l) =>
        \E a \in Attempts :
            /\ Vetted(a)
            /\ issued[a].leaf = l
            /\ \/ pc[a] \in {"capture", "crashed"}
               \/ /\ pc[a] \in {"cleanup", "done"}
                  /\ result[a].status \in MayLeaveLeaf

\* A success carries complete metadata for a leaf and the container.
SuccessRecorded ==
    \A a \in Attempts : Returned(a, "success") =>
        /\ result[a].keyContainer \in Containers
        /\ result[a].cleanup \in CleanupInfo
        /\ result[a].cleanup.leafSHA256 \in Leaves

\* What an attempt has generated, installed and recorded is consistent at every
\* step of every other attempt, of a crash and of the environment: the
\* invariant that carries the ownership comment of provider.go ("From here the
\* key container is owned by this attempt") through all interleavings.
OwnershipInv ==
    /\ ChoicesMade
    /\ KeyOrigin
    /\ KeyHeld
    /\ AcceptVetted
    /\ FailureRecorded
    /\ LeafOrigin
    /\ SuccessRecorded
=============================================================================
