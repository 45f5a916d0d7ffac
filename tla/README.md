# Verification of enterprise-tls

A TLA+ development for the Go module `github.com/keppin-oss/enterprise-tls`
(`src/`): modules that model it, TLC configurations that check them on small
instances, and theorems that TLAPS proves for every instance.

The program enrolls a machine-scoped `localhost` certificate from an Enterprise
CA by driving `certreq.exe` (`Provider.Enroll`), validates what comes back
(`ValidateCertificate`), and later removes the certificate and its key
(`Uninstall`). It is sequential inside one call; what makes it hard is that every
call works on state of the machine that other calls, other programs and
administrators change between any two steps, and that the tool it drives can
fail after having had its effect.

## 1. Inventory

| Component | State | Operations | Hard behaviour | What makes it correct |
| --- | --- | --- | --- | --- |
| Enrollment (`provider.go`, `request.go`, `status.go`, `config.go`) | the container name of the attempt, its temporary files, its `Result` | `Enroll`, `captureCleanupInfo`, `cleanupOwnedKey`, `finishOwnedFailure` | concurrent attempts, container collisions, crashes, failures after the effect, an expiring context | deletes only its own key; loses no key silently; installs only vetted material; a success is usable and removable; it returns |
| Runner and classification (`certreq.go`) | none | `Run`, `classifyToolError` | a killed tool may have acted; the meaning of an exit code depends on the phase | "unavailable" only when falling back is safe |
| Validation (`validate.go`) | none | `ValidateCertificate`, `validateSANs`, `validateUsage`, `validateChain` | order of early returns, two spellings of one address, optional chain | accepts exactly the localhost policy |
| Chain extraction (`pkcs7.go`) | none | `parsePKCS7Certificates`, `decodeCertElements` | damaged input, termination of the element loop, a field that goes on after a SET | fails closed on everything it looks at |
| Uninstall (`cleanup.go`) | none of its own; the caller's `CleanupInfo` | `Uninstall`, `runCleanup`, `removeKey`, `removeOrphanKey` | partial failure and retry, concurrent uninstallers, check and deletion in separate look-ups | deletes only what the metadata identifies, the leaf before the key; a refusal means that nothing was deleted, for metadata that names its key |
| Windows seams (`cleanup_win.go`) | certificate contexts and store handles within a call | `FindLeafBySHA256`, `KeyProvInfo`, `DeleteLeafBySHA256`, `DeleteCNGKey` | ownership of enumerated contexts, two-call property reads, offsets into a buffer | every context freed once, no read outside the buffer |
| Machine (external) | CNG keys of the Software KSP, `LocalMachine\My` | - | changed by anyone at any time | - |
| Example programs (`examples/enroll`, `examples/uninstall`) | `CLEANUP_FILE` | enroll and persist; read and uninstall | torn and overlapping writes, a crash between `Enroll` and the write, a renewal that reuses the file | the uninstall program acts only on complete metadata of a success; a failed renewal leaves the file alone |
| Stubs (`cleanup_other.go`), encodings (`util.go`), the other two examples, tests | none | - | - | - |

Interaction: `Enroll` calls the runner (certreq changes keys and store), the
validation, and the two seams `certStore` and `keyRemover`; `Uninstall` calls the
same two seams. The only link from an enrollment to an uninstall is the
`CleanupInfo` of the `Result`, carried by the caller. The hazards these
interactions expose are listed with their source lines and the properties that
cover them in `PROJECT.json`.

## 2. Modules

| Module | Extends | Models |
| --- | --- | --- |
| `Machine` | | keys, certificate store, the seam operations and the other actors of the machine |
| `Validation` | | `ValidateCertificate` as a predicate, and the policy it is checked against |
| `ValidationCall` | `Validation` | one call of `ValidateCertificate`: arguments in, verdict out |
| `Enrollment` | `Machine`, `Validation` | `Provider.Enroll`, any number of attempts at once |
| `Cleanup` | `Machine` | `Uninstall`, any number of callers at once |
| `Lifecycle` | `Enrollment`, `Cleanup` | both on one machine, with fresh container names and metadata handed over |
| `Consumer` | `Lifecycle` | the two example programs around `CLEANUP_FILE` |
| `Artifacts` | | abstract: what the package promises about the key, the certificate and the report of each attempt; `Enrollment` and `Lifecycle` implement it |
| `CertStore` | | abstract: what the `certStore` seam promises its callers |
| `WinStore` | instantiates `CertStore` | `winStore` call by call; implements `CertStore` |
| `KeyProvInfo` | | `readKeyProvInfo` and `utf16StringAt` |
| `ChainExtraction` | | `parsePKCS7Certificates` |
| `MC*` | | instances for TLC |
| `ValidationProofs` | `ValidationCall` | theorems |
| `CleanupProofs`, `WinStoreProofs`, `KeyProvInfoProofs`, `ChainExtractionProofs` | the module they are named after | theorems |
| `EnrollmentProofs` | `Enrollment`, `ValidationProofs` | theorems |
| `LifecycleProofs` | `Lifecycle`, `EnrollmentProofs`, `CleanupProofs` | theorems |
| `ConsumerProofs` | `Consumer`, `LifecycleProofs` | theorems |

### Machine

`keys[c]` is the generator of the key in container `c` (an attempt, `Foreign`, or
`NoKey`); `store[l]` is the key association of leaf `l` in `LocalMachine\My`, or
`NotInstalled`. The provider or the container of an association may be empty
(`NoProvider`, `NoContainer`): `utf16StringAt` returns `""` for a NULL pointer, and
nothing keeps another program, or `-accept`, from writing such a property. A leaf
stands for its SHA-256 fingerprint, which is how every seam operation looks it up.
`DeleteCNGKey` and `DeleteLeafBySHA256` take the outcome as a parameter: `deleted`,
`notFound` or `error`. CNG's "not found" also stands for a key that could not be
opened; the containers for which that can happen are the constant `Hidden`.
`Environment` lets another component create a key in an empty container and an
administrator remove a leaf; nobody installs a removed leaf again (section 5). A
deletion succeeds also when the leaf has gone since it was looked up: that is what
`CertStore` promises and `WinStore` is shown to do, so the single step of `Machine`
stands for the whole operation, at the moment of the look-up when it reads and of
the deletion when it deletes.

### Enrollment

One value of `pc` for each point of `Enroll` where the machine can change
underneath it; the calls of `certreq` are steps of their own.

| Step (`pc`) | Code | Actions |
| --- | --- | --- |
| `idle` | provider.go 55-66 | `NotConfigured`, `AllocateContainer`, `ContainerFails` |
| `prepare` | 68-83 | `Prepare`, `PrepareFails` |
| `new` | 85-92 | `NewSucceeds`, `NewFails` |
| `readRequest` | 94-103 | `ReadRequest` |
| `submit` | 105-108 | `SubmitSucceeds`, `SubmitFails` |
| `validate` | 109-149 | `Validate` |
| `accept` | 151-156 | `AcceptSucceeds`, `AcceptFails` |
| `capture` | 158-185 | `Capture` |
| `cleanup` | 228-261 | `CleanupOwnedKey` |

`Crash` is the death of the calling process at any of them. A `certreq` call
fails because the tool is missing (no effect), with an exit code on the
reachability list, or in any other way; in the last two cases it may have had its
effect, since `exec.CommandContext` kills the tool at any point and reports the
expiry even if the tool has finished. What the CA returns is any member of
`Material`: each combination of a missing, empty, malformed or parsed
`issued.cer` and an absent, rejected or read `chain.p7b`. `-accept` may bind the
leaf to any provider, container, type and key spec, or leave the names empty.

### Cleanup

`FindLeaf`, `ReadAssociation`, `DeleteLeaf` and `DeleteKey` are the four seam
calls of `runCleanup`, each with the guards that follow it; between any two of
them other callers, the administrator and other components act, and the caller
may die. A caller keeps one persisted `CleanupInfo` and may call again after any
outcome. `deleted` is a history variable: what the calls of a caller have deleted.
The identity guards on issuer, serial number and SPKI are one comparison of
`identity` with the leaf found.

### Lifecycle

`CallUninstall` takes only metadata of a `Result` that has been returned. Container
names are fresh (`keppin-enterprise-tls-` and a random UUID), so here no other
component uses them; `Enrollment` by itself does not assume that.

### Consumer

One run of the enroll program per attempt and one run of the uninstall program per
caller, all on one file. `OpenFile` truncates (`os.WriteFile`), which leaves the
file `Empty`; `WriteFile` writes the document. A write that is cut short, by an
error or by `MainCrashes`, leaves the file as it was or `Torn`, and one over a
longer document that another run has written since the truncation leaves it `Torn`
too, since `json.Unmarshal` refuses trailing data. `main[a]` is `persisted` only
after a write without an error, `failed` after one of which the program warns.
`Crash` of `Enrollment` is a death before the file is opened. `UninstallMain` reads
what is there, and calls `Uninstall` only with a document that passes the
completeness guard.

### Artifacts

Three variables per attempt: whether its key exists, whether a certificate for the
key is installed, and the report (status and key state). The refinement mapping,
`Contract` in `Enrollment`, derives them from `keys`, `store` with `Contents`, and
`pc` with `result`: the key of `a` exists when some container holds it, and the
report is `Pending` until `pc[a] = "done"`. The same mapping serves `Lifecycle`,
where the steps of `Uninstall` become `Withdraw` and `RemoveKey`. What `Artifacts`
leaves to the implementation is everything else: containers, phases, crashes,
concurrency. Every failure but "enrollment-failed" promises that no certificate is
installed; only "unavailable" and "enrollment-failed" may leave the key unproven,
and "invalid-certificate" never does. It allows a failing attempt to delete its key
while its certificate is installed, since the code does (section 6), but it has to
report "enrollment-failed" and the key as removed.

`ReportIsReliable` is what a caller who knows only the `Result` gains from this,
at any time after the return and whoever uninstalls what meanwhile. It speaks of
the three variables of `Artifacts` and of nothing else, so every module that
implements `Artifacts` has it.

### CertStore and WinStore

In `CertStore` a call looks the leaf up at one moment, `Look`, and then answers.
`WinStore` makes the Win32 calls one by one: `Open` (`CertOpenStore`, which takes the
snapshot `view`), `EnumerateNext` and `EnumerationEnds`
(`CertEnumCertificatesInStore`), `Compare`, then `CopyLeaf`, `ReadProperty` or
`DeleteContext`, and the deferred `FreeContext` and `CloseStore`. `held[p][l]` counts
the context references the call owes. In the refinement mapping `Open` is the
look-up, everything up to the decision stutters, and so do the deferred calls.
One client is enough: clients share nothing but the store, and `OthersChange`
changes that in every way another client could.

### KeyProvInfo

The buffer, the two addresses of its header and the loop variable of the decoding
loop, in `uintptr` and `int` arithmetic of a width given by `Half`. Buffer content
and addresses are arbitrary. `UserModeAssumption` says that addresses are in the
lower half of the address space, as they are in every Windows process; with an
address of `Base + Half - 1` the addition `off+1` would wrap. It also says that the
buffer does not begin at address 0 or 1 (page 0 is never mapped): the proof needs
this so that `i + 1` and `i + 2` do not wrap at the end of the largest buffer.

### ChainExtraction

A chain file is what each decoding step finds in it and runs of elements: `set`, the
content of a SET with which the certificates field may start, and `run`, what
follows it or, without a SET, the whole field. `LoopInput` is the part the element
loop is given: of a field that starts with a SET the content of the SET, and nothing
of what follows. The elements are certificates, other DER elements, bytes that are
not DER, and bytes an ASN.1 decoder would accept without consuming any, which is
what the progress guard is for. Its verdicts are the values of `chainFile` in
`Enrollment`: an error is `rejected`, a chain is `read`.

## 3. Runs

`tlc -config <cfg> <module>` in this directory.

| Run | Bounds | States | Shows |
| --- | --- | --- | --- |
| `MCValidation.cfg` | up to 3 IP SANs of 4 spellings, up to 2 DNS names, known and unknown usages, 5 authorities, every set of intermediates | 18 560 | `AcceptsExactlyPolicy` |
| `MCEnrollment.cfg` | 3 attempts, one with a deadline, one not configured, 2 containers (one hidden), 3 leaves, 8 kinds of material | 384 096 | the safety properties of `Enroll`, the inductive invariant `OwnershipInv`, that it implements `Artifacts`, and `EnrollReturns` |
| `MCEnrollmentOrphan.cfg` | as `MCEnrollment.cfg` | - | violation of `InstalledKeepsKey` (section 6) |
| `MCCleanup.cfg` | 2 callers, 8 forms of metadata, 2 containers (one hidden), 1 leaf, any initial machine | 291 663 | the properties of `Uninstall` and their inductive invariant `UninstallInv` |
| `MCCleanupNameless.cfg` | as `MCCleanup.cfg` | - | violation of `RefusedCallerDeletedNothing` (section 6) |
| `MCCleanupRetry.cfg` | 2 callers, 2 containers (one hidden), 1 leaf, 3 metadata | 33 774 | `BegunIsFinished` |
| `MCLifecycle.cfg` | 2 attempts, 2 leaves, 2 containers, 2 callers up to symmetry | 506 384 | the properties of the composition, the inductive invariant `HandoverInv`, that it implements `Artifacts`, and that the `Result` stays reliable |
| `MCConsumer.cfg` | as `MCLifecycle.cfg`, without symmetry, one file | 464 657 | the properties of the example programs, the inductive invariant `FileInv`, and that they implement `Lifecycle` |
| `MCWinStore.cfg` | 1 client, 3 leaves, 2 associations | 163 215 | `WinStore` implements `CertStore`, context discipline, a complete search, termination |
| `MCKeyProvInfo.cfg` | buffers up to 6 bytes of 2 values, header of 2, 5-bit addresses | 129 903 | the decoding of the association and its inductive invariant `DecodeInv` |
| `MCChainExtraction.cfg` | up to 3 elements of 5 kinds, up to 1 behind a SET | 61 652 | the extraction of the chain |
| `MCChainTail.cfg` | as `MCChainExtraction.cfg` | - | violation of `EveryCertificateExtracted` (section 6) |

Why the bounds are enough. All interference in `Enrollment` is between an attempt
and one other user of its container, or one other attempt that installs a leaf; two
attempts and the environment give every pair, and a second container gives an
association that is not the own one. In `Cleanup` a guard can be invalidated by one
concurrent actor, and a second caller is the most capable one; the metadata contains
one damaged form for each guard, and forms that lack one name or both. One leaf is
enough there: every operation takes the leaf of the metadata, and metadata of
another leaf adds a caller that shares only the container, which the rival container
names of one leaf do as well; the theorems hold for any number. Three IP SANs exceed
the two that the code accepts; five authorities give paths of length one to three, a
sub-CA that may not issue, and a CA outside the roots. Three leaves give an
enumeration a first, a middle and a last step. Six bytes hold three units, so a
string can start at each even and odd offset, end with a NUL, at the end of the
buffer, or with half a unit. Three elements put a defective one first, in the middle
and last. `MCLifecycle.cfg` declares its two callers symmetric: no definition tells
them apart, they start alike, and the run has no liveness property. No state
variable is an unbounded counter. Deadlock is not checked: an attempt that has
returned, and the machine once everybody has, does stop. `MCValidation` enumerates
its calls in `MCInit`, which conjoins `ValidationInit`, so its behaviours are some
of those of `ValidationSpec`. `LifecycleTypeOK` is in no run of its own: it is
`EnrollTypeOK` and `CleanupTypeOK`, which the runs of the two parts check, and
`LifecycleTyped` proves it.

What the properties say:

- `AcceptsExactlyPolicy`: acceptance is equivalent to the policy of
  docs/README.md section 10, stated without the control flow of the code (sets of
  identities; trust as the least set closed under signing).
- `OwnKeyOnly`: in `Enrollment` a key disappears only in the clean-up step of the
  attempt that generated it, collisions and foreign keys included.
- `KeyAccounting`: a key that outlives the return of its attempt is in the container
  the `Result` names and is not reported as removed.
- `InstalledVetted`: every installed leaf met the policy for the key of its attempt,
  with intermediates of an accepted chain only.
- `UnavailableIsFallbackSafe`: after "unavailable", no certificate for the key of
  that attempt is installed.
- `SuccessIsUsable`: after a success the key is in its container and the installed
  leaf, while it is there, has exactly the association that was recorded.
- `EnrollReturns`: an attempt with a deadline returns, or its process dies; it does
  not wait for a pending request or repeat the deletion of its key.
- `RefusalMeansUntouched`: a caller that is refused with `ErrOwnershipMismatch` has
  deleted nothing, in this call or an earlier one, if its metadata names its key;
  otherwise it may have deleted the leaf (section 6), but no key.
- `LeafBeforeKey`: a key is deleted only by metadata that names it under the provider
  of this module and whose leaf is not installed.
- `DeletesOnlyVerified`: the leaf that is deleted has, at that moment, the identity
  and the association of the metadata. Empty names agree with empty names, as they
  do in the code.
- `NilMeansGone`: after a nil return the leaf is absent and so is the key the metadata
  names, unless CNG reports it as not found. It says nothing of a key that the
  metadata does not name.
- `UninstallInv`: between the steps of `runCleanup`, across callers, crashes and
  retries, what a call has checked stays true: the fingerprint is there, the leaf to
  be deleted is the verified one, and a caller at the key has no leaf any more.
- `BegunIsFinished`: a caller that has deleted the leaf and retries gets nil in the
  end, although nothing can be verified any more, if its metadata names a key under
  the provider of this module.
- `RefusalHasCause`: in the composition a refusal means that the enrollment was
  incomplete and that its leaf is installed with an association the metadata does
  not describe.
- `ImplementsArtifacts`: every step of every interleaving is one that `Artifacts`
  allows.
- `ReportIsReliable`: a certificate is there after the report only with "success",
  "enrollment-incomplete" or "enrollment-failed"; a key only with "success" or a key
  state that says so; and an installed certificate has its key, unless the attempt
  has reported "enrollment-failed" and its key as removed.
- `FileIsTrustworthy`: whatever happens to `CLEANUP_FILE`, the uninstall program acts
  on the metadata of a success.
- `PersistedUntilRenewed`: metadata written without a warning stays in the file, whole,
  until another run whose enrollment has succeeded opens the file. From then on the
  program promises nothing: the other run may fail or die in the middle of its write,
  and it may be the older of the two. Nor is anything promised after a crash between
  `Enroll` and the write.
- `FileInv`, `UsesLifecycle`: the file holds either the whole metadata of a success
  or nothing that passes the completeness guard, so a program that talks to
  `Uninstall` through it is one of the callers `Lifecycle` describes.
- `ContextDiscipline`, `SearchComplete`, `ImplementsCertStore`, `OperationReturns`:
  contexts and handles are given back exactly once on every path; the
  enumeration neither misses a leaf nor returns another; answers are true of one
  moment of the call and a failed enumeration is not "not found"; every call is
  answered and returns.
- `ReadsInBounds`, `DecodesBothStrings`, `DecodeInv`, `ReadEnds`: no access outside the
  buffer, the strings are those of the layout, the loop ends.
- `LoopSkipsNothing`, `ExtractionEnds`: what the element loop is given is used as a
  whole or not at all, and the loop ends. That what follows a leading SET is not given
  to it is the violation in `MCChainTail.cfg`.
- `HandoverInv`: no container is shared, and the metadata a caller holds names the
  vetted leaf and the own container of the attempt that returned it.
- `OwnPairOnly`, `SuccessNeverRefused`, `UninstalledStaysGone`: no enrollment or
  uninstall reaches the artifacts of another; captured metadata passes every guard
  of `Uninstall`; what was reported gone does not come back.

Fairness (`FairSpec`). Weak fairness of the local steps of every attempt: a call
that has started runs its own code. Weak fairness of the tool steps only for
attempts whose context expires: `exec.CommandContext` then kills the tool.
Nothing is assumed of attempts without a deadline, of the environment, of the
start of an attempt, or of the success of any step. The fairness of the tool steps
rests on one fact outside the repository: `execRunner.Run` sets no `WaitDelay`, so
a process started by `certreq.exe` that inherits its output pipes would keep `Run`
waiting after the kill; `certreq.exe` is taken to leave none.

`RetriedSpec` of `Cleanup` describes a caller rather than the code: it calls again
after a failure or a crash (weak fairness of `Retry`), a call that runs goes on, and
an operation of the store or of CNG that is tried again and again does not fail
every time (strong fairness of each step with `Advances`). Without the last
assumption a permanent failure of CNG would keep the key for good. `WinSpec`,
`KpiSpec` and `ChainSpec` have weak fairness of the one thread of control: the code
between two external calls runs, and Win32 calls return.

## 4. Proofs

`tlapm M.tla` in this directory, for each of the eight modules that end in `Proofs`.

| Module | Theorem | Statement |
| --- | --- | --- |
| `ValidationProofs` | `ValidationSound`, `ValidationExact` | a certificate is accepted (only) if it meets the localhost policy, for every set of authorities, issuers, roots and intermediates |
| | `ValidationAccepts` | `ValidationSpec => []AcceptsExactlyPolicy` |
| `EnrollmentProofs` | `EnrollmentTyped`, `Ownership` | `Spec => []EnrollTypeOK`, `Spec => []OwnershipInv` |
| | `KeysAccounted`, `SuccessUsable`, `UnavailableIsSafe`, `InstalledIsVetted` | `Spec => []P` for the invariants of `MCEnrollment.cfg` |
| | `DeletesOwnKeyOnly` | `Spec => OwnKeyOnly` |
| | `EnrollmentContract` | `Spec => ImplementsArtifacts` |
| | `ResultReliable` | `Spec => []ReportIsReliable` |
| | `NoStepTwice` | the action property `StepsOnce` of the proof module |
| `CleanupProofs` | `UninstallTyped`, `GuardsStay`, `RefusedUntouched` | `UninstallSpec => []P` for `CleanupTypeOK`, `UninstallInv`, `RefusalMeansUntouched` |
| | `KeyAfterLeaf`, `DeletesVerified`, `NilIsGone` | the action properties `LeafBeforeKey`, `DeletesOnlyVerified`, `NilMeansGone` |
| `WinStoreProofs` | `WinTyped`, `ContextsOwned`, `SearchIsComplete` | `WinSpec => []P` for `WinTypeOK`, `ContextDiscipline`, `SearchComplete` |
| | `StoreContract` | `WinSpec => ImplementsCertStore` |
| | `OperationsDescend` | the action property `WinDescends` of the proof module |
| `KeyProvInfoProofs` | `KpiTyped`, `DecodingHolds`, `InBounds`, `StringsDecoded` | `KpiSpec => []P` for `KpiTypeOK`, `DecodeInv`, `ReadsInBounds`, `DecodesBothStrings` |
| | `ReadDescends` | the action property `KpiDescends` of the proof module |
| `ChainExtractionProofs` | `ElementsAccounted`, `ChainFailsClosed` | `ChainSpec => []P` for `LoopAccounts` of the proof module, `LoopSkipsNothing` |
| | `ExtractionDescends` | the action property `ChainDescends` of the proof module |
| `LifecycleProofs` | `LifecycleTyped`, `HandoverHolds`, `SuccessRemovable`, `GoneForGood` | `LifecycleSpec => []P` for `LifecycleTypeOK`, `HandoverInv`, `SuccessNeverRefused`, `UninstalledStaysGone` |
| | `RefusalExplained`, `OwnPairs` | the action properties `RefusalHasCause`, `OwnPairOnly` |
| | `LifecycleContract` | `LifecycleSpec => ImplementsArtifacts` |
| | `LifecycleReliable`, `LifecycleVetted` | `LifecycleSpec => []P` for `ReportIsReliable`, `InstalledVetted` |
| `ConsumerProofs` | `FileHolds`, `FileTrusted`, `PersistedStays` | `ConsumerSpec => []P` for `FileInv`, `FileIsTrustworthy`, `PersistedUntilRenewed` |
| | `ProgramsUseLifecycle` | `ConsumerSpec => LifecycleSpec` |
| | `ProgramsReliable` | `ConsumerSpec => ImplementsArtifacts /\ []ReportIsReliable` |

Every safety property of a passing run is proved for all values of the constants.
The theorems hold for any sets of attempts,
callers, clients, containers, leaves, providers, authorities and materials, any
chain file and any buffer that satisfy the named assumptions: the sentinels are
distinct from the values they stand beside, `ExpectedCNGProvider` is a provider, 0
is a provider type and a key spec (Go's zero values), every attempt's key is a
public key, `Contents` maps leaves to certificates, the set of authorities is
finite, and a process lives in the lower half of the address space
(`UserModeAssumption`). TLC evaluates the assumptions in every run.

*Validation.* Everything but the chain is close to propositional. For the chain,
an accepted path ends in a root and each authority on it was signed by the next
one. `Anchored` is the intersection of all closed sets, so it is enough to show
that the first authority of the path is in every closed set `S`. If it were not,
take the largest position of the path outside `S`, which exists by the
least-number principle applied to the distance from the end: it is not the last
position, because `S` holds the usable roots, and its successor is in `S`, so
closure puts it into `S` as well. This needs no induction over paths. Neither does
the converse: the authorities that begin a path of any length are a closed set
(`AnchoredHasPath`), so an anchored issuer begins a path. `Verify` looks at no path
longer than the number of authorities; a shortest path meets no authority twice,
since it could be cut short (`CutPath`), and so, by the pigeonhole principle, it is
within that bound (`AnchoredVerifies`). `ValidationAccepts` carries the equivalence to
the verdicts of `ValidationCall`.

*Enrollment.* None of the safety properties is inductive. `IInv` adds
`OwnershipInv`: past `-new` an attempt holds its key in its container until it
returns (`KeyHeld`), a key of an attempt is nowhere else (`KeyOrigin`), the request
asks for that key, only vetted material reaches `-accept` (`AcceptVetted`), every
installed leaf has an attempt that vetted it and reports nothing yet or a status of
`MayLeaveLeaf` (`LeafOrigin`), and a pending failure names its container
(`FailureRecorded`). The step proof first shows, for each variable, what a step of
attempt `a` can change for another attempt `b` and for the keys and leaves, and then
preserves each part from these facts. `SuccessIsUsable` needs one more idea: a leaf
for the key of `a` can be installed again only by an attempt that vetted it for its
own key, which is `a` itself, and `a` has returned. The refinement of `Artifacts`
follows from the same facts: a step of `a` moves at most the key, the certificate
and the report of `a`, and for each action `IInv` says which move it is.

*The Result.* `ReportIsReliable` is not proved from the steps of `Enroll` or
`Uninstall`. `ContractIsReliable` proves `ImplementsArtifacts => []ReportIsReliable`
from the actions of `Artifacts` alone, through the refinement mapping; there it is
inductive as it stands, because a report is made once and `RemoveKey` waits for the
certificate to go. `ResultReliable`, `LifecycleReliable` and `ProgramsReliable` are
this lemma and the refinement theorem of the module in question; for the programs
that theorem is `ProgramsUseLifecycle` followed by `LifecycleContract`.
`LifecycleVetted` does the same for the policy: it needs `LeafOrigin` only, which
uninstalls preserve.

*Cleanup.* `UninstallInv` is inductive with the type invariant. Its parts:
a call in progress has metadata with a fingerprint (`CallInProgress`); at each later
step the guards it has passed still hold, because no step installs or rebinds a
leaf (`GuardsHold`); a caller at the key, or one that has deleted anything in
this call or an earlier one, has no leaf any more, and one that has deleted a key has
metadata that names it (`LeafGone`). A refusal needs an installed leaf or missing
names, so a caller that has deleted something can be refused only for missing names,
and then it has deleted no key: `RefusalMeansUntouched`. The three action
properties follow from the guard of each step and `UninstallInv` in the state
before it.

*WinStore.* `ContextDiscipline` says, for each step of a call, which single context
reference it owes and whether it owes the handle, and is inductive as it is.
`SearchComplete` follows the leaf through the enumeration: while it has not been
passed it is still to come or current. With both, each step maps to a step of
`CertStore` or to none: `NotFound` is answered only at the end of an enumeration in
which the leaf was not to come, and the deletion is of the leaf asked for.

*KeyProvInfo.* `DecodeInv` ties the loop variable to the number of units decoded,
and says that the string before the one being read is complete. Before the steps
come the lemmas on machine integers: under `UserModeAssumption` the conversion of
the pointer difference keeps its sign and `off+1`, `i+1`, `i+2` do not wrap, so the
guards can be read in plain arithmetic.

*ChainExtraction.* The inductive invariant is `LoopAccounts` of the proof module
(TLC has checked it under the bounds of `MCChainExtraction.cfg`; no run repeats it).
It says that what is kept, followed by what is left, is `LoopInput`. It needs only
what the progress guard and `Garbage` give for one turn of the loop, and therefore
no induction over the file.

*Lifecycle.* The invariant is that of both parts and `HandoverInv`. An enrollment step
keeps the half of `Enrollment` by the lemmas of `EnrollmentProofs` and an uninstall
step the half of `Cleanup` by those of `CleanupProofs`; the proof shows the rest. An
enrollment cannot disturb an uninstall because the leaf of the metadata is that of
an attempt that has returned (`ReturnedStays`), and an uninstall cannot disturb an
enrollment because the key it deletes belongs to the attempt whose metadata it was
given (`KeyOfCall`), which rests on `ContainersApart`, the freshness of the UUID.
`SuccessNeverRefused` and `UninstalledStaysGone` are inductive on top of this.

*Consumer.* `FileInv` is proved together with the invariant of `Lifecycle`.
`PersistedUntilRenewed` needs its clause on the truncation: a run about to write finds
the file `Empty`, so that no foreign tail survives its write, or another has opened it
since. The guard of
the uninstall program and `FileInv` show that each of its calls is one `Lifecycle`
allows, so every step of the programs is a step of `Lifecycle` or leaves its
variables alone (`UsesLifecycle`), and the theorems of `LifecycleProofs` apply.

*Termination.* Only model-checked are the liveness properties `EnrollReturns`,
`BegunIsFinished`, `OperationReturns`, `ReadEnds` and `ExtractionEnds`: they need
fairness and ENABLED, which the prover does not handle. What can be proved of four
of them, for every instance, is their variant, the half that depends on the code and
not on the scheduler. `StepsOnce`: a step of an attempt takes it to a later place of
`Enroll`, so it has at most nine. `WinDescends`: after `Open` a step leaves a proper
subset of the certificates still to come, or the same and a later step of the turn.
`KpiDescends`: the loop variable goes up within the same buffer, or the step is a
later one; it needs `DecodeInv`, since an addition that wrapped would go down.
`ChainDescends`: what is left to parse gets shorter, whatever `Unmarshal` leaves,
and only because of the progress guard. Each order is well-founded, the second one
because a store is finite, so no call can take infinitely many steps; that it always
has one to take, and takes it, stays with TLC. `BegunIsFinished` has no such
variant: it is about a caller that retries. `InstalledKeepsKey`,
`RefusedCallerDeletedNothing` and `EveryCertificateExtracted` are false (section 6).

## 5. What is left out

- `certreq.exe`, the CA, `crypto/x509` and CNG are external: their outcomes are
  choices, limited to what the code can observe and what the tool promises
  (`-new` with `UseExistingKeySet = FALSE` does not take over a key). The request
  that stays at the CA after a failure is not tracked.
- Temporary files are kept as the outcome of reading them; bytes, PEM and base64
  detection, ASN.1 and hex are not modelled.
- The examples `classification` and `validate` only print what the API returns for
  fixed inputs. The stubs of other platforms return one constant error from each
  seam operation, which is the error branch of every action that calls it.
- The clock stands still (`Now`): a certificate does not expire between validation
  and the check of `InstalledVetted`.
- `New` sets the runner, the store, the remover and the generator and leaves
  `validateOpts` zero, so the nil checks for the first three, the shared
  `Intermediates` pool and the injected clock belong to tests and are not modelled.
- A leaf that is itself a root of the pool is not modelled.
- The environment neither rebinds an installed leaf to another key, nor deletes keys
  with other tools, nor installs a leaf again that was removed. If it did, no property
  that relates an earlier look-up to the present store could hold, and this module has
  no way to prevent it: `DeletesOnlyVerified` and `SuccessIsUsable` depend on the first
  two, `LeafBeforeKey`, `NilMeansGone`, `RefusalMeansUntouched` and `LeafGone` on the
  last, since the key is deleted some time after the leaf was found absent.
  `CertStore` and `WinStore` do let leaves come back, as they speak of one operation.
- `WriteFile` of `Consumer`: a write that is cut short is `Torn` or leaves what was there.
  A cut-short write over the document of another run that happens to give a valid
  document of mixed content is left out; it takes two documents of equal length and a
  write that ends inside the other's. `FileIsTrustworthy` does not cover that.
- Parsing is taken to put `serverAuth` among the known usages, as `crypto/x509` does:
  `Validation` admits no certificate with that usage among the unknown ones.
- `Result.Err`, exit codes, stderr and thumbprints are diagnostics.

## 6. Findings

`MCEnrollmentOrphan.cfg`: provider.go 94-95 says that the owned key must be
removed on a failure "before a certificate is installed", and provider.go 239 that
`finishOwnedFailure` removes it "where safe". The code removes it on every failure
of `-accept` without looking whether the certificate is in the store. When
`-accept` fails or is killed after installing, a leaf stays in `LocalMachine\My`
whose key is deleted, and the `Result` says `KeyStateRemoved` with no `Cleanup`.
docs/README.md section 12 concedes that partial failure in `-accept` can leave
artifacts behind; that the key of an installed certificate is deleted is what the
two comments exclude.

`ReportIsReliable` gives its extent: a certificate is installed without its key only
after a report of "enrollment-failed" with `KeyStateRemoved`. No success and no
incomplete enrollment loses its key that way, nor does a crash or a concurrent
uninstall leave such a certificate (`LifecycleReliable`).

`MCCleanupNameless.cfg`: cleanup.go 20-21 says of `ErrOwnershipMismatch` that cleanup
"refuses to delete either artifact", and docs/README.md section 12 that no artifact is
deleted where "the certificate is absent and required key metadata is missing". The
names are compared as strings (cleanup.go 137-142), so metadata that lacks a key name
matches an association that lacks it too. The leaf is then deleted, the key cannot
be, and the retry is refused because a name is missing: whether the metadata names a key
is asked only once the certificate is gone. `RefusedUntouched` gives the extent: it
happens only to metadata that lacks a name, and it costs no key. The uninstall program
of the examples is not affected, as it refuses such metadata before the call
(`FileIsTrustworthy`).

`MCChainTail.cfg`: pkcs7.go 31-32 says that `parsePKCS7Certificates` "extracts every
certificate embedded in a PKCS#7 SignedData structure". Where the certificates field
starts with a SET, `decodeCertElements` parses the content of the SET and drops what
follows it unread (lines 79-84), certificates included, without an error.
`ChainFailsClosed` gives the extent: of what the loop is given nothing is dropped.

## 7. Extending the project

Every component of section 1 whose behaviour this repository decides is modelled,
every safety property the runs check is a theorem, and so are the refinements
(`Enrollment`, `Lifecycle` and, through it, `Consumer` of `Artifacts`; `WinStore` of
`CertStore`; `Consumer` of `Lifecycle`). What stays open:

1. `Machine` takes each store operation as one step, on the strength of `CertStore`. A
   composition in which `Cleanup` runs directly on `WinStore` would replace the
   argument in section 2 by a refinement.
2. The liveness properties, for a prover that handles ENABLED; the variants of
   section 4 are the lemmas they would start from.
3. If the clean-up after a failed `-accept` comes to look for the certificate first
   (section 6), `InstalledKeepsKey` becomes an invariant, and the exception in
   `ReportIsReliable` and in the failure clause of `Artifacts` can go. Likewise
   `RefusedCallerDeletedNothing`, once a call without key names is refused at once, and
   `EveryCertificateExtracted`, once what follows a SET is parsed or refused.
