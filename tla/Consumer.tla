------------------------------ MODULE Consumer ------------------------------
(***************************************************************************)
(* The two example programs, examples/enroll and examples/uninstall, which *)
(* hand the Cleanup metadata over through CLEANUP_FILE.  Each attempt is   *)
(* one run of the enroll program and each caller one run of the uninstall  *)
(* program; they share one file and may run at the same time.              *)
(***************************************************************************)
EXTENDS Lifecycle

CONSTANTS
    NoFile,  \* CLEANUP_FILE does not exist
    Empty,   \* it has been truncated and nothing has been written to it since
    Torn     \* it holds bytes that are no JSON document: cut short or overlapped

ASSUME FileAssumption ==
    /\ {NoFile, Empty, Torn} \cap CleanupInfo = {}
    /\ Empty \notin {NoFile, Torn}

VARIABLES
    main,  \* main[a]: what the enroll program of attempt a does
    disk   \* disk: what CLEANUP_FILE holds

consumerVars == <<keys, store, pc, container, request, issued, result,
                  upc, meta, uresult, deleted, main, disk>>

ConsumerInit ==
    /\ LifecycleInit
    /\ main = [a \in Attempts |-> "enroll"]
    /\ disk = NoFile

MainGoto(a, step) == main' = [main EXCEPT ![a] = step]

-----------------------------------------------------------------------------
(* examples/enroll *)

\* Enroll returned an error: the program reports it and persists nothing.
ReportFailure(a) ==
    /\ main[a] = "enroll"
    /\ pc[a] = "done" /\ result[a].status # "success"
    /\ MainGoto(a, "exit 1")
    /\ UNCHANGED disk

\* CLEANUP_FILE is not set, or cannot be opened, which is only a warning.
NotPersisted(a) ==
    /\ main[a] = "enroll"
    /\ pc[a] = "done" /\ result[a].status = "success"
    /\ MainGoto(a, "exit 0")
    /\ UNCHANGED disk

\* Mutated form: whatever metadata there is, is persisted.
OpenFile_AnyResult(a) ==
    /\ main[a] = "enroll"
    /\ pc[a] = "done" /\ result[a].cleanup # NoInfo
    /\ MainGoto(a, "write")
    /\ disk' = Empty

\* os.WriteFile truncates the file when it opens it.
OpenFile(a) ==
    /\ main[a] = "enroll"
    /\ pc[a] = "done" /\ result[a].status = "success"
    /\ MainGoto(a, "write")
    /\ disk' = Empty

\* Mutated form: the key spec is not part of the document.
WriteFile_NoKeySpec(a) ==
    /\ main[a] = "write"
    /\ MainGoto(a, "persisted")
    /\ disk' = [result[a].cleanup EXCEPT !.keySpec = 0]

\* The document is written from the start of the file.  Over a longer content that
\* another run has written since the file was opened it leaves the tail of that.
\* A write that fails, before its first byte or half-way, is only a warning.
WriteFile(a) ==
    /\ main[a] = "write"
    /\ \/ /\ MainGoto(a, "persisted")
          /\ disk' = result[a].cleanup
       \/ /\ MainGoto(a, "persisted")
          /\ disk # Empty
          /\ disk' = Torn
       \/ /\ MainGoto(a, "failed")
          /\ disk' \in {disk, Torn}

\* The program dies while it persists, perhaps in the middle of the write.
MainCrashes(a) ==
    /\ main[a] = "write"
    /\ MainGoto(a, "crashed")
    /\ disk' \in {disk, Torn}

EnrollMain(a) ==
    ReportFailure(a) \/ NotPersisted(a) \/ OpenFile(a) \/ WriteFile(a) \/ MainCrashes(a)

-----------------------------------------------------------------------------
(* examples/uninstall *)

\* The program calls Uninstall with what it reads, if it is a document and names
\* a leaf, a provider and a container; otherwise it exits without a call.
UninstallMain(u) ==
    /\ upc[u] = "idle"
    /\ disk \in CleanupInfo
    /\ disk.leafSHA256 # NoLeaf
    /\ disk.provider # NoProvider
    /\ disk.containerName # NoContainer
    /\ CallUninstall(u, disk)

-----------------------------------------------------------------------------
(* Specification *)

ConsumerNext ==
    \/ \E a \in Attempts :
          /\ (Enroll(a) /\ FreshContainer(a)) \/ Crash(a)
          /\ UNCHANGED <<cleanupVars, main, disk>>
    \/ \E a \in Attempts :
          /\ EnrollMain(a)
          /\ UNCHANGED <<machineVars, enrollVars, cleanupVars>>
    \/ \E u \in Callers :
          /\ UninstallMain(u) \/ UninstallStep(u) \/ CallerCrashes(u)
          /\ UNCHANGED <<enrollVars, main, disk>>
    \/ /\ \E l \in Leaves : AdminRemovesLeaf(l)
       /\ UNCHANGED <<enrollVars, cleanupVars, main, disk>>

ConsumerSpec == ConsumerInit /\ [][ConsumerNext]_consumerVars

-----------------------------------------------------------------------------
(* Properties *)

\* The uninstall program is never refused and never removes what does not belong
\* to a successful enrollment: through a file that runs of the enroll program
\* truncate, overlap, cut short or leave behind, it acts only on the complete
\* metadata of a Result with StatusSuccess.
FileIsTrustworthy ==
    \A u \in Callers : meta[u] # NoInfo =>
        /\ uresult[u] # "ErrOwnershipMismatch"
        /\ \E a \in Attempts : Returned(a, "success") /\ meta[u] = result[a].cleanup

\* Another run, whose own enrollment succeeded, has opened the file.
OpenedByOther(a) ==
    \E b \in Attempts \ {a} :
        Returned(b, "success") /\ main[b] \in {"write", "persisted", "failed", "crashed"}

\* A run that has persisted its metadata without a warning finds it in the file,
\* whatever renewals fail, are incomplete or die and whoever uninstalls what ("on
\* a failure path it ... does not persist Result.Cleanup"), until another run,
\* before or after it, has enrolled successfully and opened the same file.  Then
\* it may be gone, and that of the other run need not be there in its place: a
\* crash, a failed write or an overlap leaves the file empty or torn.
PersistedUntilRenewed ==
    \A a \in Attempts :
        main[a] = "persisted" => disk = result[a].cleanup \/ OpenedByOther(a)

\* The example programs use the package as Lifecycle lets any caller use it:
\* through the file, the metadata of a Result reaches Uninstall unchanged or not
\* at all.  All that holds of Lifecycle holds of them.
UsesLifecycle == LifecycleSpec

-----------------------------------------------------------------------------
(* The inductive invariant behind the safety properties *)

MainSteps == {"enroll", "write", "persisted", "failed", "exit 0", "exit 1", "crashed"}

\* What is written, read and passed on is the metadata of a successful attempt, an
\* attempt whose metadata is in the file has finished writing, and one that is
\* about to write finds the file as it left it unless another has opened it.
FileInv ==
    /\ main \in [Attempts -> MainSteps]
    /\ \A a \in Attempts :
          /\ main[a] \in {"write", "persisted"} => Returned(a, "success")
          /\ main[a] = "write" => disk = Empty \/ OpenedByOther(a)
    /\ disk \in CleanupInfo =>
          \E a \in Attempts : /\ main[a] = "persisted"
                              /\ Returned(a, "success")
                              /\ disk = result[a].cleanup
    /\ \A u \in Callers : meta[u] # NoInfo =>
          \E a \in Attempts : Returned(a, "success") /\ meta[u] = result[a].cleanup
=============================================================================
