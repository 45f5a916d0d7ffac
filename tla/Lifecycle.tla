------------------------------ MODULE Lifecycle ------------------------------
(***************************************************************************)
(* Enrollments and uninstalls on one machine.  An uninstall is given the   *)
(* Cleanup metadata of a Result that has been returned, as the two example *)
(* programs do through CLEANUP_FILE, while other attempts are still        *)
(* enrolling.  Container names are fresh: each carries the prefix of the   *)
(* module and a random UUID (request.go), so no other attempt and no other *)
(* component uses them, and the containers are empty at first.             *)
(***************************************************************************)
EXTENDS Enrollment, Cleanup

lifecycleVars == <<keys, store, pc, container, request, issued, result,
                   upc, meta, uresult, deleted>>

\* Type invariant of the composition: Enroll and Uninstall agree on the metadata
\* and keep the shared machine state typed.
LifecycleTypeOK == EnrollTypeOK /\ CleanupTypeOK

LifecycleInit ==
    /\ keys = [c \in Containers |-> NoKey]
    /\ store = [l \in Leaves |-> NotInstalled]
    /\ EnrollInit
    /\ CleanupInit

\* newKeyContainer returns a name that no attempt has been given before.
FreshContainer(a) ==
    pc[a] = "idle" => container'[a] \notin {container[b] : b \in Attempts \ {a}} \ {NoContainer}

\* The caller has the metadata of attempt a.
Handed(a) == pc[a] = "done" /\ result[a].cleanup # NoInfo

LifecycleNext ==
    \/ \E a \in Attempts : /\ (Enroll(a) /\ FreshContainer(a)) \/ Crash(a)
                           /\ UNCHANGED cleanupVars
    \/ \E u \in Callers :
          /\ \/ \E a \in Attempts : Handed(a) /\ CallUninstall(u, result[a].cleanup)
             \/ UninstallStep(u)
             \/ CallerCrashes(u)
          /\ UNCHANGED enrollVars
    \/ /\ \E l \in Leaves : AdminRemovesLeaf(l)
       /\ UNCHANGED <<enrollVars, cleanupVars>>

LifecycleSpec == LifecycleInit /\ [][LifecycleNext]_lifecycleVars

-----------------------------------------------------------------------------
(* Properties *)

\* Caller u acts on what attempt a returned.
ActsFor(u, a) == Handed(a) /\ meta[u] = result[a].cleanup

\* The key of an attempt is deleted only by that attempt or by an uninstall that
\* was given its metadata, and a leaf only by an uninstall given the metadata of
\* the attempt that installed it: concurrent enrollments, a renewal and the
\* uninstall of an older certificate do not reach each other's artifacts.
OwnPairOnly ==
    [][/\ \A c \in Containers : keys'[c] # keys[c] /\ keys[c] # NoKey =>
             \E a \in Attempts :
                 /\ keys[c] = a
                 /\ \/ pc[a] = "cleanup" /\ pc'[a] = "done"
                    \/ \E u \in Callers : upc[u] = "deleteKey" /\ ActsFor(u, a)
       /\ \A u \in Callers : deleted'[u] # deleted[u] /\ upc[u] = "deleteLeaf" =>
             \E a \in Attempts : /\ ActsFor(u, a)
                                 /\ Contents[meta[u].leafSHA256].publicKey = a]_lifecycleVars

\* The metadata of a successful enrollment is never refused: what Enroll
\* captures after -accept passes every guard of Uninstall for as long as the
\* leaf is there, and is complete when it is not, whoever else is uninstalling.
SuccessNeverRefused ==
    \A u \in Callers, a \in Attempts :
        ActsFor(u, a) /\ Returned(a, "success") => uresult[u] # "ErrOwnershipMismatch"

\* A refusal always has its cause in the store at that moment: the metadata is the
\* retry metadata of an incomplete enrollment, and the leaf is installed with an
\* association other than the one the metadata assumes, the expected provider,
\* the own container, type 0 and key spec 0.  In particular removing the leaf by
\* hand always makes such an enrollment removable.
RefusalHasCause ==
    [][\A u \in Callers :
          uresult[u] = "none" /\ uresult'[u] = "ErrOwnershipMismatch" =>
              \E a \in Attempts :
                  /\ ActsFor(u, a)
                  /\ Returned(a, "enrollment-incomplete")
                  /\ Installed(meta[u].leafSHA256)
                  /\ store[meta[u].leafSHA256] #
                        [provider |-> ExpectedCNGProvider, containerName |-> container[a],
                         providerType |-> 0, keySpec |-> 0]]_lifecycleVars

\* Once an uninstall has returned nil for an attempt, its leaf is out of the
\* store for good, and so is its key unless CNG can report it as not found.
UninstalledStaysGone ==
    \A u \in Callers, a \in Attempts :
        ActsFor(u, a) /\ uresult[u] = "nil" =>
            /\ ~Installed(meta[u].leafSHA256)
            /\ \A c \in Containers \ Hidden : keys[c] # a
-----------------------------------------------------------------------------
(* The inductive invariant behind the safety properties *)

\* No two attempts have been given the same container.
ContainersApart ==
    \A a, b \in Attempts : container[a] = container[b] /\ container[a] # NoContainer => a = b

\* A caller acts on the metadata of an attempt, never on any other.
MetadataHasOrigin == \A u \in Callers : meta[u] # NoInfo => \E a \in Attempts : ActsFor(u, a)

\* The association an uninstall with metadata info expects to find.
Recorded(info) ==
    [provider |-> info.provider, containerName |-> info.containerName,
     providerType |-> info.providerType, keySpec |-> info.keySpec]

\* The metadata that Enroll hands out names the leaf the attempt vetted and the
\* container it owns, and for a success the association of the leaf.
MetadataExact ==
    \A a \in Attempts : Handed(a) =>
        LET info == result[a].cleanup
        IN /\ Vetted(a)
           /\ info.leafSHA256 = issued[a].leaf /\ info.identity = issued[a].leaf
           /\ info.provider = ExpectedCNGProvider
           /\ info.containerName = container[a] /\ container[a] \in Containers
           /\ \/ /\ result[a].status = "success"
                 /\ Installed(issued[a].leaf) => store[issued[a].leaf] = Recorded(info)
              \/ /\ result[a].status = "enrollment-incomplete"
                 /\ info.providerType = 0 /\ info.keySpec = 0

\* What passes from Enroll to Uninstall through the caller stays exact, over the
\* steps of every other attempt and every other caller: no container is shared,
\* the machine holds no key but those of the attempts, and what a caller has
\* was returned by an attempt (captureCleanupInfo, retryCleanup, CLEANUP_FILE).
HandoverInv ==
    /\ ContainersApart
    /\ \A c \in Containers : keys[c] # Foreign
    /\ MetadataHasOrigin
    /\ MetadataExact
=============================================================================
