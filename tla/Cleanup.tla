------------------------------- MODULE Cleanup -------------------------------
(***************************************************************************)
(* Uninstall of cleanup.go, the orchestration runCleanup over the machine  *)
(* store and the CNG key remover.  Several callers may run it at once on   *)
(* the same or on different metadata; each store and key operation is one  *)
(* step, so everything else on the machine can happen between a check and  *)
(* the deletion it guards.  A caller keeps its persisted metadata and may  *)
(* call again after a failure, after a crash or after a success.           *)
(***************************************************************************)
EXTENDS Machine

CONSTANTS
    Callers,    \* callers of Uninstall, each with one persisted CleanupInfo
    Persisted   \* the CleanupInfo values callers may hold

VARIABLES
    upc,      \* upc[u]: the step of Uninstall caller u is about to take
    meta,     \* meta[u]: the CleanupInfo u passes
    uresult,  \* uresult[u]: what the last call of u returned
    deleted   \* history: deleted[u], the artifacts the calls of u have deleted

cleanupVars == <<upc, meta, uresult, deleted>>
uninstallVars == <<keys, store, upc, meta, uresult, deleted>>

ASSUME PersistedAssumption == Persisted \subseteq CleanupInfo

CleanupSteps == {"find", "association", "deleteLeaf", "deleteKey"}
Errors == {"nil", "ErrCleanupFailed", "ErrOwnershipMismatch"}

\* Type invariant: among others Uninstall returns nil or an error that wraps one
\* of the two sentinels of cleanup.go, never a raw store or CNG error.
CleanupTypeOK ==
    /\ MachineTypeOK
    /\ upc \in [Callers -> CleanupSteps \cup {"idle", "returned", "crashed"}]
    /\ meta \in [Callers -> CleanupInfo \cup {NoInfo}]
    /\ uresult \in [Callers -> Errors \cup {"none"}]
    /\ deleted \in [Callers -> SUBSET {"leaf", "key"}]

CleanupInit ==
    /\ upc = [u \in Callers |-> "idle"]
    /\ meta = [u \in Callers |-> NoInfo]
    /\ uresult = [u \in Callers |-> "none"]
    /\ deleted = [u \in Callers |-> {}]

-----------------------------------------------------------------------------
(* Control *)

\* The call of u goes on to its next operation.
Proceed(u, step) ==
    /\ upc' = [upc EXCEPT ![u] = step]
    /\ UNCHANGED <<meta, uresult>>

\* The call of u returns err.
Uninstalled(u, err) ==
    /\ upc' = [upc EXCEPT ![u] = "returned"]
    /\ uresult' = [uresult EXCEPT ![u] = err]
    /\ UNCHANGED meta

\* Mutated forms: an absent certificate means there is nothing left to do, or is
\* an error or a refusal as if nothing could have been deleted yet.
RemoveOrphanKey_NothingToDo(u) == Uninstalled(u, "nil")
RemoveOrphanKey_IsError(u) == Uninstalled(u, "ErrCleanupFailed")
RemoveOrphanKey_Refuses(u) == Uninstalled(u, "ErrOwnershipMismatch")

\* removeOrphanKey, up to the deletion: the certificate is absent and the key is
\* deleted by the names in the metadata, when both are there.
RemoveOrphanKey(u) ==
    IF meta[u].containerName = NoContainer \/ meta[u].provider = NoProvider
    THEN Uninstalled(u, "ErrOwnershipMismatch")
    ELSE Proceed(u, "deleteKey")

\* CleanupInfo.matches on the leaf found by its fingerprint.
Matches(ci) == ci.identity = ci.leafSHA256

\* Mutated form: the key spec is not compared.
AssociationMatches_NoKeySpec(ci, kpi) ==
    /\ kpi.provider = ci.provider
    /\ kpi.containerName = ci.containerName
    /\ kpi.providerType = ci.providerType

\* The four comparisons with the association of the installed leaf.
AssociationMatches(ci, kpi) ==
    /\ kpi.provider = ci.provider
    /\ kpi.containerName = ci.containerName
    /\ kpi.providerType = ci.providerType
    /\ kpi.keySpec = ci.keySpec

-----------------------------------------------------------------------------
(* The steps of runCleanup *)

\* A call starts by decoding the fingerprint.
CallUninstall(u, ci) ==
    /\ upc[u] \in {"idle", "returned", "crashed"}
    /\ meta[u] \in {NoInfo, ci}
    /\ meta' = [meta EXCEPT ![u] = ci]
    /\ IF ci.leafSHA256 = NoLeaf
       THEN /\ upc' = [upc EXCEPT ![u] = "returned"]
            /\ uresult' = [uresult EXCEPT ![u] = "ErrCleanupFailed"]
       ELSE /\ upc' = [upc EXCEPT ![u] = "find"]
            /\ uresult' = [uresult EXCEPT ![u] = "none"]
    /\ UNCHANGED <<keys, store, deleted>>

\* Mutated form: a store that cannot be read is taken for an absent leaf.
FindLeaf_ErrorIsAbsent(u) ==
    /\ upc[u] = "find"
    /\ LET ci == meta[u] IN
          \/ RemoveOrphanKey(u)
          \/ Installed(ci.leafSHA256) /\ Matches(ci) /\ Proceed(u, "association")
          \/ /\ Installed(ci.leafSHA256)
             /\ ~Matches(ci)
             /\ Uninstalled(u, "ErrOwnershipMismatch")
    /\ UNCHANGED <<keys, store, deleted>>

\* FindLeafBySHA256 and the identity guards.  The error branch also stands for a
\* stored certificate that does not parse.
FindLeaf(u) ==
    /\ upc[u] = "find"
    /\ LET ci == meta[u] IN
          \/ Uninstalled(u, "ErrCleanupFailed")
          \/ ~Installed(ci.leafSHA256) /\ RemoveOrphanKey(u)
          \/ Installed(ci.leafSHA256) /\ Matches(ci) /\ Proceed(u, "association")
          \/ /\ Installed(ci.leafSHA256)
             /\ ~Matches(ci)
             /\ Uninstalled(u, "ErrOwnershipMismatch")
    /\ UNCHANGED <<keys, store, deleted>>

\* KeyProvInfo and the association guards, on a leaf found anew.
ReadAssociation(u) ==
    /\ upc[u] = "association"
    /\ LET ci  == meta[u]
           kpi == store[ci.leafSHA256]
       IN \/ Uninstalled(u, "ErrCleanupFailed")
          \/ ~Installed(ci.leafSHA256) /\ RemoveOrphanKey(u)
          \/ /\ Installed(ci.leafSHA256)
             /\ AssociationMatches(ci, kpi)
             /\ Proceed(u, "deleteLeaf")
          \/ /\ Installed(ci.leafSHA256)
             /\ ~AssociationMatches(ci, kpi)
             /\ Uninstalled(u, "ErrOwnershipMismatch")
    /\ UNCHANGED <<keys, store, deleted>>

DeleteLeaf(u) ==
    /\ upc[u] = "deleteLeaf"
    /\ \E outcome \in DeleteOutcomes :
          /\ DeleteLeafBySHA256(meta[u].leafSHA256, outcome)
          /\ \/ /\ outcome = "deleted"
                /\ deleted' = [deleted EXCEPT ![u] = @ \cup
                      (IF Installed(meta[u].leafSHA256) THEN {"leaf"} ELSE {})]
                /\ Proceed(u, "deleteKey")
             \/ /\ outcome = "notFound"
                /\ UNCHANGED deleted
                /\ RemoveOrphanKey(u)
             \/ /\ outcome = "error"
                /\ UNCHANGED deleted
                /\ Uninstalled(u, "ErrCleanupFailed")
    /\ UNCHANGED keys

\* Mutated form: the error of the key remover is returned unwrapped.
DeleteKey_RawError(u) ==
    /\ upc[u] = "deleteKey"
    /\ \E outcome \in DeleteOutcomes :
          /\ DeleteCNGKey(meta[u].provider, meta[u].containerName, outcome)
          /\ deleted' = IF outcome = "deleted"
                        THEN [deleted EXCEPT ![u] = @ \cup {"key"}] ELSE deleted
          /\ Uninstalled(u, IF outcome = "deleted" THEN "nil" ELSE outcome)
    /\ UNCHANGED store

\* removeKey: errKeyNotFound is idempotent success.
DeleteKey(u) ==
    /\ upc[u] = "deleteKey"
    /\ \E outcome \in DeleteOutcomes :
          /\ DeleteCNGKey(meta[u].provider, meta[u].containerName, outcome)
          /\ deleted' = IF outcome = "deleted"
                        THEN [deleted EXCEPT ![u] = @ \cup {"key"}] ELSE deleted
          /\ Uninstalled(u, IF outcome = "error" THEN "ErrCleanupFailed" ELSE "nil")
    /\ UNCHANGED store

\* The caller's process dies between two operations; its metadata is persisted.
CallerCrashes(u) ==
    /\ upc[u] \in CleanupSteps
    /\ upc' = [upc EXCEPT ![u] = "crashed"]
    /\ UNCHANGED <<keys, store, meta, uresult, deleted>>

-----------------------------------------------------------------------------
(* Specification: callers with any persisted metadata on a machine in any state *)

UninstallStep(u) ==
    FindLeaf(u) \/ ReadAssociation(u) \/ DeleteLeaf(u) \/ DeleteKey(u)

UninstallNext ==
    \/ \E u \in Callers :
          \/ \E ci \in Persisted : CallUninstall(u, ci)
          \/ UninstallStep(u)
          \/ CallerCrashes(u)
    \/ Environment /\ UNCHANGED cleanupVars

UninstallInit == MachineTypeOK /\ CleanupInit

UninstallSpec == UninstallInit /\ [][UninstallNext]_uninstallVars

\* The call of u takes its next step and does not fail in it.
Advances(u) == uresult'[u] # "ErrCleanupFailed"

\* A caller whose call failed or died calls again with the same metadata.
Retry(u) ==
    /\ upc[u] = "crashed" \/ uresult[u] = "ErrCleanupFailed"
    /\ CallUninstall(u, meta[u])

\* Callers retry, calls that are running go on, and no operation of the store or
\* of CNG fails for good; any finite number of failures, and crashes at any
\* point, remain possible.
RetriedSpec ==
    /\ UninstallSpec
    /\ \A u \in Callers :
          /\ WF_uninstallVars(Retry(u))
          /\ WF_uninstallVars(UninstallStep(u))
          /\ SF_uninstallVars(FindLeaf(u) /\ Advances(u))
          /\ SF_uninstallVars(ReadAssociation(u) /\ Advances(u))
          /\ SF_uninstallVars(DeleteLeaf(u) /\ Advances(u))
          /\ SF_uninstallVars(DeleteKey(u) /\ Advances(u))

-----------------------------------------------------------------------------
(* Properties *)

\* The key names of the metadata are complete.
NamesKey(ci) == ci.provider \in Providers /\ ci.containerName \in Containers

\* docs/README.md, section 12: no artifact is deleted on the ErrOwnershipMismatch
\* path.  For metadata that names its key this holds across calls: a caller whose
\* call deleted the leaf and then failed or died is never refused when it retries
\* for the key (removeOrphanKey accepts what a partial runCleanup leaves).  A
\* caller whose metadata lacks a name may be refused after the leaf has gone, but
\* never after a key has.
RefusalMeansUntouched ==
    \A u \in Callers :
        uresult[u] = "ErrOwnershipMismatch" =>
            \/ deleted[u] = {}
            \/ deleted[u] = {"leaf"} /\ ~NamesKey(meta[u])

\* The same without the exception.  The code does not keep it: metadata without a
\* key name matches an association without that name (cleanup.go, "kpi.provider
\* != info.Provider"), the leaf is deleted, the key is not, and from then on the
\* caller is refused because a name is missing.
RefusedCallerDeletedNothing ==
    \A u \in Callers : uresult[u] = "ErrOwnershipMismatch" => deleted[u] = {}

\* A key is deleted only when its leaf is gone, by a caller whose metadata names
\* the key under the provider of this module; a store that cannot be read or a
\* leaf that cannot be deleted never costs an installed leaf its key.
LeafBeforeKey ==
    [][\A c \in Containers :
          keys[c] # NoKey /\ keys'[c] = NoKey =>
              \E u \in Callers :
                  /\ upc[u] = "deleteKey" /\ upc'[u] = "returned"
                  /\ meta[u].containerName = c
                  /\ meta[u].provider = ExpectedCNGProvider
                  /\ ~Installed(meta[u].leafSHA256)]_uninstallVars

\* A leaf that Uninstall deletes is at that moment the one the metadata
\* identifies and carries the association the metadata records, whatever other
\* callers and the administrator did since the guards were evaluated.
DeletesOnlyVerified ==
    [][\A u \in Callers :
          upc[u] = "deleteLeaf" /\ deleted'[u] # deleted[u] =>
              LET ci == meta[u] IN
              /\ Matches(ci)
              /\ store[ci.leafSHA256] =
                    [provider |-> ci.provider, containerName |-> ci.containerName,
                     providerType |-> ci.providerType, keySpec |-> ci.keySpec]
              /\ store'[ci.leafSHA256] = NotInstalled]_uninstallVars

\* A nil return means that the leaf is absent, and that the container the metadata
\* names under the provider of this module, if it names one, is empty or is one
\* whose key CNG reports as not found (Uninstall, idempotence).
NilMeansGone ==
    [][\A u \in Callers :
          upc[u] # "returned" /\ upc'[u] = "returned" /\ uresult'[u] = "nil" =>
              /\ ~Installed(meta[u].leafSHA256)
              /\ meta[u].provider = ExpectedCNGProvider
              /\ \A c \in Containers \ Hidden :
                    c = meta[u].containerName => keys'[c] = NoKey]_uninstallVars

\* A clean-up that has begun is finished by retrying: once a caller has deleted
\* the leaf, the same metadata leads to a nil return if it names a key under the
\* provider of this module, although the leaf can no longer be verified, whatever
\* the other callers delete and however often the process dies (removeOrphanKey,
\* removeKey).
BegunIsFinished ==
    \A u \in Callers :
        (/\ deleted[u] = {"leaf"}
         /\ NamesKey(meta[u]) /\ meta[u].provider = ExpectedCNGProvider)
            ~> uresult[u] = "nil"
-----------------------------------------------------------------------------
(* The inductive invariant behind the safety properties *)

\* A running call has usable metadata and has not answered.
CallInProgress ==
    \A u \in Callers : upc[u] \in CleanupSteps =>
        /\ meta[u] # NoInfo
        /\ meta[u].leafSHA256 \in Leaves
        /\ uresult[u] = "none"

\* What a guard found stays true up to the deletion it guards, unless the leaf
\* goes away in between.
GuardsHold ==
    \A u \in Callers :
        /\ upc[u] \in {"association", "deleteLeaf"} => Matches(meta[u])
        /\ upc[u] = "deleteLeaf" /\ Installed(meta[u].leafSHA256) =>
              AssociationMatches(meta[u], store[meta[u].leafSHA256])

\* Up to the deletion of the key, and from the first deletion of a caller on, its
\* leaf is absent; a key is deleted only by metadata that names it.
LeafGone ==
    \A u \in Callers : upc[u] = "deleteKey" \/ deleted[u] # {} =>
        /\ meta[u] # NoInfo
        /\ meta[u].leafSHA256 \in Leaves
        /\ ~Installed(meta[u].leafSHA256)
        /\ "key" \in deleted[u] => NamesKey(meta[u])

\* What a call has established is still true when it acts on it, across the
\* calls, crashes and retries of every caller.
UninstallInv == CallInProgress /\ GuardsHold /\ LeafGone
=============================================================================
