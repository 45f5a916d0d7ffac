------------------------------- MODULE Machine -------------------------------
(***************************************************************************)
(* The machine-wide state that every enrollment and every uninstall of the *)
(* package shares: the CNG keys of the Microsoft Software KSP and the      *)
(* LocalMachine\My certificate store.  The operations are those of the two *)
(* seams of cleanup.go, certStore and keyRemover, as cleanup_win.go        *)
(* implements them over the external Windows API.                          *)
(*                                                                         *)
(* A leaf stands for its SHA-256 fingerprint.  A key is named by the       *)
(* enrollment attempt that generated it, so keys[c] = a reads "container c *)
(* holds the key generated by attempt a".                                  *)
(***************************************************************************)
EXTENDS Naturals, FiniteSets

CONSTANTS
    Attempts,            \* enrollment attempts, one call of Provider.Enroll each
    Containers,          \* CNG key container names
    Leaves,              \* certificates that can be installed, by SHA-256
    Providers,           \* key storage provider names a certificate can carry
    ProviderTypes,       \* CRYPT_KEY_PROV_INFO.dwProvType values (0 is CNG)
    KeySpecs,            \* CRYPT_KEY_PROV_INFO.dwKeySpec values (0 is CNG)
    ExpectedCNGProvider, \* "Microsoft Software Key Storage Provider"
    Hidden,              \* containers CNG may call not found though they hold a key
    Foreign,             \* the generator of a key that no attempt generated
    NoKey,               \* an empty container
    NotInstalled,        \* a leaf that is not in the store
    NoContainer,         \* the empty container name
    NoProvider,          \* the empty provider name
    NoLeaf,              \* a fingerprint that does not decode; no certificate
    NoInfo               \* a nil *CleanupInfo

VARIABLES
    keys,   \* keys[c]: the generator of the key in container c
    store   \* store[l]: the key association of leaf l in LocalMachine\My

machineVars == <<keys, store>>

Owners == Attempts \cup {Foreign}

\* CERT_KEY_PROV_INFO_PROP_ID of a stored certificate.  Either name may be empty:
\* utf16StringAt decodes a null pointer, or one that leaves the buffer, to "".
KeyProvInfo == [provider : Providers \cup {NoProvider},
                containerName : Containers \cup {NoContainer},
                providerType : ProviderTypes, keySpec : KeySpecs]

\* leafSHA256 is the fingerprint looked up; identity is the certificate whose
\* issuer, serial number and SPKI the metadata records.
CleanupInfo == [leafSHA256 : Leaves \cup {NoLeaf}, identity : Leaves \cup {NoLeaf},
                provider : Providers \cup {NoProvider},
                containerName : Containers \cup {NoContainer},
                providerType : ProviderTypes, keySpec : KeySpecs]

ASSUME ProviderAssumption ==
    /\ ExpectedCNGProvider \in Providers
    /\ 0 \in ProviderTypes
    /\ 0 \in KeySpecs
    /\ Hidden \subseteq Containers

ASSUME SentinelAssumption ==
    /\ Foreign \notin Attempts
    /\ NoKey \notin Owners
    /\ NotInstalled \notin KeyProvInfo
    /\ NoContainer \notin Containers
    /\ NoProvider \notin Providers
    /\ NoLeaf \notin Leaves
    /\ NoInfo \notin CleanupInfo

\* A container holds at most one key and a leaf at most one association.
MachineTypeOK ==
    /\ keys \in [Containers -> Owners \cup {NoKey}]
    /\ store \in [Leaves -> KeyProvInfo \cup {NotInstalled}]

\* Before the first attempt no leaf of ours is installed; any container may
\* already hold a key of another component.
MachineInit ==
    /\ keys \in [Containers -> {NoKey, Foreign}]
    /\ store = [l \in Leaves |-> NotInstalled]

Installed(l) == store[l] # NotInstalled

-----------------------------------------------------------------------------
(* keyRemover and the deleting half of certStore *)

DeleteOutcomes == {"deleted", "notFound", "error"}

\* One call of winKeyRemover.DeleteCNGKey.  A key under any other provider is
\* refused before CNG is called; "notFound" is mapped from
\* windowscng.ErrKeyNotFound and also stands for a key that could not be opened.
\* The empty name is that of no container.
DeleteCNGKey(provider, c, outcome) ==
    \/ /\ outcome = "error"
       /\ UNCHANGED keys
    \/ /\ provider = ExpectedCNGProvider
       /\ outcome = "notFound"
       /\ c \in Containers => keys[c] = NoKey \/ c \in Hidden
       /\ UNCHANGED keys
    \/ /\ provider = ExpectedCNGProvider
       /\ outcome = "deleted"
       /\ c \in Containers /\ keys[c] # NoKey
       /\ keys' = [keys EXCEPT ![c] = NoKey]

\* One call of winStore.DeleteLeafBySHA256, which finds the leaf again by its
\* fingerprint under the handle it deletes.  As CertStore states, the leaf may
\* have gone between the look-up and the deletion, which then still succeeds.
DeleteLeafBySHA256(l, outcome) ==
    \/ /\ outcome = "error"
       /\ UNCHANGED store
    \/ /\ outcome = "notFound"
       /\ ~Installed(l)
       /\ UNCHANGED store
    \/ /\ outcome = "deleted"
       /\ store' = [store EXCEPT ![l] = NotInstalled]

\* CleanupInfo of a parsed leaf before the key association is filled in: the
\* Go zero values of the four key fields.
CleanupInfoForCert(l) ==
    [leafSHA256 |-> l, identity |-> l, provider |-> NoProvider,
     containerName |-> NoContainer, providerType |-> 0, keySpec |-> 0]

-----------------------------------------------------------------------------
(* Other actors of the machine, which the package does not control.  They do   *)
(* not install a certificate again that an uninstall is dealing with, nor      *)
(* rebind an installed one to another key.                                     *)

\* Another component generates a key in a container that is still empty.
ForeignKeyAppears(c) ==
    /\ keys[c] = NoKey
    /\ keys' = [keys EXCEPT ![c] = Foreign]
    /\ UNCHANGED store

\* An administrator removes a certificate from LocalMachine\My.
AdminRemovesLeaf(l) ==
    /\ Installed(l)
    /\ store' = [store EXCEPT ![l] = NotInstalled]
    /\ UNCHANGED keys

Environment ==
    \/ \E c \in Containers : ForeignKeyAppears(c)
    \/ \E l \in Leaves : AdminRemovesLeaf(l)
=============================================================================
