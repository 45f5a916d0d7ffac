------------------------------ MODULE CertStore ------------------------------
(***************************************************************************)
(* What the certStore seam of cleanup.go promises its callers: a call      *)
(* looks a leaf up by its exact fingerprint at one moment between its      *)
(* start and its answer, and the answer speaks of that moment.  A deletion *)
(* follows the look-up, so the leaf may be gone by then, in which case it  *)
(* stays gone.  An error can be answered at any time and changes nothing.  *)
(***************************************************************************)
CONSTANTS
    Clients,       \* goroutines and processes with a call in progress
    Leaves,        \* certificates, by SHA-256 fingerprint
    Associations,  \* contents of CERT_KEY_PROV_INFO_PROP_ID
    NotInstalled   \* a leaf that is not in LocalMachine\My

VARIABLES
    store,   \* store[l]: the association of leaf l, or NotInstalled
    asked,   \* asked[p]: the operation and the leaf of the last call of p
    stage,   \* stage[p]: how far that call is
    seen,    \* seen[p]: what its look-up saw
    answer   \* answer[p]: what it returns

storeVars == <<store, asked, stage, seen, answer>>

Operations == {"FindLeafBySHA256", "KeyProvInfo", "DeleteLeafBySHA256"}
Call       == [op : Operations, leaf : Leaves]
Entry      == Associations \cup {NotInstalled}

NoAnswer    == [kind |-> "none"]
Error       == [kind |-> "error"]
NotFound    == [kind |-> "errCertNotFound"]
Certificate(l) == [kind |-> "certificate", leaf |-> l]
KeyInfo(e)  == [kind |-> "keyProvInfo", info |-> e]
Deleted     == [kind |-> "nil"]
Answers     == {NoAnswer, Error, NotFound, Deleted}
                   \cup {Certificate(l) : l \in Leaves} \cup {KeyInfo(e) : e \in Associations}

StoreInit ==
    /\ store \in [Leaves -> Entry]
    /\ asked \in [Clients -> Call]
    /\ stage = [p \in Clients |-> "idle"]
    /\ seen = [p \in Clients |-> NotInstalled]
    /\ answer = [p \in Clients |-> NoAnswer]

Begin(p) ==
    /\ stage[p] \in {"idle", "answered"}
    /\ \E call \in Call : asked' = [asked EXCEPT ![p] = call]
    /\ stage' = [stage EXCEPT ![p] = "called"]
    /\ seen' = [seen EXCEPT ![p] = NotInstalled]
    /\ answer' = [answer EXCEPT ![p] = NoAnswer]
    /\ UNCHANGED store

\* The moment the answer will speak of.
Look(p) ==
    /\ stage[p] = "called"
    /\ stage' = [stage EXCEPT ![p] = "looked"]
    /\ seen' = [seen EXCEPT ![p] = store[asked[p].leaf]]
    /\ UNCHANGED <<store, asked, answer>>

Answered(p, a) ==
    /\ stage' = [stage EXCEPT ![p] = "answered"]
    /\ answer' = [answer EXCEPT ![p] = a]
    /\ UNCHANGED <<asked, seen>>

AnswerError(p) ==
    /\ stage[p] \in {"called", "looked"}
    /\ Answered(p, Error)
    /\ UNCHANGED store

AnswerNotFound(p) ==
    /\ stage[p] = "looked"
    /\ seen[p] = NotInstalled
    /\ Answered(p, NotFound)
    /\ UNCHANGED store

AnswerRead(p) ==
    /\ stage[p] = "looked"
    /\ seen[p] # NotInstalled
    /\ \/ asked[p].op = "FindLeafBySHA256" /\ Answered(p, Certificate(asked[p].leaf))
       \/ asked[p].op = "KeyProvInfo" /\ Answered(p, KeyInfo(seen[p]))
    /\ UNCHANGED store

AnswerDeleted(p) ==
    /\ stage[p] = "looked"
    /\ seen[p] # NotInstalled
    /\ asked[p].op = "DeleteLeafBySHA256"
    /\ store' = [store EXCEPT ![asked[p].leaf] = NotInstalled]
    /\ Answered(p, Deleted)

\* Another program installs a leaf, rebinds it or removes it.
StoreChanges ==
    /\ \E l \in Leaves, e \in Entry : store' = [store EXCEPT ![l] = e]
    /\ UNCHANGED <<asked, stage, seen, answer>>

Serve(p) ==
    \/ Look(p) \/ AnswerError(p) \/ AnswerNotFound(p)
    \/ AnswerRead(p) \/ AnswerDeleted(p)

StoreNext == (\E p \in Clients : Begin(p) \/ Serve(p)) \/ StoreChanges

StoreSpec == StoreInit /\ [][StoreNext]_storeVars

\* A call that has begun is answered.
CallsAnswered == \A p \in Clients : WF_storeVars(Serve(p))
=============================================================================
