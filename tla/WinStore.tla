------------------------------ MODULE WinStore ------------------------------
(***************************************************************************)
(* winStore of cleanup_win.go: the three operations over a handle of       *)
(* LocalMachine\My, the enumeration of findContext and the ownership of    *)
(* the certificate contexts it hands on.  A handle sees the store as it    *)
(* was when CertOpenStore read it.  held[p][l] counts the references to    *)
(* the context of leaf l that are p's to give back: it must come back to   *)
(* zero, never pass it, and be positive whenever the context is read.      *)
(***************************************************************************)
EXTENDS Integers

CONSTANTS Clients, Leaves, Associations, NotInstalled, NoContext

ASSUME SentinelAssumption ==
    /\ NotInstalled \notin Associations
    /\ NoContext \notin Leaves

VARIABLES
    store,      \* LocalMachine\My
    asked,      \* asked[p]: the operation and the fingerprint of p's call
    wpc,        \* wpc[p]: the Win32 call p is about to make
    handle,     \* handle[p]: p holds an open store handle
    view,       \* view[p]: the store as p's handle sees it
    remaining,  \* remaining[p]: the leaves the enumeration has still to return
    ctx,        \* ctx[p]: the context findContext holds, prev of the next call
    held,       \* held[p][l]: references of p to the context of leaf l
    answer      \* answer[p]: what the operation returns

winVars == <<store, asked, wpc, handle, view, remaining, ctx, held, answer>>

\* How far the call is for its caller, and what its look-up saw.
StageAt(step) ==
    CASE step = "idle"                          -> "idle"
      [] step = "open"                          -> "called"
      [] step \in {"enumerate", "compare", "use"} -> "looked"
      [] OTHER                                  -> "answered"
Stage == [p \in Clients |-> StageAt(wpc[p])]
Seen  == [p \in Clients |-> view[p][asked[p].leaf]]

Interface == INSTANCE CertStore WITH stage <- Stage, seen <- Seen

NoReferences == [l \in Leaves |-> 0]

WinInit ==
    /\ store \in [Leaves -> Interface!Entry]
    /\ asked \in [Clients -> Interface!Call]
    /\ wpc = [p \in Clients |-> "idle"]
    /\ handle = [p \in Clients |-> FALSE]
    /\ view = [p \in Clients |-> [l \in Leaves |-> NotInstalled]]
    /\ remaining = [p \in Clients |-> {}]
    /\ ctx = [p \in Clients |-> NoContext]
    /\ held = [p \in Clients |-> NoReferences]
    /\ answer = [p \in Clients |-> Interface!NoAnswer]

-----------------------------------------------------------------------------
(* Control *)

Continue(p, step) == wpc' = [wpc EXCEPT ![p] = step]

\* The call of p has its answer; what is left are the deferred calls.
Decide(p, a, step) ==
    /\ Continue(p, step)
    /\ answer' = [answer EXCEPT ![p] = a]

\* A call of CertFreeCertificateContext, CertDeleteCertificateFromStore or the
\* enumeration gives back one reference to context c; nil has none.
Released(p, c) == [held[p] EXCEPT ![c] = @ - 1]
GiveBack(p, c) == IF c = NoContext THEN held[p] ELSE Released(p, c)

-----------------------------------------------------------------------------
(* The operations *)

Begin(p) ==
    /\ wpc[p] \in {"idle", "returned"}
    /\ \E call \in Interface!Call : asked' = [asked EXCEPT ![p] = call]
    /\ Decide(p, Interface!NoAnswer, "open")
    /\ view' = [view EXCEPT ![p] = [l \in Leaves |-> NotInstalled]]
    /\ UNCHANGED <<store, handle, remaining, ctx, held>>

\* openMachineMy fails: nothing is deferred yet.
OpenFails(p) ==
    /\ wpc[p] = "open"
    /\ Decide(p, Interface!Error, "returned")
    /\ UNCHANGED <<store, asked, handle, view, remaining, ctx, held>>

\* openMachineMy, and findContext starts with prev = nil.
Open(p) ==
    /\ wpc[p] = "open"
    /\ Continue(p, "enumerate")
    /\ handle' = [handle EXCEPT ![p] = TRUE]
    /\ view' = [view EXCEPT ![p] = store]
    /\ remaining' = [remaining EXCEPT ![p] = {l \in Leaves : store[l] # NotInstalled}]
    /\ ctx' = [ctx EXCEPT ![p] = NoContext]
    /\ UNCHANGED <<store, asked, held, answer>>

\* Mutated form: the reader frees the previous context and passes prev = nil.
EnumerateNext_NilPrev(p) ==
    /\ wpc[p] = "enumerate"
    /\ \E l \in {k \in Leaves : view[p][k] # NotInstalled} :
          /\ held' = [held EXCEPT ![p] = [GiveBack(p, ctx[p]) EXCEPT ![l] = @ + 1]]
          /\ ctx' = [ctx EXCEPT ![p] = l]
    /\ Continue(p, "compare")
    /\ UNCHANGED <<store, asked, handle, view, remaining, answer>>

\* CertEnumCertificatesInStore returns a context, in any order, and consumes the
\* previous one.
EnumerateNext(p) ==
    /\ wpc[p] = "enumerate"
    /\ \E l \in remaining[p] :
          /\ remaining' = [remaining EXCEPT ![p] = @ \ {l}]
          /\ held' = [held EXCEPT ![p] = [GiveBack(p, ctx[p]) EXCEPT ![l] = @ + 1]]
          /\ ctx' = [ctx EXCEPT ![p] = l]
    /\ Continue(p, "compare")
    /\ UNCHANGED <<store, asked, handle, view, answer>>

\* Mutated form: any nil context is taken for the end of the store.
EnumerationEnds_AnyError(p) ==
    /\ wpc[p] = "enumerate"
    /\ held' = [held EXCEPT ![p] = GiveBack(p, ctx[p])]
    /\ ctx' = [ctx EXCEPT ![p] = NoContext]
    /\ Decide(p, Interface!NotFound, "close")
    /\ UNCHANGED <<store, asked, handle, view, remaining>>

\* It returns nil, having consumed the previous context all the same:
\* CRYPT_E_NOT_FOUND at the end of the store, or another error at any point.
EnumerationEnds(p) ==
    /\ wpc[p] = "enumerate"
    /\ held' = [held EXCEPT ![p] = GiveBack(p, ctx[p])]
    /\ ctx' = [ctx EXCEPT ![p] = NoContext]
    /\ \/ remaining[p] = {} /\ Decide(p, Interface!NotFound, "close")
       \/ Decide(p, Interface!Error, "close")
    /\ UNCHANGED <<store, asked, handle, view, remaining>>

\* Mutated form: the first certificate of the store is taken for the leaf.
Compare_TakeFirst(p) ==
    /\ wpc[p] = "compare"
    /\ Continue(p, "use")
    /\ UNCHANGED <<store, asked, handle, view, remaining, ctx, held, answer>>

\* The fingerprint of the context is compared; a match is the caller's to free
\* or delete, anything else becomes prev.
Compare(p) ==
    /\ wpc[p] = "compare"
    /\ Continue(p, IF ctx[p] = asked[p].leaf THEN "use" ELSE "enumerate")
    /\ UNCHANGED <<store, asked, handle, view, remaining, ctx, held, answer>>

\* FindLeafBySHA256 copies the DER out of the context.
CopyLeaf(p) ==
    /\ wpc[p] = "use"
    /\ asked[p].op = "FindLeafBySHA256"
    /\ Decide(p, Interface!Certificate(ctx[p]), "free")
    /\ UNCHANGED <<store, asked, handle, view, remaining, ctx, held>>

\* KeyProvInfo reads the property, which may fail.
ReadProperty(p) ==
    /\ wpc[p] = "use"
    /\ asked[p].op = "KeyProvInfo"
    /\ \/ Decide(p, Interface!KeyInfo(view[p][ctx[p]]), "free")
       \/ Decide(p, Interface!Error, "free")
    /\ UNCHANGED <<store, asked, handle, view, remaining, ctx, held>>

\* Mutated form: the free is deferred before the deletion, as in the other two.
DeleteContext_DeferredFree(p) ==
    /\ wpc[p] = "use"
    /\ asked[p].op = "DeleteLeafBySHA256"
    /\ held' = [held EXCEPT ![p] = Released(p, ctx[p])]
    /\ \/ /\ store' = [store EXCEPT ![ctx[p]] = NotInstalled]
          /\ Decide(p, Interface!Deleted, "free")
       \/ /\ UNCHANGED store
          /\ Decide(p, Interface!Error, "free")
    /\ UNCHANGED <<asked, handle, view, remaining, ctx>>

\* CertDeleteCertificateFromStore frees the context whether it succeeds or not.
DeleteContext(p) ==
    /\ wpc[p] = "use"
    /\ asked[p].op = "DeleteLeafBySHA256"
    /\ held' = [held EXCEPT ![p] = Released(p, ctx[p])]
    /\ \/ /\ store' = [store EXCEPT ![ctx[p]] = NotInstalled]
          /\ Decide(p, Interface!Deleted, "close")
       \/ /\ UNCHANGED store
          /\ Decide(p, Interface!Error, "close")
    /\ UNCHANGED <<asked, handle, view, remaining, ctx>>

\* The deferred CertFreeCertificateContext of the two reading operations.
FreeContext(p) ==
    /\ wpc[p] = "free"
    /\ held' = [held EXCEPT ![p] = Released(p, ctx[p])]
    /\ Continue(p, "close")
    /\ UNCHANGED <<store, asked, handle, view, remaining, ctx, answer>>

\* The deferred CertCloseStore.
CloseStore(p) ==
    /\ wpc[p] = "close"
    /\ handle' = [handle EXCEPT ![p] = FALSE]
    /\ Continue(p, "returned")
    /\ UNCHANGED <<store, asked, view, remaining, ctx, held, answer>>

\* External: another program, or another process of this one, changes the store.
OthersChange ==
    /\ \E l \in Leaves, e \in Interface!Entry : store' = [store EXCEPT ![l] = e]
    /\ UNCHANGED <<asked, wpc, handle, view, remaining, ctx, held, answer>>

-----------------------------------------------------------------------------
(* Specification *)

WinStep(p) ==
    \/ OpenFails(p) \/ Open(p) \/ EnumerateNext(p) \/ EnumerationEnds(p)
    \/ Compare(p) \/ CopyLeaf(p) \/ ReadProperty(p) \/ DeleteContext(p)
    \/ FreeContext(p) \/ CloseStore(p)

WinNext == (\E p \in Clients : Begin(p) \/ WinStep(p)) \/ OthersChange

\* Every Win32 call returns and the calling goroutine goes on.
WinSpec == WinInit /\ [][WinNext]_winVars /\ \A p \in Clients : WF_winVars(WinStep(p))

-----------------------------------------------------------------------------
(* Properties *)

\* Type invariant: among others no context is referenced twice or owed a free.
WinTypeOK ==
    /\ store \in [Leaves -> Interface!Entry]
    /\ asked \in [Clients -> Interface!Call]
    /\ wpc \in [Clients -> {"idle", "open", "enumerate", "compare", "use", "free",
                            "close", "returned"}]
    /\ handle \in [Clients -> BOOLEAN]
    /\ view \in [Clients -> [Leaves -> Interface!Entry]]
    /\ remaining \in [Clients -> SUBSET Leaves]
    /\ ctx \in [Clients -> Leaves \cup {NoContext}]
    /\ held \in [Clients -> [Leaves -> {0, 1}]]
    /\ answer \in [Clients -> Interface!Answers]

\* The steps at which the call reads or gives back its current context.
Owning == {"compare", "use", "free"}

\* Contexts are neither leaked nor freed twice nor read after they were freed,
\* and handles are closed, on every path of the three operations: at every
\* step the call owns exactly the context it is about to use, or the one the
\* next enumeration consumes, and nothing when it has returned (findContext,
\* "Enumeration consumes prev, even on end-of-store or error").
ContextDiscipline ==
    \A p \in Clients :
        /\ \A l \in Leaves :
              held[p][l] = IF \/ wpc[p] \in Owning /\ ctx[p] = l
                              \/ wpc[p] = "enumerate" /\ ctx[p] = l
                           THEN 1 ELSE 0
        /\ wpc[p] \in Owning => ctx[p] \in Leaves
        /\ handle[p] <=> wpc[p] \in Owning \cup {"enumerate", "close"}

\* The search misses nothing and stops at nothing else: while findContext runs,
\* a leaf that the handle shows is still to come or is the current context, and
\* the context it returns is the one with the fingerprint asked for.
SearchComplete ==
    \A p \in Clients :
        LET l == asked[p].leaf IN
        /\ wpc[p] \in {"enumerate", "compare"} =>
              \A k \in remaining[p] : view[p][k] # NotInstalled
        /\ wpc[p] = "enumerate" /\ view[p][l] # NotInstalled => l \in remaining[p]
        /\ wpc[p] = "compare" /\ view[p][l] # NotInstalled => l \in remaining[p] \cup {ctx[p]}
        /\ wpc[p] \in Owning => view[p][ctx[p]] # NotInstalled
        /\ wpc[p] \in {"use", "free"} => ctx[p] = l

\* The three operations keep the promise of the certStore interface: each answer
\* is true of one moment of the call, a failed enumeration is never "not found",
\* and only the exact fingerprint is deleted.
ImplementsCertStore == Interface!StoreSpec

\* Every call of the interface is answered, and the operation also gives its handle
\* back and returns, however many certificates the store has.
OperationReturns ==
    /\ Interface!CallsAnswered
    /\ \A p \in Clients : wpc[p] = "open" ~> wpc[p] = "returned"
=============================================================================
