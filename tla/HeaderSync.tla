----------------------------- MODULE HeaderSync -----------------------------
(***************************************************************************)
(* internal/core/blockchain/sync.go on top of the light client.            *)
(*                                                                         *)
(* ProcessHeaders and FastSync check what they are given once and then     *)
(* call LightClient.AddHeader header by header, taking and releasing lc.mu *)
(* each time, so other callers of AddHeader and Reset run in between.  The *)
(* headers such a call still has to add are `batch'.                       *)
(***************************************************************************)
EXTENDS LightClient, Sequences

CONSTANTS
    Batches,      \* the header sequences a peer may deliver in one batch
    Checkpoints   \* the checkpoint sequences FastSync may be given

ASSUME BatchAssumption ==
    Batches \subseteq Seq(Headers) /\ Checkpoints \subseteq Seq(Headers)

VARIABLES
    batch,        \* the headers the running ProcessHeaders or FastSync call has left
    isSyncing,    \* HeaderSync.isSyncing
    stopClosed,   \* stopCh has been closed
    loops,        \* the syncLoop goroutines that have not returned
    panicked      \* the process died in close(stopCh)

syncState == <<isSyncing, stopClosed, loops>>
syncVars == <<vars, batch, syncState, panicked>>

\* A new process: NewLightClient and NewHeaderSync.
SyncInit ==
    /\ Init
    /\ batch = <<>>
    /\ isSyncing = FALSE
    /\ stopClosed = FALSE
    /\ loops = 0
    /\ panicked = FALSE

----------------------------------------------------------------------------
Start ==
    /\ ~isSyncing
    /\ isSyncing' = TRUE
    /\ loops' = loops + 1
    /\ UNCHANGED <<vars, batch, stopClosed, panicked>>

\* stopCh is made once, in NewHeaderSync: closing it a second time panics and
\* takes the process down.
Stop ==
    /\ isSyncing
    /\ IF stopClosed
       THEN panicked' = TRUE /\ UNCHANGED <<isSyncing, stopClosed>>
       ELSE isSyncing' = FALSE /\ stopClosed' = TRUE /\ UNCHANGED panicked
    /\ UNCHANGED <<vars, batch, loops>>

\* MUTANT: the loop looks at the flag, which a restart sets again.
LoopStopsByFlag ==
    /\ loops > 0
    /\ ~isSyncing
    /\ loops' = loops - 1
    /\ UNCHANGED <<vars, batch, isSyncing, stopClosed, panicked>>

\* A syncLoop goroutine sees stopCh closed.  Its ticks call SyncOnce, which
\* reads the height and fetches nothing, so they leave no trace here.
LoopStops ==
    /\ loops > 0
    /\ stopClosed
    /\ loops' = loops - 1
    /\ UNCHANGED <<vars, batch, isSyncing, stopClosed, panicked>>

----------------------------------------------------------------------------
InOrder(hs) ==
    \A i \in 2..Len(hs) : /\ hs[i].height = hs[i-1].height + 1
                          /\ hs[i].prev = hs[i-1].hash

\* RequestHeaders asks no peer and returns an empty slice, so FullSync hands
\* ProcessHeaders nothing.
RequestHeaders == <<>>

\* The check of ProcessHeaders, after which it starts to add.
ProcessHeaders(hs) ==
    /\ batch = <<>>
    /\ hs # <<>>
    /\ InOrder(hs)
    /\ batch' = hs
    /\ UNCHANGED <<vars, syncState, panicked>>

\* The checkpoints are added without a check between them; then FullSync runs.
FastSync(cps) ==
    /\ batch = <<>>
    /\ cps # <<>>
    /\ batch' = cps \o RequestHeaders
    /\ UNCHANGED <<vars, syncState, panicked>>

\* MUTANT: a header that fails is tried again.
RetryFailed == batch

\* The first header that AddHeader refuses ends the call.
GiveUp == <<>>

\* MUTANT: a batch that was found in order is added without validateHeader.
AddNextUnchecked ==
    /\ batch # <<>>
    /\ Accept(Head(batch))
    /\ batch' = Tail(batch)
    /\ UNCHANGED <<syncState, panicked>>

\* One AddHeader call of the loop.
AddNext ==
    /\ batch # <<>>
    /\ IF ValidateHeader(Head(batch))
       THEN Accept(Head(batch)) /\ batch' = Tail(batch)
       ELSE batch' = GiveUp /\ UNCHANGED vars
    /\ UNCHANGED <<syncState, panicked>>

\* Calls on the light client by others, between two headers of a batch.
Other ==
    /\ \/ \E hd \in Headers : AddHeader(hd)
       \/ Reset
    /\ UNCHANGED <<batch, syncState, panicked>>

\* The process ends, after a panic or otherwise, and starts again.
SyncRestart ==
    /\ Restart
    /\ batch' = <<>>
    /\ isSyncing' = FALSE
    /\ stopClosed' = FALSE
    /\ loops' = 0
    /\ panicked' = FALSE

Alive ==
    \/ Start
    \/ Stop
    \/ LoopStops
    \/ \E hs \in Batches : ProcessHeaders(hs)
    \/ \E cps \in Checkpoints : FastSync(cps)
    \/ AddNext
    \/ Other

SyncNext ==
    \/ ~panicked /\ Alive
    \/ SyncRestart

\* A goroutine that can return is scheduled sooner or later.
SyncSpec ==
    /\ SyncInit
    /\ [][SyncNext]_syncVars
    /\ WF_syncVars(~panicked /\ LoopStops)
    /\ WF_syncVars(~panicked /\ AddNext)

----------------------------------------------------------------------------
\* Synchronisation, whatever it is given and whoever else uses the light
\* client meanwhile, does to it only what sequences of AddHeader and Reset do.
ImplementsLightClient == Spec

\* Once Stop has closed the channel every sync goroutine returns (syncLoop),
\* unless the process dies first.
StopEndsLoops == stopClosed ~> loops = 0 \/ panicked

\* A ProcessHeaders or FastSync call comes to an end, accepted or refused,
\* whatever other callers do to the store between two of its headers.
BatchEnds == batch # <<>> ~> batch = <<>> \/ panicked

\* "IsSyncing returns whether sync is in progress" (sync.go:210).
SyncingHasLoop == isSyncing => loops > 0
=============================================================================
