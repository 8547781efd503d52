------------------------------ MODULE TraceView ------------------------------
(***************************************************************************)
(* The trace view of the web client (apps/web/src/components/TraceView.tsx)*)
(* for one message: it fetches the trace, polls while runs of it are live, *)
(* and draws whatever it is sent as a tree.  The view is mounted anew for  *)
(* each message; retry starts a new effect, which cancels the one before.  *)
(***************************************************************************)
EXTENDS TraceTree

CONSTANTS
    Shapes,      \* the traces the server may send
    MaxRetries   \* bound: clicks on retry

TraceViewAssumption == MaxRetries \in Nat \ {0} /\ \A t \in Shapes : IsTrace(t)

VARIABLES
    chain,     \* the server: the trace as it is, and whether runs of it are live
    view,      \* the component's state: trace (or NotShown), live, error, loading
    effect,    \* number of the current effect; 0 once the view is unmounted
    wasLive,   \* the effect's wasLive
    tick,      \* the effect's fetch: "flying", "waiting" for the timer, "ended"
    cancelled  \* fetches of cancelled effects that are still unanswered

viewVars == <<chain, view, effect, wasLive, tick, cancelled>>

NotShown == [root |-> None, messages |-> <<>>, runs |-> {}]
NoTrace == [trace |-> NotShown, live |-> FALSE, error |-> "none", loading |-> TRUE]

ViewInit ==
    /\ chain \in [trace : Shapes, live : BOOLEAN]
    /\ view = NoTrace
    /\ effect = 1
    /\ wasLive = FALSE
    /\ tick = "flying"
    /\ cancelled = 0

\* The chain goes on, or its last run ends.  One that has no live run may go on again:
\* between the mutation that ends a replying run and the start of the run it wakes, as
\* between a post and its first run, getTrace finds none.
ChainGrows ==
    /\ chain' \in [trace : Shapes, live : BOOLEAN]
    /\ UNCHANGED <<view, effect, wasLive, tick, cancelled>>

Flying == effect # 0 /\ tick = "flying"

\* The trace is shown, and fetched again later if it is live.
AnswerOk ==
    /\ Flying
    /\ view' = [trace |-> chain.trace, live |-> chain.live, error |-> "none", loading |-> FALSE]
    /\ wasLive' = chain.live
    /\ tick' = IF chain.live THEN "waiting" ELSE "ended"
    /\ UNCHANGED <<chain, effect, cancelled>>

\* Mutant: a failure ends the polling.
AnswerFailsForGood ==
    /\ Flying
    /\ view' = [view EXCEPT !.error = "failed", !.loading = FALSE]
    /\ tick' = "ended"
    /\ UNCHANGED <<chain, effect, wasLive, cancelled>>

\* A failure that may pass: polling goes on if the trace was live.
AnswerFails ==
    /\ Flying
    /\ view' = [view EXCEPT !.error = "failed", !.loading = FALSE]
    /\ tick' = IF wasLive THEN "waiting" ELSE "ended"
    /\ UNCHANGED <<chain, effect, wasLive, cancelled>>

\* 404: the message is not known.
AnswerNotFound ==
    /\ Flying
    /\ view' = [view EXCEPT !.error = "unknown", !.loading = FALSE]
    /\ tick' = "ended"
    /\ UNCHANGED <<chain, effect, wasLive, cancelled>>

\* 401: App shows the unlock screen instead.
AnswerUnauthorized ==
    /\ Flying
    /\ effect' = 0
    /\ tick' = "ended"
    /\ UNCHANGED <<chain, view, wasLive, cancelled>>

Timer ==
    /\ effect # 0 /\ tick = "waiting"
    /\ tick' = "flying"
    /\ UNCHANGED <<chain, view, effect, wasLive, cancelled>>

\* Offered while there is no trace to show, and the message is not unknown.
Retry ==
    /\ effect \in 1 .. MaxRetries
    /\ view.trace = NotShown /\ ~view.loading /\ view.error # "unknown"
    /\ effect' = effect + 1
    /\ wasLive' = FALSE
    /\ tick' = "flying"
    /\ cancelled' = IF tick = "flying" THEN cancelled + 1 ELSE cancelled
    /\ UNCHANGED <<chain, view>>

\* Back, or another message: the timer is cleared, an answer comes too late.
Unmount ==
    /\ effect # 0
    /\ effect' = 0
    /\ cancelled' = IF tick = "flying" THEN cancelled + 1 ELSE cancelled
    /\ UNCHANGED <<chain, view, wasLive, tick>>

\* The answer to a cancelled fetch changes nothing.
AnswerIgnored ==
    /\ cancelled > 0
    /\ cancelled' = cancelled - 1
    /\ UNCHANGED <<chain, view, effect, wasLive, tick>>

ViewNext ==
    \/ ChainGrows
    \/ AnswerOk \/ AnswerFails \/ AnswerNotFound \/ AnswerUnauthorized \/ Timer
    \/ Retry \/ Unmount \/ AnswerIgnored

\* Timers fire, and the server answers again and again.
ViewFairness == WF_viewVars(Timer) /\ SF_viewVars(AnswerOk) /\ WF_viewVars(AnswerIgnored)

ViewSpec == ViewInit /\ [][ViewNext]_viewVars
FairViewSpec == ViewSpec /\ ViewFairness
-----------------------------------------------------------------------------
\* The variables hold values of their types.  Retry stays on offer while its own
\* fetch is out, so cancelled fetches add up, but the first fetch of all is never
\* one of them: it has been answered before the first retry, or the view is left.
ViewTypeOK ==
    /\ chain \in [trace : Shapes, live : BOOLEAN]
    /\ view.trace \in Shapes \cup {NotShown}
    /\ effect \in 0 .. MaxRetries + 1
    /\ tick \in {"flying", "waiting", "ended"}
    /\ cancelled \in 0 .. (IF effect = 1 THEN 0 ELSE MaxRetries)

\* Whatever trace is sent, with parents, triggers or runs that are missing or
\* point at each other in a circle, the tree draws every message and run of it
\* (the guard against cycles in buildTree).
TreeIsWhole == view.trace # NotShown => Whole(view.trace)

\* A trace that is shown as running is being watched, unless the server has said
\* that there is none: a failure on the way does not leave "running" on the
\* screen for ever ("A transient failure while something is still running should
\* not stop the live view").
LiveIsWatched ==
    effect # 0 /\ view.live /\ view.error # "unknown" => tick \in {"flying", "waiting"}

\* Whatever trace is sent is drawn whole, and one shown as running is being watched.
TraceIsWatchedAndWhole == ViewTypeOK /\ TreeIsWhole /\ LiveIsWatched

\* A chain that has ended, and does not go on again, comes to be shown as such, unless
\* the view was left, or was told that the message is unknown.
EndIsShown ==
    ~chain.live /\ view.live
        ~> chain.live \/ effect = 0 \/ ~view.live \/ view.error = "unknown"

\* Does not hold.  A view of a chain that goes on shows so, sooner or later: one that
\* asked while no run of it was live has stopped asking.
GrowthIsShown ==
    chain.live /\ view.trace # NotShown
        ~> ~chain.live \/ effect = 0 \/ view.live \/ view.error = "unknown"
=============================================================================
