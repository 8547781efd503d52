------------------------------- MODULE Runner -------------------------------
(***************************************************************************)
(* CodexRunner (apps/server/src/codex-runner.ts): one Codex process per    *)
(* agent, ended by itself, by cancel(), by the run timeout or by the       *)
(* output ceiling, with SIGKILL when SIGTERM is not enough.                *)
(*                                                                         *)
(* The process is the environment: it exits when it likes and as it likes, *)
(* and may ignore SIGTERM.  What it has started may outlive it and hold    *)
(* its output open; run() and cancel() wait for 'close', which comes when  *)
(* nobody does, and no signal reaches such a process.                      *)
(***************************************************************************)
EXTENDS Naturals

CONSTANT Agents    \* the agents that run Codex, each in a process of its own

VARIABLES
    active,    \* active[a]: the run that owns a's entry in the Map, 0 if none
    flags,     \* flags[a]: which flags of the entry are set
    process    \* process[a]: the child, and how it exited once it has

runnerVars == <<active, flags, process>>

Flags == {"cancelled", "overrun"}

\* The child has exited and its output is closed; or it has exited and somebody
\* else still holds its output open.
ExitStates == {"ok", "error"}
HeldStates == {"okHeld", "errorHeld"}
ProcessStates == {"none", "running", "terminating"} \cup ExitStates \cup HeldStates

RunnerTypeOK(Runs) ==
    /\ active \in [Agents -> Runs \cup {0}]
    /\ flags \in [Agents -> SUBSET Flags]
    /\ process \in [Agents -> ProcessStates]

RunnerInit ==
    /\ active = [a \in Agents |-> 0]
    /\ flags = [a \in Agents |-> {}]
    /\ process = [a \in Agents |-> "none"]

\* run() once the Map has no entry for the agent: the child is spawned.
Spawn(a, r) ==
    /\ active[a] = 0
    /\ active' = [active EXCEPT ![a] = r]
    /\ flags' = [flags EXCEPT ![a] = {}]
    /\ process' = [process EXCEPT ![a] = "running"]

\* A flag is set and the child is sent SIGTERM, unless it has exited already.
Terminate(a, flag) ==
    /\ flags' = [flags EXCEPT ![a] = @ \cup {flag}]
    /\ process' = [process EXCEPT ![a] = IF @ = "running" THEN "terminating" ELSE @]
    /\ UNCHANGED active

\* The run timeout, or more output than CODEX_MAX_OUTPUT_BYTES: two flags in the
\* code, one here, because both end the process and fail the run alike.
Overrun(a) ==
    /\ process[a] # "none"
    /\ "overrun" \notin flags[a]
    /\ Terminate(a, "overrun")

\* The child exits: with a message, or with an error or without a message.
Exit(a) ==
    /\ process[a] \in {"running", "terminating"}
    /\ \E how \in ExitStates \cup HeldStates : process' = [process EXCEPT ![a] = how]
    /\ UNCHANGED <<active, flags>>

\* Mutant: nothing follows SIGTERM.
NeverForced(a) == FALSE /\ UNCHANGED runnerVars

\* SIGKILL, three seconds after SIGTERM: it ends the child, and nothing else.
ForceKill(a) ==
    /\ process[a] = "terminating"
    /\ \E how \in {"error", "errorHeld"} : process' = [process EXCEPT ![a] = how]
    /\ UNCHANGED <<active, flags>>

\* Whoever held the output of the exited child lets go of it.
OutputCloses(a) ==
    /\ process[a] \in HeldStates
    /\ process' = [process EXCEPT ![a] = IF @ = "okHeld" THEN "ok" ELSE "error"]
    /\ UNCHANGED <<active, flags>>

\* Mutant: the limits are tested before the cancellation.
ResultLimitsFirst(a) ==
    IF "overrun" \in flags[a] THEN "failed"
    ELSE IF "cancelled" \in flags[a] THEN "cancelled"
    ELSE IF process[a] = "ok" THEN "completed" ELSE "failed"

\* How run() settles after 'close', in the order its tests are made: a cancelled
\* run counts as cancelled however its process ended.  (The 'error' event, which
\* comes before the tests, is that of a child that could not be spawned: it is a
\* run that fails without a process.)
Result(a) ==
    IF "cancelled" \in flags[a] THEN "cancelled"
    ELSE IF flags[a] # {} \/ process[a] # "ok" THEN "failed"
    ELSE "completed"

\* 'close': the promise of run() settles and the Map entry goes away.
Reap(a) ==
    /\ active[a] # 0
    /\ process[a] \in ExitStates
    /\ active' = [active EXCEPT ![a] = 0]
    /\ flags' = [flags EXCEPT ![a] = {}]
    /\ process' = [process EXCEPT ![a] = "none"]

RunnerStep == \E a \in Agents : Overrun(a) \/ Exit(a) \/ ForceKill(a) \/ OutputCloses(a)
=============================================================================
