---------------------------- MODULE Integrations ----------------------------
(***************************************************************************)
(* IntegrationService (apps/server/src/integration-service.ts): OAuth      *)
(* logins that run as `codex mcp login` processes, shared by all agents or *)
(* of one agent, with retries, aborts and timers; logout, removal and tool *)
(* discovery (mcp-client.ts) next to them; and a server restart.           *)
(*                                                                         *)
(* A request suspends wherever the code awaits.  What it writes goes       *)
(* through the store's queue, so it takes effect later, in order.  Node    *)
(* ends the process on a rejection that nobody handles.                    *)
(***************************************************************************)
EXTENDS Naturals, Sequences

CONSTANTS
    Integrations,    \* registered MCP servers that use OAuth
    Agents,          \* agents that may have a login of their own
    Shared,          \* whose login all other agents borrow
    Requests,        \* requests of the human; a login is known by its request
    None,            \* no login
    Ops,             \* what the human may ask for
    MayRestart,      \* whether the server may be restarted
    DiskMayFail      \* whether writing the database file may fail

IntegrationsAssumption ==
    /\ Shared \notin Agents
    /\ None \notin Requests
    /\ Ops \subseteq {"login", "logout", "remove", "discover"}
    /\ {MayRestart, DiskMayFail} \subseteq BOOLEAN

Who == Agents \cup {Shared}
Keys == Integrations \X Who

VARIABLES
    server,     \* whether the server runs
    status,     \* status[i]: of the integration in the database
    own,        \* own[a]: ownIntegrationIds
    tokens,     \* the keys for which a credentials file holds a token
    writes,     \* mutations in the store's queue
    logins,     \* logins[k]: the Map of active logins
    old,        \* logins that were started ten minutes ago or earlier
    request,    \* request[r]: what it is about and where it is suspended
    child,      \* child[r]: the login process of r
    printed     \* logins whose process has printed the authorize URL

vars == <<server, status, own, tokens, writes, logins, old, request, child, printed>>

Statuses == {"removed", "unconnected", "connecting", "connected", "error"}
LoginSteps == {"pause", "mkdir", "patch", "url", "reject"}
Steps == LoginSteps \cup
    {"idle", "listening", "deaf", "finish", "logout", "call", "write", "done", "refused", "unsaved", "lost"}
ChildStates == {"none", "running", "signalled", "ok", "failed"}

Idle == [op |-> "none", i |-> None, who |-> None, at |-> "idle", seen |-> "removed"]
Key(r) == <<request[r].i, request[r].who>>

Init ==
    /\ server = "up"
    /\ status = [i \in Integrations |-> "unconnected"]
    /\ own = [a \in Agents |-> {}]
    /\ tokens = {}
    /\ writes = <<>>
    /\ logins = [k \in Keys |-> None]
    /\ old = {}
    /\ request = [r \in Requests |-> Idle]
    /\ child = [r \in Requests |-> "none"]
    /\ printed = {}

Goto(r, at) == request' = [request EXCEPT ![r].at = at]

\* A mutation on behalf of r is queued: a new status, the status it already
\* has ("kept": only lastError changes), an own login gained or given up.
Queue(r, to) == writes' = Append(writes, [by |-> r, to |-> to])

\* child.kill("SIGTERM"), for each of a set of logins.
Kill(S) == child' = [r \in Requests |-> IF r \in S /\ child[r] = "running" THEN "signalled" ELSE child[r]]

\* abortLogin: the shared login stands for the agents' own ones as well.
AbortedKeys(i, who) == IF who = Shared THEN {i} \X Who ELSE {<<i, who>>}
Abort(i, who) ==
    /\ Kill({logins[k] : k \in AbortedKeys(i, who)})
    /\ logins' = [k \in Keys |-> IF k \in AbortedKeys(i, who) THEN None ELSE logins[k]]

(***************************************************************************)
(* startLogin                                                              *)
(***************************************************************************)
\* Mutant: a login that has not ended blocks for good.
InProgressAny(map) == \E k \in Keys : map[k] # None

\* Another login was started less than ten minutes ago.
InProgress(map) == \E k \in Keys : map[k] # None /\ map[k] \notin old

Ask(r, op, i, who) ==
    LET asked == [op |-> op, i |-> i, who |-> who, at |-> "idle", seen |-> status[i]]
        Suspend(at) == request' = [request EXCEPT ![r] = [asked EXCEPT !.at = at]]
    IN  /\ server = "up"
        /\ request[r].at = "idle"
        /\ UNCHANGED <<server, status, own, tokens, old, printed>>
        /\ \/ /\ status[i] = "removed"
              /\ Suspend("refused")
              /\ UNCHANGED <<writes, logins, child>>
           \/ /\ status[i] # "removed" /\ op = "login" /\ logins[<<i, who>>] # None
              /\ Kill({logins[<<i, who>>]})
              /\ logins' = [logins EXCEPT ![<<i, who>>] = None]
              /\ Suspend("pause")
              /\ UNCHANGED writes
           \/ /\ status[i] # "removed" /\ op = "login" /\ logins[<<i, who>>] = None
              /\ Suspend(IF InProgress(logins) THEN "refused" ELSE "mkdir")
              /\ UNCHANGED <<writes, logins, child>>
           \/ /\ status[i] # "removed" /\ op = "logout"
              /\ Abort(i, who)
              /\ Suspend("logout")
              /\ UNCHANGED writes
           \/ /\ status[i] # "removed" /\ op = "remove"
              /\ Abort(i, Shared)
              /\ Queue(r, "removed")
              /\ Suspend("write")
           \/ /\ status[i] # "removed" /\ op = "discover"
              /\ Suspend("call")
              /\ UNCHANGED <<writes, logins, child>>

\* 300 ms after a stale attempt was sent SIGTERM.
PauseEnds(r) ==
    /\ request[r].at = "pause"
    /\ Goto(r, IF InProgress(logins) THEN "refused" ELSE "mkdir")
    /\ UNCHANGED <<server, status, own, tokens, writes, logins, old, child, printed>>

\* The directory is there: the process is spawned and entered in the Map.
Spawn(r) ==
    /\ request[r].at = "mkdir"
    /\ child' = [child EXCEPT ![r] = "running"]
    /\ logins' = [logins EXCEPT ![Key(r)] = r]
    /\ IF request[r].who = Shared
       THEN Queue(r, "connecting") /\ Goto(r, "patch")
       ELSE Goto(r, "url") /\ UNCHANGED writes
    /\ UNCHANGED <<server, status, own, tokens, old, printed>>

PrintUrl(r) ==
    /\ child[r] = "running"
    /\ r \notin printed
    /\ printed' = printed \cup {r}
    /\ UNCHANGED <<server, status, own, tokens, writes, logins, old, request, child>>

\* The URL is found in the output: startLogin answers, arms the kill timer and
\* listens for the exit, which it has missed if the process ended before.
UrlFound(r) ==
    /\ request[r].at = "url"
    /\ r \in printed
    /\ Goto(r, IF child[r] \in {"running", "signalled"} THEN "listening" ELSE "deaf")
    /\ UNCHANGED <<server, status, own, tokens, writes, logins, old, child, printed>>

\* The attempt failed before there was a URL.
GiveUp(r) ==
    /\ logins' = [logins EXCEPT ![Key(r)] = None]
    /\ IF request[r].who = Shared
       THEN Queue(r, "error") /\ Goto(r, "reject")
       ELSE Goto(r, "refused") /\ UNCHANGED writes

\* No URL for twenty seconds.
UrlTimeout(r) ==
    /\ request[r].at = "url"
    /\ r \notin printed
    /\ GiveUp(r)
    /\ Kill({r})
    /\ UNCHANGED <<server, status, own, tokens, old, printed>>

FinishLogin(r, how) ==
    IF request[r].who = Shared
    THEN Queue(r, IF how = "ok" THEN "connected" ELSE "error") /\ Goto(r, "finish")
    ELSE IF how = "ok" THEN Queue(r, "own") /\ Goto(r, "finish")
    ELSE Goto(r, "done") /\ UNCHANGED writes

\* The process exits, which only the listener of the current step hears.  An
\* exit with code 0 ends the wait for the URL as well.
Exit(r) ==
    /\ child[r] \in {"running", "signalled"}
    /\ \E how \in IF child[r] = "running" THEN {"ok", "failed"} ELSE {"failed"} :
          /\ child' = [child EXCEPT ![r] = how]
          /\ tokens' = IF how = "ok" THEN tokens \cup {Key(r)} ELSE tokens
          /\ CASE request[r].at = "url" /\ how = "ok" ->
                      Goto(r, "deaf") /\ UNCHANGED <<writes, logins>>
               [] request[r].at = "url" /\ how = "failed" -> GiveUp(r)
               [] request[r].at = "listening" ->
                      /\ logins' = [logins EXCEPT ![Key(r)] = None]
                      /\ FinishLogin(r, how)
               [] OTHER -> UNCHANGED <<request, writes, logins>>
    /\ UNCHANGED <<server, status, own, old, printed>>

\* Ten minutes after the start the login no longer blocks others; its process
\* is killed by the timer that was armed with the answer.
TenMinutes(r) ==
    /\ r \notin old
    /\ request[r].at \in {"listening", "deaf", "refused"} /\ child[r] # "none"
    /\ old' = old \cup {r}
    /\ IF request[r].at = "refused" THEN UNCHANGED child ELSE Kill({r})
    /\ UNCHANGED <<server, status, own, tokens, writes, logins, request, printed>>

(***************************************************************************)
(* logout, discover                                                        *)
(***************************************************************************)
\* `codex mcp logout` ends by itself or by its timer, with or without success.
LogoutEnds(r) ==
    /\ request[r].at = "logout"
    /\ tokens' \in {tokens, tokens \ {Key(r)}}
    /\ Queue(r, IF request[r].who = Shared THEN "unconnected" ELSE "disown")
    /\ Goto(r, "write")
    /\ UNCHANGED <<server, status, own, logins, old, child, printed>>

\* initialize, initialized and tools/list, each answered or given up after
\* fifteen seconds; the status written back is the one read at the start.
CallEnds(r) ==
    /\ request[r].at = "call"
    /\ \/ <<request[r].i, Shared>> \in tokens /\ Queue(r, request[r].seen)
       \/ Queue(r, "kept")
    /\ Goto(r, "write")
    /\ UNCHANGED <<server, status, own, tokens, logins, old, child, printed>>

(***************************************************************************)
(* The store applies the oldest mutation                                   *)
(***************************************************************************)
\* The step after a mutation that was applied: startLogin waits for the URL,
\* finishLogin goes on to discover.
Resume(r, to) ==
    request' = [request EXCEPT ![r] =
        CASE @.at = "patch" -> [@ EXCEPT !.at = "url"]
          [] @.at = "reject" -> [@ EXCEPT !.at = "refused"]
          [] @.at = "finish" /\ to = "connected" -> [@ EXCEPT !.at = "call", !.seen = "connected"]
          [] OTHER -> [@ EXCEPT !.at = "done"]]

Apply ==
    /\ writes # <<>>
    /\ LET r == Head(writes).by
           to == Head(writes).to
           i == request[r].i
           who == request[r].who
       IN  /\ status[i] # "removed" \/ to \in {"own", "disown", "removed"}
           /\ status' = IF to \in Statuses THEN [status EXCEPT ![i] = to] ELSE status
           /\ own' = [a \in Agents |->
                 CASE to = "removed" \/ (to = "disown" /\ a = who) -> own[a] \ {i}
                   [] to = "own" /\ a = who -> own[a] \cup {i}
                   [] OTHER -> own[a]]
           /\ Resume(r, to)
    /\ writes' = Tail(writes)
    /\ UNCHANGED <<server, tokens, logins, old, child, printed>>

\* What follows a mutation on behalf of r that was rejected.  discover() writes the error
\* instead, which may be rejected as well; finishLogin has nobody to catch it, and ends the
\* process; a login that was to be shown as failed is refused with its status unsaved.
Rejected(r, to) ==
    LET noted == request[r].at = "write" /\ request[r].op \in {"login", "discover"} /\ to # "kept"
    IN  /\ server' = IF request[r].at = "finish" THEN "down" ELSE server
        /\ writes' = IF noted THEN Append(Tail(writes), [by |-> r, to |-> "kept"]) ELSE Tail(writes)
        /\ IF noted THEN UNCHANGED request
           ELSE Goto(r, IF request[r].at = "reject" THEN "unsaved" ELSE "refused")

\* The integration that patch() is about was removed, or the file cannot be written.
ApplyThrows ==
    /\ writes # <<>>
    /\ LET r == Head(writes).by
           to == Head(writes).to
       IN  /\ DiskMayFail \/ (status[request[r].i] = "removed" /\ to \notin {"own", "disown", "removed"})
           /\ Rejected(r, to)
    /\ UNCHANGED <<status, own, tokens, logins, old, child, printed>>

(***************************************************************************)
(* The process                                                             *)
(***************************************************************************)
Shutdown ==
    /\ MayRestart
    /\ server = "up"
    /\ server' = "down"
    /\ UNCHANGED <<status, own, tokens, writes, logins, old, request, child, printed>>

\* Mutant: initialize leaves interrupted logins alone.
InitializeNothing == UNCHANGED status

\* initialize: no login outlives the server that started it.
Initialize ==
    status' = [i \in Integrations |-> IF status[i] = "connecting" THEN "unconnected" ELSE status[i]]

\* The queue, the Map and the requests are gone; the login processes are not.
Restart ==
    /\ server = "down"
    /\ server' = "up"
    /\ Initialize
    /\ writes' = <<>>
    /\ logins' = [k \in Keys |-> None]
    /\ request' = [r \in Requests |->
          IF request[r].at \in {"idle", "done", "refused", "unsaved"} THEN request[r]
          ELSE [request[r] EXCEPT !.at = "lost"]]
    /\ UNCHANGED <<own, tokens, old, child, printed>>

\* What the server does by itself, or with a process that answers SIGTERM.
ServerStep(r) ==
    server = "up" /\ (PauseEnds(r) \/ Spawn(r) \/ UrlFound(r) \/ UrlTimeout(r) \/ TenMinutes(r)
                      \/ LogoutEnds(r) \/ CallEnds(r))
StoreStep == server = "up" /\ (Apply \/ ApplyThrows)
Killed(r) == server = "up" /\ child[r] = "signalled" /\ Exit(r)

Next ==
    \/ StoreStep \/ Shutdown \/ Restart
    \/ \E r \in Requests :
          \/ ServerStep(r)
          \/ server = "up" /\ (Exit(r) \/ PrintUrl(r))
          \/ \E op \in Ops, i \in Integrations, who \in Who : Ask(r, op, i, who)

Spec == Init /\ [][Next]_vars

Fairness ==
    /\ WF_vars(StoreStep)
    /\ WF_vars(Restart)
    /\ \A r \in Requests : WF_vars(ServerStep(r)) /\ WF_vars(Killed(r))

FairSpec == Spec /\ Fairness
-----------------------------------------------------------------------------
(***************************************************************************)
(* Properties                                                              *)
(***************************************************************************)
\* The variables hold values of their types, and the Map names only logins
\* that were started for the key they stand under.
TypeOK ==
    /\ server \in {"up", "down"}
    /\ status \in [Integrations -> Statuses]
    /\ own \in [Agents -> SUBSET Integrations]
    /\ tokens \subseteq Keys
    /\ \A r \in Requests : request[r].at \in Steps /\ child[r] \in ChildStates
    /\ \A k \in Keys : logins[k] # None => Key(logins[k]) = k /\ child[logins[k]] # "none"

\* A login of r can still end in a write of the status.
Alive(r) ==
    /\ request[r].op = "login"
    /\ request[r].who = Shared
    /\ request[r].at \in {"patch", "url", "reject", "listening", "finish"}

\* r read "connecting" at its start and may write it back at its end (discover).
WritesBack(r) == request[r].op = "discover" /\ request[r].seen = "connecting"

\* While the server runs, an integration that shows "connecting" has a login that
\* will still settle it, also when logins replace each other, are aborted, or
\* are cut off by a restart.  The three ways to get stuck that the code has are a
\* process that exits before its exit is listened for, a failure whose own write
\* fails (both startLogin), and a discovery that writes back the status it read
\* (discover).
ConnectingSettles ==
    \A i \in Integrations : server = "up" /\ status[i] = "connecting" =>
        \E r \in Requests :
            request[r].i = i /\ (Alive(r) \/ request[r].at \in {"deaf", "unsaved"} \/ WritesBack(r))

\* An agent is given a login of its own only by a login process that was started
\* for that agent and that integration and ended well, whatever was aborted,
\* replaced or restarted next to it (finishLogin).
OwnByLogin ==
    \A a \in Agents : \A i \in own[a] :
        \E r \in Requests : request[r].i = i /\ request[r].who = a /\ child[r] = "ok"

\* Every request to start a login is answered, with a URL or an error, though
\* the process prints nothing, exits or hangs, unless the server goes down
\* first (the twenty-second timer).
LoginAnswered ==
    \A r \in Requests : request[r].at \in LoginSteps ~> request[r].at \notin LoginSteps

\* A login whose URL was given out does not hold its process for good: it exits
\* or is killed after ten minutes (killTimer), replaced or not.
LoginProcessEnds ==
    \A r \in Requests :
        request[r].at = "listening" ~> child[r] \in {"ok", "failed"} \/ server = "down"

\* No login blocks the others for more than ten minutes, whatever became of
\* its process or its integration.
MapUnblocks == InProgress(logins) ~> ~InProgress(logins)

\* "Another login is in progress; finish it first (one callback port)": two
\* login processes of this server never run at the same time.
\* Does not hold: see "Known divergences" in the README.
OneCallbackPort ==
    \A r, s \in Requests : child[r] = "running" /\ child[s] = "running" => r = s

\* "Retrying the same login replaces the stale attempt": an attempt leaves the
\* Map only once its own process has been signalled or has exited.
\* Does not hold: see "Known divergences" in the README.
RetryReplaces ==
    [][\A k \in Keys : logins[k] # None /\ logins'[k] # logins[k] /\ server' = server =>
           child'[logins[k]] # "running"]_vars

\* After a logout the integration stays unconnected until a login succeeds: a
\* request that read the status before does not bring it back.
\* Does not hold: see "Known divergences" in the README.
LogoutSticks ==
    [][\A i \in Integrations : status[i] = "unconnected" /\ status'[i] = "connected" =>
           request[Head(writes).by].op = "login" /\ request[Head(writes).by].at = "finish"]_vars
=============================================================================
