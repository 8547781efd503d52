---------------------------- MODULE ChannelView ----------------------------
(***************************************************************************)
(* The message list and composer of the web client                         *)
(* (apps/web/src/components/ChannelView.tsx): messages are polled every    *)
(* 1.5 s, whether or not the last poll was answered, while the human goes  *)
(* from channel to channel and writes.  The view stays mounted.            *)
(*                                                                         *)
(* Left out: mentions, scrolling, and the list's limit of 200 messages.    *)
(***************************************************************************)
EXTENDS Naturals, FiniteSets

CONSTANTS
    Channels,        \* the channels of the sidebar
    None,            \* no channel is selected
    MaxPosts,        \* bound: messages in a channel
    MaxSwitches,     \* bound: how often the human goes to another channel
    MaxPolls         \* bound: polls in flight at a time

ViewAssumption ==
    /\ None \notin Channels
    /\ {MaxPosts, MaxSwitches, MaxPolls} \subseteq Nat

VARIABLES
    said,      \* said[c]: how many messages the server has in c
    open,      \* the channel that is shown, or None
    effect,    \* which instance of the polling effect is current
    shown,     \* the messages in the list
    loading,   \* whether the spinner is shown
    failed,    \* whether an error of a poll is shown
    draft,     \* whether the composer has text
    sending,   \* the request that posts: the channel, and the message once there is one
    polls      \* polls in flight: their effect, their channel, their answer if there is one

composer == <<draft, sending>>
vars == <<said, open, effect, shown, loading, failed, composer, polls>>

Messages(c) == {[channel |-> c, number |-> n] : n \in 1 .. said[c]}
Idle == [channel |-> None, number |-> 0]
Unanswered == {Idle}
NewPoll == [effect |-> effect', channel |-> open', answer |-> Unanswered]

Init ==
    /\ said = [c \in Channels |-> 0]
    /\ open = None /\ effect = 0
    /\ shown = {} /\ loading = FALSE /\ failed = FALSE
    /\ draft = FALSE /\ sending = Idle
    /\ polls = {}

\* The channel changes: the list is reset, the polling effect cleaned up and set up
\* again, with a first poll.  The composer is not reset.
Select(c) ==
    /\ c # open /\ effect < MaxSwitches
    /\ open' = c /\ effect' = effect + 1
    /\ shown' = {} /\ failed' = FALSE /\ loading' = (c # None)
    /\ polls' = IF c = None THEN polls ELSE polls \cup {NewPoll}
    /\ UNCHANGED <<said, composer>>

\* Mutant: only the first poll is made.
TickNever == FALSE /\ UNCHANGED vars

\* The interval.
Tick ==
    /\ open # None
    /\ Cardinality({p \in polls : p.effect = effect}) < MaxPolls
    /\ open' = open /\ effect' = effect
    /\ polls' = polls \cup {NewPoll}
    /\ UNCHANGED <<said, shown, loading, failed, composer>>

\* getMessages on the server.
ServerReads(p) ==
    /\ p \in polls /\ p.answer = Unanswered
    /\ polls' = (polls \ {p}) \cup {[p EXCEPT !.answer = Messages(p.channel)]}
    /\ UNCHANGED <<said, open, effect, shown, loading, failed, composer>>

\* The answer becomes the list, unless its effect was cleaned up.
Arrive(p) ==
    /\ p \in polls /\ p.answer # Unanswered
    /\ polls' = polls \ {p}
    /\ IF p.effect = effect
       THEN shown' = p.answer /\ failed' = FALSE /\ loading' = FALSE
       ELSE UNCHANGED <<shown, failed, loading>>
    /\ UNCHANGED <<said, open, effect, composer>>

\* An error, or 401, which is left to the app.
PollFails(p) ==
    /\ p \in polls
    /\ polls' = polls \ {p}
    /\ IF p.effect = effect
       THEN failed' \in {failed, TRUE} /\ loading' = FALSE
       ELSE UNCHANGED <<failed, loading>>
    /\ UNCHANGED <<said, open, effect, shown, composer>>

\* The composer is disabled while a message is sent.
Type ==
    /\ ~draft /\ sending = Idle
    /\ draft' = TRUE
    /\ UNCHANGED <<said, open, effect, shown, loading, failed, sending, polls>>

Send ==
    /\ draft /\ open # None /\ sending = Idle
    /\ sending' = [channel |-> open, number |-> 0]
    /\ UNCHANGED <<said, open, effect, shown, loading, failed, draft, polls>>

\* Somebody posts.
Post(c) ==
    /\ said[c] < MaxPosts
    /\ said' = [said EXCEPT ![c] = @ + 1]
    /\ UNCHANGED <<open, effect, shown, loading, failed, composer, polls>>

\* The server has the human's message.
ServerPosts ==
    LET c == sending.channel
    IN  /\ c # None /\ sending.number = 0 /\ said[c] < MaxPosts
        /\ said' = [said EXCEPT ![c] = @ + 1]
        /\ sending' = [sending EXCEPT !.number = said[c] + 1]
        /\ UNCHANGED <<open, effect, shown, loading, failed, draft, polls>>

\* The answer: the message is appended to the list, whichever it is by now.
Sent ==
    /\ sending.number # 0
    /\ shown' = shown \cup {sending}
    /\ draft' = FALSE /\ sending' = Idle
    /\ UNCHANGED <<said, open, effect, loading, failed, polls>>

\* No answer, or a refusal: the text stays.
SendFails ==
    /\ sending # Idle
    /\ sending' = Idle
    /\ UNCHANGED <<said, open, effect, shown, loading, failed, draft, polls>>

Next ==
    \/ \E c \in Channels \cup {None} : Select(c)
    \/ Tick
    \/ \E p \in polls : ServerReads(p)
    \/ \E p \in polls : Arrive(p)
    \/ \E p \in polls : PollFails(p)
    \/ Type
    \/ Send
    \/ \E c \in Channels : Post(c)
    \/ ServerPosts
    \/ Sent
    \/ SendFails

\* The interval goes on, requests are answered, and not all of them fail.
Answered == \E p \in polls : p.effect = effect /\ ServerReads(p)
Received == \E p \in polls : p.effect = effect /\ p.answer = Messages(open) /\ Arrive(p)
Gone == \E p \in polls : Arrive(p) \/ PollFails(p)
Fairness == WF_vars(Tick) /\ SF_vars(Answered) /\ SF_vars(Received) /\ WF_vars(Gone)

Spec == Init /\ [][Next]_vars /\ Fairness
-----------------------------------------------------------------------------
\* The variables hold values of their types; the list shows what the server has; a
\* spinner or a list is of a channel that is open.
TypeOK ==
    /\ said \in [Channels -> 0 .. MaxPosts]
    /\ open \in Channels \cup {None} /\ effect \in 0 .. MaxSwitches
    /\ shown \subseteq UNION {Messages(c) : c \in Channels}
    /\ \A b \in {loading, failed, draft} : b \in BOOLEAN
    /\ sending # Idle => sending.channel \in Channels /\ sending.number \in 0 .. MaxPosts
    /\ \A p \in polls : p.effect <= effect /\ p.channel \in Channels
    /\ loading => open # None

\* While the human stays in a channel its list comes to be what the server has, and
\* stays so once nobody posts: answers overtake each other, an older list may replace a
\* newer one, and the answer to a message that was sent from another channel puts that
\* message in this list.
ListSettles == \A c \in Channels : <>[](open = c) => <>[](shown = Messages(c))

\* "Reset when the channel changes": the list never shows a message of another channel.
\* It does not hold: see Sent.
OwnMessages == \A m \in shown : m.channel = open
=============================================================================
