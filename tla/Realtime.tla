---- MODULE Realtime ----
(***************************************************************************)
(* The realtime streams of the gateway and the vote that is announced on   *)
(* them.                                                                   *)
(*                                                                         *)
(* A stream is one connection, opened at most once; it is registered under *)
(* the channels it listens to.  The gateway is one process: publishing an  *)
(* event to all streams is one action.  Only votes are announced by the    *)
(* gateway itself; the other events come from hooks for services to come,  *)
(* and Hooks are those that may be published here, once each.              *)
(* Message ids and times are left out.                                     *)
(***************************************************************************)
EXTENDS Naturals, Sequences, FiniteSets, SequencesExt

CONSTANTS
    Users, Debates,
    Streams, Subscription,  \* connections: [Streams -> Subscriptions]
    Calls, Ballot,          \* POST votes, each sent at most once: [Calls -> Votes]
    Hooks,                  \* events the other services may publish
    None,
    MaxPings, MaxFaults     \* bounds on heartbeats, and on lost replies and restarts

VARIABLES
    registry,   \* subscribersByChannel: only channels with subscribers
    stream,     \* what became of each stream
    heartbeat,  \* streams whose interval timer is armed
    inbox,      \* what each stream was sent
    pings,      \* number of heartbeats so far
    votes,      \* rows of spectator_votes, in the scoring service
    pc,         \* where each call is
    published,  \* the events published so far (history)
    joined,     \* how many of them each stream missed, having come later (history)
    faults

streams == <<registry, stream, heartbeat, inbox, pings, joined>>
vars == <<streams, votes, pc, published, faults>>

Votes == [debate : Debates, user : Users, side : {"FOR", "AGAINST"}]

\* The id of a channel is a user, a debate, a room or "global".
Channel(scope, id) == [scope |-> scope, id |-> id]

\* streamRoom, streamDebate, streamCurrentUser, streamLeaderboard
Scopes == {"room", "debate", "user", "leaderboard"}
ListensTo(s) ==
    LET sub == Subscription[s] IN
    {Channel(sub.scope, sub.id), Channel("user", sub.user)}

\* An event carries the room, the debate and the user it is about, or None.
RoomEvents ==
    {"room.ready", "topic.revealed", "sides.assigned", "prep.started", "message.created"}
VoteEvents == {"vote.created", "vote.updated"}
HookEvents ==
    RoomEvents \cup {"debate.started", "vote.updated", "result.published", "leaderboard.updated"}

Known(scope, id) == IF id = None THEN {} ELSE {Channel(scope, id)}

\* The sets of channels an event is published to, one after the other.
RoomDeliveries(e) == <<Known("room", e.room)>>
StartDeliveries(e) ==
    IF e.debate = None THEN <<Known("room", e.room)>>
    ELSE <<Known("room", e.room), Known("debate", e.debate)>>
VoteDeliveries(e) == <<Known("debate", e.debate) \cup Known("user", e.user)>>
ResultDeliveries(e) == <<Known("room", e.room) \cup Known("debate", e.debate)>>
LeaderboardDeliveries(e) == <<{Channel("leaderboard", "global")} \cup Known("room", e.room)>>

Deliveries(e) ==
    CASE e.type \in RoomEvents -> RoomDeliveries(e)
      [] e.type = "debate.started" -> StartDeliveries(e)
      [] e.type \in VoteEvents -> VoteDeliveries(e)
      [] e.type = "result.published" -> ResultDeliveries(e)
      [] e.type = "leaderboard.updated" -> LeaderboardDeliveries(e)

VoteCreated(v) ==
    [type |-> "vote.created", room |-> None, debate |-> v.debate, user |-> v.user]

ASSUME ConstantsAssumption ==
    /\ \A s \in Streams : Subscription[s].scope \in Scopes /\ Subscription[s].user \in Users
    /\ \A s \in Streams :
           Subscription[s].scope = "user" => Subscription[s].id = Subscription[s].user
    /\ Ballot \in [Calls -> Votes]
    /\ \A e \in Hooks : e.type \in HookEvents
    /\ None \notin Users \cup Debates
    /\ MaxPings \in Nat /\ MaxFaults \in Nat

Init ==
    /\ registry = <<>>
    /\ stream = [s \in Streams |-> "new"]
    /\ heartbeat = {}
    /\ inbox = [s \in Streams |-> <<>>]
    /\ pings = 0
    /\ votes = {}
    /\ pc = [t \in Calls |-> "unsent"]
    /\ published = <<>>
    /\ joined = [s \in Streams |-> 0]
    /\ faults = 0

Goto(t, label) == pc' = [pc EXCEPT ![t] = label]

-----------------------------------------------------------------------------
(* Streams                                                                 *)

\* channelKey
Key(c) == c
Keys(s) == {Key(c) : c \in ListensTo(s)}

\* The subscribers of a channel, which the map may not have.
SubscribersOf(k) == IF k \in DOMAIN registry THEN registry[k] ELSE {}

Connected == [type |-> "realtime.connected"]
Ping == [type |-> "realtime.ping"]

Subscribe(s) ==
    /\ stream[s] = "new"
    /\ stream' = [stream EXCEPT ![s] = "open"]
    /\ registry' = [k \in DOMAIN registry \cup Keys(s) |->
                      IF k \in Keys(s) THEN SubscribersOf(k) \cup {s} ELSE registry[k]]
    /\ inbox' = [inbox EXCEPT ![s] = Append(@, Connected)]
    /\ heartbeat' = heartbeat \cup {s}
    /\ joined' = [joined EXCEPT ![s] = Len(published)]
    /\ UNCHANGED <<pings, votes, pc, published, faults>>

Beat(s) ==
    /\ s \in heartbeat
    /\ pings < MaxPings
    /\ inbox' = [inbox EXCEPT ![s] = Append(@, Ping)]
    /\ pings' = pings + 1
    /\ UNCHANGED <<registry, stream, heartbeat, joined, votes, pc, published, faults>>

\* Mutant: only the first channel is cleaned up.
OwnChannelOnly(s) == {Key(Channel(Subscription[s].scope, Subscription[s].id))}

LeavesChannels(s) == Keys(s)

\* A channel goes with its last subscriber.
Without(s) ==
    LET left(k) == IF k \in LeavesChannels(s) THEN registry[k] \ {s} ELSE registry[k] IN
    [k \in {k \in DOMAIN registry : left(k) # {}} |-> left(k)]

\* The client disconnects: the teardown of the subscription.
Unsubscribe(s) ==
    /\ stream[s] = "open"
    /\ stream' = [stream EXCEPT ![s] = "ended"]
    /\ registry' = Without(s)
    /\ heartbeat' = heartbeat \ {s}
    /\ UNCHANGED <<inbox, pings, joined, votes, pc, published, faults>>

-----------------------------------------------------------------------------
(* Publishing                                                              *)

\* Mutant: a stream gets a copy for each of its channels.
CopyPerChannel(s, channels) == Cardinality({c \in channels : s \in SubscribersOf(Key(c))})

\* How often one call of publishToChannels sends the event to a stream.
Copies(s, channels) ==
    IF \E c \in channels : s \in SubscribersOf(Key(c)) THEN 1 ELSE 0

Sent(s, e) ==
    FlattenSeq([i \in DOMAIN Deliveries(e) |->
                  [n \in 1..Copies(s, Deliveries(e)[i]) |-> e]])

Publish(e) ==
    /\ inbox' = [s \in Streams |-> inbox[s] \o Sent(s, e)]
    /\ published' = Append(published, e)

PublishHook(e) ==
    /\ e \in Hooks /\ ~Contains(published, e)
    /\ Publish(e)
    /\ UNCHANGED <<registry, stream, heartbeat, pings, joined, votes, pc, faults>>

-----------------------------------------------------------------------------
(* POST /debates/:debateId/votes                                           *)

SendVote(t) ==
    /\ pc[t] = "unsent"
    /\ Goto(t, "scoring")
    /\ UNCHANGED <<streams, votes, published, faults>>

HasVoted(v) == \E w \in votes : w.debate = v.debate /\ w.user = v.user

\* The scoring service answers (see Finalization): the vote is stored, or
\* refused since there is one already or the debate does not take votes.
ScoringStores(t) ==
    /\ pc[t] = "scoring"
    /\ ~HasVoted(Ballot[t])
    /\ votes' = votes \cup {Ballot[t]}
    /\ Goto(t, "reply")
    /\ UNCHANGED <<streams, published, faults>>

\* Mutant: a vote the scoring service has already is taken for a success.
FailsSoftly(t) == IF HasVoted(Ballot[t]) THEN "reply" ELSE "failed"

\* mapScoringError: the request fails and nothing is announced.
AfterRefusal(t) == "failed"

ScoringRefuses(t) ==
    /\ pc[t] = "scoring"
    /\ Goto(t, AfterRefusal(t))
    /\ UNCHANGED <<streams, votes, published, faults>>

AnnounceVote(t) ==
    /\ pc[t] = "reply"
    /\ Publish(VoteCreated(Ballot[t]))
    /\ Goto(t, "done")
    /\ UNCHANGED <<registry, stream, heartbeat, pings, joined, votes, faults>>

-----------------------------------------------------------------------------
(* Faults, bounded by MaxFaults                                            *)

\* The scoring service has stored the vote and the gateway never learns.
ReplyLost(t) ==
    /\ faults < MaxFaults /\ pc[t] = "reply"
    /\ Goto(t, "failed")
    /\ faults' = faults + 1
    /\ UNCHANGED <<streams, votes, published>>

\* Connections and subscriptions are gone, requests fail.
GatewayRestarts ==
    /\ faults < MaxFaults
    /\ stream' = [s \in Streams |-> IF stream[s] = "open" THEN "ended" ELSE stream[s]]
    /\ registry' = <<>>
    /\ heartbeat' = {}
    /\ pc' = [t \in Calls |-> IF pc[t] \in {"scoring", "reply"} THEN "failed" ELSE pc[t]]
    /\ faults' = faults + 1
    /\ UNCHANGED <<inbox, pings, joined, votes, published>>

\* Nothing is left to do.
Quiescent ==
    /\ \A s \in Streams : stream[s] = "ended"
    /\ \A t \in Calls : pc[t] \in {"done", "failed"}
    /\ UNCHANGED vars

Next ==
    \/ \E s \in Streams : Subscribe(s) \/ Beat(s) \/ Unsubscribe(s)
    \/ \E e \in Hooks : PublishHook(e)
    \/ \E t \in Calls :
           SendVote(t) \/ ScoringStores(t) \/ ScoringRefuses(t) \/ AnnounceVote(t) \/ ReplyLost(t)
    \/ GatewayRestarts
    \/ Quiescent

Safety == Init /\ [][Next]_vars

-----------------------------------------------------------------------------
(* Properties                                                              *)

\* The map of subscribers and the heartbeats follow the open connections: no
\* stream is left behind in any channel after it went, however streams of the
\* same user, room or debate come and go.
RegistryFollowsStreams ==
    LET open == {s \in Streams : stream[s] = "open"} IN
    /\ heartbeat = open
    /\ registry = [k \in UNION {Keys(s) : s \in open} |-> {s \in open : k \in Keys(s)}]

\* What one publish sends is for the streams that listen to its channels.
Concerns(e, s) ==
    \E i \in DOMAIN Deliveries(e) : Deliveries(e)[i] \cap ListensTo(s) # {}

\* The elements of a sequence at some of its positions, in order.
Selected(seq, positions) ==
    LET upTo[i \in 0..Len(seq)] ==
            IF i = 0 THEN <<>>
            ELSE IF i \in positions THEN Append(upTo[i - 1], seq[i]) ELSE upTo[i - 1]
    IN upTo[Len(seq)]

\* A stream gets every event that concerns it, once, in the order in which they
\* were published since it was opened, and nothing else: several channels of a
\* stream may carry the same event, and ids of rooms and users may be equal.
\* (realtime.service.spec.ts: without duplicates, only for that room)
Heard(s) ==
    {i \in DOMAIN inbox[s] : inbox[s][i].type \notin {"realtime.connected", "realtime.ping"}}
Due(s) == {i \in DOMAIN published : i > joined[s] /\ Concerns(published[i], s)}
StreamFollowsLog ==
    \A s \in Streams : stream[s] = "open" =>
        Selected(inbox[s], Heard(s)) = Selected(published, Due(s))

\* A ballot is announced only when it is stored, never twice although clients
\* retry, and before the voter is told that it was taken.
Announced(v) == {i \in DOMAIN published : published[i] = VoteCreated(v)}
AnnouncedOnce ==
    /\ \A v \in Votes : Cardinality(Announced(v)) <= 1
    /\ \A v \in Votes : Announced(v) # {} => HasVoted(v)
    /\ \A t \in Calls : pc[t] = "done" => Ballot[t] \in votes /\ Announced(Ballot[t]) # {}

====
